----------------------------- MODULE ZoneSync -----------------------------
(***************************************************************************)
(* Zones that come and go: the binary_sensor platform's _sync_zones, run   *)
(* once at setup and as a coordinator listener after every poll, against   *)
(* Home Assistant's entity registry, which remembers an entity from one    *)
(* setup of the entry to the next.                                         *)
(***************************************************************************)
EXTENDS Functions, ZoneIds

CONSTANTS
  Names,     \* voice descriptors
  Transient, \* those of keyfobs and pendants
  None       \* coordinator.data while the entry is not set up

ASSUME TransientAssumption == Transient \subseteq Names

\* What a poll can list: some zone ids, each with its descriptor.
Listings == UNION {[present -> Names] : present \in SUBSET Zones}

ASSUME NoneAssumption == None \notin Listings

VARIABLES
  data,      \* coordinator.data.by_id: the descriptor of each listed zone
  known,     \* the closure's known
  registry,  \* the registered zones, and whether each is "enabled"
  entities,  \* the zones that have a GC3ZoneSensor object
  toReload   \* zones enabled by the user since setup: Home Assistant will
             \* reload the entry to bring their entities to life

zvars == <<data, known, registry, entities, toReload>>

ZInit ==
  /\ data = None
  /\ known = {}
  /\ registry = <<>>
  /\ entities = {}
  /\ toReload = {}

Without(f, S) == Restrict(f, DOMAIN f \ S)
Merged(f, g) ==
  [z \in DOMAIN f \cup DOMAIN g |-> IF z \in DOMAIN f THEN f[z] ELSE g[z]]

FirstState(name) == IF name \in Transient THEN "disabled" ELSE "enabled"

\* Mutation: a new entity object resets what the registry had.
RegisteredAnew(new, listing) ==
  Merged([z \in new |-> FirstState(listing[z])], registry)

\* async_add_entities: a zone without a registry entry gets one, disabled if
\* its descriptor says so; an old entry is taken over as it is.
Registered(new, listing) ==
  Merged(registry, [z \in new |-> FirstState(listing[z])])

\* Mutation: new zones are looked for at setup only.
NewAtSetup(knownNow, listing) ==
  IF knownNow = {} THEN DOMAIN listing ELSE {}

NewZones(knownNow, listing) == DOMAIN listing \ knownNow

\* Mutation: deleted zones are left to become unavailable.
NothingRemoved(knownNow, listing) == {}

RemovedZones(knownNow, listing) == knownNow \ DOMAIN listing

\* _sync_zones with the zones known so far and the entities there are.
SyncZones(knownNow, entitiesNow, listing) ==
  LET new     == NewZones(knownNow, listing)
      removed == RemovedZones(knownNow, listing)
      added   == Registered(new, listing)
      live    == {z \in new : added[z] = "enabled"} IN
  /\ known' = (knownNow \cup new) \ removed
  /\ registry' = Without(added, removed)
  /\ entities' = (entitiesNow \cup live) \ removed

\* The first refresh succeeded: the platform is set up and syncs at once.
Setup(listing) ==
  /\ data = None
  /\ data' = listing
  /\ SyncZones({}, {}, listing)
  /\ toReload' = {}

\* A good poll calls the listener.  (After a failed one data is unchanged and
\* _sync_zones finds nothing to do.)
Refresh(listing) ==
  /\ data # None
  /\ data' = listing
  /\ SyncZones(known, entities, listing)
  /\ UNCHANGED toReload

\* Mutation: known lives on with the module.
KnownSurvives == UNCHANGED known

\* The closure goes with the setup that made it.
KnownGone == known' = {}

\* Unloaded, or Home Assistant shut down: the registry is all that stays.
Unload ==
  /\ data # None
  /\ data' = None
  /\ KnownGone
  /\ entities' = {}
  /\ toReload' = {}
  /\ UNCHANGED registry

\* The user disables a zone's entity: Home Assistant removes the object.
Disable(z) ==
  /\ z \in DOMAIN registry /\ registry[z] = "enabled"
  /\ registry' = [registry EXCEPT ![z] = "disabled"]
  /\ entities' = entities \ {z}
  /\ UNCHANGED <<data, known, toReload>>

\* The user enables it: the object comes with the reload that follows.
Enable(z) ==
  /\ z \in DOMAIN registry /\ registry[z] = "disabled"
  /\ registry' = [registry EXCEPT ![z] = "enabled"]
  /\ toReload' = toReload \cup {z}
  /\ UNCHANGED <<data, known, entities>>

ZNext ==
  \/ \E listing \in Listings : Setup(listing) \/ Refresh(listing)
  \/ Unload
  \/ \E z \in Zones : Disable(z) \/ Enable(z)

ZSpec == ZInit /\ [][ZNext]_zvars

-----------------------------------------------------------------------------
\* Every variable keeps its type, and an entry that is not set up has nothing
\* left of its last setup but the registry.
ZTypeOK ==
  /\ data \in Listings \cup {None}
  /\ known \subseteq Zones /\ toReload \subseteq Zones
  /\ registry \in UNION {[S -> {"enabled", "disabled"}] : S \in SUBSET Zones}
  /\ entities \subseteq Zones
  /\ data = None => known = {} /\ entities = {}

\* After every poll, whatever came and went since setup, the platform has what
\* the panel lists: each listed zone is known and registered, and exactly the
\* enabled ones have an entity (those the user just enabled may still wait for
\* the reload).
EntitiesFollowPanel ==
  data # None =>
    LET enabled == {z \in DOMAIN data \cap DOMAIN registry :
                      registry[z] = "enabled"} IN
    /\ known = DOMAIN data /\ known \subseteq DOMAIN registry
    /\ entities \subseteq enabled /\ enabled \ toReload \subseteq entities

\* What the user chose for a zone's entity survives polls, reloads and the
\* zone's absence while nothing was listening: the registry entry of a zone
\* changes only by the user's hand, and goes only in a step that delists it.
RegistryKept ==
  [][\A z \in DOMAIN registry :
       \/ z \in known \ known' /\ data' # None
       \/ z \in DOMAIN registry' /\ registry'[z] = registry[z]
       \/ Disable(z) \/ Enable(z)]_zvars
=============================================================================
