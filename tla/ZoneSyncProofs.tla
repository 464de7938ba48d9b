--------------------------- MODULE ZoneSyncProofs ---------------------------
(* Proofs about ZoneSyncHistory, for every set of zones and of names. *)
EXTENDS ZoneSyncHistory, TLAPS

\* Every listing is a function on some zones.
LEMMA ListingType ==
  ASSUME NEW listing \in Listings
  PROVE  /\ DOMAIN listing \subseteq Zones
         /\ listing = [z \in DOMAIN listing |-> listing[z]]
         /\ \A z \in DOMAIN listing : listing[z] \in Names
BY DEF Listings

\* What EntitiesFollowPanel and SeenZonesRemoved need of types.
ZTypes ==
  /\ data # None => data \in Listings
  /\ known \subseteq Zones
  /\ data = None => known = {} /\ entities = {} /\ seen = {}

\* The inductive invariant.
ZInv == ZTypes /\ EntitiesFollowPanel /\ SeenZonesRemoved

\* What a sync leaves behind.
Follows(knownNow, entitiesNow, listing) ==
  /\ known' = DOMAIN listing
  /\ DOMAIN registry' =
       (DOMAIN registry \cup DOMAIN listing) \ (knownNow \ DOMAIN listing)
  /\ \A z \in DOMAIN registry \cap DOMAIN registry' :
       registry'[z] = registry[z]
  /\ entities' =
       (entitiesNow \cap DOMAIN listing) \cup
       {z \in DOMAIN listing \ knownNow : registry'[z] = "enabled"}

\* The sync itself, from any state that followed an earlier listing.
LEMMA SyncFollows ==
  ASSUME NEW listing \in Listings, NEW knownNow, NEW entitiesNow,
         SyncZones(knownNow, entitiesNow, listing),
         knownNow \subseteq DOMAIN registry,
         entitiesNow \subseteq knownNow,
         \A z \in entitiesNow : registry[z] = "enabled"
  PROVE  Follows(knownNow, entitiesNow, listing)
<1> DEFINE new     == NewZones(knownNow, listing)
           removed == RemovedZones(knownNow, listing)
           fresh   == [z \in new |-> FirstState(listing[z])]
           added   == Registered(new, listing)
           live    == {z \in new : added[z] = "enabled"}
<1>1. /\ new = DOMAIN listing \ knownNow /\ removed = knownNow \ DOMAIN listing
      /\ added = Merged(registry, fresh)
      /\ DOMAIN fresh = new
  BY DEF NewZones, RemovedZones, Registered
<1>2. /\ known' = (knownNow \cup new) \ removed
      /\ registry' = Without(added, removed)
      /\ entities' = (entitiesNow \cup live) \ removed
  BY DEF SyncZones
<1> HIDE DEF new, removed, fresh, added
<1>3. /\ DOMAIN added = DOMAIN registry \cup new
      /\ \A z \in DOMAIN registry : added[z] = registry[z]
  BY <1>1 DEF Merged
<1>4. /\ DOMAIN registry' = DOMAIN added \ removed
      /\ \A z \in DOMAIN added \ removed : registry'[z] = added[z]
  BY <1>2 DEF Without, Restrict
<1>5. live = {z \in DOMAIN listing \ knownNow : registry'[z] = "enabled"}
  BY <1>1, <1>3, <1>4
<1>. QED  BY <1>1, <1>2, <1>3, <1>4, <1>5 DEF Follows

LEMMA ZInvInit == ZHInit => ZInv
BY DEF ZHInit, ZInit, ZInv, ZTypes, EntitiesFollowPanel, SeenZonesRemoved

\* What a good poll leaves behind, at setup and later.
LEMMA PollFollows ==
  ASSUME ZInv, NEW listing \in Listings, Setup(listing) \/ Refresh(listing)
  PROVE  /\ data' = listing /\ data' # None /\ known' = DOMAIN listing
         /\ DOMAIN registry' =
              (DOMAIN registry \cup DOMAIN listing) \ (known \ DOMAIN listing)
         /\ \A z \in DOMAIN registry \cap DOMAIN registry' :
              registry'[z] = registry[z]
         /\ entities' =
              (entities \cap DOMAIN listing) \cup
              {z \in DOMAIN listing \ known : registry'[z] = "enabled"}
         /\ toReload' = IF data = None THEN {} ELSE toReload
<1>1. data' = listing /\ data' # None
  BY NoneAssumption DEF Setup, Refresh
<1>2. CASE Setup(listing)
  <2>1. data = None /\ toReload' = {} /\ SyncZones({}, {}, listing)
    BY <1>2 DEF Setup
  <2>2. known = {} /\ entities = {}
    BY <2>1 DEF ZInv, ZTypes
  <2> DEFINE none == {}
  <2>3. /\ none \subseteq DOMAIN registry /\ none \subseteq none
        /\ \A z \in none : registry[z] = "enabled"
        /\ SyncZones(none, none, listing)
    BY <2>1
  <2>4. none = {}
    OBVIOUS
  <2> HIDE DEF none
  <2>5. Follows(none, none, listing)
    BY <2>3, SyncFollows, Zenon
  <2>. QED  BY <1>1, <2>1, <2>2, <2>4, <2>5 DEF Follows
<1>3. CASE Refresh(listing)
  <2>1. data # None /\ toReload' = toReload
        /\ SyncZones(known, entities, listing)
    BY <1>3 DEF Refresh
  <2>2. /\ known \subseteq DOMAIN registry
        /\ entities \subseteq known
        /\ \A z \in entities : registry[z] = "enabled"
    BY <2>1 DEF ZInv, EntitiesFollowPanel
  <2>3. Follows(known, entities, listing)
    BY <2>1, <2>2, SyncFollows, Zenon
  <2>. QED  BY <1>1, <2>1, <2>3 DEF Follows
<1>. QED  BY <1>2, <1>3

LEMMA ZInvStep == ZInv /\ [ZHNext]_zhvars => ZInv'
<1> SUFFICES ASSUME ZInv, [ZHNext]_zhvars PROVE ZInv'
  OBVIOUS
<1>1. ASSUME NEW listing \in Listings, Setup(listing) \/ Refresh(listing),
             seen' = IF data' = None THEN {} ELSE seen \cup DOMAIN data'
      PROVE  ZInv'
  <2>1. /\ data' = listing /\ data' # None /\ known' = DOMAIN listing
        /\ DOMAIN registry' =
             (DOMAIN registry \cup DOMAIN listing) \ (known \ DOMAIN listing)
        /\ \A z \in DOMAIN registry \cap DOMAIN registry' :
             registry'[z] = registry[z]
        /\ entities' =
             (entities \cap DOMAIN listing) \cup
             {z \in DOMAIN listing \ known : registry'[z] = "enabled"}
        /\ toReload' = IF data = None THEN {} ELSE toReload
    BY <1>1, PollFollows
  <2>2. ZTypes'
    BY <1>1, <2>1, ListingType DEF ZTypes
  <2>3. EntitiesFollowPanel'
    <3>1. CASE data = None
      BY <2>1, <3>1 DEF ZInv, ZTypes, EntitiesFollowPanel
    <3>2. CASE data # None
      BY <2>1, <3>2 DEF ZInv, EntitiesFollowPanel
    <3>. QED  BY <3>1, <3>2
  <2>4. SeenZonesRemoved'
    BY <1>1, <2>1 DEF ZInv, ZTypes, SeenZonesRemoved, EntitiesFollowPanel
  <2>. QED  BY <2>2, <2>3, <2>4 DEF ZInv
<1>2. CASE Unload /\ seen' = IF data' = None THEN {} ELSE seen \cup DOMAIN data'
  <2>1. DOMAIN <<>> = {}
    OBVIOUS
  <2>2. data' = None /\ known' = {} /\ entities' = {}
    BY <1>2, <2>1 DEF Unload, KnownGone
  <2>. QED
    BY <1>2, <2>2 DEF ZInv, ZTypes, EntitiesFollowPanel, SeenZonesRemoved
<1>3. ASSUME NEW z \in Zones, Disable(z) \/ Enable(z),
             seen' = IF data' = None THEN {} ELSE seen \cup DOMAIN data'
      PROVE  ZInv'
  <2>1. /\ data' = data /\ known' = known /\ DOMAIN registry' = DOMAIN registry
        /\ \A y \in DOMAIN registry \ {z} : registry'[y] = registry[y]
    BY <1>3 DEF Disable, Enable
  <2>2. \/ /\ registry'[z] = "disabled" /\ toReload' = toReload
           /\ entities' = entities \ {z}
        \/ /\ registry[z] = "disabled" /\ registry'[z] = "enabled"
           /\ toReload' = toReload \cup {z} /\ entities' = entities
    BY <1>3 DEF Disable, Enable, Without, Restrict
  <2>3. ZTypes'
    BY <1>3, <2>1, <2>2 DEF ZInv, ZTypes
  <2>4. EntitiesFollowPanel'
    BY <2>1, <2>2 DEF ZInv, EntitiesFollowPanel
  <2>5. SeenZonesRemoved'
    BY <1>3, <2>1 DEF ZInv, SeenZonesRemoved
  <2>. QED  BY <2>3, <2>4, <2>5 DEF ZInv
<1>4. CASE UNCHANGED zhvars
  BY <1>4 DEF zhvars, zvars, ZInv, ZTypes, EntitiesFollowPanel, SeenZonesRemoved
<1>. QED  BY <1>1, <1>2, <1>3, <1>4 DEF ZHNext, ZNext, Watch

\* The inductive invariant holds.
THEOREM ZInvariant == ZHSpec => []ZInv
BY ZInvInit, ZInvStep, PTL DEF ZHSpec

\* After every poll the entities are those of the listed, enabled zones.
THEOREM EntitiesAlwaysFollow == ZHSpec => []EntitiesFollowPanel
<1>1. ZInv => EntitiesFollowPanel
  BY DEF ZInv
<1>. QED  BY <1>1, ZInvariant, PTL

\* A zone deleted under the integration's eyes leaves the registry.
THEOREM SeenZonesAreRemoved == ZHSpec => []SeenZonesRemoved
<1>1. ZInv => SeenZonesRemoved
  BY DEF ZInv
<1>. QED  BY <1>1, ZInvariant, PTL

\* What the user chose for a zone's entity changes only by the user's hand, and
\* goes only in the poll that delists the zone.
THEOREM ChoicesAreKept == ZHSpec => RegistryKept
<1> DEFINE A == \A z \in DOMAIN registry :
                  \/ z \in known \ known' /\ data' # None
                  \/ z \in DOMAIN registry' /\ registry'[z] = registry[z]
                  \/ Disable(z) \/ Enable(z)
<1>1. ZInv /\ [ZNext]_zvars => A \/ UNCHANGED zvars
  <2> SUFFICES ASSUME ZInv, ZNext PROVE A
    OBVIOUS
  <2>1. ASSUME NEW listing \in Listings, Setup(listing) \/ Refresh(listing)
        PROVE  A
    BY <2>1, PollFollows
  <2>2. CASE Unload
    BY <2>2 DEF Unload
  <2>3. ASSUME NEW y \in Zones, Disable(y) \/ Enable(y)
        PROVE  A
    BY <2>3 DEF Disable, Enable
  <2>. QED  BY <2>1, <2>2, <2>3 DEF ZNext
<1>2. [ZHNext]_zhvars => [ZNext]_zvars
  BY DEF ZHNext, zhvars
<1>. QED  BY <1>1, <1>2, ZInvariant, PTL DEF ZHSpec, RegistryKept

-----------------------------------------------------------------------------
\* Functions on some of the zones.
Partial(V) == UNION {[S -> V] : S \in SUBSET Zones}

LEMMA PartialType ==
  ASSUME NEW V, NEW S \in SUBSET Zones, NEW f \in [S -> V]
  PROVE  f \in Partial(V)
BY DEF Partial

LEMMA EmptyType == ASSUME NEW V PROVE <<>> \in Partial(V)
<1>1. <<>> \in [{} -> V]
  OBVIOUS
<1>. QED  BY <1>1, PartialType

LEMMA MergedType ==
  ASSUME NEW V, NEW f \in Partial(V), NEW g \in Partial(V)
  PROVE  Merged(f, g) \in Partial(V)
<1>1. /\ DOMAIN f \in SUBSET Zones /\ DOMAIN g \in SUBSET Zones
      /\ f \in [DOMAIN f -> V] /\ g \in [DOMAIN g -> V]
  BY DEF Partial
<1>2. Merged(f, g) \in [DOMAIN f \cup DOMAIN g -> V]
  BY <1>1 DEF Merged
<1>. QED  BY <1>1, <1>2, PartialType

LEMMA WithoutType ==
  ASSUME NEW V, NEW f \in Partial(V), NEW S
  PROVE  Without(f, S) \in Partial(V)
<1>1. DOMAIN f \in SUBSET Zones /\ f \in [DOMAIN f -> V]
  BY DEF Partial
<1>2. Without(f, S) \in [DOMAIN f \ S -> V]
  BY <1>1 DEF Without, Restrict
<1>3. DOMAIN f \ S \in SUBSET Zones
  BY <1>1
<1>. QED  BY <1>2, <1>3, PartialType

\* A sync keeps what is remembered of zones and what stands for them.
LEMMA SyncType ==
  ASSUME NEW listing \in Listings, NEW knownNow \in SUBSET Zones,
         NEW entitiesNow \in SUBSET Zones, registry \in Partial({"enabled", "disabled"}),
         SyncZones(knownNow, entitiesNow, listing)
  PROVE  /\ known' \subseteq Zones /\ entities' \subseteq Zones
         /\ registry' \in Partial({"enabled", "disabled"})
<1> DEFINE V       == {"enabled", "disabled"}
           new     == NewZones(knownNow, listing)
           removed == RemovedZones(knownNow, listing)
           fresh   == [z \in new |-> FirstState(listing[z])]
           added   == Registered(new, listing)
           live    == {z \in new : added[z] = "enabled"}
<1>1. /\ known' = (knownNow \cup new) \ removed
      /\ registry' = Without(added, removed) /\ added = Merged(registry, fresh)
      /\ entities' = (entitiesNow \cup live) \ removed
  BY DEF SyncZones, Registered
<1>2. new \in SUBSET Zones /\ new \subseteq DOMAIN listing /\ live \in SUBSET Zones
  BY ListingType DEF NewZones
<1>3. fresh \in Partial(V)
  <2>1. fresh \in [new -> V]
    BY DEF FirstState
  <2>. QED  BY <1>2, <2>1, PartialType, Zenon
<1> HIDE DEF V, new, removed, fresh, added, live
<1>4. registry \in Partial(V)
  BY DEF V
<1>5. registry' \in Partial(V)
  BY <1>1, <1>3, <1>4, MergedType, WithoutType, Zenon
<1>. QED  BY <1>1, <1>2, <1>5 DEF V

LEMMA ZTypeStep == ZTypeOK /\ [ZNext]_zvars => ZTypeOK'
<1> SUFFICES ASSUME ZTypeOK, [ZNext]_zvars PROVE ZTypeOK'
  OBVIOUS
<1>1. registry \in Partial({"enabled", "disabled"})
  BY DEF ZTypeOK, Partial
<1>2. ASSUME NEW listing \in Listings, Setup(listing) \/ Refresh(listing)
      PROVE  ZTypeOK'
  <2>1. /\ known' \subseteq Zones /\ entities' \subseteq Zones
        /\ registry' \in Partial({"enabled", "disabled"})
    BY <1>1, <1>2, SyncType DEF Setup, Refresh, ZTypeOK
  <2>2. data' = listing /\ data' # None /\ toReload' \subseteq Zones
    BY <1>2, NoneAssumption DEF Setup, Refresh, ZTypeOK
  <2>. QED  BY <2>1, <2>2 DEF ZTypeOK, Partial
<1>3. CASE Unload
  BY <1>1, <1>3 DEF Unload, KnownGone, ZTypeOK
<1>4. ASSUME NEW z \in Zones, Disable(z)
      PROVE  ZTypeOK'
  <2>1. registry' \in Partial({"enabled", "disabled"})
    <3>1. DOMAIN registry \in SUBSET Zones
      BY <1>1 DEF Partial
    <3>2. registry' \in [DOMAIN registry -> {"enabled", "disabled"}]
      BY <1>1, <1>4 DEF Partial, Disable
    <3>. QED  BY <3>1, <3>2, PartialType
  <2>. QED  BY <1>4, <2>1 DEF Disable, ZTypeOK, Partial
<1>5. ASSUME NEW z \in Zones, Enable(z)
      PROVE  ZTypeOK'
  <2>1. registry' \in Partial({"enabled", "disabled"})
    <3>1. DOMAIN registry \in SUBSET Zones
      BY <1>1 DEF Partial
    <3>2. registry' \in [DOMAIN registry -> {"enabled", "disabled"}]
      BY <1>1, <1>5 DEF Partial, Enable
    <3>. QED  BY <3>1, <3>2, PartialType
  <2>. QED  BY <1>5, <2>1 DEF Enable, ZTypeOK, Partial
<1>6. CASE UNCHANGED zvars
  BY <1>6 DEF zvars, ZTypeOK
<1>. QED  BY <1>2, <1>3, <1>4, <1>5, <1>6 DEF ZNext

\* Every variable keeps its type, and an entry that is not set up has nothing
\* left of its last setup but the registry.
THEOREM ZoneTypes == ZHSpec => []ZTypeOK
<1>1. ZHInit => ZTypeOK
  <2>1. <<>> \in Partial({"enabled", "disabled"})
    BY EmptyType
  <2>. QED  BY <2>1 DEF ZHInit, ZInit, ZTypeOK, Partial
<1>2. [ZHNext]_zhvars => [ZNext]_zvars
  BY DEF ZHNext, zhvars
<1>. QED  BY <1>1, <1>2, ZTypeStep, PTL DEF ZHSpec
=============================================================================
