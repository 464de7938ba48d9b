------------------------------ MODULE GC3Entry ------------------------------
(***************************************************************************)
(* The life of the config entry, __init__.py, around the two parts that    *)
(* keep track of zones: a new coordinator with empty counters, the first   *)
(* refresh, the platforms while the setup is still awaited, the listener   *)
(* for changed options last of all, and the unload that takes everything   *)
(* but the two registries of Home Assistant.  Supervision and ZoneSync     *)
(* move together here: a poll counts first and calls the platform then.    *)
(***************************************************************************)
EXTENDS SupervisionHistory, ZoneSyncHistory

CONSTANT Intervals  \* values of the poll interval option

VARIABLES
  phase,     \* "down"; "refreshing": set up, up to the first refresh;
             \* "platforms": forwarding to the platforms is awaited; "up"
  snapshot,  \* coordinator.data, None before the first refresh succeeded
  options,   \* the poll interval in entry.options
  using,     \* the interval the coordinator was made with, None without one
  reloading  \* the update listener has asked for a reload

entry == <<phase, snapshot, options, using, reloading>>
evars == <<shvars, zhvars, entry>>

EInit ==
  /\ SHInit /\ ZHInit
  /\ phase = "down" /\ snapshot = None
  /\ options \in Intervals /\ using = None
  /\ reloading = FALSE

\* async_setup_entry up to the await of the first refresh: a coordinator, whose
\* counters are empty.
BeginSetup ==
  /\ phase = "down" /\ phase' = "refreshing"
  /\ using' = options
  /\ UNCHANGED <<shvars, zhvars, snapshot, options, reloading>>

\* The coordinator is dropped, or was never needed: nothing of it is left.
Dropped ==
  /\ phase' = "down" /\ snapshot' = None /\ using' = None
  /\ reloading' = FALSE

\* ConfigEntryNotReady or ConfigEntryAuthFailed.
FirstRefreshFails ==
  /\ phase = "refreshing" /\ Dropped
  /\ UNCHANGED <<shvars, zhvars, options>>

FirstRefresh(listing, lost) ==
  /\ phase = "refreshing" /\ phase' = "platforms"
  /\ SHPoll(DOMAIN listing, lost)
  /\ snapshot' = listing
  /\ UNCHANGED <<zhvars, options, using, reloading>>

\* Mutation: the sync waits for the first poll after setup.
NoFirstSync == data' = snapshot /\ UNCHANGED <<known, registry, entities, toReload>>

FirstSync == Setup(snapshot)

\* binary_sensor.async_setup_entry, one of the platforms.
SetUpZones ==
  /\ phase = "platforms" /\ data = None
  /\ FirstSync /\ Watch
  /\ UNCHANGED <<shvars, entry>>

\* The platforms are set up; only now is the update listener added.
Finish ==
  /\ phase = "platforms" /\ data # None
  /\ phase' = "up"
  /\ UNCHANGED <<shvars, zhvars, snapshot, options, using, reloading>>

\* A good poll, also of the first entities while other platforms are awaited;
\* the zone platform hears of it once it is set up.
GoodPoll(listing, lost) ==
  /\ phase \in {"platforms", "up"}
  /\ SHPoll(DOMAIN listing, lost)
  /\ snapshot' = listing
  /\ \/ data = None /\ UNCHANGED zhvars
     \/ Refresh(listing) /\ Watch
  /\ UNCHANGED <<phase, options, using, reloading>>

Listening == phase = "up"

\* The options flow.  Only a listener asks for a reload.
ChangeOptions(interval) ==
  /\ interval # options /\ options' = interval
  /\ reloading' = (reloading \/ Listening)
  /\ UNCHANGED <<shvars, zhvars, phase, snapshot, using>>

\* async_unload_entry: by the user, or as the first half of a reload.  The
\* issues stay open, and the counters go with the coordinator.
UnloadEntry ==
  /\ phase = "up" /\ Dropped
  /\ SHReload
  /\ Unload /\ Watch
  /\ UNCHANGED options

\* Home Assistant restarts, at any time.
RestartHA ==
  /\ SHRestart
  /\ \/ data = None /\ UNCHANGED zhvars
     \/ Unload /\ Watch
  /\ Dropped /\ UNCHANGED options

\* The user enables or disables a zone's entity.
Choose(z) ==
  /\ Disable(z) \/ Enable(z)
  /\ Watch
  /\ UNCHANGED <<shvars, entry>>

ENext ==
  \/ BeginSetup \/ FirstRefreshFails \/ SetUpZones \/ Finish
  \/ UnloadEntry \/ RestartHA
  \/ \E listing \in Listings : \E lost \in SUBSET DOMAIN listing :
       FirstRefresh(listing, lost) \/ GoodPoll(listing, lost)
  \/ \E interval \in Intervals : ChangeOptions(interval)
  \/ \E z \in Zones : Choose(z)

ESpec == EInit /\ [][ENext]_evars

-----------------------------------------------------------------------------
\* Every variable keeps its type, the coordinator has data from the first
\* refresh on and the zone platform only while that coordinator is there.
ETypeOK ==
  /\ STypeOK /\ ZTypeOK /\ seen \subseteq Zones
  /\ phase \in {"down", "refreshing", "platforms", "up"}
  /\ snapshot \in Listings \cup {None}
  /\ options \in Intervals /\ using \in Intervals \cup {None}
  /\ reloading \in BOOLEAN
  /\ snapshot # None <=> phase \in {"platforms", "up"}
  /\ data # None => data = snapshot

\* An issue that this coordinator opened is about a zone the user can look at:
\* once the zone platform is set up, every such zone has been given to it and
\* is in the entity registry, whatever was polled before and in between.
IssuesHaveZones ==
  data # None => issues \ inherited \subseteq known \cap DOMAIN registry
=============================================================================
