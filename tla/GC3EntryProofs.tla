--------------------------- MODULE GC3EntryProofs ---------------------------
(***************************************************************************)
(* The composition implements both of its parts, so what is proved of them *)
(* holds of it; and what relates the two.                                  *)
(***************************************************************************)
EXTENDS GC3Entry, SupervisionProofs, ZoneSyncProofs

\* Where the setup has got to says what there is: the coordinator's data from
\* the first refresh on, the zone platform's from then on, and both are of the
\* poll whose listing was counted last.
InStep ==
  /\ data # None => phase \in {"platforms", "up"} /\ data = snapshot
  /\ phase = "up" => data # None
  /\ phase \in {"platforms", "up"} =>
       snapshot \in Listings /\ listed = DOMAIN snapshot

\* Every step of the entry is a step of the supervision issues, or none.
LEMMA EntryStepsSupervision == [ENext]_evars => [SHNext]_shvars
<1> SUFFICES ASSUME [ENext]_evars, ~UNCHANGED shvars PROVE SHNext
  OBVIOUS
<1>1. ASSUME NEW listing \in Listings, NEW lost \in SUBSET DOMAIN listing,
             SHPoll(DOMAIN listing, lost)
      PROVE  SHNext
  BY <1>1, ListingType DEF SHNext
<1>2. CASE \E listing \in Listings : \E lost \in SUBSET DOMAIN listing :
             FirstRefresh(listing, lost) \/ GoodPoll(listing, lost)
  BY <1>1, <1>2 DEF FirstRefresh, GoodPoll
<1>3. CASE UnloadEntry \/ RestartHA
  BY <1>3 DEF UnloadEntry, RestartHA, SHNext
<1>. QED
  BY <1>2, <1>3
     DEF ENext, evars, BeginSetup, FirstRefreshFails, SetUpZones, Finish,
         ChangeOptions, Choose

\* Every step of the entry is a step of the zone platform, or none.
LEMMA EntryStepsZones == InStep /\ [ENext]_evars => [ZHNext]_zhvars
<1> SUFFICES ASSUME InStep, [ENext]_evars, ~UNCHANGED zhvars PROVE ZHNext
  OBVIOUS
<1>1. CASE SetUpZones
  BY <1>1 DEF SetUpZones, FirstSync, InStep, ZHNext, ZNext
<1>2. ASSUME NEW listing \in Listings, NEW lost \in SUBSET DOMAIN listing,
             GoodPoll(listing, lost)
      PROVE  ZHNext
  BY <1>2 DEF GoodPoll, ZHNext, ZNext
<1>3. CASE UnloadEntry \/ RestartHA
  BY <1>3 DEF UnloadEntry, RestartHA, ZHNext, ZNext
<1>4. ASSUME NEW z \in Zones, Choose(z)
      PROVE  ZHNext
  BY <1>4 DEF Choose, ZHNext, ZNext
<1>. QED
  BY <1>1, <1>2, <1>3, <1>4
     DEF ENext, evars, BeginSetup, FirstRefreshFails, FirstRefresh, Finish,
         ChangeOptions

LEMMA InStepStep == InStep /\ [ENext]_evars => InStep'
<1> SUFFICES ASSUME InStep, [ENext]_evars PROVE InStep'
  OBVIOUS
<1>1. CASE BeginSetup \/ FirstRefreshFails
  BY <1>1 DEF BeginSetup, FirstRefreshFails, Dropped, InStep, zhvars, zvars
<1>2. ASSUME NEW listing \in Listings, NEW lost \in SUBSET DOMAIN listing,
             FirstRefresh(listing, lost)
      PROVE  InStep'
  BY <1>2 DEF FirstRefresh, InStep, SHPoll, zhvars, zvars
<1>3. ASSUME NEW listing \in Listings, NEW lost \in SUBSET DOMAIN listing,
             GoodPoll(listing, lost)
      PROVE  InStep'
  <2>1. /\ phase \in {"platforms", "up"} /\ phase' = phase
        /\ snapshot' = listing /\ listed' = DOMAIN listing
    BY <1>3 DEF GoodPoll, SHPoll
  <2>2. \/ data = None /\ data' = None
        \/ data # None /\ data' = listing
    BY <1>3 DEF GoodPoll, Refresh, zhvars, zvars
  <2>. QED  BY <2>1, <2>2, NoneAssumption DEF InStep
<1>4. CASE SetUpZones
  BY <1>4, NoneAssumption
     DEF SetUpZones, FirstSync, Setup, InStep, entry, shvars, shistory
<1>5. CASE Finish
  BY <1>5 DEF Finish, InStep, shvars, shistory, zhvars, zvars
<1>6. CASE UnloadEntry \/ RestartHA
  BY <1>6 DEF UnloadEntry, RestartHA, Dropped, Unload, InStep, zhvars, zvars
<1>7. ASSUME NEW interval \in Intervals, ChangeOptions(interval)
      PROVE  InStep'
  BY <1>7 DEF ChangeOptions, InStep, shvars, shistory, zhvars, zvars
<1>8. ASSUME NEW z \in Zones, Choose(z)
      PROVE  InStep'
  BY <1>8 DEF Choose, Disable, Enable, InStep, entry, shvars, shistory
<1>9. CASE UNCHANGED evars
  BY <1>9 DEF evars, entry, InStep, shvars, shistory, zhvars, zvars
<1>. QED
  BY <1>1, <1>2, <1>3, <1>4, <1>5, <1>6, <1>7, <1>8, <1>9 DEF ENext

THEOREM SetupInStep == ESpec => []InStep
<1>1. EInit => InStep
  BY DEF EInit, ZHInit, ZInit, InStep
<1>. QED  BY <1>1, InStepStep, PTL DEF ESpec

\* The composition is a behaviour of the supervision issues: what is proved of
\* those holds of the entry, whatever its setups and reloads do.
THEOREM EntryIsSupervision == ESpec => SHSpec
<1>1. EInit => SHInit
  BY DEF EInit
<1>. QED  BY <1>1, EntryStepsSupervision, PTL DEF ESpec, SHSpec

\* The composition is a behaviour of the zone platform.
THEOREM EntryIsZoneSync == ESpec => ZHSpec
<1>1. EInit => ZHInit
  BY DEF EInit
<1>. QED  BY <1>1, EntryStepsZones, SetupInStep, PTL DEF ESpec, ZHSpec

\* Every variable of the composition keeps its type: both parts', and what the
\* setup itself keeps.
THEOREM EntryTypes == ESpec => []ETypeOK
<1> DEFINE Own ==
      /\ seen \subseteq Zones
      /\ snapshot \in Listings \cup {None}
      /\ phase \in {"down", "refreshing", "platforms", "up"}
      /\ options \in Intervals /\ using \in Intervals \cup {None}
      /\ reloading \in BOOLEAN
      /\ snapshot # None <=> phase \in {"platforms", "up"}
<1>1. EInit => Own
  BY DEF EInit, ZHInit
<1>2. InStep /\ ZTypeOK' /\ Own /\ [ENext]_evars => Own'
  <2> SUFFICES ASSUME InStep, ZTypeOK', Own, [ENext]_evars PROVE Own'
    OBVIOUS
  <2>1. ASSUME NEW listing \in Listings, NEW lost \in SUBSET DOMAIN listing,
               FirstRefresh(listing, lost) \/ GoodPoll(listing, lost)
        PROVE  Own'
    <3>1. listing # None /\ DOMAIN listing \subseteq Zones
      BY NoneAssumption, ListingType
    <3>2. seen' \subseteq Zones
      BY <2>1, <3>1 DEF FirstRefresh, GoodPoll, Refresh, Watch, zhvars, zvars
    <3>. QED  BY <2>1, <3>1, <3>2 DEF FirstRefresh, GoodPoll
  <2>2. CASE SetUpZones
    <3>1. snapshot \in Listings /\ DOMAIN snapshot \subseteq Zones
      BY <2>2, ListingType DEF SetUpZones, InStep
    <3>2. seen' \subseteq Zones
      BY <2>2, <3>1 DEF SetUpZones, FirstSync, Setup, Watch
    <3>. QED  BY <2>2, <3>2 DEF SetUpZones, entry
  <2>3. CASE BeginSetup \/ FirstRefreshFails \/ Finish
    BY <2>3 DEF BeginSetup, FirstRefreshFails, Dropped, Finish, zhvars, InStep
  <2>4. CASE UnloadEntry \/ RestartHA
    BY <2>4 DEF UnloadEntry, RestartHA, Dropped, Unload, Watch, zhvars
  <2>5. ASSUME NEW interval \in Intervals, ChangeOptions(interval)
        PROVE  Own'
    BY <2>5 DEF ChangeOptions, Listening, zhvars
  <2>6. ASSUME NEW z \in Zones, Choose(z)
        PROVE  Own'
    <3>1. seen' \subseteq Zones
      BY <2>6, ListingType DEF Choose, Watch, Disable, Enable, ZTypeOK
    <3>. QED  BY <2>6, <3>1 DEF Choose, entry
  <2>7. CASE UNCHANGED evars
    BY <2>7 DEF evars, entry, zhvars
  <2>. QED  BY <2>1, <2>2, <2>3, <2>4, <2>5, <2>6, <2>7 DEF ENext
<1>3. STypeOK /\ ZTypeOK /\ InStep /\ Own => ETypeOK
  BY DEF InStep, ETypeOK
<1>. QED
  BY <1>1, <1>2, <1>3, SetupInStep, EntryIsSupervision, EntryIsZoneSync,
     SupervisionTypes, ZoneTypes, PTL DEF ESpec

\* An issue this coordinator opened is about a zone that has been given to the
\* zone platform and is registered.
THEOREM IssuesAlwaysHaveZones == ESpec => []IssuesHaveZones
<1>1. InStep /\ SHInv /\ ZInv => IssuesHaveZones
  <2> SUFFICES ASSUME InStep, SHInv, ZInv, data # None
               PROVE  issues \ inherited \subseteq known \cap DOMAIN registry
    BY DEF IssuesHaveZones
  <2>1. issues \ inherited \subseteq listed
    BY DEF SHInv, IssuesAccountedFor, ReportedCount
  <2>2. listed = DOMAIN data
    BY DEF InStep
  <2>3. DOMAIN data = known /\ known \subseteq DOMAIN registry
    BY DEF ZInv, EntitiesFollowPanel
  <2>. QED  BY <2>1, <2>2, <2>3
<1>. QED
  BY <1>1, SetupInStep, EntryIsSupervision, EntryIsZoneSync, SHInvariant,
     ZInvariant, PTL
=============================================================================
