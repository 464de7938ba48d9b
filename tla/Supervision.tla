---------------------------- MODULE Supervision ----------------------------
(***************************************************************************)
(* Repair issues for zones the panel has stopped hearing from: the         *)
(* coordinator's _update_supervision_issues, run at the end of every good  *)
(* poll, and Home Assistant's issue registry, which outlives the           *)
(* coordinator when the entry is reloaded and not when Home Assistant is   *)
(* restarted (the issues are not persistent).                              *)
(***************************************************************************)
EXTENDS Naturals, ZoneIds

CONSTANTS
  Threshold,  \* SUPERVISION_FAILURES_BEFORE_REPAIR
  MaxMisses   \* bound of a zone's counter, for TLC only

ASSUME ThresholdAssumption == Threshold \in Nat \ {0}
ASSUME MaxMissesAssumption == MaxMisses \in Nat /\ MaxMisses >= Threshold

VARIABLES
  misses,    \* _supervision_misses; a zone without an entry counts 0
  reported,  \* _supervision_reported
  issues     \* the open issues of this entry in the issue registry

svars == <<misses, reported, issues>>

SInit ==
  /\ misses = [z \in Zones |-> 0]
  /\ reported = {}
  /\ issues = {}

\* Mutation: a report of being heard does not reset the counter.
NeverReset(present, lost) ==
  [z \in Zones |-> IF z \in lost THEN misses[z] + 1 ELSE misses[z]]

\* The counters after a poll that lists present and reports lost: a zone that
\* is not listed keeps its counter.
Counted(present, lost) ==
  [z \in Zones |-> IF z \in lost THEN misses[z] + 1
                   ELSE IF z \in present THEN 0
                   ELSE misses[z]]

\* Mutation: only the poll that reaches the threshold counts.
at_threshold(m) == m = Threshold

over_threshold(m) == m >= Threshold

\* Mutation: deleted zones are left alone.
ListedAndBack(present) ==
  {z \in reported \cap present : ~over_threshold(misses'[z])}

\* Issues to clear: of listed zones under the threshold, and of deleted zones.
Recovered(present) ==
  {z \in reported : z \notin present \/ ~over_threshold(misses'[z])}

\* _update_supervision_issues(zones).
UpdateSupervisionIssues(present, lost) ==
  LET raised == {z \in present \ reported : over_threshold(misses'[z])} IN
  /\ misses' = Counted(present, lost)
  /\ reported' = (reported \cup raised) \ Recovered(present)
  /\ issues' = (issues \cup raised) \ Recovered(present)

\* A good poll.  lost is lossOfSupervision of the listed zones.
Poll(present, lost) ==
  /\ \A z \in lost : misses[z] < MaxMisses
  /\ UpdateSupervisionIssues(present, lost)

\* A coordinator's dictionaries start empty.
NewCounters == misses' = [z \in Zones |-> 0] /\ reported' = {}

\* The entry is reloaded: the registry keeps the issues.
Reload == NewCounters /\ UNCHANGED issues

\* Home Assistant restarts: the registry does not keep them.
Restart == NewCounters /\ issues' = {}

SNext ==
  \/ \E present \in SUBSET Zones : \E lost \in SUBSET present :
       Poll(present, lost)
  \/ Reload
  \/ Restart

SSpec == SInit /\ [][SNext]_svars
=============================================================================
