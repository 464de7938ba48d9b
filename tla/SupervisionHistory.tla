------------------------- MODULE SupervisionHistory -------------------------
(***************************************************************************)
(* Supervision with the history its properties speak of: what each zone    *)
(* reported lately, and which issues an earlier coordinator left open.     *)
(***************************************************************************)
EXTENDS Supervision, Sequences

VARIABLES
  listed,    \* the zones of the last poll
  heard,     \* per zone, what its last listings to this coordinator reported,
             \* at most Threshold of them, oldest first: TRUE if it was lost
  inherited  \* issues opened by an earlier coordinator that this one has
             \* neither raised again nor cleared

shistory == <<listed, heard, inherited>>
shvars   == <<svars, shistory>>

\* The promise, of which the history is the state.
R == INSTANCE RepairIssues WITH left <- inherited, open <- issues

SHInit ==
  /\ SInit
  /\ listed = {}
  /\ heard = [z \in Zones |-> <<>>]
  /\ inherited = {}

SHPoll(present, lost) ==
  /\ Poll(present, lost)
  /\ listed' = present
  /\ heard' = [z \in Zones |->
                 IF z \in present THEN R!Remember(heard[z], z \in lost)
                 ELSE heard[z]]
  /\ inherited' = inherited \ (reported \cup reported')

Forget ==
  /\ listed' = {}
  /\ heard' = [z \in Zones |-> <<>>]

SHReload  == Reload /\ Forget /\ inherited' = issues
SHRestart == Restart /\ Forget /\ inherited' = {}

SHNext ==
  \/ \E present \in SUBSET Zones : \E lost \in SUBSET present :
       SHPoll(present, lost)
  \/ SHReload
  \/ SHRestart

SHSpec == SHInit /\ [][SHNext]_shvars

-----------------------------------------------------------------------------
\* Every variable keeps its type.
STypeOK ==
  /\ misses \in [Zones -> 0 .. MaxMisses]
  /\ reported \subseteq Zones /\ issues \subseteq Zones
  /\ listed \subseteq Zones /\ inherited \subseteq Zones
  /\ heard \in [Zones -> Seq(BOOLEAN)]

\* The counters are neither early nor late, flapping included: this coordinator
\* reports exactly the zones of the last poll whose last Threshold listings all
\* had lossOfSupervision.  Listings, that is, and not the consecutive polls of
\* the comment on the threshold (see SupervisionPolls).
ReportedIffLostThroughout == reported = R!Due

\* The coordinator and the issue registry agree: an issue is open exactly for
\* the zones this coordinator reports and those an earlier one left behind.
IssuesAccountedFor == issues = reported \cup inherited

\* The coordinator's counters and its reported set implement RepairIssues: at
\* every step the registry is what the windows of reports call for.
IssuesFollowReports == R!RSpec

\* An issue is closed only when there is a reason: its zone was heard from or is
\* no longer listed, or Home Assistant restarted.
ClosedForAReason ==
  [][\A z \in issues \ issues' :
       \/ z \notin listed'
       \/ ~heard'[z][Len(heard'[z])]
       \/ Restart]_shvars

\* What test_coordinator says of the repair issue, "recovery clears it": no
\* issue is open for a zone that the last poll listed as heard from.
RecoveryClearsIssue ==
  \A z \in issues \cap listed : heard[z][Len(heard[z])]
=============================================================================
