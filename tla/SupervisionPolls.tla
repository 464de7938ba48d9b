-------------------------- MODULE SupervisionPolls --------------------------
(***************************************************************************)
(* SupervisionHistory with the last polls of the coordinator, each as the  *)
(* zones it found lost, whether or not it listed the others: for what the  *)
(* comment on the threshold and the README say in terms of polls.          *)
(***************************************************************************)
EXTENDS SupervisionHistory

VARIABLE polls  \* at most Threshold of them, oldest first

SPInit == SHInit /\ polls = <<>>

SPPoll(present, lost) ==
  /\ SHPoll(present, lost)
  /\ polls' = R!Remember(polls, lost)

SPNext ==
  \/ \E present \in SUBSET Zones : \E lost \in SUBSET present :
       SPPoll(present, lost)
  \/ (SHReload \/ SHRestart) /\ polls' = <<>>

SPSpec == SPInit /\ [][SPNext]_<<shvars, polls>>

-----------------------------------------------------------------------------
\* What coordinator.py:31-33 and README.md:195-196 say of the issue, that the
\* zone was lost "for this many consecutive polls": each of the coordinator's
\* last Threshold polls found a reported zone lost.
LostInConsecutivePolls ==
  \A z \in reported :
    Len(polls) = Threshold /\ \A i \in 1 .. Threshold : z \in polls[i]
=============================================================================
