---------------------------- MODULE RepairIssues ----------------------------
(***************************************************************************)
(* What the repair issues amount to, without the counters: each zone has a *)
(* window of the last Threshold reports about it, and an issue is open for *)
(* a listed zone while its whole window says "lost".  What an earlier      *)
(* coordinator left open stays until this one has a reason of its own to   *)
(* take it over or to close it.                                            *)
(*                                                                         *)
(* This is the code's promise, in which a poll that does not list the zone *)
(* is no report.  The comment on the threshold and the README promise      *)
(* something else, consecutive polls: see SupervisionPolls.                *)
(***************************************************************************)
EXTENDS Naturals, Sequences

CONSTANTS Zones, Threshold

VARIABLES
  listed,  \* the zones of the last poll
  heard,   \* per zone, what its last listings reported, at most Threshold of
           \* them, oldest first: TRUE if it was lost
  left,    \* issues an earlier coordinator left open
  open     \* the open issues

rvars == <<listed, heard, left, open>>

\* A window with one more report: the oldest one makes room.
Remember(seq, lost) ==
  LET longer == Append(seq, lost) IN
  IF Len(longer) > Threshold THEN Tail(longer) ELSE longer

\* Every report of a full window says "lost".
LostThroughout(window) ==
  Len(window) = Threshold /\ \A i \in 1 .. Threshold : window[i]

\* The zones that deserve an issue.
Due == {z \in listed : LostThroughout(heard[z])}

RInit ==
  /\ listed = {} /\ left = {} /\ open = {}
  /\ heard = [z \in Zones |-> <<>>]

RPoll(present, lost) ==
  /\ listed' = present
  /\ heard' = [z \in Zones |->
                 IF z \in present THEN Remember(heard[z], z \in lost)
                 ELSE heard[z]]
  /\ left' = left \ (Due \cup Due')
  /\ open' = Due' \cup left'

\* A coordinator that remembers nothing takes over; what stays open is
\* everything or, after a restart, nothing.
RAnew(stays) ==
  /\ listed' = {}
  /\ heard' = [z \in Zones |-> <<>>]
  /\ left' = stays
  /\ open' = stays

RNext ==
  \/ \E present \in SUBSET Zones : \E lost \in SUBSET present :
       RPoll(present, lost)
  \/ RAnew(open)
  \/ RAnew({})

RSpec == RInit /\ [][RNext]_rvars
=============================================================================
