---------------------------- MODULE MCConfigFlow ----------------------------
(* Two addresses, one of which can be typed in two ways; two entries, two   *)
(* flows.                                                                   *)
EXTENDS GC3ConfigFlow, TLC

CONSTANTS e1, e2, f1, f2

MCHosts == {"host", "HOST", "other"}
MCLower(h) == IF h = "HOST" THEN "host" ELSE h
MCKeys == {"k1", "k2"}
MCEntries == {e1, e2}
MCFlows == {f1, f2}
SameEntries == Permutations(MCEntries) \cup Permutations(MCFlows)
=============================================================================
