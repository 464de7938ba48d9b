------------------------------ MODULE MCEntry ------------------------------
(* The entry with two zone numbers, a door contact and a keyfob for them,   *)
(* and two poll intervals.  Threshold 2 stands for 20: one poll short of    *)
(* it, at it and beyond it are told apart.                                  *)
EXTENDS GC3Entry, TLC

CONSTANTS z1, z2, door, fob, fast, slow

MCZones == {z1, z2}
MCNames == {door, fob}
MCTransient == {fob}
MCIntervals == {fast, slow}
Alike == Permutations(MCZones) \cup Permutations(MCIntervals)
=============================================================================
