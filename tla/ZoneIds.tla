------------------------------ MODULE ZoneIds ------------------------------
(* The zone ids the panel may list; the console's own is left out of every  *)
(* answer.                                                                  *)
CONSTANT Zones
=============================================================================
