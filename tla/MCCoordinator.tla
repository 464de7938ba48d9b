--------------------------- MODULE MCCoordinator ---------------------------
(* GC3Coordinator alone, for the properties that need no history. *)
EXTENDS GC3Coordinator

MCServices == {"disarm", "arm_night"}
=============================================================================
