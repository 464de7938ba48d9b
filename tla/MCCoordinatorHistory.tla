------------------------ MODULE MCCoordinatorHistory ------------------------
(* GC3CoordinatorHistory with every service. *)
EXTENDS GC3CoordinatorHistory

MCServices == AllServices
=============================================================================
