------------------------------ MODULE MCRoutes ------------------------------
(* The instances of Routes. *)
EXTENDS Routes

BothStrategies == {"start_first", "stop_first"}
=============================================================================
