-------------------------- MODULE MCGraphPlanStore --------------------------
(***************************************************************************)
(* The instance of GraphPlanStore that TLC checks: two slots, each staged  *)
(* more than once, and more activations than the queue holds.              *)
(***************************************************************************)
EXTENDS GraphPlanStore
=============================================================================
