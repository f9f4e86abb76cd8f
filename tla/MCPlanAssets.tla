---------------------------- MODULE MCPlanAssets ----------------------------
(***************************************************************************)
(* The instance of PlanAssets that TLC checks: two plan slots, two source  *)
(* nodes that can play the same asset or two loads of it.                  *)
(***************************************************************************)
EXTENDS PlanAssets

UnitSize == [k \in Keys |-> 1]
=============================================================================
