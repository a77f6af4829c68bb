----------------------------- MODULE MCPlanClient -----------------------------
(***************************************************************************)
(* PlanClient for TLC: all its constants are numbers, given in the cfgs.   *)
(***************************************************************************)
EXTENDS PlanClient
=============================================================================
