----------------------------- MODULE MCPlanGraph -----------------------------
(***************************************************************************)
(* The constants of PlanGraph for TLC: plans of three nodes with every set *)
(* of dependencies and every kind of worker.                               *)
(***************************************************************************)
EXTENDS PlanGraph

CONSTANTS t1, t2, t3, m1, u1, u2, red, blue

MCAllDeps == SUBSET Ends
MCNoWorkers == {{}}
MCPlanStart == {PlanStart}
MCTargets == {PlanStart, m1}
Specific(u) == [kind |-> "Specific", user |-> u]
Placeholder(T) == [kind |-> "Placeholder", tags |-> T]
MCSlots == {{}, {Specific(u1)}, {Placeholder({red})}}
Symmetric == Permutations(Tasks)
=============================================================================
