--------------------------- MODULE PlanServerStore ---------------------------
(***************************************************************************)
(* The plan server implements PlanStore: the engine is the active plan,    *)
(* and what loading would read from a directory its latest saved state.    *)
(***************************************************************************)
EXTENDS PlanServer

Latest == [p \in Plans |-> LoadLatest(p)]

Store == INSTANCE PlanStore
            WITH active <- engine, latest <- Latest, made <- nextEdit - 1

(* Every step of a handler is one step of the store or none: no request    *)
(* installs a plan that is not saved in the same critical section, fills   *)
(* an engine that is not empty, or saves anything but the active plan.     *)
StoreSpec == Store!Spec
=============================================================================
