------------------------------ MODULE PlanStore ------------------------------
(***************************************************************************)
(* What the plan server promises of its plans, whatever its handlers do in *)
(* between: there is one active plan and a latest saved state of each      *)
(* plan, an edit changes the active plan only, and every other change of   *)
(* the active plan is saved as it is made.                                 *)
(***************************************************************************)
EXTENDS Integers

CONSTANTS Plans, Edits, NoPlan

VARIABLES active,   \* the active plan, or NoPlan
          latest,   \* latest[p]: what loading p would give, or NoPlan
          made      \* the number of edits made so far

vars == <<active, latest, made>>
Contents == [id : Plans, edits : SUBSET Edits]
Empty(p) == [id |-> p, edits |-> {}]

Init == /\ active = NoPlan
        /\ latest \in [Plans -> Contents \cup {NoPlan}]
        /\ \A p \in Plans : latest[p] \in {NoPlan, Empty(p)}
        /\ made = 0

(* An edit goes to the active plan, and is saved later.                    *)
Edit == /\ active # NoPlan
        /\ made' = made + 1
        /\ active' = [active EXCEPT !.edits = @ \cup {made'}]
        /\ UNCHANGED latest

Save == /\ active # NoPlan
        /\ latest' = [latest EXCEPT ![active.id] = active]
        /\ UNCHANGED <<active, made>>

(* Another plan, or another state of the plan, made of edits that were     *)
(* made before or, by an import, just now.                                 *)
Switch == \E plan \in Contents :
             /\ made' \in {made, made + 1}
             /\ plan.edits \subseteq 1 .. made'
             /\ active' = plan
             /\ latest' = [latest EXCEPT ![plan.id] = plan]

(* The first user to join after a start brings back the latest state of a  *)
(* plan, unless it was deleted while that was read.                        *)
Wake == \E plan \in Contents :
           /\ active = NoPlan
           /\ latest[plan.id] \in {plan, NoPlan}
           /\ active' = plan
           /\ UNCHANGED <<latest, made>>

Delete == \E p \in Plans : /\ latest' = [latest EXCEPT ![p] = NoPlan]
                           /\ UNCHANGED <<active, made>>

(* A crash forgets the active plan, and may spoil one saved state.         *)
Crash == /\ active' = NoPlan
         /\ \/ UNCHANGED latest
            \/ \E p \in Plans : latest' = [latest EXCEPT ![p] = NoPlan]
         /\ UNCHANGED made

Next == Edit \/ Save \/ Switch \/ Wake \/ Delete \/ Crash

Spec == Init /\ [][Next]_vars
=============================================================================
