---------------------------- MODULE MCMondaySync ----------------------------
(***************************************************************************)
(* The constants of MondaySync for TLC.                                    *)
(***************************************************************************)
EXTENDS MondaySync

CONSTANTS i1, i2, i3, t1, t2, t3, m1, j1, j2, c1

MCTrim == [s \in Names |-> IF s = "a " THEN "a" ELSE s]

(* A task of two users who share it unevenly, and one of a user without an *)
(* account.  The forms of plinko trim names, so blanks come from Monday.   *)
MCNodes == {[name |-> "a", work |-> [users |-> {"u", "v"}, total |-> 10, split |-> "uneven"]],
            [name |-> "a", work |-> Even({"w"}, 8)]}
MCNode == {[name |-> "a", work |-> Placeholder]}

Item(milestone, name, persons, days, level) ==
    [name |-> name, persons |-> persons, days |-> days, status |-> "NotStarted",
     deps |-> {}, milestone |-> milestone, sub |-> level]
MCItems == {Item(milestone, "a ", {"u", "v", "x"}, NoDays, TRUE) : milestone \in BOOLEAN}
MCTask == {Item(FALSE, "a", {}, 8, FALSE)}
Symmetric == Permutations(Items) \cup Permutations(Tasks)
SymmetricJobs == Symmetric \cup Permutations(Jobs)

(* What no step depends on, and MapIsOneToOne does not mention, is left    *)
(* out of the states that are told apart.                                  *)
WithoutHistory == <<plan, board, config, form, jobs, used, edits>>

(* For one job at a time, without dialogs: what was made for an item that  *)
(* is gone no step can bring back, and only the end of a push asks whether *)
(* its job was disturbed.                                                  *)
WithoutGone == <<plan, board, config, jobs, used, settled, edits,
                 {m \in made : m[1] \in DOMAIN board},
                 {j \in undisturbed : jobs[j].kind = "push"}>>
=============================================================================
