------------------------------ MODULE PlanGraph ------------------------------
(***************************************************************************)
(* The structure of a plan under the requests of several clients: tasks    *)
(* and milestones, the dependencies between them, the users and tags that  *)
(* can staff a task, and the node the scheduler works towards.  A client   *)
(* fills in a form from the last plan state it was sent, so a request may  *)
(* name what another client has deleted since.  An action is one request   *)
(* as the engine applies it, with the scheduler's verdict on the result    *)
(* and the rollback of a refused edit.  Names, lags, orders of display and *)
(* dates are left out.                                                     *)
(***************************************************************************)
EXTENDS FiniteSetsExt, SequencesExt

CONSTANTS Tasks, Milestones,
          PlanStart,   \* NodeId::PlanStart, the node every plan begins with
          Users, Tags,
          DepSets,     \* the dependencies a form may ask for
          SlotSets,    \* the workers a form may ask for
          Targets      \* the scheduler targets a settings form may ask for

Nodes == Tasks \cup Milestones
Ends  == Nodes \cup {PlanStart}
Slots == [kind : {"Specific"}, user : Users]
           \cup [kind : {"Placeholder"}, tags : SUBSET Tags]

ASSUME NodesAssumption == PlanStart \notin Nodes /\ Tasks \cap Milestones = {}
ASSUME FormsAssumption == /\ DepSets \subseteq SUBSET Ends
                          /\ SlotSets \subseteq SUBSET Slots
                          /\ Targets \subseteq Ends

VARIABLES
    plan,    \* the plan of the engine
    born,    \* ids given out: a client makes up a fresh one per creation
    request, \* the last request
    answer   \* its PlanResponse

vars == <<plan, born, request, answer>>
(* A panic in the scheduler poisons the lock on the engine: every later    *)
(* request panics on lock().unwrap(), so none is answered.                 *)
Serving == answer # "Panic"

view == <<plan, born, Serving>>    \* no step depends on the rest

Plans == [nodes : SUBSET Nodes,             \* tasks and milestones
          deps : [Ends -> SUBSET Ends],     \* none for a node not there
          workers : [Tasks -> SUBSET Slots],
          users : SUBSET Users,
          tags : [Users -> SUBSET Tags],
          target : Ends]                    \* scheduler_target

Kinds == {"NewPlan", "CreateTask", "UpdateTask", "DeleteTask", "CreateMilestone",
          "UpdateMilestone", "DeleteMilestone", "CreateUser", "UpdateUser",
          "DeleteUser", "DeleteTag", "UpdatePlanSettings"}

(* Dependencies may name what has been deleted, never what is yet to come, *)
(* and only what is there has any.                                         *)
Grounded == /\ plan.nodes \subseteq born
            /\ \A n \in Ends \ plan.nodes : plan.deps[n] = {}
            /\ \A n \in Ends : plan.deps[n] \subseteq born \cup {PlanStart}
            /\ \A t \in Tasks \ plan.nodes : plan.workers[t] = {}

TypeOK == /\ plan \in Plans
          /\ born \subseteq Nodes
          /\ Grounded
          /\ request \in [kind : Kinds, node : Ends, deps : SUBSET Ends]
          /\ answer \in {"PlanUpdated", "Error", "Panic"}

-----------------------------------------------------------------------------
(* has_dependency_path: b is among what can be reached from a.  A set that *)
(* has a and the dependencies of all its members has everything reached.   *)
Closed(g, S) == \A n \in S : g[n] \subseteq S
DependsOn(g, a, b) ==
    \A S \in SUBSET Ends : a \in S /\ Closed(g, S) => b \in S

(* Adding a dependency of n on d is refused as a cycle if d depends on n;  *)
(* a path from d to n ends at n, so the ones added before do not matter.   *)
MakesNoCycle(g, n, D) == \A d \in D : ~ DependsOn(g, d, n)

(* Mutant of Redundant: the dependency that implies the other goes.        *)
RedundantReversed(g, n, d) == \E j \in g[n] \ {d} : DependsOn(g, d, j)

(* A dependency on d that another dependency of n implies.                 *)
Redundant(g, n, d) == \E j \in g[n] \ {d} : DependsOn(g, j, d)

(* Mutant of SimplifyNode: a dependency implies itself.                    *)
SimplifyNodeAway(g, n) ==
    [g EXCEPT ![n] = {d \in @ : ~ \E j \in g[n] : DependsOn(g, j, d)}]

SimplifyNode(g, n) == [g EXCEPT ![n] = {d \in @ : ~ Redundant(g, n, d)}]

(* simplify_all_dependencies, for all nodes at once: OneByOneIsTheSame     *)
(* checks that the code's node by node comes to the same.                  *)
Simplify(g) == [n \in Ends |-> {d \in g[n] : ~ Redundant(g, n, d)}]

(* Mutant of Without: dependents do not inherit.                           *)
WithoutInheriting(g, x) ==
    [n \in Ends |-> IF n = x THEN {} ELSE g[n] \ {x}]

(* Mutant of Without: the dependencies of the deleted node stay behind.    *)
WithoutCleaning(g, x) ==
    [n \in Ends |-> IF x \in g[n] THEN (g[n] \ {x}) \cup g[x] ELSE g[n]]

(* delete_task, delete_milestone: the dependents of x inherit from it.     *)
Without(g, x) ==
    [n \in Ends |-> IF n = x THEN {}
                    ELSE IF x \in g[n] THEN (g[n] \ {x}) \cup g[x]
                    ELSE g[n]]

Satisfied(p, slot) == \E u \in p.users : slot.tags \subseteq p.tags[u]
ValidWorkers(p, W) ==
    \A slot \in W : IF slot.kind = "Placeholder" THEN Satisfied(p, slot)
                                                  ELSE slot.user \in p.users
AllTasksCompletable(p) ==
    \A t \in Tasks : \A slot \in p.workers[t] :
        slot.kind = "Placeholder" => Satisfied(p, slot)
AllNodesConnected(p) == \A n \in p.nodes : DependsOn(p.deps, n, PlanStart)

(* What compute_time_optimised_plan can refuse a plan for, but for a       *)
(* worker without a free day in ten years.  A target that has been deleted *)
(* counts as PlanStart.                                                    *)
Schedulable(p) ==
    /\ AllTasksCompletable(p)
    /\ AllNodesConnected(p)
    /\ p.target \in p.nodes => DependsOn(p.deps, p.target, PlanStart)

(* What it panics for: it works towards the target through all that the    *)
(* target depends on, and is asked to place one that has been deleted.     *)
Unknown(p) ==
    /\ Schedulable(p) /\ p.target \in p.nodes
    /\ \E a \in Nodes \ p.nodes : DependsOn(p.deps, p.target, a)

Ask(kind, n, D) ==
    Serving /\ request' = [kind |-> kind, node |-> n, deps |-> D]
Accept(p) == plan' = p /\ answer' = "PlanUpdated"
Panic(p) == Unknown(p) /\ plan' = p /\ answer' = "Panic"

(* compute_time_optimised_plan, its error ignored: it may also give up for *)
(* want of free days before it gets to what it would panic for.            *)
Recompute(p) == Accept(p) \/ Panic(p)

Refuse == plan' = plan /\ answer' = "Error"

(* apply_validated: the edit, then the scheduler, the backup if it fails   *)
(* (as it also may for want of free days, on a plan it could schedule).    *)
ApplyValidated(p) ==
    \/ Schedulable(p) /\ ~ Unknown(p) /\ Accept(p)
    \/ Panic(p)
    \/ Refuse

-----------------------------------------------------------------------------
OrPlanStart(D) == IF D = {} THEN {PlanStart} ELSE D

CreateTask(t, D, W) ==
    /\ t \in Tasks \ born /\ D \subseteq born \cup {PlanStart}
    /\ Ask("CreateTask", t, D) /\ born' = born \cup {t}
    /\ IF ValidWorkers(plan, W) /\ D \subseteq plan.nodes \cup {PlanStart}
       THEN Recompute([plan EXCEPT !.nodes = @ \cup {t},
                                   !.deps[t] = OrPlanStart(D),
                                   !.workers[t] = W])
       ELSE Refuse

CreateMilestone(m, D) ==
    /\ m \in Milestones \ born /\ D \subseteq born \cup {PlanStart}
    /\ Ask("CreateMilestone", m, D) /\ born' = born \cup {m}
    /\ Recompute([plan EXCEPT !.nodes = @ \cup {m}, !.deps[m] = OrPlanStart(D)])

(* Mutant of PatchDeps: only the patched node and its dependencies are     *)
(* looked at, for cycles and for redundancy.                               *)
PatchDepsNearby(n, D, W) ==
    IF n \in plan.nodes \ D /\ \A d \in D : n \notin plan.deps[d]
    THEN ApplyValidated([plan EXCEPT !.deps = SimplifyNode([@ EXCEPT ![n] = D], n),
                                     !.workers = W])
    ELSE Refuse

(* apply_task_patch, apply_milestone_patch: the new dependencies one by    *)
(* one, then everything else, then the whole plan simplified.              *)
PatchDeps(n, D, W) ==
    IF n \in plan.nodes /\ MakesNoCycle(plan.deps, n, D)
    THEN ApplyValidated([plan EXCEPT !.deps = Simplify([@ EXCEPT ![n] = D]),
                                     !.workers = W])
    ELSE Refuse

(* A patch without workers is one that has those the task has.             *)
UpdateTask(t, D, W) ==
    /\ t \in Tasks \cap born /\ D \subseteq born \cup {PlanStart}
    /\ Ask("UpdateTask", t, D) /\ UNCHANGED born
    /\ IF W = plan.workers[t] \/ ValidWorkers(plan, W)
       THEN PatchDeps(t, D, [plan.workers EXCEPT ![t] = W])
       ELSE Refuse

UpdateMilestone(m, D) ==
    /\ m \in Milestones \cap born /\ D \subseteq born \cup {PlanStart}
    /\ Ask("UpdateMilestone", m, D) /\ UNCHANGED born
    /\ PatchDeps(m, D, plan.workers)

(* DeleteTask and DeleteMilestone; a second deletion finds nothing.        *)
Delete(kind, x) ==
    /\ x \in born /\ Ask(kind, x, {}) /\ UNCHANGED born
    /\ IF x \in plan.nodes
       THEN ApplyValidated(
              [plan EXCEPT !.nodes = @ \ {x},
                           !.deps = Without(@, x),
                           !.workers = [t \in Tasks |-> IF t = x THEN {} ELSE @[t]],
                           !.target = IF @ = x THEN PlanStart ELSE @])
       ELSE Refuse
DeleteTask(t) == t \in Tasks /\ Delete("DeleteTask", t)
DeleteMilestone(m) == m \in Milestones /\ Delete("DeleteMilestone", m)

-----------------------------------------------------------------------------
CreateUser(u, T) ==
    /\ u \notin plan.users
    /\ Ask("CreateUser", PlanStart, {}) /\ UNCHANGED born
    /\ Accept([plan EXCEPT !.users = @ \cup {u}, !.tags[u] = T])

UpdateUser(u, T) ==
    /\ Ask("UpdateUser", PlanStart, {}) /\ UNCHANGED born
    /\ IF u \in plan.users THEN ApplyValidated([plan EXCEPT !.tags[u] = T])
                           ELSE Refuse

DeleteUser(u) ==
    /\ Ask("DeleteUser", PlanStart, {}) /\ UNCHANGED born
    /\ IF u \in plan.users
       THEN ApplyValidated([plan EXCEPT !.users = @ \ {u}, !.tags[u] = {}])
       ELSE Refuse

(* Mutant of DeleteTag: the placeholders keep asking for the tag.          *)
DeleteTagFromUsers(tag) ==
    /\ Ask("DeleteTag", PlanStart, {}) /\ UNCHANGED born
    /\ Accept([plan EXCEPT !.tags = [u \in Users |-> @[u] \ {tag}]])

(* remove_tag takes the tag from the users and from the placeholders.      *)
DeleteTag(tag) ==
    /\ Ask("DeleteTag", PlanStart, {}) /\ UNCHANGED born
    /\ LET Strip(slot) == IF slot.kind = "Placeholder"
                          THEN [slot EXCEPT !.tags = @ \ {tag}] ELSE slot
       IN Accept([plan EXCEPT
                    !.tags = [u \in Users |-> @[u] \ {tag}],
                    !.workers = [t \in Tasks |-> {Strip(w) : w \in @[t]}]])

UpdatePlanSettings(node) ==
    /\ node \in born \cup {PlanStart}
    /\ Ask("UpdatePlanSettings", node, {}) /\ UNCHANGED born
    /\ Recompute([plan EXCEPT !.target = node])

Init ==
    /\ plan = [nodes |-> {}, deps |-> [n \in Ends |-> {}],
               workers |-> [t \in Tasks |-> {}], users |-> {},
               tags |-> [u \in Users |-> {}], target |-> PlanStart]
    /\ born = {}
    /\ request = [kind |-> "NewPlan", node |-> PlanStart, deps |-> {}]
    /\ answer = "PlanUpdated"

Next ==
    \/ \E t \in Tasks, D \in DepSets, W \in SlotSets : CreateTask(t, D, W)
    \/ \E m \in Milestones, D \in DepSets : CreateMilestone(m, D)
    \/ \E t \in Tasks, D \in DepSets : \E W \in SlotSets \cup {plan.workers[t]} :
           UpdateTask(t, D, W)
    \/ \E m \in Milestones, D \in DepSets : UpdateMilestone(m, D)
    \/ \E t \in Tasks : DeleteTask(t)
    \/ \E m \in Milestones : DeleteMilestone(m)
    \/ \E u \in Users, T \in SUBSET Tags : CreateUser(u, T) \/ UpdateUser(u, T)
    \/ \E u \in Users : DeleteUser(u)
    \/ \E tag \in Tags : DeleteTag(tag)
    \/ \E node \in Targets : UpdatePlanSettings(node)

Spec == Init /\ [][Next]_vars

-----------------------------------------------------------------------------
(* No node ever waits for itself, whatever is created, patched, simplified *)
(* or deleted in whatever order: among any nodes one waits for no other.   *)
(* A node in a cycle would silently get no dates (Kahn's algorithm leaves  *)
(* it out).  A patch is held to it twice: a cycle makes all dependencies   *)
(* that leave it redundant, and so ends up without a path to PlanStart.    *)
AcyclicGraph(g) == \A U \in (SUBSET Ends) \ {{}} : \E n \in U : g[n] \cap U = {}
Acyclic == AcyclicGraph(plan.deps)

(* "No gaps appear in existing chains": what remains after a deletion is   *)
(* in the order it was in, no more and no less.                            *)
DeletingKeepsTheOrder ==
    [][request'.kind \in {"DeleteTask", "DeleteMilestone"} =>
         \A a, b \in plan'.nodes \cup {PlanStart} :
             DependsOn(plan'.deps, a, b) <=> DependsOn(plan.deps, a, b)]_vars

(* An accepted patch orders the plan as asked: simplification, of this and *)
(* of all other nodes, drops nothing that another dependency did not imply *)
(* and leaves no dependency that another one implies.                      *)
Asked(g) == [g EXCEPT ![request'.node] = request'.deps]
PatchingOrdersAsAsked ==
    [][request'.kind \in {"UpdateTask", "UpdateMilestone"} /\ answer' = "PlanUpdated" =>
         /\ \A a, b \in Ends :
                DependsOn(plan'.deps, a, b) <=> DependsOn(Asked(plan.deps), a, b)
         /\ \A n \in Ends : \A d \in plan'.deps[n] : ~ Redundant(plan'.deps, n, d)]_vars

(* Every open slot of every task always has a user for it: users and tags  *)
(* come and go by requests the scheduler vets (DeleteUser, UpdateUser) and *)
(* by one it does not (DeleteTag).                                         *)
Staffed == AllTasksCompletable(plan)

(* The node by node simplification of the code, in any order, against the  *)
(* definition: each step changes what the next ones see.                   *)
OneByOneIsTheSame ==
    \A order \in SetToSeqs(plan.nodes) :
        FoldLeft(SimplifyNode, plan.deps, order) = Simplify(plan.deps)

(* engine.rs of the creation of tasks and milestones: they default to a    *)
(* dependency on PlanStart "so the task is always connected".              *)
AlwaysConnected == AllNodesConnected(plan)

(* scheduler.rs takes it that it is never asked to place a task that is    *)
(* not in the plan: expect("insert_task called with unknown TaskId").      *)
OnlyKnownNodes == Serving
=============================================================================
