--------------------------- MODULE PlanGraph_proofs ---------------------------
(***************************************************************************)
(* Type correctness of PlanGraph, that its dependencies are never cyclic,  *)
(* that every open slot can be filled, and what simplification, patches    *)
(* and deletions do to the order of the plan, for any nodes, users, tags   *)
(* and forms.  Acyclic is stated without paths (among any nodes one waits  *)
(* for no other of them), and so is DependsOn (every set that is closed    *)
(* under the dependencies), so the proofs choose a node or a set, and      *)
(* where they need an induction a least number of nodes.                   *)
(***************************************************************************)
EXTENDS PlanGraph, FiniteSetTheorems, TLAPS

Graphs == [Ends -> SUBSET Ends]

-----------------------------------------------------------------------------
(* Lemmas about the operators that change a graph.                         *)

(* Fewer dependencies make no cycle.                                       *)
LEMMA FewerIsAcyclic ==
    ASSUME NEW g \in Graphs, AcyclicGraph(g),
           NEW h, \A n \in Ends : h[n] \subseteq g[n]
    PROVE  AcyclicGraph(h)
<1>. SUFFICES ASSUME NEW U \in (SUBSET Ends) \ {{}}
              PROVE  \E n \in U : h[n] \cap U = {}
  BY DEF AcyclicGraph
<1>1. PICK n \in U : g[n] \cap U = {}
  BY DEF AcyclicGraph
<1>. QED BY <1>1

(* simplify_all_dependencies makes none.                                   *)
LEMMA SimplifyIsAcyclic ==
    ASSUME NEW g \in Graphs, AcyclicGraph(g)
    PROVE  Simplify(g) \in Graphs /\ AcyclicGraph(Simplify(g))
<1>1. \A n \in Ends : Simplify(g)[n] \subseteq g[n]
  BY DEF Simplify
<1>2. Simplify(g) \in Graphs
  BY DEF Simplify, Graphs
<1>. QED BY <1>1, <1>2, FewerIsAcyclic

(* A new node, which nothing waits for yet, makes none.                    *)
LEMMA NewNodeIsAcyclic ==
    ASSUME NEW g \in Graphs, AcyclicGraph(g), NEW x \in Ends,
           NEW D \in SUBSET Ends, x \notin D, \A n \in Ends : x \notin g[n]
    PROVE  AcyclicGraph([g EXCEPT ![x] = D])
<1>. DEFINE h == [g EXCEPT ![x] = D]
<1>. SUFFICES ASSUME NEW U \in (SUBSET Ends) \ {{}}
              PROVE  \E n \in U : h[n] \cap U = {}
  BY DEF AcyclicGraph
<1>1. CASE U = {x}
  BY <1>1 DEF Graphs
<1>2. CASE U # {x}
  <2>1. U \ {x} \in (SUBSET Ends) \ {{}}
    BY <1>2
  <2>2. PICK n \in U \ {x} : g[n] \cap (U \ {x}) = {}
    BY <2>1 DEF AcyclicGraph
  <2>3. h[n] = g[n] /\ x \notin g[n]
    BY <2>2 DEF Graphs
  <2>. QED BY <2>2, <2>3
<1>. QED BY <1>1, <1>2

(* What the validation accepts makes none: everything the new dependencies *)
(* wait for, taken together, does not have the node.                       *)
LEMMA PatchIsAcyclic ==
    ASSUME NEW g \in Graphs, AcyclicGraph(g), NEW x \in Ends,
           NEW D \in SUBSET Ends, MakesNoCycle(g, x, D)
    PROVE  AcyclicGraph([g EXCEPT ![x] = D])
<1>. DEFINE h == [g EXCEPT ![x] = D]
            S == UNION {T \in SUBSET Ends : Closed(g, T) /\ x \notin T}
<1>1. S \subseteq Ends /\ x \notin S
  OBVIOUS
<1>2. \A n \in S : g[n] \subseteq S
  <2>. TAKE n \in S
  <2>1. PICK T \in SUBSET Ends : Closed(g, T) /\ x \notin T /\ n \in T
    OBVIOUS
  <2>. QED BY <2>1 DEF Closed
<1>3. D \subseteq S
  <2>. SUFFICES ASSUME NEW d \in D PROVE d \in S
    OBVIOUS
  <2>1. PICK T \in SUBSET Ends : d \in T /\ Closed(g, T) /\ x \notin T
    BY DEF MakesNoCycle, DependsOn
  <2>. QED BY <2>1
<1>. SUFFICES ASSUME NEW U \in (SUBSET Ends) \ {{}}
              PROVE  \E n \in U : h[n] \cap U = {}
  BY DEF AcyclicGraph
<1>. HIDE DEF S
<1>4. CASE U \cap S = {}
  <2>1. PICK n \in U : g[n] \cap U = {}
    BY DEF AcyclicGraph
  <2>2. h[n] = IF n = x THEN D ELSE g[n]
    BY DEF Graphs
  <2>. QED BY <1>3, <1>4, <2>1, <2>2
<1>5. CASE U \cap S # {}
  <2>1. PICK n \in U \cap S : g[n] \cap (U \cap S) = {}
    BY <1>5 DEF AcyclicGraph
  <2>2. h[n] = g[n]
    BY <1>1, <2>1 DEF Graphs
  <2>. QED BY <1>2, <2>1, <2>2
<1>. QED BY <1>4, <1>5

(* Inheriting the dependencies of a deleted node makes none.               *)
LEMMA WithoutIsAcyclic ==
    ASSUME NEW g \in Graphs, AcyclicGraph(g), NEW x \in Ends
    PROVE  Without(g, x) \in Graphs /\ AcyclicGraph(Without(g, x))
<1>. DEFINE h == Without(g, x)
<1>1. h \in Graphs
  BY DEF Graphs, Without
<1>2. h[x] = {}
  BY DEF Without
<1>3. \A n \in Ends : h[n] \subseteq (g[n] \ {x}) \cup (IF x \in g[n] THEN g[x] ELSE {})
  BY DEF Without
<1>4. ASSUME NEW U \in (SUBSET Ends) \ {{}}
      PROVE  \E n \in U : h[n] \cap U = {}
  <2>. HIDE DEF h
  <2>1. CASE x \in U
    BY <2>1, <1>2
  <2>2. CASE x \notin U
    <3>1. U \cup {x} \in (SUBSET Ends) \ {{}}
      OBVIOUS
    <3>2. PICK m \in U \cup {x} : g[m] \cap (U \cup {x}) = {}
      BY <3>1 DEF AcyclicGraph
    <3>3. PICK n \in U : g[n] \cap U = {}
      BY DEF AcyclicGraph
    <3>4. CASE m = x
      BY <1>3, <3>2, <3>3, <3>4
    <3>5. CASE m # x
      BY <1>3, <3>2, <3>5
    <3>. QED BY <3>4, <3>5
  <2>. QED BY <2>1, <2>2
<1>. QED BY <1>1, <1>4 DEF AcyclicGraph

-----------------------------------------------------------------------------
(* What holds of the plan, and what an edit has to keep of it: the rest of *)
(* TypeOK is about the request, and Staffed is left to the scheduler.      *)
Sound(p, ids) ==
    /\ p \in Plans
    /\ p.nodes \subseteq ids
    /\ \A n \in Ends \ p.nodes : p.deps[n] = {}
    /\ \A n \in Ends : p.deps[n] \subseteq ids \cup {PlanStart}
    /\ \A t \in Tasks \ p.nodes : p.workers[t] = {}
    /\ AcyclicGraph(p.deps)

Inv == TypeOK /\ Acyclic /\ Staffed

(* What the invariant says of the plan, in one piece.                      *)
LEMMA InvIsSound ==
    Inv => /\ Sound(plan, born) /\ AllTasksCompletable(plan)
           /\ born \subseteq Nodes
BY DEF Inv, TypeOK, Grounded, Acyclic, Staffed, Sound

(* What a step has to show.                                                *)
Requests == [kind : Kinds, node : Ends, deps : SUBSET Ends]
Kept == /\ Sound(plan', born') /\ AllTasksCompletable(plan')
        /\ answer' \in {"PlanUpdated", "Error", "Panic"}

(* A request is recorded with the type TypeOK gives it.                    *)
LEMMA AskedIsARequest ==
    ASSUME NEW kind \in Kinds, NEW n \in Ends, NEW D \in SUBSET Ends, Ask(kind, n, D)
    PROVE  request' \in Requests
BY DEF Ask, Requests

(* A step that shows this, and asks for what is in the model, keeps the    *)
(* invariant.                                                              *)
LEMMA KeptIsInv ==
    ASSUME Kept, born' \subseteq Nodes, request' \in Requests
    PROVE  Inv'
BY DEF Kept, Requests, Inv, TypeOK, Grounded, Acyclic, Staffed, Sound

(* An edit, vetted by the scheduler or rolled back.                        *)
LEMMA ValidatedKeeps ==
    ASSUME Inv, UNCHANGED born, NEW p, Sound(p, born), ApplyValidated(p)
    PROVE  Kept
BY InvIsSound DEF Kept, ApplyValidated, Schedulable, Unknown, Accept, Panic, Refuse

(* An edit that is only scheduled, or not even that.                       *)
LEMMA RecomputedKeeps ==
    ASSUME NEW p, Sound(p, born'), AllTasksCompletable(p), Recompute(p)
    PROVE  Kept
BY DEF Kept, Recompute, Accept, Panic

(* An error leaves the plan as it was.                                     *)
LEMMA RefusedKeeps ==
    ASSUME Inv, Refuse, born \subseteq born'
    PROVE  Kept
BY InvIsSound DEF Kept, Refuse, Sound

-----------------------------------------------------------------------------
(* Each request keeps the invariant.                                       *)
LEMMA CreateTaskKeeps ==
    ASSUME Inv, NEW t \in Tasks, NEW D \in DepSets, NEW W \in SlotSets,
           CreateTask(t, D, W)
    PROVE  Inv'
<1>. DEFINE p == [plan EXCEPT !.nodes = @ \cup {t},
                              !.deps[t] = OrPlanStart(D),
                              !.workers[t] = W]
<1>1. /\ Sound(plan, born) /\ AllTasksCompletable(plan) /\ born \subseteq Nodes
      /\ t \in Ends /\ t \in Nodes /\ D \in SUBSET Ends /\ W \in SUBSET Slots
      /\ OrPlanStart(D) \in SUBSET Ends
  BY InvIsSound, FormsAssumption DEF Nodes, Ends, OrPlanStart
<1>2. /\ t \notin born /\ D \subseteq born \cup {PlanStart} /\ born' = born \cup {t}
      /\ t # PlanStart /\ Ask("CreateTask", t, D)
  BY <1>1, NodesAssumption DEF CreateTask
<1>0. request' \in Requests
  <2>1. "CreateTask" \in Kinds
    BY DEF Kinds
  <2>. QED BY <1>1, <1>2, <2>1, AskedIsARequest
<1>3. CASE ValidWorkers(plan, W) /\ D \subseteq plan.nodes \cup {PlanStart}
  <2>1. p \in Plans
    BY <1>1 DEF Sound, Plans
  <2>2. /\ p.nodes = plan.nodes \cup {t}
        /\ p.deps = [plan.deps EXCEPT ![t] = OrPlanStart(D)]
        /\ p.workers = [plan.workers EXCEPT ![t] = W]
        /\ p.users = plan.users /\ p.tags = plan.tags
    BY <1>1 DEF Sound, Plans
  <2>3. AcyclicGraph(p.deps)
    <3>1. t \notin OrPlanStart(D)
      BY <1>2 DEF OrPlanStart
    <3>2. \A n \in Ends : t \notin plan.deps[n]
      BY <1>1, <1>2 DEF Sound
    <3>3. plan.deps \in Graphs /\ AcyclicGraph(plan.deps)
      BY <1>1 DEF Sound, Plans, Graphs
    <3>. QED BY <1>1, <2>2, <3>1, <3>2, <3>3, NewNodeIsAcyclic
  <2>4. AllTasksCompletable(p)
    BY <1>1, <1>3, <2>2 DEF AllTasksCompletable, ValidWorkers, Satisfied, Sound, Plans
  <2>5. Sound(p, born')
    <3>. HIDE DEF p
    <3>1. \A n \in Ends \ p.nodes : p.deps[n] = {}
      BY <1>1, <2>2 DEF Sound, Plans
    <3>2. \A n \in Ends : p.deps[n] \subseteq born' \cup {PlanStart}
      BY <1>1, <1>2, <2>2 DEF Sound, Plans, OrPlanStart
    <3>3. \A s \in Tasks \ p.nodes : p.workers[s] = {}
      BY <1>1, <2>2 DEF Sound, Plans
    <3>. QED BY <1>1, <1>2, <2>1, <2>2, <2>3, <3>1, <3>2, <3>3 DEF Sound
  <2>6. Recompute(p)
    BY <1>3 DEF CreateTask
  <2>7. Kept
    <3>. HIDE DEF p
    <3>. QED BY <2>4, <2>5, <2>6, RecomputedKeeps
  <2>. QED BY <1>1, <1>2, <2>7, <1>0, KeptIsInv
<1>4. CASE ~ (ValidWorkers(plan, W) /\ D \subseteq plan.nodes \cup {PlanStart})
  <2>1. Refuse
    BY <1>4 DEF CreateTask
  <2>2. Kept
    BY <1>2, <2>1, RefusedKeeps
  <2>. QED BY <1>1, <1>2, <2>2, <1>0, KeptIsInv
<1>. QED BY <1>3, <1>4

(* CreateMilestone: the slots are untouched, the node is new.              *)
LEMMA CreateMilestoneKeeps ==
    ASSUME Inv, NEW m \in Milestones, NEW D \in DepSets, CreateMilestone(m, D)
    PROVE  Inv'
<1>. DEFINE p == [plan EXCEPT !.nodes = @ \cup {m}, !.deps[m] = OrPlanStart(D)]
<1>1. /\ Sound(plan, born) /\ AllTasksCompletable(plan) /\ born \subseteq Nodes
      /\ m \in Ends /\ m \in Nodes /\ D \in SUBSET Ends
      /\ OrPlanStart(D) \in SUBSET Ends
  BY InvIsSound, FormsAssumption DEF Nodes, Ends, OrPlanStart
<1>2. /\ m \notin born /\ D \subseteq born \cup {PlanStart} /\ born' = born \cup {m}
      /\ m # PlanStart /\ Ask("CreateMilestone", m, D)
  BY <1>1, NodesAssumption DEF CreateMilestone
<1>0. request' \in Requests
  <2>1. "CreateMilestone" \in Kinds
    BY DEF Kinds
  <2>. QED BY <1>1, <1>2, <2>1, AskedIsARequest
<1>3. p \in Plans
  BY <1>1 DEF Sound, Plans
<1>4. /\ p.nodes = plan.nodes \cup {m}
      /\ p.deps = [plan.deps EXCEPT ![m] = OrPlanStart(D)]
      /\ p.workers = plan.workers /\ p.users = plan.users /\ p.tags = plan.tags
  BY <1>1 DEF Sound, Plans
<1>5. AcyclicGraph(p.deps)
  <2>1. m \notin OrPlanStart(D)
    BY <1>2 DEF OrPlanStart
  <2>2. \A n \in Ends : m \notin plan.deps[n]
    BY <1>1, <1>2 DEF Sound
  <2>3. plan.deps \in Graphs /\ AcyclicGraph(plan.deps)
    BY <1>1 DEF Sound, Plans, Graphs
  <2>. QED BY <1>1, <1>4, <2>1, <2>2, <2>3, NewNodeIsAcyclic
<1>6. AllTasksCompletable(p)
  BY <1>1, <1>4 DEF AllTasksCompletable, Satisfied
<1>7. Sound(p, born')
  <2>. HIDE DEF p
  <2>1. \A n \in Ends \ p.nodes : p.deps[n] = {}
    BY <1>1, <1>4 DEF Sound, Plans
  <2>2. \A n \in Ends : p.deps[n] \subseteq born' \cup {PlanStart}
    BY <1>1, <1>2, <1>4 DEF Sound, Plans, OrPlanStart
  <2>. QED BY <1>1, <1>2, <1>3, <1>4, <1>5, <2>1, <2>2 DEF Sound
<1>8. Recompute(p)
  BY DEF CreateMilestone
<1>9. Kept
  <2>. HIDE DEF p
  <2>. QED BY <1>6, <1>7, <1>8, RecomputedKeeps
<1>. QED BY <1>1, <1>2, <1>9, <1>0, KeptIsInv

(* apply_task_patch and apply_milestone_patch.                             *)
LEMMA PatchKeeps ==
    ASSUME Inv, NEW n \in Nodes, NEW D \in SUBSET Ends,
           D \subseteq born \cup {PlanStart}, UNCHANGED born,
           NEW W \in [Tasks -> SUBSET Slots],
           \A t \in Tasks \ plan.nodes : t # n => W[t] = {},
           PatchDeps(n, D, W)
    PROVE  Kept
<1>. DEFINE g == [plan.deps EXCEPT ![n] = D]
            p == [plan EXCEPT !.deps = Simplify([@ EXCEPT ![n] = D]), !.workers = W]
<1>1. Sound(plan, born) /\ n \in Ends
  BY InvIsSound DEF Ends
<1>2. CASE n \in plan.nodes /\ MakesNoCycle(plan.deps, n, D)
  <2>1. plan.deps \in Graphs /\ AcyclicGraph(plan.deps) /\ g \in Graphs
    BY <1>1 DEF Sound, Plans, Graphs
  <2>2. AcyclicGraph(g)
    BY <1>1, <1>2, <2>1, PatchIsAcyclic
  <2>3. Simplify(g) \in Graphs /\ AcyclicGraph(Simplify(g))
    BY <2>1, <2>2, SimplifyIsAcyclic
  <2>4. \A k \in Ends : Simplify(g)[k] \subseteq g[k]
    BY DEF Simplify
  <2>5. /\ p.nodes = plan.nodes /\ p.deps = Simplify(g) /\ p.workers = W
        /\ p \in Plans
    BY <1>1, <2>3 DEF Sound, Plans, Graphs
  <2>6. \A k \in Ends : g[k] = IF k = n THEN D ELSE plan.deps[k]
    BY <2>1 DEF Graphs
  <2>7. Sound(p, born)
    <3>. HIDE DEF g, p
    <3>1. \A k \in Ends \ p.nodes : p.deps[k] = {}
      BY <1>1, <1>2, <2>4, <2>5, <2>6 DEF Sound
    <3>2. \A k \in Ends : p.deps[k] \subseteq born \cup {PlanStart}
      BY <1>1, <2>4, <2>5, <2>6 DEF Sound
    <3>3. \A t \in Tasks \ p.nodes : p.workers[t] = {}
      BY <1>2, <2>5
    <3>. QED BY <1>1, <2>3, <2>5, <3>1, <3>2, <3>3 DEF Sound
  <2>8. ApplyValidated(p)
    BY <1>2 DEF PatchDeps
  <2>. QED BY <2>7, <2>8, ValidatedKeeps
<1>3. CASE ~ (n \in plan.nodes /\ MakesNoCycle(plan.deps, n, D))
  BY <1>3, RefusedKeeps DEF PatchDeps
<1>. QED BY <1>2, <1>3

(* UpdateTask: the patch of the workers concerns this task only.           *)
LEMMA UpdateTaskKeeps ==
    ASSUME Inv, NEW t \in Tasks, NEW D \in DepSets,
           NEW W \in SlotSets \cup {plan.workers[t]}, UpdateTask(t, D, W)
    PROVE  Inv'
<1>. DEFINE V == [plan.workers EXCEPT ![t] = W]
<1>1. /\ Sound(plan, born) /\ born \subseteq Nodes /\ t \in Nodes /\ t \in Ends
      /\ D \in SUBSET Ends /\ plan.workers \in [Tasks -> SUBSET Slots]
  BY InvIsSound, FormsAssumption DEF Nodes, Ends, Sound, Plans
<1>2. W \in SUBSET Slots
  BY <1>1, FormsAssumption
<1>3. /\ D \subseteq born \cup {PlanStart} /\ Ask("UpdateTask", t, D) /\ UNCHANGED born
  BY <1>1 DEF UpdateTask
<1>0. request' \in Requests
  <2>1. "UpdateTask" \in Kinds
    BY DEF Kinds
  <2>. QED BY <1>1, <1>3, <2>1, AskedIsARequest
<1>4. V \in [Tasks -> SUBSET Slots] /\ \A s \in Tasks \ plan.nodes : s # t => V[s] = {}
  BY <1>1, <1>2 DEF Sound
<1>5. PatchDeps(t, D, V) \/ Refuse
  BY DEF UpdateTask
<1>6. Kept
  BY <1>1, <1>3, <1>4, <1>5, PatchKeeps, RefusedKeeps
<1>. QED BY <1>1, <1>3, <1>6, <1>0, KeptIsInv

(* UpdateMilestone: a patch of the dependencies only.                      *)
LEMMA UpdateMilestoneKeeps ==
    ASSUME Inv, NEW m \in Milestones, NEW D \in DepSets, UpdateMilestone(m, D)
    PROVE  Inv'
<1>1. /\ Sound(plan, born) /\ born \subseteq Nodes /\ m \in Nodes /\ m \in Ends
      /\ D \in SUBSET Ends
  BY InvIsSound, FormsAssumption DEF Nodes, Ends
<1>2. /\ D \subseteq born \cup {PlanStart} /\ Ask("UpdateMilestone", m, D)
      /\ UNCHANGED born /\ PatchDeps(m, D, plan.workers)
  BY <1>1 DEF UpdateMilestone
<1>0. request' \in Requests
  <2>1. "UpdateMilestone" \in Kinds
    BY DEF Kinds
  <2>. QED BY <1>1, <1>2, <2>1, AskedIsARequest
<1>3. /\ plan.workers \in [Tasks -> SUBSET Slots]
      /\ \A t \in Tasks \ plan.nodes : t # m => plan.workers[t] = {}
  BY <1>1 DEF Sound, Plans
<1>4. Kept
  BY <1>1, <1>2, <1>3, PatchKeeps
<1>. QED BY <1>1, <1>2, <1>4, <1>0, KeptIsInv

(* DeleteTask and DeleteMilestone: dependents inherit, the workers go.     *)
LEMMA DeleteKeeps ==
    ASSUME Inv, NEW x \in Nodes, NEW kind \in Kinds, Delete(kind, x)
    PROVE  Inv'
<1>. DEFINE p == [plan EXCEPT
                    !.nodes = @ \ {x},
                    !.deps = Without(@, x),
                    !.workers = [t \in Tasks |-> IF t = x THEN {} ELSE @[t]],
                    !.target = IF @ = x THEN PlanStart ELSE @]
<1>1. Sound(plan, born) /\ born \subseteq Nodes /\ x \in Ends
  BY InvIsSound DEF Ends
<1>2. Ask(kind, x, {}) /\ UNCHANGED born
  BY DEF Delete
<1>3. request' \in Requests
  BY <1>1, <1>2, AskedIsARequest
<1>4. CASE x \in plan.nodes
  <2>1. plan.deps \in Graphs /\ AcyclicGraph(plan.deps)
    BY <1>1 DEF Sound, Plans, Graphs
  <2>2. Without(plan.deps, x) \in Graphs /\ AcyclicGraph(Without(plan.deps, x))
    BY <1>1, <2>1, WithoutIsAcyclic
  <2>3. /\ p.nodes = plan.nodes \ {x} /\ p.deps = Without(plan.deps, x)
        /\ p.workers = [t \in Tasks |-> IF t = x THEN {} ELSE plan.workers[t]]
        /\ p \in Plans
    BY <1>1, <2>2 DEF Sound, Plans, Graphs, Ends
  <2>4. \A n \in Ends : p.deps[n] = IF n = x THEN {}
                                     ELSE IF x \in plan.deps[n]
                                     THEN (plan.deps[n] \ {x}) \cup plan.deps[x]
                                     ELSE plan.deps[n]
    BY <2>3 DEF Without
  <2>5. Sound(p, born)
    <3>. HIDE DEF p
    <3>1. \A n \in Ends \ p.nodes : p.deps[n] = {}
      BY <1>1, <2>3, <2>4 DEF Sound
    <3>2. \A n \in Ends : p.deps[n] \subseteq born \cup {PlanStart}
      BY <1>1, <2>4 DEF Sound
    <3>3. \A t \in Tasks \ p.nodes : p.workers[t] = {}
      BY <1>1, <2>3 DEF Sound
    <3>. QED BY <1>1, <2>2, <2>3, <3>1, <3>2, <3>3 DEF Sound
  <2>6. ApplyValidated(p)
    BY <1>4 DEF Delete
  <2>. HIDE DEF p
  <2>7. Kept
    BY <1>2, <2>5, <2>6, ValidatedKeeps
  <2>. QED BY <1>1, <1>2, <1>3, <2>7, KeptIsInv
<1>5. CASE x \notin plan.nodes
  <2>1. Kept
    BY <1>2, <1>5, RefusedKeeps DEF Delete
  <2>. QED BY <1>1, <1>2, <1>3, <2>1, KeptIsInv
<1>. QED BY <1>4, <1>5

(* The requests about users and tags leave the dependencies alone.         *)
LEMMA StaffIsSound ==
    ASSUME Inv, NEW V \in SUBSET Users, NEW G \in [Users -> SUBSET Tags]
    PROVE  Sound([plan EXCEPT !.users = V, !.tags = G], born)
<1>. DEFINE p == [plan EXCEPT !.users = V, !.tags = G]
<1>1. Sound(plan, born)
  BY InvIsSound
<1>2. /\ p \in Plans /\ p.nodes = plan.nodes /\ p.deps = plan.deps
      /\ p.workers = plan.workers
  BY <1>1 DEF Sound, Plans
<1>. HIDE DEF p
<1>3. Sound(p, born)
  BY <1>1, <1>2 DEF Sound
<1>. QED BY <1>3 DEF p

(* PlanStart can be named like a node.                                     *)
LEMMA PlanStartIsAnEnd == PlanStart \in Ends
BY DEF Ends

(* CreateUser is not vetted: one more user takes nobody out of any slot.   *)
LEMMA CreateUserKeeps ==
    ASSUME Inv, NEW u \in Users, NEW T \in SUBSET Tags, CreateUser(u, T)
    PROVE  Inv'
<1>. DEFINE p == [plan EXCEPT !.users = @ \cup {u}, !.tags[u] = T]
<1>1. /\ Sound(plan, born) /\ AllTasksCompletable(plan) /\ born \subseteq Nodes
      /\ plan.users \subseteq Users /\ plan.tags \in [Users -> SUBSET Tags]
      /\ plan.workers \in [Tasks -> SUBSET Slots]
  BY InvIsSound DEF Sound, Plans
<1>2. /\ u \notin plan.users /\ UNCHANGED born /\ Ask("CreateUser", PlanStart, {})
      /\ plan' = p /\ answer' = "PlanUpdated"
  BY DEF CreateUser, Accept
<1>3. request' \in Requests
  BY <1>2, AskedIsARequest, PlanStartIsAnEnd DEF Kinds
<1>4. p = [plan EXCEPT !.users = plan.users \cup {u}, !.tags = [plan.tags EXCEPT ![u] = T]]
  BY <1>1 DEF Sound, Plans
<1>5. Sound(p, born)
  BY <1>1, <1>4, StaffIsSound
<1>6. AllTasksCompletable(p)
  <2>1. /\ p.workers = plan.workers /\ p.users = plan.users \cup {u}
        /\ p.tags = [plan.tags EXCEPT ![u] = T]
    BY <1>1 DEF Sound, Plans
  <2>2. \A v \in plan.users : v \in p.users /\ p.tags[v] = plan.tags[v]
    BY <1>1, <1>2, <2>1
  <2>. HIDE DEF p
  <2>. QED BY <1>1, <2>1, <2>2 DEF AllTasksCompletable, Satisfied
<1>. HIDE DEF p
<1>7. Kept
  BY <1>2, <1>5, <1>6 DEF Kept
<1>. QED BY <1>1, <1>2, <1>3, <1>7, KeptIsInv

(* UpdateUser: new tags, vetted.                                           *)
LEMMA UpdateUserKeeps ==
    ASSUME Inv, NEW u \in Users, NEW T \in SUBSET Tags, UpdateUser(u, T)
    PROVE  Inv'
<1>. DEFINE p == [plan EXCEPT !.tags[u] = T]
<1>1. /\ Sound(plan, born) /\ born \subseteq Nodes
      /\ plan.users \subseteq Users /\ plan.tags \in [Users -> SUBSET Tags]
  BY InvIsSound DEF Sound, Plans
<1>2. UNCHANGED born /\ Ask("UpdateUser", PlanStart, {}) /\ (ApplyValidated(p) \/ Refuse)
  BY DEF UpdateUser
<1>3. request' \in Requests
  BY <1>2, AskedIsARequest, PlanStartIsAnEnd DEF Kinds
<1>4. p = [plan EXCEPT !.users = plan.users, !.tags = [plan.tags EXCEPT ![u] = T]]
  BY <1>1 DEF Sound, Plans
<1>5. Sound(p, born)
  BY <1>1, <1>4, StaffIsSound
<1>. HIDE DEF p
<1>6. Kept
  BY <1>2, <1>5, ValidatedKeeps, RefusedKeeps
<1>. QED BY <1>1, <1>2, <1>3, <1>6, KeptIsInv

(* DeleteUser: vetted, or put back.                                        *)
LEMMA DeleteUserKeeps ==
    ASSUME Inv, NEW u \in Users, DeleteUser(u)
    PROVE  Inv'
<1>. DEFINE p == [plan EXCEPT !.users = @ \ {u}, !.tags[u] = {}]
<1>1. /\ Sound(plan, born) /\ born \subseteq Nodes
      /\ plan.users \subseteq Users /\ plan.tags \in [Users -> SUBSET Tags]
  BY InvIsSound DEF Sound, Plans
<1>2. UNCHANGED born /\ Ask("DeleteUser", PlanStart, {}) /\ (ApplyValidated(p) \/ Refuse)
  BY DEF DeleteUser
<1>3. request' \in Requests
  BY <1>2, AskedIsARequest, PlanStartIsAnEnd DEF Kinds
<1>4. p = [plan EXCEPT !.users = plan.users \ {u}, !.tags = [plan.tags EXCEPT ![u] = {}]]
  BY <1>1 DEF Sound, Plans
<1>5. Sound(p, born)
  BY <1>1, <1>4, StaffIsSound
<1>. HIDE DEF p
<1>6. Kept
  BY <1>2, <1>5, ValidatedKeeps, RefusedKeeps
<1>. QED BY <1>1, <1>2, <1>3, <1>6, KeptIsInv

(* remove_tag is not vetted; whoever could fill a slot still can, since    *)
(* the slot asks for the tag no more.                                      *)
LEMMA DeleteTagKeeps ==
    ASSUME Inv, NEW tag \in Tags, DeleteTag(tag)
    PROVE  Inv'
<1>. DEFINE Strip(slot) == IF slot.kind = "Placeholder"
                           THEN [slot EXCEPT !.tags = @ \ {tag}] ELSE slot
            G == [u \in Users |-> plan.tags[u] \ {tag}]
            W == [t \in Tasks |-> {Strip(w) : w \in plan.workers[t]}]
            p == [plan EXCEPT !.tags = G, !.workers = W]
<1>1. /\ Sound(plan, born) /\ AllTasksCompletable(plan) /\ born \subseteq Nodes
      /\ plan.users \subseteq Users /\ plan.tags \in [Users -> SUBSET Tags]
      /\ plan.workers \in [Tasks -> SUBSET Slots]
  BY InvIsSound DEF Sound, Plans
<1>2. /\ UNCHANGED born /\ Ask("DeleteTag", PlanStart, {})
      /\ plan' = p /\ answer' = "PlanUpdated"
  BY DEF DeleteTag, Accept
<1>3. request' \in Requests
  BY <1>2, AskedIsARequest, PlanStartIsAnEnd DEF Kinds
<1>4. \A slot \in Slots :
         /\ Strip(slot) \in Slots /\ Strip(slot).kind = slot.kind
         /\ slot.kind = "Placeholder" => Strip(slot).tags = slot.tags \ {tag}
  BY DEF Slots
<1>. HIDE DEF Strip
<1>5. W \in [Tasks -> SUBSET Slots] /\ G \in [Users -> SUBSET Tags]
  BY <1>1, <1>4
<1>. HIDE DEF G
<1>6. /\ p \in Plans /\ p.nodes = plan.nodes /\ p.deps = plan.deps
      /\ p.workers = W /\ p.users = plan.users /\ p.tags = G
  <2>. HIDE DEF W
  <2>. QED BY <1>1, <1>5 DEF Sound, Plans
<1>. HIDE DEF p
<1>7. Sound(p, born)
  <2>1. \A t \in Tasks \ p.nodes : p.workers[t] = {}
    BY <1>1, <1>6 DEF Sound
  <2>. QED BY <1>1, <1>6, <2>1 DEF Sound
<1>8. AllTasksCompletable(p)
  <2>. SUFFICES ASSUME NEW t \in Tasks, NEW slot \in p.workers[t],
                       slot.kind = "Placeholder"
                PROVE  Satisfied(p, slot)
    BY DEF AllTasksCompletable
  <2>1. PICK w \in plan.workers[t] : slot = Strip(w)
    BY <1>6
  <2>2. w \in Slots /\ w.kind = "Placeholder" /\ slot.tags = w.tags \ {tag}
    BY <1>1, <1>4, <2>1
  <2>3. PICK u \in plan.users : w.tags \subseteq plan.tags[u]
    BY <1>1, <2>2 DEF AllTasksCompletable, Satisfied
  <2>4. G[u] = plan.tags[u] \ {tag}
    BY <1>1, <2>3 DEF G
  <2>. QED BY <1>6, <2>2, <2>3, <2>4 DEF Satisfied
<1>9. Kept
  BY <1>2, <1>7, <1>8 DEF Kept
<1>. QED BY <1>1, <1>2, <1>3, <1>9, KeptIsInv

(* UpdatePlanSettings moves the target, which the graph does not depend    *)
(* on.                                                                     *)
LEMMA UpdatePlanSettingsKeeps ==
    ASSUME Inv, NEW node \in Targets, UpdatePlanSettings(node)
    PROVE  Inv'
<1>. DEFINE p == [plan EXCEPT !.target = node]
<1>1. /\ Sound(plan, born) /\ AllTasksCompletable(plan) /\ born \subseteq Nodes
      /\ node \in Ends
  BY InvIsSound, FormsAssumption
<1>2. UNCHANGED born /\ Ask("UpdatePlanSettings", node, {}) /\ Recompute(p)
  BY DEF UpdatePlanSettings
<1>3. request' \in Requests
  BY <1>1, <1>2, AskedIsARequest DEF Kinds
<1>4. /\ p \in Plans /\ p.nodes = plan.nodes /\ p.deps = plan.deps
      /\ p.workers = plan.workers /\ p.users = plan.users /\ p.tags = plan.tags
  BY <1>1 DEF Sound, Plans
<1>. HIDE DEF p
<1>5. Sound(p, born') /\ AllTasksCompletable(p)
  BY <1>1, <1>2, <1>4 DEF Sound, AllTasksCompletable, Satisfied
<1>6. Kept
  BY <1>2, <1>5, RecomputedKeeps
<1>. QED BY <1>1, <1>2, <1>3, <1>6, KeptIsInv

-----------------------------------------------------------------------------
(* A new plan has the invariant.                                           *)
LEMMA InitIsInv == Init => Inv
<1>. SUFFICES ASSUME Init PROVE Inv
  OBVIOUS
<1>1. plan \in Plans /\ Grounded
  BY DEF Init, Plans, Grounded, Ends
<1>2. request \in [kind : Kinds, node : Ends, deps : SUBSET Ends]
  BY DEF Init, Kinds, Ends
<1>3. Acyclic
  BY DEF Init, Acyclic, AcyclicGraph
<1>4. Staffed
  BY DEF Init, Staffed, AllTasksCompletable
<1>. QED BY <1>1, <1>2, <1>3, <1>4 DEF Init, Inv, TypeOK

(* Every request keeps it, case by case.                                   *)
LEMMA StepKeepsInv == Inv /\ [Next]_vars => Inv'
<1>. SUFFICES ASSUME Inv, [Next]_vars PROVE Inv'
  OBVIOUS
<1>1. ASSUME NEW t \in Tasks, NEW D \in DepSets, NEW W \in SlotSets, CreateTask(t, D, W)
      PROVE  Inv'
  BY <1>1, CreateTaskKeeps
<1>2. ASSUME NEW m \in Milestones, NEW D \in DepSets, CreateMilestone(m, D)
      PROVE  Inv'
  BY <1>2, CreateMilestoneKeeps
<1>3. ASSUME NEW t \in Tasks, NEW D \in DepSets,
             NEW W \in SlotSets \cup {plan.workers[t]}, UpdateTask(t, D, W)
      PROVE  Inv'
  BY <1>3, UpdateTaskKeeps
<1>4. ASSUME NEW m \in Milestones, NEW D \in DepSets, UpdateMilestone(m, D)
      PROVE  Inv'
  BY <1>4, UpdateMilestoneKeeps
<1>5. ASSUME NEW t \in Tasks, DeleteTask(t) PROVE Inv'
  <2>1. "DeleteTask" \in Kinds /\ t \in Nodes
    BY DEF Kinds, Nodes
  <2>. QED BY <1>5, <2>1, DeleteKeeps DEF DeleteTask
<1>6. ASSUME NEW m \in Milestones, DeleteMilestone(m) PROVE Inv'
  <2>1. "DeleteMilestone" \in Kinds /\ m \in Nodes
    BY DEF Kinds, Nodes
  <2>. QED BY <1>6, <2>1, DeleteKeeps DEF DeleteMilestone
<1>7. ASSUME NEW u \in Users, NEW T \in SUBSET Tags, CreateUser(u, T) PROVE Inv'
  BY <1>7, CreateUserKeeps
<1>8. ASSUME NEW u \in Users, NEW T \in SUBSET Tags, UpdateUser(u, T) PROVE Inv'
  BY <1>8, UpdateUserKeeps
<1>9. ASSUME NEW u \in Users, DeleteUser(u) PROVE Inv'
  BY <1>9, DeleteUserKeeps
<1>10. ASSUME NEW tag \in Tags, DeleteTag(tag) PROVE Inv'
  BY <1>10, DeleteTagKeeps
<1>11. ASSUME NEW node \in Targets, UpdatePlanSettings(node) PROVE Inv'
  BY <1>11, UpdatePlanSettingsKeeps
<1>12. CASE UNCHANGED vars
  BY <1>12 DEF vars, Inv, TypeOK, Grounded, Acyclic, Staffed
<1>. QED BY <1>1, <1>2, <1>3, <1>4, <1>5, <1>6, <1>7, <1>8, <1>9, <1>10, <1>11, <1>12
        DEF Next

(* The plan keeps its type, and its dependencies name nothing that is yet  *)
(* to be created.                                                          *)
THEOREM TypeCorrect == Spec => []TypeOK
<1>1. Inv => TypeOK
  BY DEF Inv
<1>. QED BY InitIsInv, StepKeepsInv, <1>1, PTL DEF Spec

(* No sequence of creations, patches and deletions, accepted or refused by *)
(* the scheduler, makes the dependencies of a plan cyclic.                 *)
THEOREM NeverCyclic == Spec => []Acyclic
<1>1. Inv => Acyclic
  BY DEF Inv
<1>. QED BY InitIsInv, StepKeepsInv, <1>1, PTL DEF Spec

(* Users and tags come and go, and every open slot of every task still has *)
(* a user who could fill it.                                               *)
THEOREM AlwaysStaffed == Spec => []Staffed
<1>1. Inv => Staffed
  BY DEF Inv
<1>. QED BY InitIsInv, StepKeepsInv, <1>1, PTL DEF Spec

-----------------------------------------------------------------------------
(* Reachability, without paths.                                            *)

(* A node reaches itself, what it depends on, and what those reach.        *)
LEMMA Reaching ==
    ASSUME NEW g \in Graphs, NEW a \in Ends
    PROVE  /\ DependsOn(g, a, a)
           /\ \A d \in g[a] : DependsOn(g, a, d)
           /\ \A b, c \in Ends : DependsOn(g, a, b) /\ DependsOn(g, b, c) => DependsOn(g, a, c)
           /\ \A d \in g[a], c \in Ends : DependsOn(g, d, c) => DependsOn(g, a, c)
BY DEF DependsOn, Closed, Graphs

(* What a node reaches beyond itself it reaches through a dependency.      *)
LEMMA FirstStep ==
    ASSUME NEW g \in Graphs, NEW a \in Ends, NEW b \in Ends, DependsOn(g, a, b), a # b
    PROVE  \E d \in g[a] : DependsOn(g, d, b)
<1>. DEFINE S == {a} \cup {k \in Ends : \E d \in g[a] : DependsOn(g, d, k)}
<1>1. S \in SUBSET Ends /\ a \in S
  OBVIOUS
<1>2. ASSUME NEW n \in S, NEW k \in g[n] PROVE k \in S
  <2>1. k \in Ends /\ n \in Ends
    BY DEF Graphs
  <2>2. CASE n = a
    <3>1. DependsOn(g, k, k)
      BY <2>1, Reaching
    <3>. QED BY <2>1, <2>2, <3>1
  <2>3. CASE n # a
    <3>1. PICK d \in g[a] : DependsOn(g, d, n)
      BY <2>3
    <3>2. d \in Ends /\ DependsOn(g, n, k)
      BY <2>1, Reaching DEF Graphs
    <3>3. DependsOn(g, d, k)
      BY <2>1, <3>1, <3>2, Reaching
    <3>. QED BY <2>1, <3>3
  <2>. QED BY <2>2, <2>3
<1>3. Closed(g, S)
  BY <1>2 DEF Closed
<1>. HIDE DEF S
<1>4. b \in S
  BY <1>1, <1>3 DEF DependsOn
<1>. QED BY <1>4 DEF S

(* Fewer dependencies reach no more.                                       *)
LEMMA FewerReach ==
    ASSUME NEW g \in Graphs, NEW h, \A n \in Ends : h[n] \subseteq g[n],
           NEW a, NEW b, DependsOn(h, a, b)
    PROVE  DependsOn(g, a, b)
BY DEF DependsOn, Closed

(* In an acyclic graph two nodes do not wait for each other.               *)
LEMMA NotEachOther ==
    ASSUME NEW g \in Graphs, AcyclicGraph(g), NEW a \in Ends, NEW b \in Ends,
           DependsOn(g, a, b), DependsOn(g, b, a)
    PROVE  a = b
<1>. SUFFICES ASSUME a # b PROVE FALSE
  OBVIOUS
<1>. DEFINE U == {n \in Ends : DependsOn(g, a, n) /\ DependsOn(g, n, a)}
<1>1. a \in U /\ b \in U
  BY Reaching
<1>2. PICK n \in U : g[n] \cap U = {}
  BY <1>1 DEF AcyclicGraph
<1>3. PICK c \in {a, b} : c # n
  OBVIOUS
<1>4. DependsOn(g, n, c) /\ DependsOn(g, c, a)
  BY <1>2, Reaching
<1>5. PICK d \in g[n] : DependsOn(g, d, c)
  BY <1>3, <1>4, FirstStep
<1>6. d \in Ends
  BY <1>2 DEF Graphs
<1>7. DependsOn(g, a, d) /\ DependsOn(g, d, a)
  BY <1>1, <1>2, <1>4, <1>5, <1>6, Reaching
<1>. QED BY <1>2, <1>6, <1>7

(* Deletion keeps the order of all the other nodes.                        *)
LEMMA WithoutKeepsOrder ==
    ASSUME NEW g \in Graphs, NEW x \in Ends,
           NEW a \in Ends \ {x}, NEW b \in Ends \ {x}
    PROVE  DependsOn(Without(g, x), a, b) <=> DependsOn(g, a, b)
<1>. DEFINE h == Without(g, x)
<1>1. h[x] = {}
  BY DEF Without
<1>2. \A n \in Ends \ {x} : h[n] = IF x \in g[n] THEN (g[n] \ {x}) \cup g[x] ELSE g[n]
  BY DEF Without
<1>. HIDE DEF h
<1>3. ASSUME DependsOn(h, a, b) PROVE DependsOn(g, a, b)
  <2>. SUFFICES ASSUME NEW S \in SUBSET Ends, a \in S, Closed(g, S) PROVE b \in S
    BY DEF DependsOn
  <2>1. Closed(h, S)
    BY <1>1, <1>2 DEF Closed
  <2>. QED BY <1>3, <2>1 DEF DependsOn
<1>4. ASSUME DependsOn(g, a, b) PROVE DependsOn(h, a, b)
  <2>. SUFFICES ASSUME NEW S \in SUBSET Ends, a \in S, Closed(h, S) PROVE b \in S
    BY DEF DependsOn
  <2>1. CASE \E n \in S \ {x} : x \in g[n]
    <3>1. g[x] \subseteq S
      BY <1>2, <2>1 DEF Closed
    <3>2. Closed(g, S \cup {x})
      BY <1>2, <3>1 DEF Closed
    <3>3. S \cup {x} \in SUBSET Ends
      OBVIOUS
    <3>. QED BY <1>4, <3>2, <3>3 DEF DependsOn
  <2>2. CASE \A n \in S \ {x} : x \notin g[n]
    <3>1. Closed(g, S \ {x})
      BY <1>2, <2>2 DEF Closed
    <3>2. S \ {x} \in SUBSET Ends
      OBVIOUS
    <3>. QED BY <1>4, <3>1, <3>2 DEF DependsOn
  <2>. QED BY <2>1, <2>2
<1>. QED BY <1>3, <1>4 DEF h

(* Numbers that are there have a least one.                                *)
LEMMA LeastNumber ==
    ASSUME NEW T \in SUBSET Nat, T # {}
    PROVE  \E m \in T : \A k \in T : m <= k
<1>1. \E x \in T : \A y \in T : ~ (<<y, x>> \in OpToRel(<, Nat))
  BY NatLessThanWellFounded, WFMin
<1>2. PICK m \in T : \A k \in T : ~ (<<k, m>> \in OpToRel(<, Nat))
  BY <1>1
<1>3. \A k \in T : ~ (k < m)
  BY <1>2 DEF OpToRel
<1>. QED BY <1>3

(* Among finitely many nodes of an acyclic graph one is reached by no      *)
(* other of them: the one that the fewest of them reach.                   *)
LEMMA Outermost ==
    ASSUME NEW g \in Graphs, AcyclicGraph(g),
           NEW J \in SUBSET Ends, IsFiniteSet(J), J # {}
    PROVE  \E j \in J : \A k \in J \ {j} : ~ DependsOn(g, k, j)
<1>. DEFINE Above(j) == {k \in J : DependsOn(g, k, j)}
            T == {Cardinality(Above(j)) : j \in J}
<1>1. \A j \in J : IsFiniteSet(Above(j)) /\ Cardinality(Above(j)) \in Nat
  BY FS_Subset, FS_CardinalityType
<1>2. T \in SUBSET Nat /\ T # {}
  BY <1>1
<1>3. PICK m \in T : \A k \in T : m <= k
  <2>. HIDE DEF T
  <2>. QED BY <1>2, LeastNumber
<1>4. PICK j \in J : m = Cardinality(Above(j))
  OBVIOUS
<1>5. ASSUME NEW k \in J \ {j}, DependsOn(g, k, j) PROVE FALSE
  <2>1. Above(k) \subseteq Above(j)
    BY <1>5, Reaching
  <2>2. j \in Above(j) /\ j \notin Above(k)
    BY <1>5, Reaching, NotEachOther
  <2>. HIDE DEF Above
  <2>3. Cardinality(Above(k)) < Cardinality(Above(j))
    <3>1. /\ Cardinality(Above(k)) <= Cardinality(Above(j))
          /\ Cardinality(Above(k)) = Cardinality(Above(j)) => Above(k) = Above(j)
      BY <1>1, <2>1, FS_Subset
    <3>. QED BY <1>1, <2>2, <3>1
  <2>4. m <= Cardinality(Above(k))
    BY <1>3
  <2>. QED BY <1>1, <1>4, <2>3, <2>4
<1>. QED BY <1>5

(* Graphs in which no node has infinitely many dependencies.               *)
Finite(g) == \A n \in Ends : IsFiniteSet(g[n])

(* Simplification keeps the order: of the dependencies that imply a given  *)
(* one, some are implied by no other, and those stay.                      *)
LEMMA SimplifyKeepsOrder ==
    ASSUME NEW g \in Graphs, AcyclicGraph(g), Finite(g),
           NEW a \in Ends, NEW b \in Ends
    PROVE  DependsOn(Simplify(g), a, b) <=> DependsOn(g, a, b)
<1>. DEFINE h == Simplify(g)
            U == {n \in Ends : \E m \in Ends : DependsOn(g, n, m) /\ ~ DependsOn(h, n, m)}
<1>1. /\ h \in Graphs
      /\ \A n \in Ends : h[n] \subseteq g[n]
      /\ \A n \in Ends : \A d \in g[n] \ h[n] : Redundant(g, n, d)
      /\ \A n \in Ends : \A d \in g[n] : ~ Redundant(g, n, d) => d \in h[n]
  BY DEF Simplify, Graphs
<1>. HIDE DEF h
<1>2. ASSUME NEW n \in U, g[n] \cap U = {} PROVE FALSE
  <2>1. PICK m \in Ends : DependsOn(g, n, m) /\ ~ DependsOn(h, n, m)
    OBVIOUS
  <2>2. n # m
    BY <1>1, <2>1, Reaching
  <2>3. PICK d \in g[n] : DependsOn(g, d, m)
    BY <2>1, <2>2, FirstStep
  <2>. DEFINE J == {j \in g[n] : DependsOn(g, j, d)}
  <2>4. d \in Ends /\ d \in J /\ J \in SUBSET Ends
    BY Reaching DEF Graphs
  <2>5. IsFiniteSet(J)
    BY FS_Subset DEF Finite
  <2>6. PICK j \in J : \A k \in J \ {j} : ~ DependsOn(g, k, j)
    <3>. HIDE DEF J
    <3>. QED BY <2>4, <2>5, Outermost
  <2>7. j \in g[n] /\ j \in Ends /\ DependsOn(g, j, m)
    BY <2>3, <2>4, <2>6, Reaching
  <2>8. ~ Redundant(g, n, j)
    <3>. SUFFICES ASSUME NEW k \in g[n] \ {j}, DependsOn(g, k, j) PROVE FALSE
      BY DEF Redundant
    <3>1. DependsOn(g, k, d)
      BY <2>4, <2>6, <2>7, Reaching DEF Graphs
    <3>. QED BY <2>6, <3>1
  <2>9. DependsOn(h, j, m)
    BY <1>2, <2>1, <2>7
  <2>10. DependsOn(h, n, m)
    BY <1>1, <2>1, <2>7, <2>8, <2>9, Reaching
  <2>. QED BY <2>1, <2>10
<1>3. U = {}
  <2>1. U \in SUBSET Ends
    OBVIOUS
  <2>. HIDE DEF U
  <2>. QED BY <1>2, <2>1 DEF AcyclicGraph
<1>4. DependsOn(h, a, b) => DependsOn(g, a, b)
  BY <1>1, FewerReach
<1>5. DependsOn(g, a, b) => DependsOn(h, a, b)
  BY <1>3
<1>. QED BY <1>4, <1>5 DEF h

(* What simplification leaves is implied by nothing else that it leaves.   *)
LEMMA SimplifyLeavesNone ==
    ASSUME NEW g \in Graphs, NEW n \in Ends, NEW d \in Simplify(g)[n]
    PROVE  ~ Redundant(Simplify(g), n, d)
<1>1. \A k \in Ends : Simplify(g)[k] \subseteq g[k]
  BY DEF Simplify
<1>2. ~ Redundant(g, n, d)
  BY DEF Simplify
<1>. QED BY <1>1, <1>2, FewerReach DEF Redundant

(* Some nodes of g simplified, the others not yet.                         *)
Between(g, h) == /\ h \in Graphs
                 /\ \A n \in Ends : h[n] \in {g[n], Simplify(g)[n]}

(* Half-way through the simplification the order is what it was.           *)
LEMMA BetweenKeepsOrder ==
    ASSUME NEW g \in Graphs, AcyclicGraph(g), Finite(g), NEW h, Between(g, h),
           NEW a \in Ends, NEW b \in Ends
    PROVE  DependsOn(h, a, b) <=> DependsOn(g, a, b)
<1>1. \A n \in Ends : Simplify(g)[n] \subseteq g[n]
  BY DEF Simplify
<1>2. \A n \in Ends : h[n] \subseteq g[n] /\ Simplify(g)[n] \subseteq h[n]
  BY <1>1 DEF Between
<1>3. DependsOn(h, a, b) => DependsOn(g, a, b)
  BY <1>2, FewerReach
<1>4. DependsOn(Simplify(g), a, b) => DependsOn(h, a, b)
  BY <1>2, FewerReach DEF Between
<1>. QED BY <1>3, <1>4, SimplifyKeepsOrder

(* The code simplifies node by node, in the order of a hash map, and each  *)
(* node by the graph that the ones before have left.  Each of these steps  *)
(* gives the node the dependencies that simplifying all nodes at once      *)
(* gives it, and leaves the other nodes alone: the order does not matter.  *)
THEOREM OneNodeAtATime ==
    ASSUME NEW g \in Graphs, AcyclicGraph(g), Finite(g), NEW h, Between(g, h),
           NEW n \in Ends
    PROVE  /\ SimplifyNode(h, n) = [h EXCEPT ![n] = Simplify(g)[n]]
           /\ Between(g, SimplifyNode(h, n))
<1>1. \A d \in h[n] : Redundant(h, n, d) <=> \E j \in h[n] \ {d} : DependsOn(g, j, d)
  BY BetweenKeepsOrder DEF Redundant, Between, Graphs
<1>2. {d \in h[n] : ~ Redundant(h, n, d)} = Simplify(g)[n]
  <2>1. CASE h[n] = g[n]
    BY <1>1, <2>1 DEF Simplify, Redundant
  <2>2. CASE h[n] = Simplify(g)[n]
    <3>1. h[n] \subseteq g[n]
      BY <2>2 DEF Simplify
    <3>2. \A d \in h[n] : ~ Redundant(g, n, d)
      BY <2>2 DEF Simplify
    <3>. QED BY <1>1, <2>2, <3>1, <3>2 DEF Redundant
  <2>. QED BY <2>1, <2>2 DEF Between
<1>3. SimplifyNode(h, n) = [h EXCEPT ![n] = Simplify(g)[n]]
  BY <1>2 DEF SimplifyNode
<1>4. Simplify(g)[n] \in SUBSET Ends
  BY DEF Simplify, Graphs
<1>. QED BY <1>3, <1>4 DEF Between, Graphs

(* A set of positions has a last one.                                      *)
LEMMA LastPosition ==
    ASSUME NEW k \in Nat, NEW S \in SUBSET (1 .. k), S # {}
    PROVE  Max(S) \in S
<1>. DEFINE T == {k - i : i \in S}
<1>1. T \in SUBSET Nat /\ T # {}
  <2>1. \A i \in S : k - i \in Nat
    OBVIOUS
  <2>2. PICK i \in S : TRUE
    OBVIOUS
  <2>3. k - i \in T
    BY <2>2
  <2>. QED BY <2>1, <2>3
<1>2. PICK m \in T : \A n \in T : m <= n
  <2>. HIDE DEF T
  <2>. QED BY <1>1, LeastNumber
<1>3. PICK i \in S : m = k - i
  OBVIOUS
<1>4. \A j \in S : i >= j
  <2>. SUFFICES ASSUME NEW j \in S PROVE i >= j
    OBVIOUS
  <2>1. m <= k - j
    BY <1>2
  <2>. QED BY <1>3, <2>1
<1>. QED BY <1>4 DEF Max

(* The fold that simplifies the nodes of an order one after the other: it  *)
(* has simplified exactly those of the order.  The function that FoldLeft  *)
(* takes is the only one that satisfies its equation.                      *)
LEMMA FoldSimplifies ==
    ASSUME NEW g \in Graphs, AcyclicGraph(g), Finite(g),
           NEW k \in Nat, NEW order \in [1 .. k -> Ends]
    PROVE  FoldLeft(SimplifyNode, g, order)
              = [n \in Ends |-> IF \E i \in 1 .. k : order[i] = n THEN Simplify(g)[n]
                                                                  ELSE g[n]]
<1>. DEFINE Done(S) == [n \in Ends |-> IF \E i \in S : order[i] = n THEN Simplify(g)[n]
                                                                    ELSE g[n]]
            Round(it) == [S \in SUBSET DOMAIN order |->
                            IF S = {} THEN g
                            ELSE SimplifyNode(it[S \ {Max(S)}], order[Max(S)])]
            all == [S \in SUBSET (1 .. k) |-> Done(S)]
<1>1. FoldLeft(SimplifyNode, g, order) = (CHOOSE it : it = Round(it))[DOMAIN order]
  BY DEF FoldLeft, MapThenFoldSet
<1>2. DOMAIN order = 1 .. k
  OBVIOUS
<1>3. ASSUME NEW S \in SUBSET (1 .. k), S # {}
      PROVE  /\ Max(S) \in S /\ S \ {Max(S)} \in SUBSET (1 .. k)
             /\ SimplifyNode(Done(S \ {Max(S)}), order[Max(S)]) = Done(S)
  <2>. DEFINE x == Max(S)
              h == Done(S \ {x})
  <2>1. x \in S
    BY <1>3, LastPosition
  <2>. HIDE DEF x
  <2>2. order[x] \in Ends
    BY <2>1
  <2>3. Simplify(g) \in Graphs
    BY SimplifyIsAcyclic
  <2>4. Between(g, h)
    BY <2>3 DEF Between, Graphs
  <2>5. SimplifyNode(h, order[x]) = [h EXCEPT ![order[x]] = Simplify(g)[order[x]]]
    <3>. HIDE DEF h
    <3>. QED BY <2>2, <2>4, OneNodeAtATime
  <2>6. [h EXCEPT ![order[x]] = Simplify(g)[order[x]]] = Done(S)
    BY <2>1
  <2>. QED BY <2>1, <2>5, <2>6 DEF x
<1>4. Done({}) = g
  BY DEF Graphs
<1>5. all = Round(all)
  <2>1. ASSUME NEW S \in SUBSET (1 .. k)
        PROVE  Done(S) = IF S = {} THEN g
                         ELSE SimplifyNode(all[S \ {Max(S)}], order[Max(S)])
    <3>1. CASE S = {}
      BY <1>4, <3>1
    <3>2. CASE S # {}
      <4>1. all[S \ {Max(S)}] = Done(S \ {Max(S)})
        BY <1>3, <3>2
      <4>. QED BY <1>3, <3>2, <4>1
    <3>. QED BY <3>1, <3>2
  <2>. QED BY <1>2, <2>1
<1>6. ASSUME NEW it, it = Round(it), NEW S \in SUBSET (1 .. k)
      PROVE  it[S] = Done(S)
  <2>. DEFINE Wrong == {R \in SUBSET (1 .. k) : it[R] # Done(R)}
              T == {Cardinality(R) : R \in Wrong}
  <2>. SUFFICES ASSUME Wrong # {} PROVE FALSE
    OBVIOUS
  <2>1. \A R \in SUBSET (1 .. k) : IsFiniteSet(R) /\ Cardinality(R) \in Nat
    <3>1. IsFiniteSet(1 .. k)
      BY FS_Interval
    <3>. QED BY <3>1, FS_Subset, FS_CardinalityType
  <2>2. T \in SUBSET Nat /\ T # {}
    BY <2>1, ZenonT(40)
  <2>3. PICK m \in T : \A n \in T : m <= n
    <3>. HIDE DEF T
    <3>. QED BY <2>2, LeastNumber
  <2>4. PICK R \in Wrong : m = Cardinality(R)
    OBVIOUS
  <2>5. it[R] = IF R = {} THEN g ELSE SimplifyNode(it[R \ {Max(R)}], order[Max(R)])
    BY <1>2, <1>6
  <2>6. R # {}
    BY <1>4, <2>4, <2>5
  <2>7. Max(R) \in R /\ R \ {Max(R)} \in SUBSET (1 .. k)
    BY <1>3, <2>6
  <2>8. Cardinality(R \ {Max(R)}) = Cardinality(R) - 1
    BY <2>1, <2>7, FS_RemoveElement
  <2>9. R \ {Max(R)} \notin Wrong
    <3>1. ~ (m <= Cardinality(R \ {Max(R)}))
      BY <2>1, <2>4, <2>8
    <3>. QED BY <2>3, <3>1
  <2>10. it[R] = Done(R)
    BY <1>3, <2>5, <2>6, <2>7, <2>9
  <2>. QED BY <2>4, <2>10
<1>. HIDE DEF Round, Done, all
<1>7. (CHOOSE it : it = Round(it)) = Round(CHOOSE it : it = Round(it))
  BY <1>5
<1>8. (CHOOSE it : it = Round(it))[1 .. k] = Done(1 .. k)
  BY <1>6, <1>7
<1>. QED BY <1>1, <1>2, <1>8 DEF Done

-----------------------------------------------------------------------------
(* The order of the nodes, request by request.                             *)

(* The plan of the engine is finite: every node was created by a request.  *)
FInv == Inv /\ IsFiniteSet(born)

(* A step creates one node at most.                                        *)
LEMMA StepKeepsFinite == FInv /\ [Next]_vars => FInv'
<1>. SUFFICES ASSUME FInv, [Next]_vars PROVE FInv'
  OBVIOUS
<1>1. \/ UNCHANGED born
      \/ \E x \in Nodes : born' = born \cup {x}
  BY DEF Next, vars, CreateTask, CreateMilestone, UpdateTask, UpdateMilestone,
         DeleteTask, DeleteMilestone, Delete, CreateUser, UpdateUser, DeleteUser,
         DeleteTag, UpdatePlanSettings, Nodes
<1>2. IsFiniteSet(born')
  BY <1>1, FS_AddElement DEF FInv
<1>. QED BY <1>2, StepKeepsInv DEF FInv

(* The empty plan has none.                                                *)
LEMMA InitIsFinite == Init => FInv
BY InitIsInv, FS_EmptySet DEF Init, FInv

(* So are the dependencies that a form may ask for.                        *)
LEMMA FiniteGraph ==
    ASSUME FInv, NEW n \in Ends, NEW D \in SUBSET (born \cup {PlanStart})
    PROVE  /\ plan.deps \in Graphs /\ AcyclicGraph(plan.deps)
           /\ [plan.deps EXCEPT ![n] = D] \in Graphs
           /\ Finite([plan.deps EXCEPT ![n] = D])
<1>1. Sound(plan, born) /\ born \subseteq Nodes
  BY InvIsSound DEF FInv
<1>2. plan.deps \in Graphs /\ AcyclicGraph(plan.deps)
  BY <1>1 DEF Sound, Plans, Graphs
<1>3. D \in SUBSET Ends
  BY <1>1 DEF Ends
<1>4. [plan.deps EXCEPT ![n] = D] \in Graphs
  BY <1>2, <1>3 DEF Graphs
<1>5. IsFiniteSet(born \cup {PlanStart})
  BY FS_AddElement DEF FInv
<1>6. \A k \in Ends : [plan.deps EXCEPT ![n] = D][k] \subseteq born \cup {PlanStart}
  BY <1>1, <1>2 DEF Sound, Graphs
<1>. QED BY <1>2, <1>4, <1>5, <1>6, FS_Subset DEF Finite

(* A deletion, accepted or not.                                            *)
LEMMA DeleteKeepsOrder ==
    ASSUME Inv, NEW kind, NEW x \in Nodes, Delete(kind, x),
           NEW a \in plan'.nodes \cup {PlanStart}, NEW b \in plan'.nodes \cup {PlanStart}
    PROVE  DependsOn(plan'.deps, a, b) <=> DependsOn(plan.deps, a, b)
<1>. DEFINE p == [plan EXCEPT
                    !.nodes = @ \ {x},
                    !.deps = Without(@, x),
                    !.workers = [t \in Tasks |-> IF t = x THEN {} ELSE @[t]],
                    !.target = IF @ = x THEN PlanStart ELSE @]
<1>1. Sound(plan, born)
  BY InvIsSound
<1>2. p.nodes = plan.nodes \ {x} /\ p.deps = Without(plan.deps, x)
  BY <1>1 DEF Sound, Plans
<1>3. plan' = plan \/ plan' = p
  BY DEF Delete, ApplyValidated, Accept, Panic, Refuse
<1>. HIDE DEF p
<1>4. CASE plan' = p
  <2>1. plan.deps \in Graphs /\ x \in Ends /\ x # PlanStart
    BY <1>1, NodesAssumption DEF Sound, Plans, Graphs, Ends
  <2>2. a \in Ends \ {x} /\ b \in Ends \ {x}
    BY <1>1, <1>2, <1>4, <2>1 DEF Sound, Plans, Ends
  <2>. QED BY <1>2, <1>4, <2>1, <2>2, WithoutKeepsOrder
<1>. QED BY <1>3, <1>4

(* An accepted patch is the graph that was asked for, simplified.          *)
LEMMA PatchOrders ==
    ASSUME FInv, NEW n \in Nodes, NEW D \in SUBSET (born \cup {PlanStart}),
           NEW W, PatchDeps(n, D, W), answer' = "PlanUpdated",
           request'.node = n, request'.deps = D
    PROVE  /\ \A a, b \in Ends :
                 DependsOn(plan'.deps, a, b) <=> DependsOn(Asked(plan.deps), a, b)
           /\ \A k \in Ends : \A d \in plan'.deps[k] : ~ Redundant(plan'.deps, k, d)
<1>. DEFINE g == [plan.deps EXCEPT ![n] = D]
            p == [plan EXCEPT !.deps = Simplify([@ EXCEPT ![n] = D]), !.workers = W]
<1>1. n \in plan.nodes /\ MakesNoCycle(plan.deps, n, D) /\ plan' = p
  BY DEF PatchDeps, ApplyValidated, Accept, Panic, Refuse
<1>2. Sound(plan, born) /\ n \in Ends /\ D \in SUBSET Ends
  BY InvIsSound DEF FInv, Ends
<1>3. plan'.deps = Simplify(g)
  BY <1>1, <1>2 DEF Sound, Plans
<1>4. plan.deps \in Graphs /\ AcyclicGraph(plan.deps) /\ g \in Graphs /\ Finite(g)
  BY <1>2, FiniteGraph
<1>5. AcyclicGraph(g)
  BY <1>1, <1>2, <1>4, PatchIsAcyclic
<1>6. Asked(plan.deps) = g
  BY DEF Asked
<1>. HIDE DEF g
<1>. QED BY <1>3, <1>4, <1>5, <1>6, SimplifyKeepsOrder, SimplifyLeavesNone

(* In the plan of the engine the nodes may be simplified in any order.     *)
LEMMA AnyOrder ==
    ASSUME FInv
    PROVE  OneByOneIsTheSame
<1>. DEFINE g == plan.deps
            k == Cardinality(plan.nodes)
<1>1. /\ g \in Graphs /\ AcyclicGraph(g) /\ plan.nodes \subseteq Ends
      /\ plan.nodes \subseteq born /\ born \subseteq Nodes
      /\ \A n \in Ends : g[n] \subseteq born \cup {PlanStart}
      /\ \A n \in Ends \ plan.nodes : g[n] = {}
  BY DEF FInv, Inv, TypeOK, Grounded, Plans, Graphs, Ends, Acyclic
<1>2. Finite(g)
  <2>1. IsFiniteSet(born \cup {PlanStart})
    BY FS_AddElement DEF FInv
  <2>. QED BY <1>1, <2>1, FS_Subset DEF Finite
<1>3. IsFiniteSet(plan.nodes) /\ k \in Nat
  BY <1>1, FS_Subset, FS_CardinalityType DEF FInv
<1>. SUFFICES ASSUME NEW order \in SetToSeqs(plan.nodes)
              PROVE  FoldLeft(SimplifyNode, g, order) = Simplify(g)
  BY DEF OneByOneIsTheSame
<1>4. /\ order \in [1 .. k -> plan.nodes]
      /\ \A i, j \in 1 .. k : i # j => order[i] # order[j]
  BY DEF SetToSeqs
<1>5. \A n \in plan.nodes : \E i \in 1 .. k : order[i] = n
  <2>1. IsFiniteSet(1 .. k) /\ Cardinality(1 .. k) = k
    BY <1>3, FS_Interval
  <2>2. order \in Injection(1 .. k, plan.nodes)
    BY <1>4 DEF Injection, IsInjective
  <2>3. order \in Surjection(1 .. k, plan.nodes)
    BY <1>3, <2>1, <2>2, FS_Injection
  <2>. QED BY <2>3 DEF Surjection
<1>6. order \in [1 .. k -> Ends]
  BY <1>1, <1>4
<1>7. \A n \in Ends \ plan.nodes : Simplify(g)[n] = g[n]
  BY <1>1 DEF Simplify
<1>8. Simplify(g) \in [Ends -> SUBSET Ends]
  BY <1>1, SimplifyIsAcyclic DEF Graphs
<1>. HIDE DEF g, k
<1>9. FoldLeft(SimplifyNode, g, order)
         = [n \in Ends |-> IF \E i \in 1 .. k : order[i] = n THEN Simplify(g)[n] ELSE g[n]]
  BY <1>1, <1>2, <1>3, <1>6, FoldSimplifies
<1>10. \A n \in Ends : IF \E i \in 1 .. k : order[i] = n THEN Simplify(g)[n] = Simplify(g)[n]
                                                          ELSE g[n] = Simplify(g)[n]
  BY <1>5, <1>7
<1>. QED BY <1>8, <1>9, <1>10

(* Simplifying all nodes of the plan one after the other, each by what the *)
(* ones before have left, comes to the same in every order: what is left   *)
(* does not depend on how the hash map of the nodes is iterated.           *)
THEOREM OrderOfSimplification == Spec => []OneByOneIsTheSame
BY AnyOrder, InitIsFinite, StepKeepsFinite, PTL DEF Spec

(* What the request of each step is.                                       *)
LEMMA RequestOfStep ==
    ASSUME Next
    PROVE  \/ /\ request'.kind \notin {"DeleteTask", "DeleteMilestone"}
              /\ request'.kind \notin {"UpdateTask", "UpdateMilestone"}
           \/ \E t \in Tasks, D \in DepSets : \E W \in SlotSets \cup {plan.workers[t]} :
                 UpdateTask(t, D, W) /\ request'.kind = "UpdateTask"
           \/ \E m \in Milestones, D \in DepSets :
                 UpdateMilestone(m, D) /\ request'.kind = "UpdateMilestone"
           \/ \E kind \in {"DeleteTask", "DeleteMilestone"} : \E x \in Nodes :
                 Delete(kind, x) /\ request'.kind = kind
<1>1. ASSUME NEW t, NEW D, NEW W, CreateTask(t, D, W)
      PROVE  request'.kind = "CreateTask"
  BY <1>1 DEF CreateTask, Ask
<1>2. ASSUME NEW m, NEW D, CreateMilestone(m, D)
      PROVE  request'.kind = "CreateMilestone"
  BY <1>2 DEF CreateMilestone, Ask
<1>3. ASSUME NEW t, NEW D, NEW W, UpdateTask(t, D, W)
      PROVE  request'.kind = "UpdateTask"
  BY <1>3 DEF UpdateTask, Ask
<1>4. ASSUME NEW m, NEW D, UpdateMilestone(m, D)
      PROVE  request'.kind = "UpdateMilestone"
  BY <1>4 DEF UpdateMilestone, Ask
<1>5. ASSUME NEW t \in Tasks, DeleteTask(t)
      PROVE  Delete("DeleteTask", t) /\ request'.kind = "DeleteTask" /\ t \in Nodes
  BY <1>5 DEF DeleteTask, Delete, Ask, Nodes
<1>6. ASSUME NEW m \in Milestones, DeleteMilestone(m)
      PROVE  Delete("DeleteMilestone", m) /\ request'.kind = "DeleteMilestone" /\ m \in Nodes
  BY <1>6 DEF DeleteMilestone, Delete, Ask, Nodes
<1>7. ASSUME NEW u, NEW T, CreateUser(u, T) \/ UpdateUser(u, T)
      PROVE  request'.kind \in {"CreateUser", "UpdateUser"}
  BY <1>7 DEF CreateUser, UpdateUser, Ask
<1>8. ASSUME NEW u, DeleteUser(u)
      PROVE  request'.kind = "DeleteUser"
  BY <1>8 DEF DeleteUser, Ask
<1>9. ASSUME NEW tag, DeleteTag(tag)
      PROVE  request'.kind = "DeleteTag"
  BY <1>9 DEF DeleteTag, Ask
<1>10. ASSUME NEW node, UpdatePlanSettings(node)
       PROVE  request'.kind = "UpdatePlanSettings"
  BY <1>10 DEF UpdatePlanSettings, Ask
<1>. QED BY <1>1, <1>2, <1>3, <1>4, <1>5, <1>6, <1>7, <1>8, <1>9, <1>10 DEF Next

(* Deleting a task or a milestone closes the gap: of the nodes that remain *)
(* the same ones wait for each other, no more and no less.                 *)
THEOREM DeletionKeepsTheOrder == Spec => DeletingKeepsTheOrder
<1>. DEFINE Property ==
        request'.kind \in {"DeleteTask", "DeleteMilestone"} =>
           \A a, b \in plan'.nodes \cup {PlanStart} :
              DependsOn(plan'.deps, a, b) <=> DependsOn(plan.deps, a, b)
<1>1. Inv /\ [Next]_vars => [Property]_vars
  <2>. SUFFICES ASSUME Inv, Next, request'.kind \in {"DeleteTask", "DeleteMilestone"}
                PROVE  Property
    OBVIOUS
  <2>1. \E kind \in {"DeleteTask", "DeleteMilestone"} : \E x \in Nodes : Delete(kind, x)
    BY RequestOfStep
  <2>. QED BY <2>1, DeleteKeepsOrder
<1>. QED BY <1>1, InitIsInv, StepKeepsInv, PTL DEF Spec, DeletingKeepsTheOrder

(* An accepted patch orders the whole plan as its form asked, and leaves   *)
(* no dependency that another one implies.                                 *)
THEOREM PatchOrdersAsAsked == Spec => PatchingOrdersAsAsked
<1>. DEFINE Property ==
        request'.kind \in {"UpdateTask", "UpdateMilestone"} /\ answer' = "PlanUpdated" =>
           /\ \A a, b \in Ends :
                 DependsOn(plan'.deps, a, b) <=> DependsOn(Asked(plan.deps), a, b)
           /\ \A n \in Ends : \A d \in plan'.deps[n] : ~ Redundant(plan'.deps, n, d)
<1>1. FInv /\ [Next]_vars => [Property]_vars
  <2>. SUFFICES ASSUME FInv, Next, answer' = "PlanUpdated",
                       request'.kind \in {"UpdateTask", "UpdateMilestone"}
                PROVE  Property
    OBVIOUS
  <2>1. \E n \in Nodes : \E D \in SUBSET (born \cup {PlanStart}) : \E W :
           PatchDeps(n, D, W) /\ request'.node = n /\ request'.deps = D
    <3>1. CASE \E t \in Tasks, D \in DepSets :
                  \E W \in SlotSets \cup {plan.workers[t]} : UpdateTask(t, D, W)
      <4>1. PICK t \in Tasks, D \in DepSets : \E W : UpdateTask(t, D, W)
        BY <3>1
      <4>2. PICK W : UpdateTask(t, D, W)
        BY <4>1
      <4>3. PatchDeps(t, D, [plan.workers EXCEPT ![t] = W])
        BY <4>2 DEF UpdateTask, Refuse
      <4>4. D \in SUBSET (born \cup {PlanStart}) /\ request'.node = t /\ request'.deps = D
        BY <4>2 DEF UpdateTask, Ask
      <4>. QED BY <4>3, <4>4 DEF Nodes
    <3>2. CASE \E m \in Milestones, D \in DepSets : UpdateMilestone(m, D)
      BY <3>2 DEF UpdateMilestone, Ask, Nodes
    <3>. QED BY <3>1, <3>2, RequestOfStep
  <2>. QED BY <2>1, PatchOrders
<1>. QED BY <1>1, InitIsFinite, StepKeepsFinite, PTL DEF Spec, PatchingOrdersAsAsked
=============================================================================
