----------------------------- MODULE MondaySync -----------------------------
(***************************************************************************)
(* A plan and a Monday.com board kept in step by hand: pulls, full         *)
(* re-imports, pushes and previews run next to each other and to the edits *)
(* of plinko users and Monday users.  What ties the two sides together is  *)
(* the map of items to nodes in the configuration of the plan; the browser *)
(* dialog for that configuration holds a copy of all of it.                *)
(*                                                                         *)
(* A task has workers, of whom the board knows less than the plan does: an *)
(* item has its persons and a workload.  A push writes the accounts of the *)
(* users and the sum of the slots; a pull divides the workload evenly.     *)
(* Workloads are counted in eighths of a day; how a task splits its total  *)
(* into slots, and which tags they require, is a value of Splits.          *)
(* An account is mapped to the user of the same name, labels are mapped    *)
(* one to one, and no user has two slots of a task.                        *)
(* Left out: dates and durations, lags, context labels, the derived status *)
(* of milestones, and the "From Plinko" group and parent item, which no    *)
(* import picks up.                                                        *)
(***************************************************************************)
EXTENDS FiniteSetsExt, SequencesExt

CONSTANTS Items,               \* ids of Monday items
          Tasks, Milestones, PlanStart,
          Names, Trim,         \* Trim: names without blanks around them
          Users, Accounts,     \* of plinko and of Monday; common: the mapped ones
          Days, NoDays,        \* workloads, an empty workload column
          DefaultDays,         \* what that counts for: a day, or an hour in hours
          Splits,
          Statuses,
          NewNodes, NewItems,  \* what the users of both sides may put in
          LinkSizes,           \* how many dependencies an edit may ask for
          Jobs,                \* background threads and previews at one time
          Dialogs,             \* open configuration dialogs
          Previews, Faults,    \* whether there are previews; failing calls
          Sub,                 \* whether the plan starts out with subitems
          MaxEdits             \* bound on what the users of both sides do

Nodes == Tasks \cup Milestones
Ends  == Nodes \cup {PlanStart}

Works == [users : SUBSET Users, total : Days, split : Splits]

(* What no one has divided up: equal shares, or a slot for anyone.         *)
Even(users, total) == [users |-> users, total |-> total, split |-> "even"]
Placeholder == Even({}, DefaultDays)

NodeData == [name : Names, work : Works, status : Statuses]
ItemData == [name : Names, persons : SUBSET Accounts, days : Days \cup {NoDays},
             status : Statuses, deps : SUBSET Items, milestone : BOOLEAN, sub : BOOLEAN]

ASSUME NodesAssumption == PlanStart \notin Nodes /\ Tasks \cap Milestones = {}
ASSUME DataAssumption == /\ Days \subseteq Nat /\ DefaultDays \in Days /\ NoDays \notin Days
                         /\ "even" \in Splits /\ "NotStarted" \in Statuses
                         /\ Trim \in [Names -> Names]
                         /\ \A s \in Names : Trim[Trim[s]] = Trim[s]
                         /\ NewNodes \subseteq [name : Names, work : Works]
                         /\ NewItems \subseteq ItemData
ASSUME BoundsAssumption == Sub \in BOOLEAN /\ MaxEdits \in Nat

VARIABLES
    plan,         \* [nodes: what there is, deps: who waits for whom]
    board,        \* the items there are
    config,       \* monday.json: [map: pairs of an item and a node, sub]
    form,         \* the copy of it in each dialog
    jobs,         \* what each thread is doing
    used,         \* ids given out, of items and nodes: they are never reused
    made,         \* pairs of an item and a node one of which was made for the other
    undisturbed,  \* jobs that have seen no change but their own
    settled,      \* a push has gone through and nothing has changed since
    edits

vars == <<plan, board, config, form, jobs, used, made, undisturbed, settled, edits>>

Graph == INSTANCE PlanGraph
    WITH Users <- {}, Tags <- {}, DepSets <- {}, SlotSets <- {}, Targets <- {},
         born <- {}, request <- {}, answer <- ""

Idle == [kind |-> "idle"]
Configs == [map : SUBSET (Items \X Nodes), sub : BOOLEAN]
NodeOf(M, i) == (CHOOSE m \in M : m[1] = i)[2]
ItemsOf(M) == {m[1] : m \in M}
NodesOf(M) == {m[2] : m \in M}
OneToOne(M) == \A a, b \in M : a[1] = b[1] <=> a[2] = b[2]

TypeOK ==
    /\ DOMAIN plan.nodes \subseteq Nodes
    /\ \A n \in DOMAIN plan.nodes : plan.nodes[n] \in NodeData
    /\ plan.deps \in [Ends -> SUBSET (DOMAIN plan.nodes \cup {PlanStart})]
    /\ DOMAIN board \subseteq Items
    /\ \A i \in DOMAIN board : board[i] \in ItemData
    /\ config \in Configs /\ form \in [Dialogs -> Configs]
    /\ DOMAIN plan.nodes \cup DOMAIN board \cup NodesOf(config.map)
         \cup ItemsOf(config.map) \subseteq used
    /\ undisturbed \subseteq Jobs /\ settled \in BOOLEAN /\ edits \in 0..MaxEdits

-----------------------------------------------------------------------------
(* Mutant of Built: every one of the users gets all of the workload.       *)
BuiltUndivided(item) ==
    LET users == item.persons \cap Users
        days == IF item.days = NoDays THEN DefaultDays ELSE item.days
    IN Even(users, IF users = {} THEN days ELSE days * Cardinality(users))

(* build_workers_and_days: the mapped ones share the workload, and without *)
(* any there is a placeholder for it.                                      *)
Built(item) ==
    Even(item.persons \cap Users, IF item.days = NoDays THEN DefaultDays ELSE item.days)

(* Items that are never made into a node.                                  *)
Skipped(item) == IF item.milestone THEN item.status = "Dropped"
                 ELSE item.persons = {} /\ item.days \in {NoDays, 0}

KindOf(item) == IF item.milestone THEN Milestones ELSE Tasks

(* Less than half a day apart.                                             *)
Close(a, b) == a < b + 4 /\ b < a + 4

(* What task_matches_item asks of the workers; tags and shares are not     *)
(* looked at.                                                              *)
Alike(v, w) == v.users = w.users /\ Close(v.total, w.total)

(* task_matches_item; a milestone only needs the name.                     *)
Matches(p, n, item) ==
    /\ n \in KindOf(item) /\ Trim[p.nodes[n].name] = Trim[item.name]
    /\ item.milestone \/ Alike(p.nodes[n].work, Built(item))

(* Mutant of Existing: entries of nodes that are gone count, too.          *)
ExistingOrNot(p, M) == M

(* The entries of the map whose node is still in the plan.                 *)
Existing(p, M) == {m \in M : m[2] \in DOMAIN p.nodes}

OfLevel(b, sub) == {i \in DOMAIN b : b[i].sub = sub}

(* Mutant of Linked: a matching node is taken whoever else has it.         *)
LinkedAnyMatch(p, M, b, sub) ==
    LET new == {i \in OfLevel(b, sub) \ ItemsOf(M) : ~ Skipped(b[i])}
        found(i) == {n \in DOMAIN p.nodes : Matches(p, n, b[i])}
        fresh(i) == KindOf(b[i]) \ used
    IN {f \in [new -> Nodes] :
          /\ \A i \in new : f[i] \in IF found(i) = {} THEN fresh(i) ELSE found(i)
          /\ \A i, j \in new : f[i] = f[j] /\ f[i] \notin used => i = j}

(* Pass 1 for items that are not mapped: each, in the order of the board,  *)
(* gets a matching node no other item has, or else a new one.              *)
Linked(p, M, b, sub) ==
    LET new == {i \in OfLevel(b, sub) \ ItemsOf(M) : ~ Skipped(b[i])}
        found(i) == {n \in DOMAIN p.nodes \ NodesOf(M) : Matches(p, n, b[i])}
        fresh(i) == KindOf(b[i]) \ used
    IN {f \in [new -> Nodes] :
          /\ IsInjective(f)
          /\ \A i \in new : \/ f[i] \in found(i)
                            \/ f[i] \in fresh(i) /\ found(i) \subseteq Range(f)}

(* Mutant of Pulled: a matched node does not take the status.              *)
PulledIfMapped(p, n, item, mapped) ==
    LET new == [name |-> item.name, status |-> "NotStarted",
                work |-> IF n \in Milestones THEN Placeholder ELSE Built(item)]
        old == IF n \notin DOMAIN p.nodes THEN new
               ELSE IF ~ mapped THEN p.nodes[n]
               ELSE [p.nodes[n] EXCEPT !.name = item.name,
                       !.work = IF n \in Milestones THEN @ ELSE Built(item)]
    IN IF n \in Milestones \/ item.status = "NotStarted" \/ ~ mapped THEN old
       ELSE [old EXCEPT !.status = item.status]

(* Passes 1 and 3 for the node n of an item: a mapped one takes over name  *)
(* and workers, a task, matched or mapped, the status unless not started.  *)
Pulled(p, n, item, mapped) ==
    LET new == [name |-> item.name, status |-> "NotStarted",
                work |-> IF n \in Milestones THEN Placeholder ELSE Built(item)]
        old == IF n \notin DOMAIN p.nodes THEN new
               ELSE IF ~ mapped THEN p.nodes[n]
               ELSE [p.nodes[n] EXCEPT !.name = item.name,
                       !.work = IF n \in Milestones THEN @ ELSE Built(item)]
    IN IF n \in Milestones \/ item.status = "NotStarted" THEN old
       ELSE [old EXCEPT !.status = item.status]

(* What an item is to wait for: what is known of its dependencies on the   *)
(* board, PlanStart where nothing is.                                      *)
Asked(M, item) ==
    LET known == {NodeOf(M, d) : d \in item.deps \cap ItemsOf(M)}
    IN IF known = {} THEN {PlanStart} ELSE known

(* Mutant of AddLinks: what makes a cycle is added like the rest.          *)
AddLinksBlindly(M, b, h, i) == [h EXCEPT ![NodeOf(M, i)] = @ \cup Asked(M, b[i])]

(* It is added to what the node waits for, but for what makes a cycle.     *)
AddLinks(M, b, h, i) ==
    LET n == NodeOf(M, i)
    IN [h EXCEPT ![n] = @ \cup {d \in Asked(M, b[i]) : ~ Graph!DependsOn(h, d, n)}]

(* Pass 2: one item after the other.  Then, pass 4,                        *)
(* simplify_all_dependencies.                                              *)
Wired(g, M, b, order) ==
    Graph!Simplify(FoldLeft(LAMBDA h, i : AddLinks(M, b, h, i), g, order))

(* Passes 1 to 4, once every item has its node.                            *)
Imported(p, old, b, sub, map, order) ==
    [plan |-> [nodes |-> [n \in DOMAIN p.nodes \cup NodesOf(map \ old) |->
                            IF \E i \in OfLevel(b, sub) : <<i, n>> \in map
                            THEN LET i == CHOOSE i \in OfLevel(b, sub) : <<i, n>> \in map
                                 IN Pulled(p, n, b[i], <<i, n>> \in old)
                            ELSE p.nodes[n]],
               deps |-> Wired(p.deps, map, b, order)],
     map |-> map]

(* import_from_monday: the plans and maps it may come to.                  *)
Imports(p, M, b, sub) ==
    LET old == Existing(p, M)
        with(f) == old \cup {<<i, f[i]>> : i \in DOMAIN f}
    IN UNION {{Imported(p, old, b, sub, with(f), order) :
                  order \in SetToSeqs(OfLevel(b, sub) \cap ItemsOf(with(f)))} :
              f \in Linked(p, old, b, sub)}

-----------------------------------------------------------------------------
(* What a step says of the bookkeeping: who changed something.             *)
Edit == /\ edits < MaxEdits /\ edits' = edits + 1
        /\ undisturbed' = {} /\ settled' = FALSE
ChangeBy(j) == undisturbed' = undisturbed \cap {j} /\ settled' = FALSE /\ UNCHANGED edits
ChangeNone == UNCHANGED <<undisturbed, settled, edits>>
Put(f, x, v) == [y \in DOMAIN f \cup {x} |-> IF y = x THEN v ELSE f[y]]

(* The users of Monday.                                                    *)
AddItem(i, item) ==
    /\ i \notin used /\ used' = used \cup {i} /\ board' = Put(board, i, item)
    /\ Edit /\ UNCHANGED <<plan, config, form, jobs, made>>
EditItem(i, item) ==
    /\ item # board[i] /\ board' = [board EXCEPT ![i] = item]
    /\ Edit /\ UNCHANGED <<plan, config, form, jobs, used, made>>
RemoveItem(i) ==
    /\ board' = [x \in DOMAIN board \ {i} |-> board[x]]
    /\ Edit /\ UNCHANGED <<plan, config, form, jobs, used, made>>

BoardEdit ==
    \/ \E i \in Items, item \in NewItems : AddItem(i, item)
    \/ \E i \in DOMAIN board :
          \/ RemoveItem(i)
          \/ \E s \in Statuses : EditItem(i, [board[i] EXCEPT !.status = s])
          \/ \E new \in NewItems :
                EditItem(i, [board[i] EXCEPT !.name = new.name, !.persons = new.persons,
                                             !.days = new.days])
          \/ \E D \in SUBSET (DOMAIN board \ {i}) :
                Cardinality(D) \in LinkSizes /\ EditItem(i, [board[i] EXCEPT !.deps = D])

(* The users of plinko, on a plan the scheduler accepts (see PlanGraph).   *)
ChangePlan(p) ==
    /\ p # plan /\ plan' = p
    /\ Edit /\ UNCHANGED <<board, config, form, jobs, made>>
CreateNode(n, new) ==
    /\ n \notin used /\ used' = used \cup {n}
    /\ ChangePlan([nodes |-> Put(plan.nodes, n,
                                [name |-> new.name, status |-> "NotStarted",
                                 work |-> IF n \in Milestones THEN Placeholder ELSE new.work]),
                   deps |-> [plan.deps EXCEPT ![n] = {PlanStart}]])
EditNode(p) == UNCHANGED used /\ ChangePlan(p)

PlanEdit ==
    \/ \E n \in Nodes, new \in NewNodes : CreateNode(n, new)
    \/ \E n \in DOMAIN plan.nodes :
          \/ EditNode([nodes |-> [x \in DOMAIN plan.nodes \ {n} |-> plan.nodes[x]],
                       deps |-> Graph!Without(plan.deps, n)])
          \/ n \in Tasks /\ \E s \in Statuses \ {"NotStarted"} :
                EditNode([plan EXCEPT !.nodes[n].status = s])
          \/ \E new \in NewNodes :
                EditNode([plan EXCEPT !.nodes[n].name = new.name,
                             !.nodes[n].work = IF n \in Milestones THEN @ ELSE new.work])
          \/ \E D \in SUBSET (DOMAIN plan.nodes \ {n}) :
                /\ Cardinality(D) \in LinkSizes /\ Graph!MakesNoCycle(plan.deps, n, D)
                /\ EditNode([plan EXCEPT !.deps = Graph!Simplify(
                                 [@ EXCEPT ![n] = IF D = {} THEN {PlanStart} ELSE D])])

(* MondayModal loads the configuration when it opens, and saves all of it: *)
(* with its button, and before each pull, re-import or push it asks for.   *)
OpenDialog(c) ==
    /\ form[c] # config /\ form' = [form EXCEPT ![c] = config]
    /\ ChangeNone /\ UNCHANGED <<plan, board, config, jobs, used, made>>
EditDialog(c) ==
    /\ form' = [form EXCEPT ![c].sub = ~ @]
    /\ Edit /\ UNCHANGED <<plan, board, config, jobs, used, made>>
SaveMondayConfig(c) ==
    /\ form[c] # config /\ config' = form[c]
    /\ Edit /\ UNCHANGED <<plan, board, form, jobs, used, made>>

-----------------------------------------------------------------------------
Become(j, job) == jobs' = [jobs EXCEPT ![j] = job]
Start(j, job) ==
    /\ jobs[j] = Idle /\ Become(j, job) /\ undisturbed' = undisturbed \cup {j}
    /\ UNCHANGED <<plan, board, config, form, used, made, settled, edits>>

(* MondayPull and MondayFullReimport: a copy of the plan and the           *)
(* configuration for the thread, for a re-import without nodes and map.    *)
MondayPull(j) == Start(j, [kind |-> "pull", plan |-> plan, config |-> config])
MondayFullReimport(j) ==
    Start(j, [kind |-> "pull",
              plan |-> [nodes |-> <<>>, deps |-> [n \in Ends |-> {}]],
              config |-> [config EXCEPT !.map = {}]])

(* The thread reads the board and saves the configuration it started from  *)
(* with the new map; the plan goes to the session.                         *)
Import(j) ==
    /\ jobs[j].kind = "pull"
    /\ \E r \in Imports(jobs[j].plan, jobs[j].config.map, board, jobs[j].config.sub) :
          LET new == DOMAIN r.plan.nodes \ DOMAIN jobs[j].plan.nodes
          IN /\ config' = [jobs[j].config EXCEPT !.map = r.map]
             /\ Become(j, [kind |-> "imported", plan |-> r.plan])
             /\ used' = used \cup new
             /\ made' = made \cup {m \in r.map : m[2] \in new}
    /\ ChangeBy(j) /\ UNCHANGED <<plan, board, form>>

(* ImportDone replaces the plan, if the session is still there for it.     *)
ImportDone(j) ==
    /\ jobs[j].kind = "imported" /\ Become(j, Idle)
    /\ plan' = jobs[j].plan
    /\ ChangeBy(j) /\ UNCHANGED <<board, config, form, used, made>>
SessionGone(j) ==
    /\ Faults /\ jobs[j].kind = "imported" /\ Become(j, Idle)
    /\ ChangeNone /\ UNCHANGED <<plan, board, config, form, used, made>>

(* MondayPush and MondayPushPreview: compute_push_diff fetches the board,  *)
(* to create items for what is not mapped and to compare the others with.  *)
Push(j, kind) ==
    Start(j, [kind |-> kind, plan |-> plan, config |-> config,
              map |-> config.map, fetched |-> board, done |-> {}])
MondayPush(j) == Push(j, "push")
MondayPushPreview(j) == Previews /\ Push(j, "preview")

Unmapped(job) == DOMAIN job.plan.nodes \ NodesOf(job.map)

(* Phase 1b, one item at a time; only the name is set.                     *)
CreateItem(j, n, i) ==
    /\ jobs[j].kind \in {"push", "preview"} /\ n \in Unmapped(jobs[j]) /\ i \notin used
    /\ Become(j, [jobs[j] EXCEPT !.map = @ \cup {<<i, n>>}])
    /\ board' = Put(board, i, [name |-> jobs[j].plan.nodes[n].name,
                               persons |-> {}, days |-> NoDays,
                               status |-> "NotStarted", deps |-> {}, milestone |-> FALSE,
                               sub |-> jobs[j].config.sub /\ n \in Tasks])
    /\ used' = used \cup {i} /\ made' = made \cup {<<i, n>>}
    /\ ChangeBy(j) /\ UNCHANGED <<plan, config, form>>

(* A call fails: an import or a push ends and saves nothing.               *)
Fail(j) ==
    /\ Faults
    /\ \/ jobs[j].kind = "pull"
       \/ jobs[j].kind \in {"push", "preview"} /\ Unmapped(jobs[j]) # {}
    /\ Become(j, Idle)
    /\ ChangeNone /\ UNCHANGED <<plan, board, config, form, used, made>>

(* What the item of the node n is to look like: the users with an account, *)
(* and the sum of all slots.                                               *)
Wanted(job, n, item) ==
    LET node == job.plan.nodes[n]
        wanted == [item EXCEPT !.name = node.name, !.milestone = n \in Milestones,
                      !.deps = {m[1] : m \in {k \in job.map : k[2] \in job.plan.deps[n]}}]
    IN IF n \in Milestones THEN wanted
       ELSE [wanted EXCEPT !.persons = node.work.users \cap Accounts,
                           !.days = node.work.total, !.status = node.status]

(* The fields of the item of n that a push writes: what was not fetched,   *)
(* or was not as wanted, blanks around a name aside.                       *)
Differing(job, n, i) ==
    LET item == job.fetched[i]
        wanted == Wanted(job, n, item)
    IN {f \in {"name", "persons", "days", "status", "deps", "milestone", "sub"} :
          \/ i \notin DOMAIN job.fetched
          \/ /\ wanted[f] # item[f]
             /\ f = "name" => Trim[wanted.name] # Trim[item.name]}

(* What has dates: everything, or after an import that leaves a node out   *)
(* of reach of PlanStart only the tasks that were started.                 *)
Connected(p) == Graph!AllNodesConnected([nodes |-> DOMAIN p.nodes, deps |-> p.deps])
Scheduled(p) == {n \in DOMAIN p.nodes :
                   Connected(p) \/ (n \in Tasks /\ p.nodes[n].status # "NotStarted")}
Pushable(job) == {m \in job.map : m[2] \in Scheduled(job.plan)}

(* Phase 3: the updates of one item, those of lost failing.  Mappings of   *)
(* nodes that are gone or have no dates are skipped; on an item that is    *)
(* gone every update fails.                                                *)
UpdateItem(j, m, lost) ==
    LET job == jobs[j]
        i == m[1]
        written == Differing(job, m[2], i)
    IN /\ job.kind = "push" /\ Unmapped(job) = {} /\ m \in Pushable(job) \ job.done
       /\ Become(j, [job EXCEPT !.done = @ \cup {m}])
       /\ IF i \in DOMAIN board
          THEN /\ board' = [board EXCEPT ![i] = [f \in DOMAIN @ |->
                                IF f \in written \ lost
                                THEN Wanted(job, m[2], @)[f] ELSE @[f]]]
               /\ lost \subseteq written
          ELSE UNCHANGED board
       /\ undisturbed' = IF lost = {} /\ i \in DOMAIN board THEN undisturbed \cap {j} ELSE {}
       /\ settled' = FALSE
       /\ UNCHANGED <<plan, config, form, used, made, edits>>

Finished(job) == Unmapped(job) = {} /\ Pushable(job) \subseteq job.done

(* Mutant of EndPush: the map it ended with is not the one that is saved.  *)
EndPushOldMap(j) ==
    /\ jobs[j].kind = "push" /\ Finished(jobs[j]) /\ Become(j, Idle)
    /\ config' = jobs[j].config
    /\ settled' = (j \in undisturbed) /\ undisturbed' = undisturbed \cap {j}
    /\ UNCHANGED <<plan, board, form, used, made, edits>>

(* A preview only counts; a push saves the configuration it started from   *)
(* with the map it ended with.                                             *)
EndPush(j) ==
    /\ jobs[j].kind = "push" /\ Finished(jobs[j]) /\ Become(j, Idle)
    /\ config' = [jobs[j].config EXCEPT !.map = jobs[j].map]
    /\ settled' = (j \in undisturbed) /\ undisturbed' = undisturbed \cap {j}
    /\ UNCHANGED <<plan, board, form, used, made, edits>>
EndPreview(j) ==
    /\ jobs[j].kind = "preview" /\ Unmapped(jobs[j]) = {} /\ Become(j, Idle)
    /\ ChangeNone /\ UNCHANGED <<plan, board, config, form, used, made>>

Init ==
    /\ plan = [nodes |-> <<>>, deps |-> [n \in Ends |-> {}]]
    /\ board = <<>>
    /\ config = [map |-> {}, sub |-> Sub] /\ form = [c \in Dialogs |-> config]
    /\ jobs = [j \in Jobs |-> Idle]
    /\ used = {} /\ made = {} /\ undisturbed = {} /\ settled = FALSE /\ edits = 0

Dialog(c) == OpenDialog(c) \/ EditDialog(c) \/ SaveMondayConfig(c)
Pulling(j) == \/ MondayPull(j) \/ MondayFullReimport(j) \/ Import(j)
              \/ ImportDone(j) \/ SessionGone(j)
Pushing(j) ==
    \/ MondayPush(j) \/ MondayPushPreview(j) \/ Fail(j) \/ EndPush(j) \/ EndPreview(j)
    \/ \E n \in Nodes, i \in Items : CreateItem(j, n, i)
    \/ jobs[j].kind = "push" /\ \E m \in jobs[j].map :
          \/ UpdateItem(j, m, {})
          \/ Faults /\ \E f \in {"name", "persons", "days", "deps"} : UpdateItem(j, m, {f})

Next == \/ BoardEdit \/ PlanEdit
        \/ \E c \in Dialogs : Dialog(c)
        \/ \E j \in Jobs : Pulling(j) \/ Pushing(j)

Spec == Init /\ [][Next]_vars

-----------------------------------------------------------------------------
(* No two items are tied to one node, and no item to two nodes, whoever    *)
(* overwrites whose map.                                                   *)
MapIsOneToOne == OneToOne(config.map)

Again(r) == Imports(r.plan, r.map, board, config.sub)

(* Whatever has become of plan, board and map, what an import makes of     *)
(* them a second import may change in one way only, and a third not at     *)
(* all: a node that the first import found by a match takes over the       *)
(* blanks of the name and how the workload is divided, or a workload less  *)
(* than half a day apart.  Dependencies and map stay as they are.          *)
ImportsSettle ==
    \A r \in Imports(plan, config.map, board, config.sub) :
       LET again == Again(r)
       IN \E s \in again :
          /\ again = {s} /\ Again(s) = {s}
          /\ s.map = r.map /\ s.plan.deps = r.plan.deps
          /\ DOMAIN s.plan.nodes = DOMAIN r.plan.nodes
          /\ \A n \in DOMAIN r.plan.nodes :
                \/ s.plan.nodes[n] = r.plan.nodes[n]
                \/ /\ n \in DOMAIN plan.nodes \ NodesOf(config.map)
                   /\ Trim[s.plan.nodes[n].name] = Trim[r.plan.nodes[n].name]
                   /\ Alike(s.plan.nodes[n].work, r.plan.nodes[n].work)
                   /\ s.plan.nodes[n].status = r.plan.nodes[n].status

(* config.rs: the map is "for idempotent re-import": the second of two     *)
(* imports changes nothing.                                                *)
ImportIsIdempotent ==
    \A r \in Imports(plan, config.map, board, config.sub) : Again(r) = {r}

(* With one thing going on at a time and no failures, nothing is made      *)
(* twice: no two live items for a node, no two live nodes for an item, and *)
(* none for what was itself made for it.                                   *)
NoTwins == OneToOne({m \in made : m[1] \in DOMAIN board /\ m[2] \in DOMAIN plan.nodes})

(* What of the workers of a task the board can hold.                       *)
Evened(work) == Even(work.users \cap Accounts, work.total)

(* The item of the node is one that imports look at.                       *)
Read(n) == \E i \in OfLevel(board, config.sub) : <<i, n>> \in config.map

(* After a push that went through, of a plan the scheduler accepts, a pull *)
(* leaves the nodes that were pushed as they are, but for what the board   *)
(* cannot hold: blanks around names, how a workload is divided, which tags *)
(* are required, and users without an account.  And it drops dependencies  *)
(* that others imply, which a deletion may have left.                      *)
PushSettles ==
    settled /\ Connected(plan) => \A r \in Imports(plan, config.map, board, config.sub) :
        \A n \in DOMAIN plan.nodes :
            /\ Trim[r.plan.nodes[n].name] = Trim[plan.nodes[n].name]
            /\ r.plan.nodes[n].status = plan.nodes[n].status
            /\ r.plan.nodes[n].work = IF n \in Milestones \/ ~ Read(n) THEN plan.nodes[n].work
                                      ELSE Evened(plan.nodes[n].work)
            /\ r.plan.deps[n] = Graph!Simplify(plan.deps)[n]

(* Two people who edit both sides can make the board cyclic, and an import *)
(* adds the dependencies of the board to those of the plan: still no node  *)
(* of the plan ever waits for itself.                                      *)
NoCycles == Graph!AcyclicGraph(plan.deps)

(* export.rs of the preview: it counts the updates "without executing      *)
(* anything".                                                              *)
PreviewsChangeNothing ==
    [][\A j \in Jobs : jobs[j].kind = "preview" /\ jobs'[j] # jobs[j]
           => board' = board]_vars

(* config.rs: a "Persistent mapping from Monday item IDs to plinko node    *)
(* IDs": what ties an item and a node that both are still there stays,     *)
(* unless an import or a push makes it anew.                               *)
MappingPersists ==
    [][jobs' = jobs =>
         \A m \in config.map : m[1] \in DOMAIN board /\ m[2] \in DOMAIN plan.nodes
                              => m \in config'.map]_vars

(* import.rs: nodes get PlanStart as a fallback "so they always have a     *)
(* path to the plan root and the scheduler can compute a date for them".   *)
(* Nothing is asked of a board with a cycle.                               *)
AcyclicBoard == \A U \in SUBSET DOMAIN board \ {{}} :
                    \E i \in U : board[i].deps \cap U = {}
ImportsAreConnected ==
    AcyclicBoard => \A r \in Imports(plan, config.map, board, config.sub) :
        Connected(plan) => Connected(r.plan)
=============================================================================
