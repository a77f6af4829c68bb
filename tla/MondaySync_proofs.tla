--------------------------- MODULE MondaySync_proofs ---------------------------
(***************************************************************************)
(* Whoever overwrites whose map, every map there is (of the configuration, *)
(* of the dialogs, of the threads) ties no two items to one node and no    *)
(* item to two nodes.  Where one thing goes on at a time and no call       *)
(* fails, nothing is made twice: what was made for each other and is still *)
(* there is in the map.  Both rest on ids that are not given out twice.    *)
(*                                                                         *)
(* Then imports.  Items add their dependencies one after the other, and    *)
(* only those that make no cycle: so plans stay acyclic, and a second      *)
(* import adds none that the first has not, or refused again; of the nodes *)
(* it adapts those that the first has only matched.  And a push that       *)
(* nobody disturbs leaves items that tell the nodes they were pushed from  *)
(* nothing but how their workload is divided on the board: evenly.         *)
(***************************************************************************)
EXTENDS MondaySync, FiniteSetTheorems, TLAPS

(* Plans, maps, configurations and threads that know only of ids in U.     *)
PlanOK(p, U) == p = [nodes |-> p.nodes, deps |-> p.deps] /\ DOMAIN p.nodes \subseteq U
MapOK(M, U) == /\ M \subseteq Items \X Nodes /\ OneToOne(M)
               /\ ItemsOf(M) \subseteq U /\ NodesOf(M) \subseteq U
ConfigOK(c, U) == c \in Configs /\ MapOK(c.map, U)

IsPull(job, U) ==
    /\ job.kind = "pull"
    /\ job = [kind |-> "pull", plan |-> job.plan, config |-> job.config]
    /\ PlanOK(job.plan, U) /\ ConfigOK(job.config, U)
IsImported(job, U) ==
    /\ job.kind = "imported"
    /\ job = [kind |-> "imported", plan |-> job.plan] /\ PlanOK(job.plan, U)
IsPush(job, U) ==
    /\ job.kind \in {"push", "preview"}
    /\ job = [kind |-> job.kind, plan |-> job.plan, config |-> job.config,
              map |-> job.map, fetched |-> job.fetched, done |-> job.done]
    /\ PlanOK(job.plan, U) /\ ConfigOK(job.config, U) /\ MapOK(job.map, U)
JobOK(job, U) == job = Idle \/ IsPull(job, U) \/ IsImported(job, U) \/ IsPush(job, U)

MapInv == /\ PlanOK(plan, used) /\ DOMAIN board \subseteq Items \cap used
          /\ ConfigOK(config, used)
          /\ form \in [Dialogs -> Configs] /\ \A c \in Dialogs : ConfigOK(form[c], used)
          /\ DOMAIN jobs = Jobs /\ \A j \in Jobs : JobOK(jobs[j], used)

(* The pairs of A with both ends there.                                    *)
Live(A, b, p) == {m \in A : m[1] \in DOMAIN b /\ m[2] \in DOMAIN p.nodes}

OneAtATime ==
    (\A j, k \in Jobs : j = k) /\ Dialogs = {} /\ Faults = FALSE /\ Previews = FALSE

(* What was made for each other and is still there is in the map: in the   *)
(* configuration, or in what a thread will make of it.                     *)
TwinInv ==
    /\ made \subseteq Items \X Nodes
    /\ ItemsOf(made) \subseteq used /\ NodesOf(made) \subseteq used
    /\ OneToOne(Live(made, board, plan))
    /\ (\A j \in Jobs : jobs[j] = Idle) => Live(made, board, plan) \subseteq config.map
    /\ \A j \in Jobs :
          /\ jobs[j].kind = "pull" =>
                Live(made, board, jobs[j].plan) \subseteq jobs[j].config.map
          /\ jobs[j].kind = "imported" =>
                Live(made, board, jobs[j].plan) \subseteq config.map
          /\ jobs[j].kind = "push" => Live(made, board, plan) \subseteq jobs[j].map
          /\ jobs[j].kind # "preview"

-----------------------------------------------------------------------------
(* Lemmas about ids, maps and imports.                                     *)

(* What knows only of ids given out still does when more are.              *)
LEMMA MoreIds ==
    ASSUME NEW U, NEW V, U \subseteq V
    PROVE  /\ \A p : PlanOK(p, U) => PlanOK(p, V)
           /\ \A M : MapOK(M, U) => MapOK(M, V)
           /\ \A c : ConfigOK(c, U) => ConfigOK(c, V)
           /\ \A job : JobOK(job, U) => JobOK(job, V)
<1>1. \A p : PlanOK(p, U) => PlanOK(p, V)
  BY DEF PlanOK
<1>2. \A M : MapOK(M, U) => MapOK(M, V)
  BY DEF MapOK
<1>3. \A c : ConfigOK(c, U) => ConfigOK(c, V)
  BY <1>2 DEF ConfigOK
<1>. QED BY <1>1, <1>2, <1>3 DEF JobOK, IsPull, IsImported, IsPush

(* The kind of a thread's work says what it carries.                       *)
LEMMA KindOfJob ==
    ASSUME NEW job, NEW U, JobOK(job, U)
    PROVE  /\ job.kind = "idle" <=> job = Idle
           /\ job.kind = "pull" => IsPull(job, U)
           /\ job.kind = "imported" => IsImported(job, U)
           /\ job.kind \in {"push", "preview"} => IsPush(job, U)
BY DEF JobOK, IsPull, IsImported, IsPush, Idle

(* One more pair, of an item that is in no pair and a node that is in none.*)
LEMMA OnePair ==
    ASSUME NEW U, NEW M, MapOK(M, U), NEW i \in Items, NEW n \in Nodes,
           i \notin ItemsOf(M), n \notin NodesOf(M)
    PROVE  MapOK(M \cup {<<i, n>>}, U \cup {i, n})
<1>. DEFINE N == M \cup {<<i, n>>}
<1>1. N \subseteq Items \X Nodes
  BY DEF MapOK
<1>2. ItemsOf(N) \subseteq U \cup {i, n} /\ NodesOf(N) \subseteq U \cup {i, n}
  BY DEF MapOK, ItemsOf, NodesOf
<1>3. OneToOne(N)
  BY DEF MapOK, OneToOne, ItemsOf, NodesOf
<1>. QED BY <1>1, <1>2, <1>3 DEF MapOK

(* Fewer pairs.                                                            *)
LEMMA FewerPairs ==
    ASSUME NEW U, NEW M, MapOK(M, U), NEW N \in SUBSET M
    PROVE  MapOK(N, U)
BY DEF MapOK, OneToOne, ItemsOf, NodesOf

(* The result of an import: the nodes it had and those of the map, which   *)
(* is the old one, but for entries of nodes that are gone, and a pair for  *)
(* each item that gets its node now.                                       *)
LEMMA ImportIs ==
    ASSUME NEW p, NEW M, NEW b, NEW sub, NEW r \in Imports(p, M, b, sub)
    PROVE  \E f \in Linked(p, Existing(p, M), b, sub) :
              /\ r.map = Existing(p, M) \cup {<<i, f[i]>> : i \in DOMAIN f}
              /\ DOMAIN r.plan.nodes = DOMAIN p.nodes \cup NodesOf(r.map)
              /\ PlanOK(r.plan, DOMAIN r.plan.nodes)
<1>. DEFINE old == Existing(p, M)
            with(f) == old \cup {<<i, f[i]>> : i \in DOMAIN f}
<1>1. PICK f \in Linked(p, old, b, sub) :
         \E order \in SetToSeqs(OfLevel(b, sub) \cap ItemsOf(with(f))) :
            r = Imported(p, old, b, sub, with(f), order)
  BY DEF Imports
<1>2. PICK order : r = Imported(p, old, b, sub, with(f), order)
  BY <1>1
<1>. HIDE DEF with
<1>3. r.map = with(f) /\ DOMAIN r.plan.nodes = DOMAIN p.nodes \cup NodesOf(with(f) \ old)
      /\ r.plan = [nodes |-> r.plan.nodes, deps |-> r.plan.deps]
  BY <1>2 DEF Imported
<1>4. NodesOf(with(f)) \subseteq DOMAIN p.nodes \cup NodesOf(with(f) \ old)
  BY DEF NodesOf, Existing
<1>5. NodesOf(with(f) \ old) \subseteq NodesOf(with(f))
  BY DEF NodesOf
<1>. QED BY <1>3, <1>4, <1>5 DEF with, PlanOK

(* The map of an import is one to one: only items without a pair get a     *)
(* node, no two of them the same, and none a node that has an item or that *)
(* was somebody else's id.                                                 *)
LEMMA ImportsAreOneToOne ==
    ASSUME NEW p, PlanOK(p, used), NEW M, MapOK(M, used),
           NEW b, DOMAIN b \subseteq Items \cap used, NEW sub,
           NEW r \in Imports(p, M, b, sub)
    PROVE  /\ PlanOK(r.plan, used \cup (DOMAIN r.plan.nodes \ DOMAIN p.nodes))
           /\ MapOK(r.map, used \cup (DOMAIN r.plan.nodes \ DOMAIN p.nodes))
           /\ Existing(p, M) \subseteq r.map
<1>. DEFINE old == Existing(p, M)
            V == used \cup (DOMAIN r.plan.nodes \ DOMAIN p.nodes)
<1>1. PICK f \in Linked(p, old, b, sub) :
         /\ r.map = old \cup {<<i, f[i]>> : i \in DOMAIN f}
         /\ DOMAIN r.plan.nodes = DOMAIN p.nodes \cup NodesOf(r.map)
         /\ PlanOK(r.plan, DOMAIN r.plan.nodes)
  BY ImportIs
<1>2. MapOK(old, used)
  <2>1. old \in SUBSET M
    BY DEF Existing
  <2>. HIDE DEF old
  <2>. QED BY <2>1, FewerPairs
<1>3. /\ DOMAIN f \subseteq DOMAIN b \ ItemsOf(old)
      /\ \A i \in DOMAIN f : f[i] \in Nodes
      /\ \A i, j \in DOMAIN f : f[i] = f[j] => i = j
      /\ \A i \in DOMAIN f : f[i] \notin NodesOf(old)
  <2>. DEFINE new == {i \in OfLevel(b, sub) \ ItemsOf(old) : ~ Skipped(b[i])}
  <2>1. f \in [new -> Nodes] /\ IsInjective(f)
    BY DEF Linked
  <2>2. ASSUME NEW i \in new
        PROVE  f[i] \in DOMAIN p.nodes \ NodesOf(old) \/ f[i] \in Nodes \ used
    BY DEF Linked, KindOf, Nodes
  <2>3. NodesOf(old) \subseteq used
    BY <1>2 DEF MapOK
  <2>. QED BY <2>1, <2>2, <2>3 DEF IsInjective, OfLevel
<1>. HIDE DEF old
<1>4. DOMAIN p.nodes \subseteq used
  BY DEF PlanOK
<1>5. PlanOK(r.plan, V)
  BY <1>1, <1>4 DEF PlanOK
<1>6. ItemsOf(r.map) \subseteq V /\ NodesOf(r.map) \subseteq V
  <2>1. ItemsOf(r.map) \subseteq V
    BY <1>1, <1>2, <1>3 DEF ItemsOf, MapOK
  <2>2. NodesOf(r.map) \subseteq DOMAIN r.plan.nodes
    BY <1>1
  <2>. QED BY <1>4, <2>1, <2>2
<1>7. r.map \subseteq Items \X Nodes
  BY <1>1, <1>2, <1>3 DEF MapOK
<1>8. OneToOne(r.map)
  <2>. SUFFICES ASSUME NEW x \in r.map, NEW y \in r.map
                PROVE  x[1] = y[1] <=> x[2] = y[2]
    BY DEF OneToOne
  <2>. DEFINE pairs == {<<i, f[i]>> : i \in DOMAIN f}
  <2>1. x \in old \cup pairs /\ y \in old \cup pairs
    BY <1>1
  <2>2. \A z \in pairs : z[1] \in DOMAIN f /\ z[2] = f[z[1]]
    OBVIOUS
  <2>3. \A z \in old : z[1] \in ItemsOf(old) /\ z[2] \in NodesOf(old)
    BY DEF ItemsOf, NodesOf
  <2>. HIDE DEF pairs
  <2>4. CASE x \in old /\ y \in old
    BY <1>2, <2>4 DEF MapOK, OneToOne
  <2>5. CASE x \in old /\ y \in pairs
    BY <1>3, <2>2, <2>3, <2>5
  <2>6. CASE x \in pairs /\ y \in old
    BY <1>3, <2>2, <2>3, <2>6
  <2>7. CASE x \in pairs /\ y \in pairs
    BY <1>3, <2>2, <2>7
  <2>. QED BY <2>1, <2>4, <2>5, <2>6, <2>7
<1>. QED BY <1>1, <1>5, <1>6, <1>7, <1>8 DEF MapOK, old

-----------------------------------------------------------------------------
(* Every map stays one to one.                                             *)

(* A step changes each variable not at all or to something that is right.  *)
LEMMA PartByPart ==
    ASSUME MapInv, used \subseteq used',
           UNCHANGED plan \/ PlanOK(plan', used'),
           UNCHANGED board \/ DOMAIN board' \subseteq Items \cap used',
           UNCHANGED config \/ ConfigOK(config', used'),
           \/ UNCHANGED form
           \/ \E c \in Dialogs, x \in Configs :
                 form' = [form EXCEPT ![c] = x] /\ ConfigOK(x, used'),
           \/ UNCHANGED jobs
           \/ \E j \in Jobs : \E job : Become(j, job) /\ JobOK(job, used')
    PROVE  MapInv'
<1>1. PlanOK(plan', used') /\ ConfigOK(config', used')
  BY MoreIds DEF MapInv
<1>2. DOMAIN board' \subseteq Items \cap used'
  BY DEF MapInv
<1>3. form' \in [Dialogs -> Configs] /\ \A c \in Dialogs : ConfigOK(form'[c], used')
  BY MoreIds DEF MapInv
<1>4. DOMAIN jobs' = Jobs /\ \A j \in Jobs : JobOK(jobs'[j], used')
  BY MoreIds DEF MapInv, Become
<1>. QED BY <1>1, <1>2, <1>3, <1>4 DEF MapInv

(* The users of Monday add items, change them and delete them.             *)
LEMMA BoardEditKeepsMaps == ASSUME MapInv, BoardEdit PROVE MapInv'
<1>1. ASSUME NEW i \in Items, NEW item, AddItem(i, item)
      PROVE  MapInv'
  <2>1. DOMAIN board' = DOMAIN board \cup {i} /\ used' = used \cup {i}
        /\ UNCHANGED <<plan, config, form, jobs>>
    BY <1>1 DEF AddItem, Put
  <2>2. DOMAIN board' \subseteq Items \cap used'
    BY <2>1 DEF MapInv
  <2>. QED BY <2>1, <2>2, PartByPart
<1>2. ASSUME NEW i, RemoveItem(i) \/ (\E item : EditItem(i, item))
      PROVE  MapInv'
  <2>1. DOMAIN board' \subseteq DOMAIN board /\ UNCHANGED <<plan, config, form, jobs, used>>
    BY <1>2 DEF RemoveItem, EditItem
  <2>2. DOMAIN board' \subseteq Items \cap used'
    BY <2>1 DEF MapInv
  <2>. QED BY <2>1, <2>2, PartByPart
<1>. QED BY <1>1, <1>2 DEF BoardEdit

(* What an edit of the plan does to the nodes there are.                   *)
LEMMA PlanEditIs ==
    ASSUME MapInv, PlanEdit
    PROVE  /\ UNCHANGED <<board, config, form, jobs, made>> /\ Edit
           /\ plan' = [nodes |-> plan'.nodes, deps |-> plan'.deps]
           /\ \/ DOMAIN plan'.nodes \subseteq DOMAIN plan.nodes /\ UNCHANGED used
              \/ \E n \in Nodes \ used :
                    /\ DOMAIN plan'.nodes = DOMAIN plan.nodes \cup {n}
                    /\ used' = used \cup {n}
<1>1. plan = [nodes |-> plan.nodes, deps |-> plan.deps]
  BY DEF MapInv, PlanOK
<1>2. ASSUME NEW n \in Nodes, NEW new, CreateNode(n, new)
      PROVE  /\ plan' = [nodes |-> plan'.nodes, deps |-> plan'.deps]
             /\ DOMAIN plan'.nodes = DOMAIN plan.nodes \cup {n}
             /\ n \notin used /\ used' = used \cup {n}
             /\ UNCHANGED <<board, config, form, jobs, made>> /\ Edit
  BY <1>2 DEF CreateNode, ChangePlan, Put
<1>3. ASSUME NEW n, NEW d,
             EditNode([nodes |-> [x \in DOMAIN plan.nodes \ {n} |-> plan.nodes[x]], deps |-> d])
      PROVE  /\ plan' = [nodes |-> plan'.nodes, deps |-> plan'.deps]
             /\ DOMAIN plan'.nodes \subseteq DOMAIN plan.nodes
             /\ UNCHANGED <<board, config, form, jobs, made, used>> /\ Edit
  BY <1>3 DEF EditNode, ChangePlan
<1>4. ASSUME NEW n, NEW new,
             EditNode([plan EXCEPT !.nodes[n].name = new.name,
                          !.nodes[n].work = IF n \in Milestones THEN @ ELSE new.work])
      PROVE  /\ plan' = [nodes |-> plan'.nodes, deps |-> plan'.deps]
             /\ DOMAIN plan'.nodes \subseteq DOMAIN plan.nodes
             /\ UNCHANGED <<board, config, form, jobs, made, used>> /\ Edit
  BY <1>1, <1>4 DEF EditNode, ChangePlan
<1>5. ASSUME NEW n, NEW s, EditNode([plan EXCEPT !.nodes[n].status = s])
      PROVE  /\ plan' = [nodes |-> plan'.nodes, deps |-> plan'.deps]
             /\ DOMAIN plan'.nodes \subseteq DOMAIN plan.nodes
             /\ UNCHANGED <<board, config, form, jobs, made, used>> /\ Edit
  BY <1>1, <1>5 DEF EditNode, ChangePlan
<1>6. ASSUME NEW d, EditNode([plan EXCEPT !.deps = d])
      PROVE  /\ plan' = [nodes |-> plan'.nodes, deps |-> plan'.deps]
             /\ DOMAIN plan'.nodes \subseteq DOMAIN plan.nodes
             /\ UNCHANGED <<board, config, form, jobs, made, used>> /\ Edit
  BY <1>1, <1>6 DEF EditNode, ChangePlan
<1>. QED BY <1>2, <1>3, <1>4, <1>5, <1>6 DEF PlanEdit

(* The users of plinko.                                                    *)
LEMMA PlanEditKeepsMaps == ASSUME MapInv, PlanEdit PROVE MapInv'
<1>1. PlanOK(plan', used') /\ used \subseteq used'
  BY PlanEditIs DEF MapInv, PlanOK
<1>. QED BY <1>1, PlanEditIs, PartByPart

(* The dialog: copies of a configuration, of any age.                      *)
LEMMA DialogKeepsMaps == ASSUME MapInv, NEW c \in Dialogs, Dialog(c) PROVE MapInv'
<1>1. CASE OpenDialog(c)
  <2>1. config \in Configs /\ ConfigOK(config, used)
    BY DEF MapInv, ConfigOK
  <2>. QED BY <1>1, <2>1, PartByPart DEF OpenDialog
<1>2. CASE EditDialog(c)
  <2>. DEFINE x == [form[c] EXCEPT !.sub = ~ @]
  <2>1. form[c] \in Configs /\ MapOK(form[c].map, used)
    BY DEF MapInv, ConfigOK
  <2>2. (~ form[c].sub) \in BOOLEAN
    OBVIOUS
  <2>3. x \in Configs /\ x.map = form[c].map
    BY <2>1, <2>2 DEF Configs
  <2>4. form' = [form EXCEPT ![c] = x]
    BY <1>2 DEF EditDialog
  <2>. HIDE DEF x
  <2>5. ConfigOK(x, used)
    BY <2>1, <2>3 DEF ConfigOK
  <2>. QED BY <1>2, <2>3, <2>4, <2>5, PartByPart DEF EditDialog
<1>3. CASE SaveMondayConfig(c)
  <2>1. ConfigOK(config', used')
    BY <1>3 DEF SaveMondayConfig, MapInv
  <2>. QED BY <1>3, <2>1, PartByPart DEF SaveMondayConfig
<1>. QED BY <1>1, <1>2, <1>3 DEF Dialog

(* Threads start with a copy of the configuration, or without its map.     *)
LEMMA StartKeepsMaps ==
    ASSUME MapInv, NEW j \in Jobs,
           \/ MondayPull(j) \/ MondayFullReimport(j)
           \/ MondayPush(j) \/ MondayPushPreview(j)
    PROVE  MapInv'
<1>1. PlanOK(plan, used) /\ ConfigOK(config, used) /\ MapOK(config.map, used)
  BY DEF MapInv, ConfigOK
<1>2. ASSUME NEW job, Start(j, job), JobOK(job, used)
      PROVE  MapInv'
  BY <1>2, PartByPart DEF Start
<1>3. CASE MondayPull(j)
  <2>. DEFINE job == [kind |-> "pull", plan |-> plan, config |-> config]
  <2>1. JobOK(job, used)
    BY <1>1 DEF JobOK, IsPull
  <2>. QED BY <1>2, <1>3, <2>1 DEF MondayPull
<1>4. CASE MondayFullReimport(j)
  <2>. DEFINE p == [nodes |-> <<>>, deps |-> [n \in Ends |-> {}]]
              c == [config EXCEPT !.map = {}]
              job == [kind |-> "pull", plan |-> p, config |-> c]
  <2>1. PlanOK(p, used)
    BY DEF PlanOK
  <2>2. c \in Configs /\ c.map = {}
    BY <1>1 DEF ConfigOK, Configs
  <2>3. MapOK({}, used)
    BY DEF MapOK, OneToOne, ItemsOf, NodesOf
  <2>. HIDE DEF p, c
  <2>4. JobOK(job, used)
    BY <2>1, <2>2, <2>3 DEF JobOK, IsPull, ConfigOK
  <2>5. Start(j, job)
    BY <1>4 DEF MondayFullReimport, p, c
  <2>. QED BY <1>2, <2>4, <2>5
<1>5. CASE MondayPush(j) \/ MondayPushPreview(j)
  <2>. DEFINE job(kind) == [kind |-> kind, plan |-> plan, config |-> config,
                            map |-> config.map, fetched |-> board, done |-> {}]
  <2>1. \A kind \in {"push", "preview"} : JobOK(job(kind), used)
    BY <1>1 DEF JobOK, IsPush
  <2>2. \E kind \in {"push", "preview"} : Start(j, job(kind))
    BY <1>5 DEF MondayPush, MondayPushPreview, Push
  <2>. HIDE DEF job
  <2>. QED BY <1>2, <2>1, <2>2
<1>. QED BY <1>3, <1>4, <1>5

(* A thread that ends.                                                     *)
LEMMA IdleIsOK == \A U : JobOK(Idle, U)
BY DEF JobOK

(* The map of an import replaces that of the configuration.                *)
LEMMA ImportKeepsMaps == ASSUME MapInv, NEW j \in Jobs, Import(j) PROVE MapInv'
<1>. DEFINE job == jobs[j]
            M == job.config.map
<1>1. IsPull(job, used)
  BY KindOfJob DEF MapInv, Import
<1>2. /\ PlanOK(job.plan, used) /\ job.config \in Configs /\ MapOK(M, used)
      /\ DOMAIN board \subseteq Items \cap used
  BY <1>1 DEF IsPull, ConfigOK, MapInv
<1>3. PICK r \in Imports(job.plan, M, board, job.config.sub) :
         /\ config' = [job.config EXCEPT !.map = r.map]
         /\ Become(j, [kind |-> "imported", plan |-> r.plan])
         /\ used' = used \cup (DOMAIN r.plan.nodes \ DOMAIN job.plan.nodes)
  BY DEF Import
<1>. HIDE DEF job, M
<1>4. PlanOK(r.plan, used') /\ MapOK(r.map, used')
  BY <1>2, <1>3, ImportsAreOneToOne
<1>5. ConfigOK(config', used')
  <2>1. r.map \in SUBSET (Items \X Nodes)
    BY <1>4 DEF MapOK
  <2>2. config' \in Configs /\ config'.map = r.map
    BY <1>2, <1>3, <2>1 DEF Configs
  <2>. QED BY <1>4, <2>2 DEF ConfigOK
<1>6. JobOK([kind |-> "imported", plan |-> r.plan], used')
  BY <1>4 DEF JobOK, IsImported
<1>7. UNCHANGED <<plan, board, form>> /\ used \subseteq used'
  BY <1>3 DEF Import
<1>. QED BY <1>3, <1>5, <1>6, <1>7, PartByPart

(* What an import came to replaces the plan; or an import, a push or a     *)
(* preview ends without anything saved.                                    *)
LEMMA EndKeepsMaps ==
    ASSUME MapInv, NEW j \in Jobs,
           ImportDone(j) \/ SessionGone(j) \/ Fail(j) \/ EndPreview(j)
    PROVE  MapInv'
<1>1. Become(j, Idle) /\ UNCHANGED <<board, config, form, used>>
  BY DEF ImportDone, SessionGone, Fail, EndPreview
<1>2. UNCHANGED plan \/ PlanOK(plan', used')
  <2>1. CASE ImportDone(j)
    <3>1. IsImported(jobs[j], used)
      BY <2>1, KindOfJob DEF MapInv, ImportDone
    <3>. QED BY <2>1, <3>1 DEF ImportDone, IsImported
  <2>. QED BY <2>1 DEF SessionGone, Fail, EndPreview
<1>. QED BY <1>1, <1>2, IdleIsOK, PartByPart

(* Phase 1b ties a node without an item to an item that is new.            *)
LEMMA CreateItemKeepsMaps ==
    ASSUME MapInv, NEW j \in Jobs, NEW n \in Nodes, NEW i \in Items, CreateItem(j, n, i)
    PROVE  MapInv'
<1>. DEFINE job == jobs[j]
            M == job.map \cup {<<i, n>>}
            next == [job EXCEPT !.map = M]
<1>1. IsPush(job, used)
  BY KindOfJob DEF MapInv, CreateItem
<1>2. /\ MapOK(job.map, used) /\ PlanOK(job.plan, used) /\ ConfigOK(job.config, used)
      /\ job.kind \in {"push", "preview"}
      /\ job = [kind |-> job.kind, plan |-> job.plan, config |-> job.config,
                map |-> job.map, fetched |-> job.fetched, done |-> job.done]
  BY <1>1 DEF IsPush
<1>3. /\ n \in DOMAIN job.plan.nodes /\ n \notin NodesOf(job.map) /\ i \notin used
      /\ Become(j, next) /\ DOMAIN board' = DOMAIN board \cup {i}
      /\ used' = used \cup {i} /\ UNCHANGED <<plan, config, form>>
  BY DEF CreateItem, Unmapped, Put
<1>. HIDE DEF job
<1>4. i \notin ItemsOf(job.map) /\ n \in used
  BY <1>2, <1>3 DEF MapOK, PlanOK
<1>5. MapOK(M, used')
  <2>1. MapOK(M, used \cup {i, n})
    BY <1>2, <1>3, <1>4, OnePair
  <2>2. used \cup {i, n} = used'
    BY <1>3, <1>4
  <2>. QED BY <2>1, <2>2
<1>6. PlanOK(job.plan, used') /\ ConfigOK(job.config, used')
  BY <1>2, <1>3, MoreIds
<1>. HIDE DEF M
<1>7. next = [kind |-> job.kind, plan |-> job.plan, config |-> job.config,
              map |-> M, fetched |-> job.fetched, done |-> job.done]
  BY <1>2
<1>8. JobOK(next, used')
  BY <1>2, <1>5, <1>6, <1>7 DEF JobOK, IsPush
<1>9. DOMAIN board' \subseteq Items \cap used' /\ used \subseteq used'
  BY <1>3 DEF MapInv
<1>. QED BY <1>3, <1>8, <1>9, PartByPart

(* Updates tie nothing to anything.                                        *)
LEMMA UpdateItemKeepsMaps ==
    ASSUME MapInv, NEW j \in Jobs, NEW m, NEW lost, UpdateItem(j, m, lost)
    PROVE  MapInv'
<1>. DEFINE job == jobs[j]
            next == [job EXCEPT !.done = @ \cup {m}]
<1>1. IsPush(job, used)
  BY KindOfJob DEF MapInv, UpdateItem
<1>2. /\ MapOK(job.map, used) /\ PlanOK(job.plan, used) /\ ConfigOK(job.config, used)
      /\ job.kind \in {"push", "preview"}
      /\ job = [kind |-> job.kind, plan |-> job.plan, config |-> job.config,
                map |-> job.map, fetched |-> job.fetched, done |-> job.done]
  BY <1>1 DEF IsPush
<1>3. Become(j, next) /\ UNCHANGED <<plan, config, form, used>>
  BY DEF UpdateItem
<1>4. DOMAIN board' = DOMAIN board
  BY DEF UpdateItem
<1>. HIDE DEF job
<1>5. next = [kind |-> job.kind, plan |-> job.plan, config |-> job.config,
              map |-> job.map, fetched |-> job.fetched, done |-> job.done \cup {m}]
  BY <1>2
<1>6. JobOK(next, used')
  BY <1>2, <1>3, <1>5 DEF JobOK, IsPush
<1>7. DOMAIN board' \subseteq Items \cap used'
  BY <1>3, <1>4 DEF MapInv
<1>. QED BY <1>3, <1>6, <1>7, PartByPart

(* A push saves the map it ended with.                                     *)
LEMMA EndPushKeepsMaps == ASSUME MapInv, NEW j \in Jobs, EndPush(j) PROVE MapInv'
<1>. DEFINE job == jobs[j]
<1>1. IsPush(job, used)
  BY KindOfJob DEF MapInv, EndPush
<1>2. MapOK(job.map, used) /\ job.config \in Configs /\ job.map \in SUBSET (Items \X Nodes)
  BY <1>1 DEF IsPush, ConfigOK, MapOK
<1>3. /\ config' = [job.config EXCEPT !.map = job.map]
      /\ Become(j, Idle) /\ UNCHANGED <<plan, board, form, used>>
  BY DEF EndPush
<1>. HIDE DEF job
<1>4. config' \in Configs /\ config'.map = job.map
  BY <1>2, <1>3 DEF Configs
<1>5. ConfigOK(config', used')
  BY <1>2, <1>3, <1>4 DEF ConfigOK
<1>. QED BY <1>3, <1>5, IdleIsOK, PartByPart

(* The empty plan, board and map.                                          *)
LEMMA InitIsMapInv == Init => MapInv
<1>. SUFFICES ASSUME Init PROVE MapInv
  OBVIOUS
<1>1. MapOK({}, used)
  BY DEF MapOK, OneToOne, ItemsOf, NodesOf
<1>2. config \in Configs /\ config.map = {}
  BY BoundsAssumption DEF Init, Configs
<1>3. ConfigOK(config, used)
  BY <1>1, <1>2 DEF ConfigOK
<1>4. PlanOK(plan, used) /\ DOMAIN board = {}
  BY DEF Init, PlanOK
<1>. QED BY <1>2, <1>3, <1>4, IdleIsOK DEF Init, MapInv

(* Every step keeps the maps.                                              *)
LEMMA StepKeepsMapInv == MapInv /\ [Next]_vars => MapInv'
<1>. SUFFICES ASSUME MapInv, [Next]_vars PROVE MapInv'
  OBVIOUS
<1>1. CASE UNCHANGED vars
  BY <1>1 DEF vars, MapInv
<1>2. ASSUME NEW j \in Jobs, Pulling(j)
      PROVE  MapInv'
  BY <1>2, StartKeepsMaps, ImportKeepsMaps, EndKeepsMaps DEF Pulling
<1>3. ASSUME NEW j \in Jobs, Pushing(j)
      PROVE  MapInv'
  BY <1>3, StartKeepsMaps, EndKeepsMaps, EndPushKeepsMaps, CreateItemKeepsMaps,
     UpdateItemKeepsMaps DEF Pushing
<1>. QED BY <1>1, <1>2, <1>3, BoardEditKeepsMaps, PlanEditKeepsMaps, DialogKeepsMaps DEF Next

(* Whatever pulls, re-imports, pushes and previews run at once, fail or    *)
(* overwrite each other's configuration, and however old the copy is that  *)
(* a dialog saves: the map never ties two items to one node, or an item to *)
(* two nodes.                                                              *)
THEOREM MapsAreOneToOne == Spec => []MapIsOneToOne
<1>1. MapInv => MapIsOneToOne
  BY DEF MapInv, ConfigOK, MapOK, MapIsOneToOne
<1>. QED BY <1>1, InitIsMapInv, StepKeepsMapInv, PTL DEF Spec

-----------------------------------------------------------------------------
(* Nothing is made twice.                                                  *)

(* Fewer pairs are one to one, too.                                        *)
LEMMA FewerOneToOne ==
    ASSUME NEW M, OneToOne(M), NEW N \in SUBSET M
    PROVE  OneToOne(N)
BY DEF OneToOne

(* An edit that brings back neither an item nor a node makes no twins.     *)
LEMMA FewerTwins ==
    ASSUME TwinInv, used \subseteq used', UNCHANGED <<config, jobs, made>>,
           DOMAIN board' \cap ItemsOf(made) \subseteq DOMAIN board,
           DOMAIN plan'.nodes \cap NodesOf(made) \subseteq DOMAIN plan.nodes
    PROVE  TwinInv'
<1>1. \A p : Live(made, board', p) \subseteq Live(made, board, p)
  BY DEF Live, ItemsOf
<1>2. Live(made, board', plan') \subseteq Live(made, board, plan)
  BY DEF Live, ItemsOf, NodesOf
<1>3. OneToOne(Live(made, board', plan'))
  BY <1>2, FewerOneToOne DEF TwinInv
<1>. QED BY <1>1, <1>2, <1>3 DEF TwinInv

(* The users of both sides make what is new under ids that are.            *)
LEMMA EditsMakeNoTwins == ASSUME MapInv, TwinInv, BoardEdit \/ PlanEdit PROVE TwinInv'
<1>1. ASSUME NEW i \in Items, NEW item, AddItem(i, item)
      PROVE  TwinInv'
  <2>1. /\ DOMAIN board' = DOMAIN board \cup {i} /\ i \notin used /\ used' = used \cup {i}
        /\ UNCHANGED <<plan, config, jobs, made>>
    BY <1>1 DEF AddItem, Put
  <2>2. DOMAIN board' \cap ItemsOf(made) \subseteq DOMAIN board
    BY <2>1 DEF TwinInv
  <2>. QED BY <2>1, <2>2, FewerTwins
<1>2. ASSUME NEW i, RemoveItem(i) \/ (\E item : EditItem(i, item))
      PROVE  TwinInv'
  <2>1. /\ DOMAIN board' \subseteq DOMAIN board
        /\ UNCHANGED <<plan, config, jobs, used, made>>
    BY <1>2 DEF RemoveItem, EditItem
  <2>. QED BY <2>1, FewerTwins
<1>3. CASE PlanEdit
  <2>1. DOMAIN plan'.nodes \cap NodesOf(made) \subseteq DOMAIN plan.nodes /\ used \subseteq used'
    BY <1>3, PlanEditIs DEF TwinInv
  <2>. QED BY <1>3, <2>1, PlanEditIs, FewerTwins
<1>. QED BY <1>1, <1>2, <1>3 DEF BoardEdit

(* The one thread there is.                                                *)
LEMMA TheOneJob ==
    ASSUME OneAtATime, NEW j \in Jobs, MapInv, NEW job, Become(j, job)
    PROVE  /\ \A k \in Jobs : k = j
           /\ \A k \in Jobs : jobs'[k] = job
BY DEF OneAtATime, Become, MapInv

(* It starts when nothing else goes on.                                    *)
LEMMA StartMakesNoTwins ==
    ASSUME OneAtATime, MapInv, TwinInv, NEW j \in Jobs,
           MondayPull(j) \/ MondayFullReimport(j) \/ MondayPush(j)
    PROVE  TwinInv'
<1>1. ASSUME NEW job, Start(j, job)
      PROVE  /\ \A k \in Jobs : jobs'[k] = job
             /\ Live(made, board, plan) \subseteq config.map
             /\ UNCHANGED <<plan, board, config, used, made>>
  <2>1. \A k \in Jobs : jobs[k] = Idle
    BY <1>1 DEF Start, OneAtATime
  <2>. QED BY <1>1, <2>1, TheOneJob DEF Start, TwinInv
<1>2. CASE MondayPull(j)
  <2>. DEFINE job == [kind |-> "pull", plan |-> plan, config |-> config]
  <2>1. Start(j, job) /\ job.kind = "pull" /\ job.plan = plan /\ job.config = config
        /\ job # Idle
    BY <1>2 DEF MondayPull, Idle
  <2>. HIDE DEF job
  <2>. QED BY <1>1, <2>1 DEF TwinInv
<1>3. CASE MondayFullReimport(j)
  <2>. DEFINE job == [kind |-> "pull",
                      plan |-> [nodes |-> <<>>, deps |-> [n \in Ends |-> {}]],
                      config |-> [config EXCEPT !.map = {}]]
  <2>1. Start(j, job) /\ job.kind = "pull" /\ DOMAIN job.plan.nodes = {} /\ job # Idle
    BY <1>3 DEF MondayFullReimport, Idle
  <2>. HIDE DEF job
  <2>2. Live(made, board, job.plan) = {}
    BY <2>1 DEF Live
  <2>. QED BY <1>1, <2>1, <2>2 DEF TwinInv
<1>4. CASE MondayPush(j)
  <2>. DEFINE job == [kind |-> "push", plan |-> plan, config |-> config,
                      map |-> config.map, fetched |-> board, done |-> {}]
  <2>1. Start(j, job) /\ job.kind = "push" /\ job.map = config.map /\ job # Idle
    BY <1>4 DEF MondayPush, Push, Idle
  <2>. HIDE DEF job
  <2>. QED BY <1>1, <2>1 DEF TwinInv
<1>. QED BY <1>2, <1>3, <1>4

(* An import makes nodes, under new ids, for items whose pair is not in    *)
(* the map, or whose node is gone.                                         *)
LEMMA ImportMakesNoTwins ==
    ASSUME OneAtATime, MapInv, TwinInv, NEW j \in Jobs, Import(j)
    PROVE  TwinInv'
<1>. DEFINE job == jobs[j]
            p == job.plan
            M == job.config.map
<1>1. IsPull(job, used) /\ job.kind = "pull"
  BY KindOfJob DEF MapInv, Import
<1>2. /\ PlanOK(p, used) /\ job.config \in Configs /\ MapOK(M, used)
      /\ DOMAIN board \subseteq Items \cap used /\ Live(made, board, p) \subseteq M
  BY <1>1 DEF IsPull, ConfigOK, MapInv, TwinInv
<1>3. PICK r \in Imports(p, M, board, job.config.sub) :
         LET new == DOMAIN r.plan.nodes \ DOMAIN p.nodes
         IN /\ config' = [job.config EXCEPT !.map = r.map]
            /\ Become(j, [kind |-> "imported", plan |-> r.plan])
            /\ used' = used \cup new
            /\ made' = made \cup {m \in r.map : m[2] \in new}
            /\ UNCHANGED <<plan, board>>
  BY DEF Import
<1>. HIDE DEF job, p, M
<1>. DEFINE new == DOMAIN r.plan.nodes \ DOMAIN p.nodes
<1>4. PICK f \in Linked(p, Existing(p, M), board, job.config.sub) :
         /\ r.map = Existing(p, M) \cup {<<i, f[i]>> : i \in DOMAIN f}
         /\ DOMAIN r.plan.nodes = DOMAIN p.nodes \cup NodesOf(r.map)
  BY ImportIs
<1>5. MapOK(r.map, used') /\ Existing(p, M) \subseteq r.map
  BY <1>2, <1>3, ImportsAreOneToOne
<1>6. config'.map = r.map
  BY <1>2, <1>3 DEF Configs
<1>7. new \cap used = {}
  <2>1. ASSUME NEW n \in new
        PROVE  n \notin used
    <3>1. n \in NodesOf(r.map) /\ n \notin DOMAIN p.nodes
      BY <1>4
    <3>2. PICK m \in r.map : n = m[2]
      BY <3>1 DEF NodesOf
    <3>3. m \notin Existing(p, M)
      BY <3>1, <3>2 DEF Existing
    <3>4. PICK i \in DOMAIN f : m = <<i, f[i]>>
      BY <1>4, <3>2, <3>3
    <3>5. n = f[i]
      BY <3>2, <3>4
    <3>. QED BY <3>1, <3>4, <3>5 DEF Linked
  <2>. QED BY <2>1
<1>8. PICK done : Become(j, done) /\ done = [kind |-> "imported", plan |-> r.plan]
  BY <1>3
<1>9. \A k \in Jobs : jobs'[k] = done
  BY <1>8, TheOneJob
<1>10. done.kind = "imported" /\ done.plan = r.plan /\ done # Idle
  BY <1>8 DEF Idle
<1>11. Live(made', board, r.plan) \subseteq r.map
  <2>. SUFFICES ASSUME NEW m \in made', m[1] \in DOMAIN board,
                       m[2] \in DOMAIN r.plan.nodes, m \notin r.map
                PROVE  FALSE
    BY DEF Live
  <2>1. m \in made
    BY <1>3
  <2>2. m[2] \in DOMAIN p.nodes
    BY <1>7, <2>1 DEF TwinInv, NodesOf
  <2>3. m \in Existing(p, M)
    BY <1>2, <2>1, <2>2 DEF Live, Existing
  <2>. QED BY <1>5, <2>3
<1>12. Live(made', board, plan) \subseteq Live(made, board, plan)
  <2>1. DOMAIN plan.nodes \subseteq used
    BY DEF MapInv, PlanOK
  <2>. QED BY <1>3, <1>7, <2>1 DEF Live
<1>13. OneToOne(Live(made', board, plan))
  BY <1>12, FewerOneToOne DEF TwinInv
<1>14. /\ made' \subseteq Items \X Nodes
       /\ ItemsOf(made') \subseteq used' /\ NodesOf(made') \subseteq used'
  BY <1>3, <1>5 DEF TwinInv, MapOK, ItemsOf, NodesOf
<1>15. UNCHANGED <<plan, board>>
  BY <1>3
<1>16. \A k \in Jobs : jobs'[k].kind = "imported" /\ jobs'[k].plan = r.plan /\ jobs'[k] # Idle
  BY <1>9, <1>10
<1>17. (\A k \in Jobs : jobs'[k] = Idle) => FALSE
  BY <1>16
<1>. HIDE DEF new
<1>. QED BY <1>6, <1>11, <1>13, <1>14, <1>15, <1>16, <1>17 DEF TwinInv

(* A thread ends: with the plan of an import, or with the map of a push.   *)
LEMMA EndMakesNoTwins ==
    ASSUME OneAtATime, MapInv, TwinInv, NEW j \in Jobs, ImportDone(j) \/ EndPush(j)
    PROVE  TwinInv'
<1>1. Become(j, Idle) /\ UNCHANGED <<board, used, made>>
  BY DEF ImportDone, EndPush
<1>2. \A k \in Jobs : jobs'[k] = Idle
  BY <1>1, TheOneJob
<1>3. Live(made, board, plan') \subseteq config'.map
  <2>1. CASE ImportDone(j)
    BY <2>1 DEF ImportDone, TwinInv
  <2>2. CASE EndPush(j)
    <3>1. IsPush(jobs[j], used) /\ jobs[j].kind = "push"
      BY <2>2, KindOfJob DEF MapInv, EndPush
    <3>2. config'.map = jobs[j].map
      BY <2>2, <3>1 DEF EndPush, IsPush, ConfigOK, Configs
    <3>. QED BY <2>2, <3>1, <3>2 DEF EndPush, TwinInv
  <2>. QED BY <2>1, <2>2
<1>4. OneToOne(config'.map)
  <2>1. MapInv'
    BY EndKeepsMaps, EndPushKeepsMaps
  <2>. QED BY <2>1 DEF MapInv, ConfigOK, MapOK
<1>5. OneToOne(Live(made, board, plan'))
  BY <1>3, <1>4, FewerOneToOne
<1>6. \A k \in Jobs : jobs'[k].kind = "idle"
  BY <1>2 DEF Idle
<1>. QED BY <1>1, <1>2, <1>3, <1>5, <1>6 DEF TwinInv

(* A push makes an item, under a new id, for a node that has none.         *)
LEMMA CreateItemMakesNoTwins ==
    ASSUME OneAtATime, MapInv, TwinInv, NEW j \in Jobs, NEW n \in Nodes, NEW i \in Items,
           CreateItem(j, n, i)
    PROVE  TwinInv'
<1>. DEFINE job == jobs[j]
            M == job.map \cup {<<i, n>>}
            next == [job EXCEPT !.map = M]
<1>1. IsPush(job, used) /\ job.kind = "push" /\ job # Idle
  BY KindOfJob DEF MapInv, TwinInv, CreateItem, Idle
<1>2. /\ i \notin used /\ Become(j, next) /\ DOMAIN board' = DOMAIN board \cup {i}
      /\ n \in DOMAIN job.plan.nodes
      /\ used' = used \cup {i} /\ made' = made \cup {<<i, n>>} /\ UNCHANGED <<plan, config>>
  BY DEF CreateItem, Put, Unmapped
<1>3. Live(made, board, plan) \subseteq job.map
  BY <1>1 DEF TwinInv
<1>4. next.kind = "push" /\ next.map = M /\ next # Idle
  BY <1>1 DEF IsPush, Idle
<1>5. \A k \in Jobs : jobs'[k] = next
  BY <1>2, TheOneJob
<1>6. Live(made', board', plan) \subseteq M
  <2>1. i \notin ItemsOf(made)
    BY <1>2 DEF TwinInv
  <2>. QED BY <1>2, <1>3, <2>1 DEF Live, ItemsOf
<1>7. n \in used
  BY <1>1, <1>2 DEF IsPush, PlanOK
<1>8. OneToOne(M)
  <2>1. MapInv'
    BY CreateItemKeepsMaps
  <2>2. JobOK(next, used')
    BY <1>5, <2>1 DEF MapInv
  <2>. HIDE DEF next
  <2>3. MapOK(next.map, used')
    BY <1>4, <2>2, KindOfJob DEF IsPush
  <2>. QED BY <1>4, <2>3 DEF MapOK
<1>9. OneToOne(Live(made', board', plan))
  BY <1>6, <1>8, FewerOneToOne
<1>10. /\ made' \subseteq Items \X Nodes
       /\ ItemsOf(made') \subseteq used' /\ NodesOf(made') \subseteq used'
  BY <1>2, <1>7 DEF TwinInv, ItemsOf, NodesOf
<1>11. UNCHANGED plan /\ config'.map = config.map
  BY <1>2
<1>. HIDE DEF next, M, job
<1>12. \A k \in Jobs : jobs'[k].kind = "push" /\ jobs'[k].map = M /\ jobs'[k] # Idle
  BY <1>4, <1>5
<1>13. (\A k \in Jobs : jobs'[k] = Idle) => FALSE
  BY <1>12
<1>. QED BY <1>6, <1>9, <1>10, <1>11, <1>12, <1>13 DEF TwinInv

(* Updates make nothing.                                                   *)
LEMMA UpdateItemMakesNoTwins ==
    ASSUME OneAtATime, MapInv, TwinInv, NEW j \in Jobs, NEW m, NEW lost,
           UpdateItem(j, m, lost)
    PROVE  TwinInv'
<1>. DEFINE job == jobs[j]
            next == [job EXCEPT !.done = @ \cup {m}]
<1>1. IsPush(job, used) /\ job.kind = "push"
  BY KindOfJob DEF MapInv, UpdateItem
<1>2. Become(j, next) /\ UNCHANGED <<plan, config, used, made>>
  BY DEF UpdateItem
<1>3. DOMAIN board' = DOMAIN board
  BY DEF UpdateItem
<1>4. next.kind = "push" /\ next.map = job.map /\ next # Idle
  BY <1>1 DEF IsPush, Idle
<1>5. \A k \in Jobs : jobs'[k] = next
  BY <1>2, TheOneJob
<1>6. Live(made, board', plan) = Live(made, board, plan)
  BY <1>3 DEF Live
<1>7. Live(made, board, plan) \subseteq job.map
  BY <1>1 DEF TwinInv
<1>. HIDE DEF next, job
<1>. QED BY <1>2, <1>4, <1>5, <1>6, <1>7 DEF TwinInv

(* At the start nothing was made.                                          *)
LEMMA InitIsTwinInv == Init => TwinInv
<1>. SUFFICES ASSUME Init PROVE TwinInv
  OBVIOUS
<1>1. made = {} /\ \A j \in Jobs : jobs[j].kind = "idle"
  BY DEF Init, Idle
<1>2. \A b, p : Live({}, b, p) = {}
  BY DEF Live
<1>3. ItemsOf({}) = {} /\ NodesOf({}) = {} /\ OneToOne({})
  BY DEF ItemsOf, NodesOf, OneToOne
<1>. QED BY <1>1, <1>2, <1>3 DEF TwinInv

(* Every step keeps it, with one thing going on at a time.                 *)
LEMMA StepKeepsTwinInv ==
    ASSUME OneAtATime PROVE MapInv /\ TwinInv /\ [Next]_vars => TwinInv'
<1>. SUFFICES ASSUME MapInv, TwinInv, [Next]_vars PROVE TwinInv'
  OBVIOUS
<1>1. CASE UNCHANGED vars
  BY <1>1 DEF vars, TwinInv
<1>2. ASSUME NEW j \in Jobs, Pulling(j)
      PROVE  TwinInv'
  <2>1. ~ SessionGone(j)
    BY DEF SessionGone, OneAtATime
  <2>. QED BY <1>2, <2>1, StartMakesNoTwins, ImportMakesNoTwins, EndMakesNoTwins DEF Pulling
<1>3. ASSUME NEW j \in Jobs, Pushing(j)
      PROVE  TwinInv'
  <2>1. ~ Fail(j) /\ ~ MondayPushPreview(j) /\ ~ EndPreview(j)
    BY DEF Fail, MondayPushPreview, EndPreview, OneAtATime, TwinInv
  <2>. QED BY <1>3, <2>1, StartMakesNoTwins, EndMakesNoTwins, CreateItemMakesNoTwins,
           UpdateItemMakesNoTwins DEF Pushing
<1>. QED BY <1>1, <1>2, <1>3, EditsMakeNoTwins DEF Next, OneAtATime

(* Where imports and pushes are run one after the other and no call fails, *)
(* a plan and a board of any size never get a second live item for a node  *)
(* or a second live node for an item, whatever their users do meanwhile.   *)
THEOREM NothingIsMadeTwice ==
    ASSUME OneAtATime
    PROVE  Spec => []NoTwins
<1>1. TwinInv => NoTwins
  BY DEF TwinInv, NoTwins, Live
<1>2. MapInv /\ TwinInv /\ [Next]_vars => TwinInv'
  BY StepKeepsTwinInv
<1>. QED BY <1>1, <1>2, InitIsMapInv, StepKeepsMapInv, InitIsTwinInv, PTL DEF Spec

-----------------------------------------------------------------------------
(* What PlanGraph_proofs shows of graphs, for the graphs of these plans.   *)

Plinko == INSTANCE PlanGraph_proofs
    WITH Users <- {}, Tags <- {}, DepSets <- {}, SlotSets <- {}, Targets <- {},
         born <- {}, request <- {}, answer <- ""

(* Dependencies of nodes, on finitely many each, and without a cycle.      *)
Graphs == [Ends -> SUBSET Ends]
Finite(g) == \A n \in Ends : IsFiniteSet(g[n])
Plain(g) == g \in Graphs /\ Graph!AcyclicGraph(g)

(* The assumptions of PlanGraph hold.                                      *)
LEMMA GraphAssumptions ==
    /\ PlanStart \notin Plinko!Nodes /\ Tasks \cap Milestones = {}
    /\ {} \subseteq SUBSET Plinko!Ends /\ {} \subseteq SUBSET Plinko!Slots
    /\ {} \subseteq Plinko!Ends
BY NodesAssumption DEF Plinko!Nodes, Nodes

(* The two instances of PlanGraph define the same.                         *)
LEMMA SameEnds == Plinko!Ends = Ends /\ Graph!Ends = Ends /\ Plinko!Graphs = Graphs
BY DEF Plinko!Ends, Graph!Ends, Ends, Plinko!Nodes, Graph!Nodes, Nodes, Plinko!Graphs, Graphs

(* ... of the order of nodes ...                                           *)
LEMMA SameOrder ==
    ASSUME NEW g
    PROVE  /\ \A a, b : Plinko!DependsOn(g, a, b) <=> Graph!DependsOn(g, a, b)
           /\ Plinko!AcyclicGraph(g) <=> Graph!AcyclicGraph(g)
           /\ \A n, D : Plinko!MakesNoCycle(g, n, D) <=> Graph!MakesNoCycle(g, n, D)
<1>1. \A a, b : Plinko!DependsOn(g, a, b) <=> Graph!DependsOn(g, a, b)
  BY SameEnds DEF Plinko!DependsOn, Graph!DependsOn, Plinko!Closed, Graph!Closed
<1>2. Plinko!AcyclicGraph(g) <=> Graph!AcyclicGraph(g)
  BY SameEnds DEF Plinko!AcyclicGraph, Graph!AcyclicGraph
<1>. QED BY <1>1, <1>2 DEF Plinko!MakesNoCycle, Graph!MakesNoCycle

(* ... and of what simplification and deletion make of a graph.            *)
LEMMA SameGraphs ==
    ASSUME NEW g
    PROVE  /\ Plinko!Simplify(g) = Graph!Simplify(g)
           /\ \A x : Plinko!Without(g, x) = Graph!Without(g, x)
           /\ Plinko!Finite(g) <=> Finite(g)
<1>1. \A n, d : Plinko!Redundant(g, n, d) <=> Graph!Redundant(g, n, d)
  BY SameOrder DEF Plinko!Redundant, Graph!Redundant
<1>2. Plinko!Simplify(g) = Graph!Simplify(g)
  BY <1>1, SameEnds DEF Plinko!Simplify, Graph!Simplify
<1>3. \A x : Plinko!Without(g, x) = Graph!Without(g, x)
  BY SameEnds DEF Plinko!Without, Graph!Without
<1>. QED BY <1>2, <1>3, SameEnds DEF Plinko!Finite, Finite,
         Plinko!IsFiniteSet, IsFiniteSet

(* Simplification makes no cycle.                                          *)
LEMMA SimplifyIsPlain ==
    ASSUME NEW g, Plain(g) PROVE Plain(Graph!Simplify(g))
<1>1. g \in Plinko!Graphs /\ Plinko!AcyclicGraph(g)
  BY SameEnds, SameOrder DEF Plain
<1>2. Plinko!Simplify(g) \in Plinko!Graphs /\ Plinko!AcyclicGraph(Plinko!Simplify(g))
  BY <1>1, GraphAssumptions, Plinko!SimplifyIsAcyclic, Zenon
<1>. QED BY <1>2, SameEnds, SameOrder, SameGraphs DEF Plain

(* Nor does deletion, whose dependents inherit.                            *)
LEMMA WithoutIsPlain ==
    ASSUME NEW g, Plain(g), NEW x \in Ends PROVE Plain(Graph!Without(g, x))
<1>1. g \in Plinko!Graphs /\ Plinko!AcyclicGraph(g) /\ x \in Plinko!Ends
  BY SameEnds, SameOrder DEF Plain
<1>2. Plinko!Without(g, x) \in Plinko!Graphs /\ Plinko!AcyclicGraph(Plinko!Without(g, x))
  BY <1>1, GraphAssumptions, Plinko!WithoutIsAcyclic, Zenon
<1>. QED BY <1>2, SameEnds, SameOrder, SameGraphs DEF Plain

(* Nor do dependencies that were validated.                                *)
LEMMA PatchIsPlain ==
    ASSUME NEW g, Plain(g), NEW x \in Ends, NEW D \in SUBSET Ends,
           Graph!MakesNoCycle(g, x, D)
    PROVE  Plain([g EXCEPT ![x] = D])
<1>1. /\ g \in Plinko!Graphs /\ Plinko!AcyclicGraph(g) /\ x \in Plinko!Ends
      /\ D \in SUBSET Plinko!Ends /\ Plinko!MakesNoCycle(g, x, D)
  BY SameEnds, SameOrder DEF Plain
<1>2. Plinko!AcyclicGraph([g EXCEPT ![x] = D])
  BY <1>1, GraphAssumptions, Plinko!PatchIsAcyclic, Zenon
<1>3. [g EXCEPT ![x] = D] \in Graphs
  BY DEF Plain, Graphs
<1>. QED BY <1>2, <1>3, SameOrder DEF Plain

(* A node reaches itself, what it depends on, and what those reach.        *)
LEMMA Reach ==
    ASSUME NEW g \in Graphs, NEW a \in Ends
    PROVE  /\ Graph!DependsOn(g, a, a)
           /\ \A d \in g[a] : Graph!DependsOn(g, a, d)
           /\ \A b, c \in Ends : Graph!DependsOn(g, a, b) /\ Graph!DependsOn(g, b, c)
                                    => Graph!DependsOn(g, a, c)
           /\ \A d \in g[a], c \in Ends : Graph!DependsOn(g, d, c) => Graph!DependsOn(g, a, c)
BY SameEnds DEF Graph!DependsOn, Graph!Closed, Graphs

(* ... and nothing else.                                                   *)
LEMMA FirstStepOf ==
    ASSUME NEW g \in Graphs, NEW a \in Ends, NEW b \in Ends, Graph!DependsOn(g, a, b), a # b
    PROVE  \E d \in g[a] : Graph!DependsOn(g, d, b)
<1>1. /\ g \in Plinko!Graphs /\ a \in Plinko!Ends /\ b \in Plinko!Ends
      /\ Plinko!DependsOn(g, a, b)
  BY SameEnds, SameOrder
<1>2. \E d \in g[a] : Plinko!DependsOn(g, d, b)
  BY <1>1, GraphAssumptions, Plinko!FirstStep, Zenon
<1>. QED BY <1>2, SameOrder

(* Fewer dependencies reach no more.                                       *)
LEMMA FewerReachable ==
    ASSUME NEW g, NEW h, \A n \in Ends : h[n] \subseteq g[n],
           NEW a, NEW b, Graph!DependsOn(h, a, b)
    PROVE  Graph!DependsOn(g, a, b)
BY SameEnds DEF Graph!DependsOn, Graph!Closed

(* No two nodes wait for each other.                                       *)
LEMMA NoneWaitMutually ==
    ASSUME NEW g, Plain(g), NEW a \in Ends, NEW b \in Ends,
           Graph!DependsOn(g, a, b), Graph!DependsOn(g, b, a)
    PROVE  a = b
<1>1. /\ g \in Plinko!Graphs /\ Plinko!AcyclicGraph(g) /\ a \in Plinko!Ends
      /\ b \in Plinko!Ends /\ Plinko!DependsOn(g, a, b) /\ Plinko!DependsOn(g, b, a)
  BY SameEnds, SameOrder DEF Plain
<1>. QED BY <1>1, GraphAssumptions, Plinko!NotEachOther, Zenon

(* Simplification keeps the order.                                         *)
LEMMA SimplifiedOrder ==
    ASSUME NEW g, Plain(g), Finite(g), NEW a \in Ends, NEW b \in Ends
    PROVE  Graph!DependsOn(Graph!Simplify(g), a, b) <=> Graph!DependsOn(g, a, b)
<1>1. /\ g \in Plinko!Graphs /\ Plinko!AcyclicGraph(g) /\ Plinko!Finite(g)
      /\ a \in Plinko!Ends /\ b \in Plinko!Ends
  BY SameEnds, SameOrder, SameGraphs DEF Plain
<1>2. Plinko!DependsOn(Plinko!Simplify(g), a, b) <=> Plinko!DependsOn(g, a, b)
  BY <1>1, GraphAssumptions, Plinko!SimplifyKeepsOrder, Zenon
<1>. QED BY <1>2, SameOrder, SameGraphs

(* A set of positions has a last one.                                      *)
LEMMA LastOf ==
    ASSUME NEW k \in Nat, NEW S \in SUBSET (1 .. k), S # {}
    PROVE  Max(S) \in S
BY GraphAssumptions, Plinko!LastPosition DEF Plinko!Max, Max

(* Induction up to a bound, over a set of numbers.                         *)
LEMMA UpTo ==
    ASSUME NEW k \in Nat, NEW S, 0 \in S,
           \A j \in 1 .. k : j - 1 \in S => j \in S
    PROVE  \A j \in 0 .. k : j \in S
<1>. DEFINE T == {j \in 0 .. k : j \notin S}
<1>. SUFFICES ASSUME T # {} PROVE FALSE
  OBVIOUS
<1>1. T \in SUBSET Nat
  OBVIOUS
<1>2. PICK m \in T : \A j \in T : m <= j
  <2>. HIDE DEF T
  <2>. QED BY <1>1, GraphAssumptions, Plinko!LeastNumber, Zenon
<1>3. m \in 1 .. k /\ m - 1 \in 0 .. k /\ ~ (m <= m - 1)
  BY <1>2
<1>4. m - 1 \in S
  BY <1>2, <1>3
<1>. QED BY <1>2, <1>3, <1>4

-----------------------------------------------------------------------------
(* Pass 2 of an import.                                                    *)

(* The graphs that FoldLeft goes through: F[j] is what the first j items   *)
(* of the order make of g.                                                 *)
Linking(M, b, g, order, k, F) ==
    /\ F[0] = g
    /\ \A j \in 1 .. k : F[j] = AddLinks(M, b, F[j - 1], order[j])

(* The equation of FoldLeft, for the first j positions.                    *)
FoldsTo(M, b, g, order, j, it) ==
    it = [S \in SUBSET (1 .. j) |->
            IF S = {} THEN g ELSE AddLinks(M, b, it[S \ {Max(S)}], order[Max(S)])]

(* The greatest of the first j positions, where j is one of them, is j.    *)
LEMMA MaxOf ==
    ASSUME NEW j \in Nat, NEW R \in SUBSET (1 .. j), j \in R
    PROVE  Max(R) = j
<1>1. \E x \in R : \A y \in R : x >= y
  <2>1. \A y \in R : j >= y
    OBVIOUS
  <2>. QED BY <2>1
<1>2. Max(R) \in R /\ \A y \in R : Max(R) >= y
  BY <1>1 DEF Max
<1>3. \A x \in R : x >= j => x = j
  OBVIOUS
<1>. QED BY <1>2, <1>3

(* It has a solution: one for the positions before the last is extended.   *)
LEMMA FoldExists ==
    ASSUME NEW M, NEW b, NEW g, NEW order, NEW k \in Nat
    PROVE  \E it : FoldsTo(M, b, g, order, k, it)
<1>. DEFINE S == {j \in 0 .. k : \E it : FoldsTo(M, b, g, order, j, it)}
<1>1. 0 \in S
  <2>. DEFINE it == [R \in SUBSET (1 .. 0) |-> g]
  <2>1. SUBSET (1 .. 0) = {{}}
    OBVIOUS
  <2>2. it = [R \in SUBSET (1 .. 0) |->
                IF R = {} THEN g ELSE AddLinks(M, b, it[R \ {Max(R)}], order[Max(R)])]
    BY <2>1
  <2>. HIDE DEF it
  <2>3. FoldsTo(M, b, g, order, 0, it)
    BY <2>2 DEF FoldsTo
  <2>. QED BY <2>3
<1>2. ASSUME NEW j \in 1 .. k, j - 1 \in S
      PROVE  j \in S
  <2>1. PICK it : FoldsTo(M, b, g, order, j - 1, it)
    BY <1>2
  <2>. DEFINE next == [R \in SUBSET (1 .. j) |->
                         IF j \in R THEN AddLinks(M, b, it[R \ {j}], order[j]) ELSE it[R]]
  <2>2. ASSUME NEW R \in SUBSET (1 .. j)
        PROVE  next[R] = IF R = {} THEN g
                         ELSE AddLinks(M, b, next[R \ {Max(R)}], order[Max(R)])
    <3>1. CASE j \in R
      <4>1. Max(R) = j
        BY <3>1, MaxOf
      <4>2. next[R \ {j}] = it[R \ {j}]
        OBVIOUS
      <4>3. next[R] = AddLinks(M, b, it[R \ {j}], order[j])
        BY <3>1
      <4>. HIDE DEF next
      <4>. QED BY <3>1, <4>1, <4>2, <4>3
    <3>2. CASE j \notin R
      <4>1. R \in SUBSET (1 .. (j - 1))
        BY <3>2
      <4>2. next[R] = it[R] /\ next[R \ {Max(R)}] = it[R \ {Max(R)}]
        BY <3>2
      <4>3. it[R] = IF R = {} THEN g ELSE AddLinks(M, b, it[R \ {Max(R)}], order[Max(R)])
        BY <2>1, <4>1 DEF FoldsTo
      <4>. HIDE DEF next
      <4>. QED BY <4>2, <4>3
    <3>. QED BY <3>1, <3>2
  <2>3. next = [R \in SUBSET (1 .. j) |->
                  IF R = {} THEN g ELSE AddLinks(M, b, next[R \ {Max(R)}], order[Max(R)])]
    BY <2>2
  <2>. HIDE DEF next
  <2>4. FoldsTo(M, b, g, order, j, next)
    BY <2>3 DEF FoldsTo
  <2>. QED BY <2>4
<1>3. k \in S
  <2>. HIDE DEF S
  <2>. QED BY <1>1, <1>2, UpTo
<1>. QED BY <1>3

(* So FoldLeft goes through the items one by one.                          *)
LEMMA OneItemAtATime ==
    ASSUME NEW M, NEW b, NEW g, NEW k \in Nat, NEW order, DOMAIN order = 1 .. k
    PROVE  \E F : /\ Linking(M, b, g, order, k, F)
                  /\ Wired(g, M, b, order) = Graph!Simplify(F[k])
<1>. DEFINE Round(it) == [S \in SUBSET DOMAIN order |->
                            IF S = {} THEN g
                            ELSE AddLinks(M, b, it[S \ {Max(S)}], order[Max(S)])]
            fold == CHOOSE it : it = Round(it)
            F == [j \in 0 .. k |-> fold[1 .. j]]
<1>1. Wired(g, M, b, order) = Graph!Simplify(fold[1 .. k])
  BY DEF Wired, FoldLeft, MapThenFoldSet
<1>2. fold = Round(fold)
  <2>1. \E it : it = Round(it)
    <3>1. PICK it : FoldsTo(M, b, g, order, k, it)
      BY FoldExists
    <3>2. it = Round(it)
      BY <3>1 DEF FoldsTo
    <3>. HIDE DEF Round
    <3>. QED BY <3>2
  <2>. HIDE DEF Round
  <2>. QED BY <2>1
<1>. HIDE DEF fold
<1>3. fold[1 .. 0] = g
  BY <1>2
<1>4. ASSUME NEW j \in 1 .. k
      PROVE  fold[1 .. j] = AddLinks(M, b, fold[1 .. (j - 1)], order[j])
  <2>1. Max(1 .. j) = j
    BY MaxOf
  <2>2. (1 .. j) \ {j} = 1 .. (j - 1) /\ 1 .. j # {} /\ 1 .. j \in SUBSET DOMAIN order
    OBVIOUS
  <2>3. fold[1 .. j] = AddLinks(M, b, fold[(1 .. j) \ {Max(1 .. j)}], order[Max(1 .. j)])
    BY <1>2, <2>2
  <2>. QED BY <2>1, <2>2, <2>3
<1>5. Linking(M, b, g, order, k, F)
  BY <1>3, <1>4 DEF Linking
<1>. QED BY <1>1, <1>5

(* The dependencies of a plan with the nodes N.                            *)
GraphOf(g, N) == /\ g \in [Ends -> SUBSET (N \cup {PlanStart})]
                 /\ \A n \in Ends \ N : g[n] = {}
                 /\ Graph!AcyclicGraph(g)

(* In an acyclic graph no node depends on itself.                          *)
LEMMA NotOnItself ==
    ASSUME NEW g, Plain(g), NEW n \in Ends PROVE n \notin g[n]
<1>1. {n} \in (SUBSET Ends) \ {{}}
  OBVIOUS
<1>. QED BY <1>1, SameEnds DEF Plain, Graph!AcyclicGraph

(* Such a graph is one of PlanGraph, and has finitely many dependencies    *)
(* where there are finitely many nodes.                                    *)
LEMMA GraphOfPlan ==
    ASSUME NEW N \in SUBSET Nodes, NEW g, GraphOf(g, N)
    PROVE  Plain(g) /\ g[PlanStart] = {} /\ (IsFiniteSet(N) => Finite(g))
<1>1. Plain(g)
  BY DEF GraphOf, Plain, Graphs, Ends
<1>2. g[PlanStart] = {}
  BY NodesAssumption DEF GraphOf, Ends
<1>3. IsFiniteSet(N) => IsFiniteSet(N \cup {PlanStart})
  BY FS_AddElement
<1>4. \A n \in Ends : g[n] \subseteq N \cup {PlanStart}
  BY DEF GraphOf
<1>. QED BY <1>1, <1>2, <1>3, <1>4, FS_Subset DEF Finite

(* The simplified one is, too.                                             *)
LEMMA SimplifiedGraph ==
    ASSUME NEW N \in SUBSET Nodes, NEW g, GraphOf(g, N)
    PROVE  GraphOf(Graph!Simplify(g), N)
<1>1. \A n \in Ends : Graph!Simplify(g)[n] \subseteq g[n]
  BY SameEnds DEF Graph!Simplify
<1>2. Graph!Simplify(g) \in [Ends -> SUBSET (N \cup {PlanStart})]
  BY SameEnds DEF GraphOf, Graph!Simplify
<1>3. Graph!AcyclicGraph(Graph!Simplify(g))
  BY GraphOfPlan, SimplifyIsPlain DEF Plain
<1>. QED BY <1>1, <1>2, <1>3 DEF GraphOf

(* An item has the node it is paired with.                                 *)
LEMMA NodeOfPair ==
    ASSUME NEW M, OneToOne(M), NEW m \in M PROVE NodeOf(M, m[1]) = m[2]
BY DEF NodeOf, OneToOne

(* What is asked for are nodes of the map, or PlanStart.                   *)
LEMMA NodesAsked ==
    ASSUME NEW M, NEW N, NodesOf(M) \subseteq N
    PROVE  /\ \A i \in ItemsOf(M) : NodeOf(M, i) \in N
           /\ \A item : Asked(M, item) \subseteq N \cup {PlanStart}
<1>1. \A i \in ItemsOf(M) : NodeOf(M, i) \in N
  BY DEF NodeOf, ItemsOf, NodesOf
<1>. QED BY <1>1 DEF Asked

(* One item more: nothing is lost, no cycle is made, and what is asked for *)
(* is added unless it waits for the node already.                          *)
LEMMA LinksOfOne ==
    ASSUME NEW N \in SUBSET Nodes, NEW M, NodesOf(M) \subseteq N, NEW b,
           NEW h, GraphOf(h, N), NEW i \in ItemsOf(M)
    PROVE  /\ GraphOf(AddLinks(M, b, h, i), N)
           /\ \A n \in Ends : h[n] \subseteq AddLinks(M, b, h, i)[n]
           /\ \A d \in Asked(M, b[i]) : \/ d \in AddLinks(M, b, h, i)[NodeOf(M, i)]
                                        \/ Graph!DependsOn(h, d, NodeOf(M, i))
<1>. DEFINE n == NodeOf(M, i)
            E == {d \in Asked(M, b[i]) : ~ Graph!DependsOn(h, d, n)}
            D == h[n] \cup E
            H == AddLinks(M, b, h, i)
<1>1. n \in N /\ n \in Ends /\ E \subseteq N \cup {PlanStart}
  BY NodesAsked DEF Ends
<1>2. H = [h EXCEPT ![n] = D]
  BY DEF AddLinks
<1>3. h \in [Ends -> SUBSET (N \cup {PlanStart})] /\ N \cup {PlanStart} \subseteq Ends /\ Plain(h)
  BY GraphOfPlan DEF GraphOf, Ends
<1>4. D \in SUBSET (N \cup {PlanStart}) /\ D \in SUBSET Ends
  BY <1>1, <1>3
<1>5. Graph!MakesNoCycle(h, n, D)
  <2>. SUFFICES ASSUME NEW d \in D, Graph!DependsOn(h, d, n) PROVE FALSE
    BY DEF Graph!MakesNoCycle
  <2>1. d \in h[n] /\ d \in Ends
    BY <1>4
  <2>2. Graph!DependsOn(h, n, d)
    BY <1>1, <1>3, <2>1, Reach DEF Plain
  <2>. QED BY <1>1, <1>3, <2>1, <2>2, NoneWaitMutually, NotOnItself
<1>6. Plain([h EXCEPT ![n] = D])
  <2>. HIDE DEF D, n
  <2>. QED BY <1>1, <1>3, <1>4, <1>5, PatchIsPlain
<1>7. H \in [Ends -> SUBSET (N \cup {PlanStart})] /\ H[n] = D
      /\ \A x \in Ends : x # n => H[x] = h[x]
  <2>. HIDE DEF D, n, H
  <2>. QED BY <1>1, <1>2, <1>3, <1>4
<1>8. \A x \in Ends : h[x] \subseteq H[x]
  BY <1>7
<1>9. GraphOf(H, N)
  BY <1>1, <1>2, <1>6, <1>7 DEF GraphOf, Plain
<1>10. \A d \in Asked(M, b[i]) : d \in H[n] \/ Graph!DependsOn(h, d, n)
  BY <1>7
<1>. QED BY <1>8, <1>9, <1>10

(* All items: the result has what the plan had, and of everything asked    *)
(* for it has all that does not wait for the node.                         *)
LEMMA LinksOfAll ==
    ASSUME NEW N \in SUBSET Nodes, NEW M, NodesOf(M) \subseteq N, NEW b,
           NEW g, GraphOf(g, N), NEW k \in Nat, NEW order \in [1 .. k -> ItemsOf(M)],
           NEW F, Linking(M, b, g, order, k, F)
    PROVE  /\ GraphOf(F[k], N)
           /\ \A n \in Ends : g[n] \subseteq F[k][n]
           /\ \A l \in 1 .. k : \A d \in Asked(M, b[order[l]]) :
                 \/ d \in F[k][NodeOf(M, order[l])]
                 \/ Graph!DependsOn(F[k], d, NodeOf(M, order[l]))
<1>. DEFINE Met(h, l) == \A d \in Asked(M, b[order[l]]) :
                            \/ d \in h[NodeOf(M, order[l])]
                            \/ Graph!DependsOn(h, d, NodeOf(M, order[l]))
            S == {j \in 0 .. k : /\ GraphOf(F[j], N)
                                 /\ \A n \in Ends : g[n] \subseteq F[j][n]
                                 /\ \A l \in 1 .. j : Met(F[j], l)}
<1>1. 0 \in S
  BY DEF Linking
<1>2. ASSUME NEW j \in 1 .. k, j - 1 \in S
      PROVE  j \in S
  <2>1. /\ GraphOf(F[j - 1], N) /\ \A n \in Ends : g[n] \subseteq F[j - 1][n]
        /\ \A l \in 1 .. (j - 1) : Met(F[j - 1], l)
    BY <1>2
  <2>2. F[j] = AddLinks(M, b, F[j - 1], order[j]) /\ order[j] \in ItemsOf(M)
    BY DEF Linking
  <2>. HIDE DEF S, Met
  <2>3. /\ GraphOf(F[j], N)
        /\ \A n \in Ends : F[j - 1][n] \subseteq F[j][n]
        /\ \A d \in Asked(M, b[order[j]]) : \/ d \in F[j][NodeOf(M, order[j])]
                                            \/ Graph!DependsOn(F[j - 1], d, NodeOf(M, order[j]))
    BY <2>1, <2>2, LinksOfOne
  <2>4. \A a, c : Graph!DependsOn(F[j - 1], a, c) => Graph!DependsOn(F[j], a, c)
    BY <2>3, FewerReachable
  <2>5. Met(F[j], j)
    BY <2>3, <2>4 DEF Met
  <2>6. ASSUME NEW l \in 1 .. (j - 1) PROVE Met(F[j], l)
    <3>1. order[l] \in ItemsOf(M) /\ NodeOf(M, order[l]) \in Ends
      BY NodesAsked DEF Ends
    <3>. QED BY <2>1, <2>3, <2>4, <3>1 DEF Met
  <2>7. \A l \in 1 .. j : Met(F[j], l)
    <3>1. \A l \in 1 .. j : l = j \/ l \in 1 .. (j - 1)
      OBVIOUS
    <3>. QED BY <2>5, <2>6, <3>1
  <2>8. \A n \in Ends : g[n] \subseteq F[j][n]
    BY <2>1, <2>3
  <2>. QED BY <2>3, <2>7, <2>8 DEF S
<1>3. k \in S
  <2>. HIDE DEF S
  <2>. QED BY <1>1, <1>2, UpTo
<1>. QED BY <1>3

(* Graphs between the simplification of g and all that g implies.          *)
Implied(g, h) ==
    /\ h \in Graphs
    /\ \A n \in Ends : /\ Graph!Simplify(g)[n] \subseteq h[n]
                       /\ \A d \in h[n] : Graph!DependsOn(g, n, d) /\ d # n

(* They order the nodes as g does.                                         *)
LEMMA ImpliedOrder ==
    ASSUME NEW g, Plain(g), Finite(g), NEW h, Implied(g, h), NEW a \in Ends, NEW c \in Ends
    PROVE  Graph!DependsOn(h, a, c) <=> Graph!DependsOn(g, a, c)
<1>1. ASSUME Graph!DependsOn(h, a, c) PROVE Graph!DependsOn(g, a, c)
  <2>. DEFINE S == {n \in Ends : Graph!DependsOn(g, a, n)}
  <2>1. a \in S /\ S \in SUBSET Ends
    BY Reach DEF Plain
  <2>2. ASSUME NEW n \in S, NEW d \in h[n] PROVE d \in S
    <3>1. d \in Ends /\ Graph!DependsOn(g, n, d)
      BY <2>2 DEF Implied, Graphs
    <3>. QED BY <3>1, Reach DEF Plain
  <2>3. Graph!Closed(h, S)
    BY <2>2 DEF Graph!Closed
  <2>. HIDE DEF S
  <2>4. c \in S
    BY <1>1, <2>1, <2>3, SameEnds DEF Graph!DependsOn
  <2>. QED BY <2>4 DEF S
<1>2. ASSUME Graph!DependsOn(g, a, c) PROVE Graph!DependsOn(h, a, c)
  <2>1. Graph!DependsOn(Graph!Simplify(g), a, c)
    BY <1>2, SimplifiedOrder
  <2>. QED BY <2>1, FewerReachable DEF Implied
<1>. QED BY <1>1, <1>2

(* And come to the same when they are simplified.                          *)
LEMMA ImpliedSimplifies ==
    ASSUME NEW g, Plain(g), Finite(g), NEW h, Implied(g, h)
    PROVE  Graph!Simplify(h) = Graph!Simplify(g)
<1>. DEFINE s == Graph!Simplify(g)
<1>1. /\ s \in Graphs /\ Plain(s)
      /\ \A n \in Ends : s[n] \subseteq g[n] /\ s[n] \subseteq h[n]
      /\ \A n \in Ends : \A d \in s[n] : ~ Graph!Redundant(g, n, d)
  BY SimplifyIsPlain, SameEnds DEF Plain, Graph!Simplify, Implied
<1>2. /\ g \in Graphs /\ h \in Graphs
      /\ \A n \in Ends : \A d \in h[n] : Graph!DependsOn(g, n, d) /\ d # n
  BY DEF Plain, Implied
<1>3. ASSUME NEW n \in Ends, NEW d \in h[n], ~ Graph!Redundant(h, n, d)
      PROVE  d \in s[n]
  <2>1. d \in Ends /\ Graph!DependsOn(g, n, d) /\ d # n
    BY <1>2 DEF Graphs
  <2>2. Graph!DependsOn(s, n, d)
    BY <2>1, SimplifiedOrder
  <2>. HIDE DEF s
  <2>3. PICK j \in s[n] : Graph!DependsOn(s, j, d)
    BY <1>1, <2>1, <2>2, FirstStepOf
  <2>4. Graph!DependsOn(h, j, d) /\ j \in h[n]
    BY <1>1, <2>3, FewerReachable
  <2>5. j = d
    BY <1>3, <2>4 DEF Graph!Redundant
  <2>. QED BY <2>3, <2>5
<1>4. ASSUME NEW n \in Ends, NEW d \in s[n]
      PROVE  d \in h[n] /\ ~ Graph!Redundant(h, n, d)
  <2>1. d \in h[n] /\ d \in g[n] /\ d \in Ends /\ ~ Graph!Redundant(g, n, d)
    BY <1>1, <1>2 DEF Graphs
  <2>. SUFFICES ASSUME NEW j \in h[n] \ {d}, Graph!DependsOn(h, j, d) PROVE FALSE
    BY <2>1 DEF Graph!Redundant
  <2>2. j \in Ends /\ Graph!DependsOn(g, n, j) /\ j # n
    BY <1>2 DEF Graphs
  <2>3. Graph!DependsOn(g, j, d)
    BY <2>1, <2>2, ImpliedOrder
  <2>4. PICK e \in g[n] : Graph!DependsOn(g, e, j)
    BY <1>2, <2>2, FirstStepOf
  <2>5. e \in Ends /\ Graph!DependsOn(g, e, d)
    BY <1>2, <2>1, <2>2, <2>3, <2>4, Reach DEF Graphs
  <2>6. e = d
    BY <2>1, <2>4, <2>5 DEF Graph!Redundant
  <2>. QED BY <2>1, <2>2, <2>3, <2>4, <2>6, NoneWaitMutually
<1>5. \A n \in Ends : {d \in h[n] : ~ Graph!Redundant(h, n, d)} = s[n]
  BY <1>3, <1>4
<1>6. s = [n \in Ends |-> s[n]]
  BY <1>1 DEF Graphs
<1>. HIDE DEF s
<1>7. Graph!Simplify(h) = s
  BY <1>5, <1>6, SameEnds DEF Graph!Simplify
<1>. QED BY <1>7 DEF s

(* The second import of the same adds nothing that is not implied.         *)
LEMMA LinksAgain ==
    ASSUME NEW N \in SUBSET Nodes, NEW M, NodesOf(M) \subseteq N, NEW b,
           NEW g, Plain(g), Finite(g), NEW h, Implied(g, h), NEW i \in ItemsOf(M),
           \A d \in Asked(M, b[i]) : \/ d \in g[NodeOf(M, i)]
                                     \/ Graph!DependsOn(g, d, NodeOf(M, i))
    PROVE  Implied(g, AddLinks(M, b, h, i))
<1>. DEFINE n == NodeOf(M, i)
            D == h[n] \cup {d \in Asked(M, b[i]) : ~ Graph!DependsOn(h, d, n)}
            H == AddLinks(M, b, h, i)
<1>1. n \in Ends /\ Asked(M, b[i]) \subseteq Ends
  <2>1. n \in N /\ Asked(M, b[i]) \subseteq N \cup {PlanStart}
    BY NodesAsked
  <2>. QED BY <2>1 DEF Ends
<1>2. H = [h EXCEPT ![n] = D] /\ h \in Graphs /\ g \in Graphs
  BY DEF AddLinks, Implied, Plain
<1>3. ASSUME NEW d \in D PROVE d \in Ends /\ Graph!DependsOn(g, n, d) /\ d # n
  <2>1. CASE d \in h[n]
    BY <1>1, <2>1 DEF Implied, Graphs
  <2>2. CASE d \in Asked(M, b[i]) /\ ~ Graph!DependsOn(h, d, n)
    <3>1. d \in Ends /\ ~ Graph!DependsOn(g, d, n)
      BY <1>1, <2>2, ImpliedOrder
    <3>2. d \in g[n]
      BY <2>2, <3>1
    <3>. QED BY <1>1, <1>2, <3>1, <3>2, Reach, NotOnItself
  <2>. QED BY <2>1, <2>2
<1>. HIDE DEF n
<1>4. h[n] \subseteq D
  OBVIOUS
<1>. HIDE DEF D, H
<1>5. H \in Graphs /\ H[n] = D /\ \A x \in Ends : x # n => H[x] = h[x]
  BY <1>1, <1>2, <1>3 DEF Graphs
<1>6. \A x \in Ends : \A d \in H[x] : Graph!DependsOn(g, x, d) /\ d # x
  BY <1>3, <1>5 DEF Implied
<1>7. \A x \in Ends : Graph!Simplify(g)[x] \subseteq H[x]
  BY <1>4, <1>5 DEF Implied
<1>8. Implied(g, H)
  BY <1>5, <1>6, <1>7 DEF Implied
<1>. QED BY <1>8 DEF H

(* So it comes to the same graph as the first, in any order.               *)
LEMMA WiredAgain ==
    ASSUME NEW N \in SUBSET Nodes, IsFiniteSet(N), NEW M, NodesOf(M) \subseteq N, NEW b,
           NEW g, GraphOf(g, N), NEW I \in SUBSET ItemsOf(M),
           \A i \in I : \A d \in Asked(M, b[i]) :
              d \in g[NodeOf(M, i)] \/ Graph!DependsOn(g, d, NodeOf(M, i)),
           NEW k \in Nat, NEW order \in [1 .. k -> I]
    PROVE  Wired(Graph!Simplify(g), M, b, order) = Graph!Simplify(g)
<1>. DEFINE s == Graph!Simplify(g)
<1>1. Plain(g) /\ Finite(g)
  BY GraphOfPlan
<1>2. Implied(g, s)
  <2>1. s \in Graphs
    BY <1>1, SimplifyIsPlain DEF Plain
  <2>2. ASSUME NEW n \in Ends, NEW d \in s[n]
        PROVE  Graph!DependsOn(g, n, d) /\ d # n
    <3>1. d \in g[n]
      BY <2>2, SameEnds DEF Graph!Simplify
    <3>. QED BY <1>1, <3>1, Reach, NotOnItself DEF Plain
  <2>. HIDE DEF s
  <2>3. \A n \in Ends : \A d \in s[n] : Graph!DependsOn(g, n, d) /\ d # n
    BY <2>2
  <2>. QED BY <2>1, <2>3 DEF Implied, s
<1>. HIDE DEF s
<1>3. PICK F : Linking(M, b, s, order, k, F) /\ Wired(s, M, b, order) = Graph!Simplify(F[k])
  BY OneItemAtATime
<1>. DEFINE S == {j \in 0 .. k : Implied(g, F[j])}
<1>4. 0 \in S
  BY <1>2, <1>3 DEF Linking
<1>5. ASSUME NEW j \in 1 .. k, j - 1 \in S
      PROVE  j \in S
  <2>1. F[j] = AddLinks(M, b, F[j - 1], order[j]) /\ order[j] \in I
    BY <1>3 DEF Linking
  <2>2. Implied(g, F[j - 1])
    BY <1>5
  <2>3. Implied(g, F[j])
    BY <1>1, <2>1, <2>2, LinksAgain
  <2>. QED BY <2>3
<1>6. k \in S
  <2>. HIDE DEF S
  <2>. QED BY <1>4, <1>5, UpTo
<1>7. Graph!Simplify(F[k]) = Graph!Simplify(g)
  BY <1>1, <1>6, ImpliedSimplifies
<1>. QED BY <1>3, <1>7 DEF s

(* A plan whose nodes and dependencies are what they should be; and items  *)
(* that are.                                                               *)
SoundPlan(p) ==
    /\ DOMAIN p.nodes \in SUBSET Nodes /\ IsFiniteSet(DOMAIN p.nodes)
    /\ \A n \in DOMAIN p.nodes : p.nodes[n] \in NodeData
    /\ GraphOf(p.deps, DOMAIN p.nodes)
SoundBoard(b) == IsFiniteSet(DOMAIN b) /\ \A i \in DOMAIN b : b[i] \in ItemData

(* The node n after an import with the map N.                              *)
ImportedNode(p, old, b, sub, N, n) ==
    IF \E i \in OfLevel(b, sub) : <<i, n>> \in N
    THEN LET i == CHOOSE i \in OfLevel(b, sub) : <<i, n>> \in N
         IN Pulled(p, n, b[i], <<i, n>> \in old)
    ELSE p.nodes[n]

(* How an import comes to r: the nodes f of new items, and the graphs F    *)
(* that the items make one after the other, in an order.                   *)
Importing(p, M, b, sub, r, f, k, order, F) ==
    /\ f \in Linked(p, Existing(p, M), b, sub)
    /\ r.map = Existing(p, M) \cup {<<i, f[i]>> : i \in DOMAIN f}
    /\ order \in SetToSeqs(OfLevel(b, sub) \cap ItemsOf(r.map))
    /\ DOMAIN r.plan.nodes = DOMAIN p.nodes \cup NodesOf(r.map \ Existing(p, M))
    /\ \A n \in DOMAIN r.plan.nodes :
          r.plan.nodes[n] = ImportedNode(p, Existing(p, M), b, sub, r.map, n)
    /\ k \in Nat /\ order \in [1 .. k -> OfLevel(b, sub) \cap ItemsOf(r.map)]
    /\ \A i \in OfLevel(b, sub) \cap ItemsOf(r.map) : \E l \in 1 .. k : order[l] = i
    /\ Linking(r.map, b, p.deps, order, k, F)
    /\ r.plan.deps = Graph!Simplify(F[k])

(* The ends of the pairs of an import.                                     *)
LEMMA NodesOfPairs ==
    ASSUME NEW old, NEW f
    PROVE  /\ NodesOf(old \cup {<<i, f[i]>> : i \in DOMAIN f})
                 = NodesOf(old) \cup {f[i] : i \in DOMAIN f}
           /\ ItemsOf(old \cup {<<i, f[i]>> : i \in DOMAIN f}) = ItemsOf(old) \cup DOMAIN f
<1>. DEFINE pairs == {<<i, f[i]>> : i \in DOMAIN f}
<1>1. \A m \in pairs : m[1] \in DOMAIN f /\ m[2] = f[m[1]]
  OBVIOUS
<1>2. ASSUME NEW i \in DOMAIN f
      PROVE  \E m \in pairs : m[1] = i /\ m[2] = f[i]
  <2>1. <<i, f[i]>> \in pairs
    OBVIOUS
  <2>2. <<i, f[i]>>[1] = i /\ <<i, f[i]>>[2] = f[i]
    OBVIOUS
  <2>. HIDE DEF pairs
  <2>. QED BY <2>1, <2>2
<1>. HIDE DEF pairs
<1>3. NodesOf(old \cup pairs) = NodesOf(old) \cup {f[i] : i \in DOMAIN f}
  <2>1. ASSUME NEW n \in NodesOf(old \cup pairs)
        PROVE  n \in NodesOf(old) \cup {f[i] : i \in DOMAIN f}
    BY <1>1 DEF NodesOf
  <2>2. ASSUME NEW i \in DOMAIN f
        PROVE  f[i] \in NodesOf(old \cup pairs)
    BY <1>2 DEF NodesOf
  <2>3. NodesOf(old) \subseteq NodesOf(old \cup pairs)
    BY DEF NodesOf
  <2>. QED BY <2>1, <2>2, <2>3
<1>4. ItemsOf(old \cup pairs) = ItemsOf(old) \cup DOMAIN f
  BY <1>1, <1>2 DEF ItemsOf
<1>. QED BY <1>3, <1>4 DEF pairs

(* Orders of a finite set.                                                 *)
LEMMA OrdersOf ==
    ASSUME NEW S, IsFiniteSet(S), NEW order \in SetToSeqs(S)
    PROVE  \E k \in Nat : /\ order \in [1 .. k -> S]
                          /\ \A x \in S : \E l \in 1 .. k : order[l] = x
<1>. DEFINE k == Cardinality(S)
<1>1. k \in Nat
  BY FS_CardinalityType
<1>2. order \in [1 .. k -> S] /\ \A i, j \in 1 .. k : i # j => order[i] # order[j]
  BY DEF SetToSeqs
<1>3. IsFiniteSet(1 .. k) /\ Cardinality(1 .. k) = k
  BY <1>1, FS_Interval
<1>4. order \in Injection(1 .. k, S)
  BY <1>2 DEF Injection, IsInjective
<1>5. order \in Surjection(1 .. k, S)
  BY <1>1, <1>3, <1>4, FS_Injection
<1>6. \A x \in S : \E l \in 1 .. k : order[l] = x
  BY <1>5 DEF Surjection
<1>. QED BY <1>1, <1>2, <1>6

(* The nodes of an import.                                                 *)
LEMMA ImportedNodes ==
    ASSUME NEW p, NEW old, NEW b, NEW sub, NEW N, NEW order, NEW r,
           r = Imported(p, old, b, sub, N, order)
    PROVE  \A x \in DOMAIN r.plan.nodes :
              r.plan.nodes[x] = ImportedNode(p, old, b, sub, N, x)
BY DEF Imported, ImportedNode

(* Every import comes about like that.                                     *)
LEMMA ImportComesAbout ==
    ASSUME NEW p, NEW M, NEW b, IsFiniteSet(DOMAIN b), NEW sub,
           NEW r \in Imports(p, M, b, sub)
    PROVE  \E f, k, order, F : Importing(p, M, b, sub, r, f, k, order, F)
<1>. DEFINE old == Existing(p, M)
            with(f) == old \cup {<<i, f[i]>> : i \in DOMAIN f}
<1>1. PICK f \in Linked(p, old, b, sub) :
         \E order \in SetToSeqs(OfLevel(b, sub) \cap ItemsOf(with(f))) :
            r = Imported(p, old, b, sub, with(f), order)
  BY DEF Imports
<1>2. PICK order \in SetToSeqs(OfLevel(b, sub) \cap ItemsOf(with(f))) :
         r = Imported(p, old, b, sub, with(f), order)
  BY <1>1
<1>3. r.map = with(f) /\ r.plan.deps = Wired(p.deps, with(f), b, order)
  BY <1>2 DEF Imported
<1>4. /\ DOMAIN r.plan.nodes = DOMAIN p.nodes \cup NodesOf(with(f) \ old)
      /\ \A n \in DOMAIN r.plan.nodes :
            r.plan.nodes[n] = ImportedNode(p, old, b, sub, with(f), n)
  <2>. HIDE DEF with, old
  <2>1. DOMAIN r.plan.nodes = DOMAIN p.nodes \cup NodesOf(with(f) \ old)
    BY <1>2 DEF Imported
  <2>2. \A n \in DOMAIN r.plan.nodes :
           r.plan.nodes[n] = ImportedNode(p, old, b, sub, with(f), n)
    BY <1>2, ImportedNodes
  <2>. QED BY <2>1, <2>2
<1>. HIDE DEF with
<1>5. IsFiniteSet(OfLevel(b, sub) \cap ItemsOf(r.map))
  <2>1. OfLevel(b, sub) \cap ItemsOf(r.map) \in SUBSET DOMAIN b
    BY DEF OfLevel
  <2>. QED BY <2>1, FS_Subset
<1>6. PICK k \in Nat :
         /\ order \in [1 .. k -> OfLevel(b, sub) \cap ItemsOf(r.map)]
         /\ \A i \in OfLevel(b, sub) \cap ItemsOf(r.map) : \E l \in 1 .. k : order[l] = i
  <2>. DEFINE T == OfLevel(b, sub) \cap ItemsOf(r.map)
  <2>1. order \in SetToSeqs(T) /\ IsFiniteSet(T)
    BY <1>2, <1>3, <1>5
  <2>. HIDE DEF T
  <2>2. \E k \in Nat : order \in [1 .. k -> T] /\ \A x \in T : \E l \in 1 .. k : order[l] = x
    BY <2>1, OrdersOf
  <2>. QED BY <2>2 DEF T
<1>7. PICK F : /\ Linking(r.map, b, p.deps, order, k, F)
               /\ Wired(p.deps, r.map, b, order) = Graph!Simplify(F[k])
  BY <1>6, OneItemAtATime
<1>8. Importing(p, M, b, sub, r, f, k, order, F)
  BY <1>1, <1>2, <1>3, <1>6, <1>7, <1>4 DEF Importing, with
<1>. QED BY <1>8

(* What is divided evenly is something a node may have.                    *)
LEMMA BuiltIsWork ==
    ASSUME NEW item \in ItemData
    PROVE  Built(item) \in Works /\ Placeholder \in Works
<1>1. \A u \in SUBSET Users, d \in Days : Even(u, d) \in Works
  BY DataAssumption DEF Even, Works
<1>2. item.persons \cap Users \in SUBSET Users
  OBVIOUS
<1>3. (IF item.days = NoDays THEN DefaultDays ELSE item.days) \in Days
  BY DataAssumption DEF ItemData
<1>4. Built(item) \in Works
  BY <1>1, <1>2, <1>3 DEF Built
<1>5. Placeholder \in Works
  BY <1>1, DataAssumption DEF Placeholder
<1>. QED BY <1>4, <1>5

(* What a node takes over is what a node may have.                         *)
LEMMA PulledIsData ==
    ASSUME NEW p, NEW n, n \in DOMAIN p.nodes => p.nodes[n] \in NodeData,
           NEW item \in ItemData, NEW mapped
    PROVE  Pulled(p, n, item, mapped) \in NodeData
<1>. DEFINE new == [name |-> item.name, status |-> "NotStarted",
                    work |-> IF n \in Milestones THEN Placeholder ELSE Built(item)]
            old == IF n \notin DOMAIN p.nodes THEN new
                   ELSE IF ~ mapped THEN p.nodes[n]
                   ELSE [p.nodes[n] EXCEPT !.name = item.name,
                           !.work = IF n \in Milestones THEN @ ELSE Built(item)]
<1>1. /\ item.name \in Names /\ item.status \in Statuses
      /\ Built(item) \in Works /\ Placeholder \in Works
  BY BuiltIsWork DEF ItemData
<1>2. new \in NodeData
  BY <1>1, DataAssumption DEF NodeData
<1>3. old \in NodeData
  <2>1. CASE n \notin DOMAIN p.nodes
    BY <1>2, <2>1
  <2>2. CASE n \in DOMAIN p.nodes
    BY <1>1, <2>2 DEF NodeData
  <2>. QED BY <2>1, <2>2
<1>. HIDE DEF old
<1>4. [old EXCEPT !.status = item.status] \in NodeData
  BY <1>1, <1>3 DEF NodeData
<1>. QED BY <1>3, <1>4 DEF Pulled, old

(* What an import makes of a sound plan is one: the graph it is simplified *)
(* from, and the result.                                                   *)
LEMMA ImportIsSound ==
    ASSUME NEW p, SoundPlan(p), PlanOK(p, used), NEW M, MapOK(M, used),
           NEW b, SoundBoard(b), DOMAIN b \subseteq Items \cap used, NEW sub,
           NEW r \in Imports(p, M, b, sub), NEW f, NEW k, NEW order, NEW F,
           Importing(p, M, b, sub, r, f, k, order, F)
    PROVE  /\ DOMAIN r.plan.nodes \in SUBSET Nodes /\ NodesOf(r.map) \subseteq DOMAIN r.plan.nodes
           /\ GraphOf(p.deps, DOMAIN r.plan.nodes)
           /\ GraphOf(F[k], DOMAIN r.plan.nodes)
           /\ SoundPlan(r.plan)
<1>. DEFINE N == DOMAIN r.plan.nodes
            old == Existing(p, M)
<1>1. MapOK(r.map, used \cup (N \ DOMAIN p.nodes)) /\ N = DOMAIN p.nodes \cup NodesOf(r.map)
  <2>1. DOMAIN b \subseteq Items \cap used
    OBVIOUS
  <2>2. MapOK(r.map, used \cup (N \ DOMAIN p.nodes))
    BY ImportsAreOneToOne
  <2>3. N = DOMAIN p.nodes \cup NodesOf(r.map)
    BY ImportIs
  <2>. QED BY <2>2, <2>3
<1>2. N = DOMAIN p.nodes \cup NodesOf(r.map) /\ NodesOf(r.map) \subseteq Nodes
  BY <1>1 DEF MapOK, NodesOf
<1>3. /\ DOMAIN f \subseteq OfLevel(b, sub) /\ r.map = old \cup {<<i, f[i]>> : i \in DOMAIN f}
      /\ NodesOf(old) \subseteq DOMAIN p.nodes /\ f = [i \in DOMAIN f |-> f[i]]
  BY DEF Importing, Linked, Existing, NodesOf
<1>4. N = DOMAIN p.nodes \cup {f[i] : i \in DOMAIN f}
  <2>. HIDE DEF old, N
  <2>. QED BY <1>2, <1>3, NodesOfPairs
<1>5. IsFiniteSet(N) /\ N \in SUBSET Nodes
  <2>1. IsFiniteSet(DOMAIN f)
    BY <1>3, FS_Subset DEF SoundBoard, OfLevel
  <2>2. IsFiniteSet({f[i] : i \in DOMAIN f})
    <3>. DEFINE T == {f[i] : i \in DOMAIN f}
    <3>1. f \in Surjection(DOMAIN f, T)
      BY <1>3 DEF Surjection
    <3>. HIDE DEF T
    <3>2. IsFiniteSet(T)
      BY <2>1, <3>1, FS_Surjection
    <3>. QED BY <3>2 DEF T
  <2>3. IsFiniteSet(DOMAIN p.nodes) /\ DOMAIN p.nodes \subseteq Nodes
    BY DEF SoundPlan
  <2>4. IsFiniteSet(DOMAIN p.nodes \cup {f[i] : i \in DOMAIN f})
    BY <2>2, <2>3, FS_Union
  <2>. QED BY <1>2, <1>4, <2>3, <2>4
<1>6. GraphOf(p.deps, N)
  BY <1>2 DEF SoundPlan, GraphOf
<1>. HIDE DEF N
<1>7. GraphOf(F[k], N)
  <2>1. order \in [1 .. k -> ItemsOf(r.map)] /\ k \in Nat /\ Linking(r.map, b, p.deps, order, k, F)
    BY DEF Importing
  <2>. QED BY <1>2, <1>5, <1>6, <2>1, LinksOfAll
<1>8. GraphOf(r.plan.deps, N)
  BY <1>5, <1>7, SimplifiedGraph DEF Importing
<1>9. ASSUME NEW n \in N
      PROVE  r.plan.nodes[n] \in NodeData
  <2>1. r.plan.nodes[n] = IF \E i \in OfLevel(b, sub) : <<i, n>> \in r.map
                          THEN LET i == CHOOSE i \in OfLevel(b, sub) : <<i, n>> \in r.map
                               IN Pulled(p, n, b[i], <<i, n>> \in old)
                          ELSE p.nodes[n]
    <3>1. r.plan.nodes[n] = ImportedNode(p, old, b, sub, r.map, n)
      BY <1>9 DEF Importing, N
    <3>. QED BY <3>1 DEF ImportedNode
  <2>2. CASE \E i \in OfLevel(b, sub) : <<i, n>> \in r.map
    <3>1. PICK i \in OfLevel(b, sub) : r.plan.nodes[n] = Pulled(p, n, b[i], <<i, n>> \in old)
      BY <2>1, <2>2
    <3>2. b[i] \in ItemData
      BY DEF SoundBoard, OfLevel
    <3>. QED BY <3>1, <3>2, PulledIsData DEF SoundPlan
  <2>3. CASE ~ \E i \in OfLevel(b, sub) : <<i, n>> \in r.map
    <3>1. n \in DOMAIN p.nodes
      BY <1>3, <1>4, <2>3
    <3>. QED BY <2>1, <2>3, <3>1 DEF SoundPlan
  <2>. QED BY <2>2, <2>3
<1>10. SoundPlan(r.plan)
  BY <1>5, <1>8, <1>9 DEF SoundPlan, N
<1>. QED BY <1>2, <1>5, <1>6, <1>7, <1>10 DEF N

-----------------------------------------------------------------------------
(* Types, and no cycles: of the plan there is and of those that threads    *)
(* work on, which may come to be the plan again.                           *)
DataInv ==
    /\ IsFiniteSet(used)
    /\ SoundPlan(plan) /\ \A i \in DOMAIN board : board[i] \in ItemData
    /\ \A j \in Jobs : jobs[j].kind # "idle" => SoundPlan(jobs[j].plan)
    /\ undisturbed \subseteq Jobs /\ settled \in BOOLEAN /\ edits \in 0 .. MaxEdits

(* The bookkeeping of a step.                                              *)
Counted == undisturbed' \subseteq Jobs /\ settled' \in BOOLEAN /\ edits' \in 0 .. MaxEdits

(* The empty plan.                                                         *)
LEMMA EmptyPlanIsSound == SoundPlan([nodes |-> <<>>, deps |-> [n \in Ends |-> {}]])
<1>. DEFINE p == [nodes |-> <<>>, deps |-> [n \in Ends |-> {}]]
<1>1. DOMAIN p.nodes = {} /\ p.deps = [n \in Ends |-> {}]
  OBVIOUS
<1>. HIDE DEF p
<1>2. Graph!AcyclicGraph(p.deps)
  BY <1>1, SameEnds DEF Graph!AcyclicGraph
<1>3. GraphOf(p.deps, {})
  BY <1>1, <1>2 DEF GraphOf
<1>4. SoundPlan(p)
  BY <1>1, <1>3, FS_EmptySet DEF SoundPlan
<1>. QED BY <1>4 DEF p

(* Other dependencies for a node, if they make no cycle.                   *)
LEMMA NewLinks ==
    ASSUME NEW N \in SUBSET Nodes, NEW g, GraphOf(g, N), NEW n \in Nodes,
           NEW D \in SUBSET (N \cup {PlanStart}), Graph!MakesNoCycle(g, n, D)
    PROVE  GraphOf([g EXCEPT ![n] = D], N \cup {n})
<1>1. Plain(g) /\ n \in Ends /\ D \in SUBSET Ends /\ g \in [Ends -> SUBSET (N \cup {PlanStart})]
  BY GraphOfPlan DEF Ends, GraphOf
<1>2. Plain([g EXCEPT ![n] = D])
  BY <1>1, PatchIsPlain
<1>3. [g EXCEPT ![n] = D] \in [Ends -> SUBSET (N \cup {n} \cup {PlanStart})]
  BY <1>1
<1>4. \A x \in Ends \ (N \cup {n}) : [g EXCEPT ![n] = D][x] = {}
  BY <1>1 DEF GraphOf
<1>. QED BY <1>2, <1>3, <1>4 DEF GraphOf, Plain

(* PlanStart depends on nothing.                                           *)
LEMMA AfterPlanStart ==
    ASSUME NEW N \in SUBSET Nodes, NEW g, GraphOf(g, N), NEW n \in Nodes
    PROVE  Graph!MakesNoCycle(g, n, {PlanStart})
<1>1. g[PlanStart] = {} /\ {PlanStart} \in SUBSET Ends /\ n # PlanStart
  BY GraphOfPlan, NodesAssumption DEF Ends
<1>2. Graph!Closed(g, {PlanStart})
  BY <1>1 DEF Graph!Closed
<1>3. ~ Graph!DependsOn(g, PlanStart, n)
  BY <1>1, <1>2, SameEnds DEF Graph!DependsOn
<1>. QED BY <1>3 DEF Graph!MakesNoCycle

(* A new node.                                                             *)
LEMMA CreatedIsSound ==
    ASSUME NEW p, SoundPlan(p), NEW n \in Nodes, NEW data \in NodeData
    PROVE  SoundPlan([nodes |-> Put(p.nodes, n, data),
                      deps |-> [p.deps EXCEPT ![n] = {PlanStart}]])
<1>. DEFINE N == DOMAIN p.nodes
            q == [nodes |-> Put(p.nodes, n, data),
                  deps |-> [p.deps EXCEPT ![n] = {PlanStart}]]
<1>1. /\ DOMAIN q.nodes = N \cup {n} /\ q.deps = [p.deps EXCEPT ![n] = {PlanStart}]
      /\ \A x \in DOMAIN q.nodes : q.nodes[x] = IF x = n THEN data ELSE p.nodes[x]
  BY DEF Put
<1>2. N \in SUBSET Nodes /\ IsFiniteSet(N) /\ GraphOf(p.deps, N)
  BY DEF SoundPlan
<1>3. GraphOf(q.deps, N \cup {n})
  BY <1>1, <1>2, NewLinks, AfterPlanStart
<1>4. IsFiniteSet(N \cup {n})
  BY <1>2, FS_AddElement
<1>. HIDE DEF q
<1>5. SoundPlan(q)
  BY <1>1, <1>2, <1>3, <1>4 DEF SoundPlan
<1>. QED BY <1>5 DEF q

(* A node less.                                                            *)
LEMMA DeletedIsSound ==
    ASSUME NEW p, SoundPlan(p), NEW n \in DOMAIN p.nodes
    PROVE  SoundPlan([nodes |-> [x \in DOMAIN p.nodes \ {n} |-> p.nodes[x]],
                      deps |-> Graph!Without(p.deps, n)])
<1>. DEFINE N == DOMAIN p.nodes
            g == p.deps
            h == Graph!Without(g, n)
            q == [nodes |-> [x \in N \ {n} |-> p.nodes[x]], deps |-> h]
<1>1. /\ N \in SUBSET Nodes /\ IsFiniteSet(N) /\ GraphOf(g, N) /\ n \in Ends
      /\ \A x \in N : p.nodes[x] \in NodeData
  BY DEF SoundPlan, Ends
<1>. HIDE DEF g
<1>2. Plain(g) /\ Plain(h) /\ n \notin g[n] /\ n # PlanStart
  BY <1>1, GraphOfPlan, WithoutIsPlain, NotOnItself, NodesAssumption
<1>3. h = [x \in Ends |-> IF x = n THEN {}
                          ELSE IF n \in g[x] THEN (g[x] \ {n}) \cup g[n]
                          ELSE g[x]]
  BY SameEnds DEF Graph!Without
<1>4. ASSUME NEW x \in Ends
      PROVE  h[x] \subseteq (N \ {n}) \cup {PlanStart} /\ (x \notin N \ {n} => h[x] = {})
  BY <1>1, <1>2, <1>3 DEF GraphOf
<1>5. h \in [Ends -> SUBSET ((N \ {n}) \cup {PlanStart})]
  <2>1. h = [x \in Ends |-> h[x]]
    BY <1>3
  <2>. HIDE DEF h
  <2>. QED BY <1>4, <2>1
<1>6. GraphOf(h, N \ {n})
  BY <1>2, <1>4, <1>5 DEF GraphOf, Plain
<1>7. DOMAIN q.nodes = N \ {n} /\ q.deps = h /\ \A x \in N \ {n} : q.nodes[x] = p.nodes[x]
  OBVIOUS
<1>8. IsFiniteSet(N \ {n})
  BY <1>1, FS_RemoveElement
<1>. HIDE DEF q, h
<1>9. SoundPlan(q)
  BY <1>1, <1>6, <1>7, <1>8 DEF SoundPlan
<1>. QED BY <1>9 DEF q, h, g

(* A node's name and workers, or its status, are edited.                   *)
LEMMA EditedIsSound ==
    ASSUME NEW p, SoundPlan(p), p = [nodes |-> p.nodes, deps |-> p.deps],
           NEW n \in DOMAIN p.nodes, NEW new \in [name : Names, work : Works],
           NEW t \in Statuses
    PROVE  /\ SoundPlan([p EXCEPT !.nodes[n].name = new.name,
                            !.nodes[n].work = IF n \in Milestones THEN @ ELSE new.work])
           /\ SoundPlan([p EXCEPT !.nodes[n].status = t])
<1>1. \A x \in DOMAIN p.nodes : p.nodes[x] \in NodeData
  BY DEF SoundPlan
<1>2. ASSUME NEW q, NEW v \in NodeData, q.deps = p.deps, q.nodes = [p.nodes EXCEPT ![n] = v]
      PROVE  SoundPlan(q)
  <2>1. DOMAIN q.nodes = DOMAIN p.nodes /\ \A x \in DOMAIN p.nodes : q.nodes[x] \in NodeData
    BY <1>1, <1>2
  <2>. QED BY <1>2, <2>1 DEF SoundPlan
<1>3. SoundPlan([p EXCEPT !.nodes[n].name = new.name,
                   !.nodes[n].work = IF n \in Milestones THEN @ ELSE new.work])
  <2>. DEFINE q == [p EXCEPT !.nodes[n].name = new.name,
                      !.nodes[n].work = IF n \in Milestones THEN @ ELSE new.work]
              v == [p.nodes[n] EXCEPT !.name = new.name,
                      !.work = IF n \in Milestones THEN @ ELSE new.work]
  <2>1. q.deps = p.deps /\ q.nodes = [p.nodes EXCEPT ![n] = v]
    BY <1>1 DEF NodeData
  <2>2. v \in NodeData
    BY <1>1 DEF NodeData
  <2>. HIDE DEF q, v
  <2>3. SoundPlan(q)
    BY <1>2, <2>1, <2>2
  <2>. QED BY <2>3 DEF q
<1>4. SoundPlan([p EXCEPT !.nodes[n].status = t])
  <2>. DEFINE q == [p EXCEPT !.nodes[n].status = t]
              v == [p.nodes[n] EXCEPT !.status = t]
  <2>1. q.deps = p.deps /\ q.nodes = [p.nodes EXCEPT ![n] = v]
    OBVIOUS
  <2>2. v \in NodeData
    BY <1>1 DEF NodeData
  <2>. HIDE DEF q, v
  <2>3. SoundPlan(q)
    BY <1>2, <2>1, <2>2
  <2>. QED BY <2>3 DEF q
<1>. QED BY <1>3, <1>4

(* A node's dependencies are patched.                                      *)
LEMMA PatchedIsSound ==
    ASSUME NEW p, SoundPlan(p), p = [nodes |-> p.nodes, deps |-> p.deps],
           NEW n \in DOMAIN p.nodes, NEW D \in SUBSET (DOMAIN p.nodes \ {n}),
           Graph!MakesNoCycle(p.deps, n, D)
    PROVE  SoundPlan([p EXCEPT !.deps = Graph!Simplify(
                         [@ EXCEPT ![n] = IF D = {} THEN {PlanStart} ELSE D])])
<1>. DEFINE N == DOMAIN p.nodes
            E == IF D = {} THEN {PlanStart} ELSE D
            h == Graph!Simplify([p.deps EXCEPT ![n] = E])
            q == [p EXCEPT !.deps = h]
<1>1. N \in SUBSET Nodes /\ n \in Nodes /\ GraphOf(p.deps, N) /\ N \cup {n} = N
  BY DEF SoundPlan
<1>2. E \in SUBSET (N \cup {PlanStart}) /\ Graph!MakesNoCycle(p.deps, n, E)
  BY <1>1, AfterPlanStart
<1>. HIDE DEF E
<1>3. GraphOf([p.deps EXCEPT ![n] = E], N)
  <2>1. GraphOf([p.deps EXCEPT ![n] = E], N \cup {n})
    BY <1>1, <1>2, NewLinks
  <2>. QED BY <1>1, <2>1
<1>4. GraphOf(h, N)
  BY <1>1, <1>3, SimplifiedGraph
<1>5. q.nodes = p.nodes /\ q.deps = h
  OBVIOUS
<1>. HIDE DEF h, q
<1>6. SoundPlan(q)
  BY <1>4, <1>5 DEF SoundPlan
<1>. QED BY <1>6 DEF q, h, E

(* A step changes each variable not at all or to something that is right.  *)
LEMMA DataPartByPart ==
    ASSUME MapInv, DataInv, Counted,
           UNCHANGED used \/ IsFiniteSet(used'),
           UNCHANGED plan \/ SoundPlan(plan'),
           UNCHANGED board \/ (\A i \in DOMAIN board' : board'[i] \in ItemData),
           \/ UNCHANGED jobs
           \/ \E j \in Jobs : \E job : /\ Become(j, job)
                                       /\ job.kind = "idle" \/ SoundPlan(job.plan)
    PROVE  DataInv'
<1>1. IsFiniteSet(used') /\ SoundPlan(plan')
  BY DEF DataInv
<1>2. \A i \in DOMAIN board' : board'[i] \in ItemData
  BY DEF DataInv
<1>3. \A j \in Jobs : jobs'[j].kind # "idle" => SoundPlan(jobs'[j].plan)
  BY DEF DataInv, MapInv, Become
<1>. QED BY <1>1, <1>2, <1>3 DEF DataInv, Counted

(* Everyone's edits are counted, and change no thread's plan.              *)
LEMMA EditsAreCounted == ASSUME DataInv, Edit PROVE Counted
<1>1. edits \in 0 .. MaxEdits /\ edits < MaxEdits /\ edits' = edits + 1 /\ MaxEdits \in Nat
  BY BoundsAssumption DEF DataInv, Edit
<1>2. edits' \in 0 .. MaxEdits
  BY <1>1
<1>. QED BY <1>2 DEF Edit, Counted

(* So are the changes of threads.                                          *)
LEMMA ChangesAreCounted ==
    ASSUME DataInv, NEW j \in Jobs, ChangeBy(j) \/ ChangeNone PROVE Counted
BY DEF DataInv, ChangeBy, ChangeNone, Counted

(* The users of Monday.                                                    *)
LEMMA BoardEditKeepsData == ASSUME MapInv, DataInv, BoardEdit PROVE DataInv'
<1>1. \A i \in DOMAIN board : board[i] \in ItemData
  BY DEF DataInv
<1>2. ASSUME NEW i \in Items, NEW item \in NewItems, AddItem(i, item)
      PROVE  DataInv'
  <2>1. /\ DOMAIN board' = DOMAIN board \cup {i}
        /\ \A x \in DOMAIN board' : board'[x] = IF x = i THEN item ELSE board[x]
        /\ used' = used \cup {i} /\ UNCHANGED <<plan, jobs>> /\ Edit
    BY <1>2 DEF AddItem, Put
  <2>2. \A x \in DOMAIN board' : board'[x] \in ItemData
    BY <1>1, <2>1, DataAssumption
  <2>3. IsFiniteSet(used') /\ Counted
    BY <2>1, FS_AddElement, EditsAreCounted DEF DataInv
  <2>. QED BY <2>1, <2>2, <2>3, DataPartByPart
<1>3. ASSUME NEW i \in DOMAIN board, RemoveItem(i)
      PROVE  DataInv'
  <2>1. /\ \A x \in DOMAIN board' : board'[x] = board[x] /\ x \in DOMAIN board
        /\ UNCHANGED <<plan, jobs, used>> /\ Edit
    BY <1>3 DEF RemoveItem
  <2>2. \A x \in DOMAIN board' : board'[x] \in ItemData
    BY <1>1, <2>1
  <2>. QED BY <2>1, <2>2, EditsAreCounted, DataPartByPart
<1>4. ASSUME NEW i \in DOMAIN board, NEW item \in ItemData, EditItem(i, item)
      PROVE  DataInv'
  <2>1. board' = [board EXCEPT ![i] = item] /\ UNCHANGED <<plan, jobs, used>> /\ Edit
    BY <1>4 DEF EditItem
  <2>2. \A x \in DOMAIN board' : board'[x] \in ItemData
    BY <1>1, <2>1
  <2>. QED BY <2>1, <2>2, EditsAreCounted, DataPartByPart
<1>5. ASSUME NEW i \in DOMAIN board
      PROVE  /\ \A s \in Statuses : [board[i] EXCEPT !.status = s] \in ItemData
             /\ \A new \in NewItems : [board[i] EXCEPT !.name = new.name,
                   !.persons = new.persons, !.days = new.days] \in ItemData
             /\ \A D \in SUBSET (DOMAIN board \ {i}) : [board[i] EXCEPT !.deps = D] \in ItemData
  <2>1. board[i] \in ItemData /\ DOMAIN board \subseteq Items
    BY <1>1 DEF MapInv
  <2>2. \A new \in NewItems : new \in ItemData
    BY DataAssumption
  <2>3. \A new \in NewItems : [board[i] EXCEPT !.name = new.name, !.persons = new.persons,
                                  !.days = new.days] \in ItemData
    BY <2>1, <2>2 DEF ItemData
  <2>. QED BY <2>1, <2>3 DEF ItemData
<1>. QED BY <1>2, <1>3, <1>4, <1>5 DEF BoardEdit

(* The users of plinko.                                                    *)
LEMMA PlanEditKeepsData == ASSUME MapInv, DataInv, PlanEdit PROVE DataInv'
<1>1. SoundPlan(plan) /\ plan = [nodes |-> plan.nodes, deps |-> plan.deps]
  BY DEF DataInv, MapInv, PlanOK
<1>2. ASSUME NEW n \in Nodes, NEW new \in NewNodes, CreateNode(n, new)
      PROVE  DataInv'
  <2>. DEFINE data == [name |-> new.name, status |-> "NotStarted",
                       work |-> IF n \in Milestones THEN Placeholder ELSE new.work]
  <2>0. Placeholder \in Works /\ new \in [name : Names, work : Works]
    BY DataAssumption DEF Placeholder, Even, Works
  <2>1. data \in NodeData
    BY <2>0, DataAssumption DEF NodeData
  <2>2. /\ plan' = [nodes |-> Put(plan.nodes, n, data),
                    deps |-> [plan.deps EXCEPT ![n] = {PlanStart}]]
        /\ used' = used \cup {n} /\ Edit /\ UNCHANGED <<board, jobs>>
    BY <1>2 DEF CreateNode, ChangePlan
  <2>. HIDE DEF data
  <2>3. SoundPlan(plan')
    BY <1>1, <2>1, <2>2, CreatedIsSound
  <2>4. IsFiniteSet(used') /\ Counted
    BY <2>2, FS_AddElement, EditsAreCounted DEF DataInv
  <2>. QED BY <2>2, <2>3, <2>4, DataPartByPart
<1>3. ASSUME NEW p, SoundPlan(p), EditNode(p)
      PROVE  DataInv'
  <2>1. plan' = p /\ Edit /\ UNCHANGED <<used, board, jobs>>
    BY <1>3 DEF EditNode, ChangePlan
  <2>. QED BY <1>3, <2>1, EditsAreCounted, DataPartByPart
<1>4. ASSUME NEW n \in DOMAIN plan.nodes,
             EditNode([nodes |-> [x \in DOMAIN plan.nodes \ {n} |-> plan.nodes[x]],
                       deps |-> Graph!Without(plan.deps, n)])
      PROVE  DataInv'
  BY <1>1, <1>3, <1>4, DeletedIsSound
<1>5. ASSUME NEW n \in DOMAIN plan.nodes, NEW new \in NewNodes,
             EditNode([plan EXCEPT !.nodes[n].name = new.name,
                          !.nodes[n].work = IF n \in Milestones THEN @ ELSE new.work])
      PROVE  DataInv'
  <2>1. new \in [name : Names, work : Works]
    BY DataAssumption
  <2>. QED BY <1>1, <1>3, <1>5, <2>1, EditedIsSound, DataAssumption
<1>6. ASSUME NEW n \in DOMAIN plan.nodes, NEW t \in Statuses,
             EditNode([plan EXCEPT !.nodes[n].status = t])
      PROVE  DataInv'
  <2>1. SoundPlan([plan EXCEPT !.nodes[n].status = t])
    <3>. DEFINE same == [name |-> plan.nodes[n].name, work |-> plan.nodes[n].work]
    <3>1. same \in [name : Names, work : Works]
      BY <1>1 DEF SoundPlan, NodeData
    <3>. HIDE DEF same
    <3>. QED BY <1>1, <3>1, EditedIsSound
  <2>. QED BY <1>3, <1>6, <2>1
<1>7. ASSUME NEW n \in DOMAIN plan.nodes, NEW D \in SUBSET (DOMAIN plan.nodes \ {n}),
             Graph!MakesNoCycle(plan.deps, n, D),
             EditNode([plan EXCEPT !.deps = Graph!Simplify(
                         [@ EXCEPT ![n] = IF D = {} THEN {PlanStart} ELSE D])])
      PROVE  DataInv'
  BY <1>1, <1>3, <1>7, PatchedIsSound
<1>. QED BY <1>2, <1>4, <1>5, <1>6, <1>7 DEF PlanEdit

(* The dialog, and everything that only ends a thread.                     *)
LEMMA QuietStepsKeepData ==
    ASSUME MapInv, DataInv,
           \/ \E c \in Dialogs : Dialog(c)
           \/ \E j \in Jobs : \/ ImportDone(j) \/ SessionGone(j) \/ Fail(j)
                              \/ EndPush(j) \/ EndPreview(j)
    PROVE  DataInv'
<1>1. ASSUME NEW c \in Dialogs, Dialog(c)
      PROVE  DataInv'
  <2>1. UNCHANGED <<plan, board, jobs, used>> /\ (Edit \/ ChangeNone)
    BY <1>1 DEF Dialog, OpenDialog, EditDialog, SaveMondayConfig
  <2>2. Counted
    BY <2>1, EditsAreCounted DEF ChangeNone, DataInv, Counted
  <2>. QED BY <2>1, <2>2, DataPartByPart
<1>2. ASSUME NEW j \in Jobs,
             ImportDone(j) \/ SessionGone(j) \/ Fail(j) \/ EndPush(j) \/ EndPreview(j)
      PROVE  DataInv'
  <2>1. Become(j, Idle) /\ UNCHANGED <<board, used>> /\ Idle.kind = "idle"
    BY <1>2 DEF ImportDone, SessionGone, Fail, EndPush, EndPreview, Idle
  <2>2. UNCHANGED plan \/ SoundPlan(plan')
    <3>1. CASE ImportDone(j)
      BY <3>1 DEF ImportDone, DataInv
    <3>. QED BY <1>2, <3>1 DEF SessionGone, Fail, EndPush, EndPreview
  <2>3. Counted
    <3>1. CASE EndPush(j)
      BY <3>1 DEF EndPush, Counted, DataInv
    <3>. QED BY <1>2, <3>1, ChangesAreCounted DEF ImportDone, SessionGone, Fail, EndPreview
  <2>. QED BY <2>1, <2>2, <2>3, DataPartByPart
<1>. QED BY <1>1, <1>2

(* A thread starts with the plan there is, or with an empty one.           *)
LEMMA StartKeepsData ==
    ASSUME MapInv, DataInv, NEW j \in Jobs,
           \/ MondayPull(j) \/ MondayFullReimport(j)
           \/ MondayPush(j) \/ MondayPushPreview(j)
    PROVE  DataInv'
<1>1. ASSUME NEW job, Start(j, job), SoundPlan(job.plan)
      PROVE  DataInv'
  <2>1. Become(j, job) /\ UNCHANGED <<plan, board, used>> /\ Counted
    BY <1>1 DEF Start, DataInv, Counted
  <2>. QED BY <1>1, <2>1, DataPartByPart
<1>2. SoundPlan(plan)
  BY DEF DataInv
<1>3. CASE MondayFullReimport(j)
  <2>. DEFINE job == [kind |-> "pull",
                      plan |-> [nodes |-> <<>>, deps |-> [n \in Ends |-> {}]],
                      config |-> [config EXCEPT !.map = {}]]
  <2>1. Start(j, job)
    BY <1>3 DEF MondayFullReimport
  <2>2. job.plan = [nodes |-> <<>>, deps |-> [n \in Ends |-> {}]]
    OBVIOUS
  <2>. HIDE DEF job
  <2>3. SoundPlan(job.plan)
    BY <2>2, EmptyPlanIsSound
  <2>. QED BY <1>1, <2>1, <2>3
<1>4. CASE MondayPull(j) \/ MondayPush(j) \/ MondayPushPreview(j)
  <2>1. PICK job : Start(j, job) /\ job.plan = plan
    BY <1>4 DEF MondayPull, MondayPush, MondayPushPreview, Push
  <2>. QED BY <1>1, <1>2, <2>1
<1>. QED BY <1>3, <1>4

(* An import leaves the board alone.                                       *)
LEMMA ImportKeepsData == ASSUME MapInv, DataInv, NEW j \in Jobs, Import(j) PROVE DataInv'
<1>. DEFINE job == jobs[j]
            M == job.config.map
<1>1. IsPull(job, used) /\ job.kind # "idle"
  BY KindOfJob DEF MapInv, Import
<1>2. /\ PlanOK(job.plan, used) /\ MapOK(M, used) /\ SoundPlan(job.plan)
      /\ DOMAIN board \subseteq Items \cap used
  BY <1>1 DEF IsPull, ConfigOK, MapInv, DataInv
<1>3. SoundBoard(board)
  BY <1>2, FS_Subset DEF DataInv, SoundBoard
<1>4. PICK r \in Imports(job.plan, M, board, job.config.sub) :
         /\ Become(j, [kind |-> "imported", plan |-> r.plan])
         /\ used' = used \cup (DOMAIN r.plan.nodes \ DOMAIN job.plan.nodes)
  BY DEF Import
<1>5. UNCHANGED <<plan, board>> /\ Counted
  BY ChangesAreCounted DEF Import
<1>. HIDE DEF job, M
<1>6. SoundPlan(r.plan)
  <2>1. \E f, k, order, F : Importing(job.plan, M, board, job.config.sub, r, f, k, order, F)
    BY <1>3, ImportComesAbout DEF SoundBoard
  <2>. QED BY <1>2, <1>3, <2>1, ImportIsSound
<1>7. IsFiniteSet(used')
  <2>1. DOMAIN r.plan.nodes \ DOMAIN job.plan.nodes \in SUBSET DOMAIN r.plan.nodes
    OBVIOUS
  <2>2. IsFiniteSet(DOMAIN r.plan.nodes \ DOMAIN job.plan.nodes)
    BY <1>6, <2>1, FS_Subset DEF SoundPlan
  <2>. QED BY <1>4, <2>2, FS_Union DEF DataInv
<1>. QED BY <1>4, <1>5, <1>6, <1>7, DataPartByPart

(* A push writes what items may have.                                      *)
LEMMA CreateItemKeepsData ==
    ASSUME MapInv, DataInv, NEW j \in Jobs, NEW n \in Nodes, NEW i \in Items,
           CreateItem(j, n, i)
    PROVE  DataInv'
<1>. DEFINE job == jobs[j]
            next == [job EXCEPT !.map = @ \cup {<<i, n>>}]
            item == [name |-> job.plan.nodes[n].name, persons |-> {}, days |-> NoDays,
                     status |-> "NotStarted", deps |-> {}, milestone |-> FALSE,
                     sub |-> job.config.sub /\ n \in Tasks]
<1>1. IsPush(job, used) /\ job.kind # "idle"
  BY KindOfJob DEF MapInv, CreateItem
<1>2. SoundPlan(job.plan) /\ n \in DOMAIN job.plan.nodes
  BY <1>1 DEF DataInv, CreateItem, Unmapped
<1>3. /\ Become(j, next) /\ board' = Put(board, i, item) /\ used' = used \cup {i}
      /\ UNCHANGED plan /\ Counted
  BY ChangesAreCounted DEF CreateItem
<1>4. next.plan = job.plan
  BY <1>1 DEF IsPush
<1>5. item \in ItemData
  <2>1. job.plan.nodes[n].name \in Names /\ (job.config.sub /\ n \in Tasks) \in BOOLEAN
    BY <1>2 DEF SoundPlan, NodeData
  <2>. QED BY <2>1, DataAssumption DEF ItemData
<1>. HIDE DEF job, next, item
<1>6. \A x \in DOMAIN board' : board'[x] \in ItemData
  BY <1>3, <1>5 DEF Put, DataInv
<1>7. IsFiniteSet(used')
  BY <1>3, FS_AddElement DEF DataInv
<1>. QED BY <1>2, <1>3, <1>4, <1>6, <1>7, DataPartByPart

(* What an item is to look like is what an item may look like.             *)
LEMMA WantedIsData ==
    ASSUME NEW job, SoundPlan(job.plan), job.map \subseteq Items \X Nodes,
           NEW n \in DOMAIN job.plan.nodes, NEW item \in ItemData
    PROVE  Wanted(job, n, item) \in ItemData
<1>. DEFINE node == job.plan.nodes[n]
            D == {m[1] : m \in {k \in job.map : k[2] \in job.plan.deps[n]}}
            t == n \in Milestones
            wanted == [item EXCEPT !.name = node.name, !.milestone = t, !.deps = D]
<1>1. node.name \in Names /\ node.work \in Works /\ node.status \in Statuses
  BY DEF SoundPlan, NodeData
<1>2. D \in SUBSET Items /\ t \in BOOLEAN
  OBVIOUS
<1>3. /\ node.work.users \cap Accounts \in SUBSET Accounts
      /\ node.work.total \in Days \cup {NoDays}
  BY <1>1 DEF Works
<1>4. Wanted(job, n, item) = IF t THEN wanted
        ELSE [wanted EXCEPT !.persons = node.work.users \cap Accounts,
                            !.days = node.work.total, !.status = node.status]
  BY DEF Wanted
<1>. HIDE DEF D, t, node
<1>5. wanted \in ItemData
  BY <1>1, <1>2 DEF ItemData
<1>6. [wanted EXCEPT !.persons = node.work.users \cap Accounts,
                     !.days = node.work.total, !.status = node.status] \in ItemData
  <2>. HIDE DEF wanted
  <2>. QED BY <1>1, <1>3, <1>5 DEF ItemData
<1>. QED BY <1>4, <1>5, <1>6

(* An update sets an item to that, but for the fields that fail.           *)
LEMMA UpdateItemKeepsData ==
    ASSUME MapInv, DataInv, NEW j \in Jobs, NEW m, NEW lost, UpdateItem(j, m, lost)
    PROVE  DataInv'
<1>. DEFINE job == jobs[j]
            next == [job EXCEPT !.done = @ \cup {m}]
            i == m[1]
<1>1. IsPush(job, used) /\ job.kind # "idle"
  BY KindOfJob DEF MapInv, UpdateItem
<1>2. /\ SoundPlan(job.plan) /\ m[2] \in DOMAIN job.plan.nodes
      /\ job.map \subseteq Items \X Nodes
  BY <1>1 DEF DataInv, UpdateItem, Pushable, Scheduled, IsPush, MapOK
<1>3. Become(j, next) /\ UNCHANGED <<plan, used>> /\ Counted
  BY DEF UpdateItem, Counted, DataInv
<1>4. next.plan = job.plan
  BY <1>1 DEF IsPush
<1>5. \A x \in DOMAIN board' : board'[x] \in ItemData
  <2>1. CASE i \notin DOMAIN board
    BY <2>1 DEF UpdateItem, DataInv
  <2>2. CASE i \in DOMAIN board
    <3>. DEFINE w == Wanted(job, m[2], board[i])
                b == board'[i]
    <3>1. /\ DOMAIN board' = DOMAIN board /\ \A x \in DOMAIN board : x # i => board'[x] = board[x]
          /\ b = [f \in DOMAIN board[i] |-> b[f]]
          /\ \A f \in DOMAIN board[i] : b[f] \in {w[f], board[i][f]}
      BY <2>2 DEF UpdateItem
    <3>2. w \in ItemData /\ board[i] \in ItemData
      BY <1>2, <2>2, WantedIsData DEF DataInv
    <3>. HIDE DEF w, b
    <3>3. b \in ItemData
      BY <3>1, <3>2 DEF ItemData
    <3>4. board'[i] \in ItemData
      BY <3>3 DEF b
    <3>5. \A x \in DOMAIN board : board[x] \in ItemData
      BY DEF DataInv
    <3>. HIDE DEF i
    <3>. QED BY <3>1, <3>4, <3>5
  <2>. QED BY <2>1, <2>2
<1>. HIDE DEF job, next
<1>. QED BY <1>2, <1>3, <1>4, <1>5, DataPartByPart

(* At the start there is nothing.                                          *)
LEMMA InitIsDataInv == Init => DataInv
<1>. SUFFICES ASSUME Init PROVE DataInv
  OBVIOUS
<1>1. SoundPlan(plan)
  BY EmptyPlanIsSound DEF Init
<1>2. IsFiniteSet(used)
  BY FS_EmptySet DEF Init
<1>3. \A j \in Jobs : jobs[j].kind = "idle"
  BY DEF Init, Idle
<1>4. undisturbed = {} /\ settled = FALSE /\ edits = 0 /\ DOMAIN board = {}
  BY DEF Init
<1>5. edits \in 0 .. MaxEdits
  BY <1>4, BoundsAssumption
<1>6. (\A i \in DOMAIN board : board[i] \in ItemData) /\ undisturbed \subseteq Jobs
  BY <1>4
<1>7. settled \in BOOLEAN
  BY <1>4
<1>. QED BY <1>1, <1>2, <1>3, <1>5, <1>6, <1>7 DEF DataInv

(* Every step keeps the types, and makes no cycle.                         *)
LEMMA StepKeepsDataInv == MapInv /\ DataInv /\ [Next]_vars => DataInv'
<1>. SUFFICES ASSUME MapInv, DataInv, [Next]_vars PROVE DataInv'
  OBVIOUS
<1>1. CASE UNCHANGED vars
  BY <1>1 DEF vars, DataInv
<1>2. ASSUME NEW j \in Jobs, Pulling(j)
      PROVE  DataInv'
  BY <1>2, StartKeepsData, ImportKeepsData, QuietStepsKeepData DEF Pulling
<1>3. ASSUME NEW j \in Jobs, Pushing(j)
      PROVE  DataInv'
  BY <1>3, StartKeepsData, QuietStepsKeepData, CreateItemKeepsData,
     UpdateItemKeepsData DEF Pushing
<1>. QED BY <1>1, <1>2, <1>3, BoardEditKeepsData, PlanEditKeepsData,
         QuietStepsKeepData DEF Next

(* Plan, board, maps and configurations keep their types in every step;    *)
(* the map names only ids that were given out, and so never one that will  *)
(* be given out.                                                           *)
THEOREM TypeCorrect == Spec => []TypeOK
<1>1. MapInv /\ DataInv => TypeOK
  <2>. SUFFICES ASSUME MapInv, DataInv PROVE TypeOK
    OBVIOUS
  <2>1. /\ DOMAIN plan.nodes \subseteq used /\ DOMAIN board \subseteq Items \cap used
        /\ config \in Configs /\ form \in [Dialogs -> Configs]
        /\ NodesOf(config.map) \subseteq used /\ ItemsOf(config.map) \subseteq used
    BY DEF MapInv, PlanOK, ConfigOK, MapOK
  <2>2. /\ DOMAIN plan.nodes \subseteq Nodes
        /\ \A n \in DOMAIN plan.nodes : plan.nodes[n] \in NodeData
        /\ plan.deps \in [Ends -> SUBSET (DOMAIN plan.nodes \cup {PlanStart})]
    BY DEF DataInv, SoundPlan, GraphOf
  <2>. QED BY <2>1, <2>2 DEF TypeOK, DataInv
<1>. QED BY <1>1, InitIsMapInv, StepKeepsMapInv, InitIsDataInv, StepKeepsDataInv, PTL DEF Spec

(* No import of a board, be it cyclic, no edit and no deletion, in any     *)
(* order and with any number of threads, makes a node wait for itself.     *)
THEOREM PlansAreAcyclic == Spec => []NoCycles
<1>1. DataInv => NoCycles
  BY DEF DataInv, SoundPlan, GraphOf, NoCycles
<1>. QED BY <1>1, InitIsMapInv, StepKeepsMapInv, InitIsDataInv, StepKeepsDataInv, PTL DEF Spec

-----------------------------------------------------------------------------
(* A second import.                                                        *)

(* A node that has what the board says of it, and may say of it.           *)
InTune(n, v, item) ==
    /\ v.name = item.name
    /\ n \notin Milestones => /\ v.work = Built(item)
                              /\ item.status = "NotStarted" \/ v.status = item.status

(* It is left as it is.                                                    *)
LEMMA NothingToPull ==
    ASSUME NEW q, NEW n \in DOMAIN q.nodes, q.nodes[n] \in NodeData,
           NEW item, InTune(n, q.nodes[n], item)
    PROVE  Pulled(q, n, item, TRUE) = q.nodes[n]
<1>. DEFINE v == q.nodes[n]
            old == [v EXCEPT !.name = item.name,
                             !.work = IF n \in Milestones THEN @ ELSE Built(item)]
<1>1. Pulled(q, n, item, TRUE) = IF n \in Milestones \/ item.status = "NotStarted" THEN old
                                 ELSE [old EXCEPT !.status = item.status]
  BY DEF Pulled
<1>. HIDE DEF v
<1>2. old = v
  BY DEF NodeData, InTune, v
<1>3. n \in Milestones \/ item.status = "NotStarted" \/ [v EXCEPT !.status = item.status] = v
  BY DEF NodeData, InTune, v
<1>. HIDE DEF old
<1>. QED BY <1>1, <1>2, <1>3 DEF v

(* So is a mapped node once it was pulled, and a node made for the item.   *)
LEMMA PulledIsInTune ==
    ASSUME NEW p, NEW n, n \in DOMAIN p.nodes => p.nodes[n] \in NodeData,
           NEW item \in ItemData, NEW mapped, mapped \/ n \notin DOMAIN p.nodes
    PROVE  InTune(n, Pulled(p, n, item, mapped), item)
<1>. DEFINE new == [name |-> item.name, status |-> "NotStarted",
                    work |-> IF n \in Milestones THEN Placeholder ELSE Built(item)]
            old == IF n \notin DOMAIN p.nodes THEN new
                   ELSE [p.nodes[n] EXCEPT !.name = item.name,
                           !.work = IF n \in Milestones THEN @ ELSE Built(item)]
            v == Pulled(p, n, item, mapped)
<1>1. v = IF n \in Milestones \/ item.status = "NotStarted" THEN old
          ELSE [old EXCEPT !.status = item.status]
  BY DEF Pulled
<1>2. /\ old.name = item.name /\ (n \notin Milestones => old.work = Built(item))
      /\ DOMAIN old = {"name", "work", "status"}
  BY DEF NodeData
<1>. HIDE DEF old, v
<1>3. /\ v.name = item.name /\ (n \notin Milestones => v.work = Built(item))
      /\ n \in Milestones \/ item.status = "NotStarted" \/ v.status = item.status
  BY <1>1, <1>2
<1>. QED BY <1>3 DEF InTune, v

(* What the next import makes of a node that was found by a match: what    *)
(* the match did not look at.                                              *)
Retouched(v, w) == /\ Trim[w.name] = Trim[v.name] /\ Alike(w.work, v.work)
                   /\ w.status = v.status

(* A match is about as much, either way around.                            *)
LEMMA AlikeEither ==
    /\ \A v \in Works : Alike(v, v)
    /\ \A v, w \in Works : Alike(v, w) => Alike(w, v)
<1>1. \A v \in Works : v.total \in Nat
  BY DataAssumption DEF Works
<1>. QED BY <1>1 DEF Alike, Close

LEMMA MatchedIsRetouched ==
    ASSUME NEW p, NEW n \in DOMAIN p.nodes, p.nodes[n] \in NodeData,
           NEW item \in ItemData, Matches(p, n, item),
           NEW q, n \in DOMAIN q.nodes, q.nodes[n] = Pulled(p, n, item, FALSE)
    PROVE  Retouched(q.nodes[n], Pulled(q, n, item, TRUE))
<1>. DEFINE u == p.nodes[n]
            v == q.nodes[n]
            keep == n \in Milestones \/ item.status = "NotStarted"
            old == [v EXCEPT !.name = item.name,
                             !.work = IF n \in Milestones THEN @ ELSE Built(item)]
            w == Pulled(q, n, item, TRUE)
<1>1. v = IF keep THEN u ELSE [u EXCEPT !.status = item.status]
  BY DEF Pulled
<1>2. w = IF keep THEN old ELSE [old EXCEPT !.status = item.status]
  BY DEF Pulled
<1>3. u \in NodeData /\ item.status \in Statuses
  BY DEF ItemData
<1>4. /\ Trim[u.name] = Trim[item.name]
      /\ n \notin Milestones => Alike(u.work, Built(item))
  BY DEF Matches, KindOf
<1>5. Built(item) \in Works
  BY BuiltIsWork
<1>. HIDE DEF u, v, w, keep
<1>6. v \in NodeData /\ v.name = u.name /\ v.work = u.work /\ (keep \/ v.status = item.status)
  BY <1>1, <1>3 DEF NodeData
<1>7. /\ w.name = item.name /\ w.work = IF n \in Milestones THEN v.work ELSE Built(item)
      /\ w.status = IF keep THEN v.status ELSE item.status
  BY <1>2, <1>6 DEF NodeData
<1>8. Alike(w.work, v.work)
  <2>1. v.work \in Works /\ u.work \in Works
    BY <1>3, <1>6 DEF NodeData
  <2>. QED BY <1>4, <1>5, <1>6, <1>7, <2>1, AlikeEither
<1>9. Trim[w.name] = Trim[v.name] /\ w.status = v.status
  BY <1>4, <1>6, <1>7
<1>10. Retouched(v, w)
  BY <1>8, <1>9 DEF Retouched
<1>. QED BY <1>10 DEF v, w

(* What an import knows of its items: each new one has a node that matches *)
(* it, or that is new; and every item that is not passed over has one.     *)
LEMMA NewItemsMatch ==
    ASSUME NEW p, NEW M, NEW b, NEW sub, NEW f \in Linked(p, Existing(p, M), b, sub)
    PROVE  /\ DOMAIN f = {i \in OfLevel(b, sub) \ ItemsOf(Existing(p, M)) : ~ Skipped(b[i])}
           /\ \A i \in DOMAIN f : f[i] \in DOMAIN p.nodes => \/ Matches(p, f[i], b[i])
                                                             \/ f[i] \notin used
<1>. DEFINE old == Existing(p, M)
            new == {i \in OfLevel(b, sub) \ ItemsOf(old) : ~ Skipped(b[i])}
<1>1. f \in [new -> Nodes]
  BY DEF Linked
<1>2. \A i \in new : \/ f[i] \in DOMAIN p.nodes /\ Matches(p, f[i], b[i])
                     \/ f[i] \notin used
  BY DEF Linked
<1>. QED BY <1>1, <1>2

(* Where no item is without a node but those that get none, a second       *)
(* import has only the map it starts from.                                 *)
LEMMA NoNewItems ==
    ASSUME NEW p, NEW R, Existing(p, R) = R, NEW b, NEW sub,
           \A i \in OfLevel(b, sub) \ ItemsOf(R) : Skipped(b[i])
    PROVE  Imports(p, R, b, sub)
              = {Imported(p, R, b, sub, R, order) :
                    order \in SetToSeqs(OfLevel(b, sub) \cap ItemsOf(R))}
<1>. DEFINE with(f) == R \cup {<<i, f[i]>> : i \in DOMAIN f}
            L == Linked(p, R, b, sub)
            new == {i \in OfLevel(b, sub) \ ItemsOf(R) : ~ Skipped(b[i])}
            none == [i \in new |-> PlanStart]
            of(N) == {Imported(p, R, b, sub, N, order) :
                         order \in SetToSeqs(OfLevel(b, sub) \cap ItemsOf(N))}
<1>1. new = {}
  OBVIOUS
<1>2. none \in [new -> Nodes] /\ IsInjective(none)
  BY <1>1 DEF IsInjective
<1>3. none \in L
  BY <1>1, <1>2 DEF Linked
<1>4. ASSUME NEW f \in L PROVE with(f) = R
  <2>1. DOMAIN f = {}
    BY <1>1 DEF Linked
  <2>. QED BY <2>1
<1>5. Imports(p, R, b, sub) = UNION {of(with(f)) : f \in L}
  BY DEF Imports
<1>. HIDE DEF L, with, of, none
<1>6. {of(with(f)) : f \in L} = {of(R)}
  <2>1. \A f \in L : of(with(f)) = of(R)
    BY <1>4
  <2>2. \A x \in {of(with(f)) : f \in L} : x = of(R)
    BY <2>1
  <2>3. of(with(none)) = of(R) /\ of(with(none)) \in {of(with(f)) : f \in L}
    BY <1>3, <2>1
  <2>. QED BY <2>2, <2>3
<1>7. Imports(p, R, b, sub) = of(R)
  BY <1>5, <1>6
<1>. QED BY <1>7 DEF of

(* A plan whose nodes take over what their items have, and that is         *)
(* otherwise as it was; the map stays.                                     *)
Refreshed(q, R, b, sub) ==
    [plan |-> [nodes |-> [n \in DOMAIN q.nodes |-> ImportedNode(q, R, b, sub, R, n)],
               deps |-> q.deps],
     map |-> R]

(* That is all an import can come to where every item has its node, or     *)
(* gets none, and no order of the items adds a dependency.                 *)
LEMMA OneResult ==
    ASSUME NEW q, NEW R, NodesOf(R) \subseteq DOMAIN q.nodes, NEW b, NEW sub,
           \A i \in OfLevel(b, sub) \ ItemsOf(R) : Skipped(b[i]),
           NEW order \in SetToSeqs(OfLevel(b, sub) \cap ItemsOf(R)),
           \A o \in SetToSeqs(OfLevel(b, sub) \cap ItemsOf(R)) : Wired(q.deps, R, b, o) = q.deps
    PROVE  Imports(q, R, b, sub) = {Refreshed(q, R, b, sub)}
<1>. DEFINE S == SetToSeqs(OfLevel(b, sub) \cap ItemsOf(R))
            h(o) == Imported(q, R, b, sub, R, o)
            s == Refreshed(q, R, b, sub)
<1>1. Existing(q, R) = R
  BY DEF Existing, NodesOf
<1>2. Imports(q, R, b, sub) = {h(o) : o \in S}
  BY <1>1, NoNewItems
<1>3. ASSUME NEW o \in S PROVE h(o) = s
  <2>1. Wired(q.deps, R, b, o) = q.deps
    OBVIOUS
  <2>2. DOMAIN q.nodes \cup NodesOf(R \ R) = DOMAIN q.nodes
    BY DEF NodesOf
  <2>. QED BY <2>1, <2>2 DEF Imported, Refreshed, ImportedNode
<1>4. order \in S
  OBVIOUS
<1>. HIDE DEF S, h, s
<1>5. {h(o) : o \in S} = {s}
  BY <1>3, <1>4
<1>. QED BY <1>2, <1>5 DEF s

(* What the second of two imports makes of a node, as far as this is not   *)
(* what the first has made of it.                                          *)
LEMMA NodesAgain ==
    ASSUME NEW p, SoundPlan(p), PlanOK(p, used), NEW M, MapOK(M, used),
           NEW b, SoundBoard(b), DOMAIN b \subseteq Items \cap used, NEW sub,
           NEW r \in Imports(p, M, b, sub), NEW f, NEW k, NEW order, NEW F,
           Importing(p, M, b, sub, r, f, k, order, F), NEW n \in DOMAIN r.plan.nodes
    PROVE  \/ ImportedNode(r.plan, r.map, b, sub, r.map, n) = r.plan.nodes[n]
           \/ /\ n \in DOMAIN p.nodes \ NodesOf(M)
              /\ Retouched(r.plan.nodes[n], ImportedNode(r.plan, r.map, b, sub, r.map, n))
<1>. DEFINE old == Existing(p, M)
            i == CHOOSE i \in OfLevel(b, sub) : <<i, n>> \in r.map
<1>1. r.plan.nodes[n] = IF \E j \in OfLevel(b, sub) : <<j, n>> \in r.map
                        THEN Pulled(p, n, b[i], <<i, n>> \in old)
                        ELSE p.nodes[n]
  <2>1. r.plan.nodes[n] = ImportedNode(p, old, b, sub, r.map, n)
    BY DEF Importing
  <2>. QED BY <2>1 DEF ImportedNode
<1>2. ImportedNode(r.plan, r.map, b, sub, r.map, n)
        = IF \E j \in OfLevel(b, sub) : <<j, n>> \in r.map
          THEN Pulled(r.plan, n, b[i], <<i, n>> \in r.map)
          ELSE r.plan.nodes[n]
  BY DEF ImportedNode
<1>. SUFFICES ASSUME \E j \in OfLevel(b, sub) : <<j, n>> \in r.map
              PROVE  \/ ImportedNode(r.plan, r.map, b, sub, r.map, n) = r.plan.nodes[n]
                     \/ /\ n \in DOMAIN p.nodes \ NodesOf(M)
                        /\ Retouched(r.plan.nodes[n],
                                     ImportedNode(r.plan, r.map, b, sub, r.map, n))
  BY <1>2
<1>3. i \in OfLevel(b, sub) /\ <<i, n>> \in r.map
  OBVIOUS
<1>. HIDE DEF i
<1>4. /\ r.plan.nodes[n] = Pulled(p, n, b[i], <<i, n>> \in old)
      /\ ImportedNode(r.plan, r.map, b, sub, r.map, n) = Pulled(r.plan, n, b[i], TRUE)
  <2>1. r.plan.nodes[n] = Pulled(p, n, b[i], <<i, n>> \in old)
    BY <1>1
  <2>2. ImportedNode(r.plan, r.map, b, sub, r.map, n)
          = Pulled(r.plan, n, b[i], <<i, n>> \in r.map)
    BY <1>2
  <2>3. Pulled(r.plan, n, b[i], <<i, n>> \in r.map) = Pulled(r.plan, n, b[i], TRUE)
    BY <1>3 DEF Pulled
  <2>. QED BY <2>1, <2>2, <2>3
<1>. DEFINE item == b[i]
            q == r.plan
<1>5. /\ item \in ItemData /\ (n \in DOMAIN p.nodes => p.nodes[n] \in NodeData)
      /\ q.nodes[n] \in NodeData
  <2>1. SoundPlan(q)
    BY ImportIsSound
  <2>. QED BY <1>3, <2>1 DEF SoundBoard, OfLevel, SoundPlan
<1>6. ASSUME <<i, n>> \in old \/ n \notin DOMAIN p.nodes
      PROVE  Pulled(q, n, item, TRUE) = q.nodes[n]
  <2>. DEFINE mapped == <<i, n>> \in old
  <2>1. q.nodes[n] = Pulled(p, n, item, mapped) /\ (mapped \/ n \notin DOMAIN p.nodes)
    BY <1>4, <1>6
  <2>2. n \in DOMAIN q.nodes
    OBVIOUS
  <2>. HIDE DEF mapped, item, q
  <2>3. InTune(n, q.nodes[n], item)
    BY <1>5, <2>1, PulledIsInTune, ZenonT(60)
  <2>. QED BY <1>5, <2>2, <2>3, NothingToPull
<1>7. ASSUME <<i, n>> \notin old, n \in DOMAIN p.nodes
      PROVE  /\ n \notin NodesOf(M)
             /\ Retouched(q.nodes[n], Pulled(q, n, item, TRUE))
  <2>1. r.map = old \cup {<<x, f[x]>> : x \in DOMAIN f} /\ f \in Linked(p, old, b, sub)
    BY DEF Importing
  <2>2. i \in DOMAIN f /\ n = f[i]
    BY <1>3, <1>7, <2>1
  <2>3. Matches(p, n, item)
    <3>1. n \in used
      BY <1>7 DEF PlanOK
    <3>. QED BY <1>7, <2>1, <2>2, <3>1, NewItemsMatch
  <2>4. n \notin NodesOf(M)
    <3>. SUFFICES ASSUME NEW m \in M, m[2] = n PROVE FALSE
      BY DEF NodesOf
    <3>1. m \in old /\ m \in r.map
      BY <1>7, <2>1 DEF Existing
    <3>2. MapOK(r.map, used \cup (DOMAIN r.plan.nodes \ DOMAIN p.nodes))
      BY ImportsAreOneToOne
    <3>3. m[1] = i
      BY <1>3, <3>1, <3>2 DEF MapOK, OneToOne
    <3>4. m = <<i, n>>
      BY <3>3 DEF MapOK
    <3>. QED BY <1>7, <3>1, <3>4
  <2>5. q.nodes[n] = Pulled(p, n, item, FALSE) /\ n \in DOMAIN q.nodes
    BY <1>4, <1>7 DEF Pulled
  <2>. HIDE DEF item, q
  <2>6. Retouched(q.nodes[n], Pulled(q, n, item, TRUE))
    BY <1>5, <1>7, <2>3, <2>5, MatchedIsRetouched, ZenonT(60)
  <2>. QED BY <2>4, <2>6
<1>. QED BY <1>4, <1>6, <1>7

(* And the third leaves every node as the second.                          *)
LEMMA NodesStay ==
    ASSUME NEW q, \A n \in DOMAIN q.nodes : q.nodes[n] \in NodeData, NEW R,
           NEW b, SoundBoard(b), NEW sub
    PROVE  Refreshed(Refreshed(q, R, b, sub).plan, R, b, sub) = Refreshed(q, R, b, sub)
<1>. DEFINE s == Refreshed(q, R, b, sub)
<1>1. /\ DOMAIN s.plan.nodes = DOMAIN q.nodes
      /\ \A n \in DOMAIN q.nodes : s.plan.nodes[n] = ImportedNode(q, R, b, sub, R, n)
      /\ s = [plan |-> [nodes |-> [n \in DOMAIN q.nodes |-> s.plan.nodes[n]],
                        deps |-> s.plan.deps], map |-> R]
  BY DEF Refreshed
<1>. HIDE DEF s
<1>2. ASSUME NEW n \in DOMAIN q.nodes
      PROVE  ImportedNode(s.plan, R, b, sub, R, n) = s.plan.nodes[n]
  <2>1. CASE ~ \E i \in OfLevel(b, sub) : <<i, n>> \in R
    BY <2>1 DEF ImportedNode
  <2>2. CASE \E i \in OfLevel(b, sub) : <<i, n>> \in R
    <3>. DEFINE i == CHOOSE i \in OfLevel(b, sub) : <<i, n>> \in R
                item == b[i]
    <3>0. /\ ImportedNode(s.plan, R, b, sub, R, n) = Pulled(s.plan, n, item, <<i, n>> \in R)
          /\ ImportedNode(q, R, b, sub, R, n) = Pulled(q, n, item, <<i, n>> \in R)
      BY <2>2 DEF ImportedNode
    <3>1. i \in OfLevel(b, sub) /\ <<i, n>> \in R
      BY <2>2
    <3>. HIDE DEF i
    <3>2. item \in ItemData
      BY <3>1 DEF SoundBoard, OfLevel
    <3>3. /\ ImportedNode(s.plan, R, b, sub, R, n) = Pulled(s.plan, n, item, TRUE)
          /\ ImportedNode(q, R, b, sub, R, n) = Pulled(q, n, item, TRUE)
      BY <3>0, <3>1 DEF Pulled
    <3>. HIDE DEF item
    <3>4. /\ s.plan.nodes[n] = Pulled(q, n, item, TRUE) /\ n \in DOMAIN s.plan.nodes
          /\ q.nodes[n] \in NodeData
      BY <1>1, <3>3
    <3>5. s.plan.nodes[n] \in NodeData
      BY <3>2, <3>4, PulledIsData
    <3>6. InTune(n, s.plan.nodes[n], item)
      BY <3>2, <3>4, PulledIsInTune
    <3>. QED BY <3>3, <3>4, <3>5, <3>6, NothingToPull
  <2>. QED BY <2>1, <2>2
<1>3. Refreshed(s.plan, R, b, sub)
        = [plan |-> [nodes |-> [n \in DOMAIN q.nodes |-> ImportedNode(s.plan, R, b, sub, R, n)],
                     deps |-> s.plan.deps], map |-> R]
  BY <1>1 DEF Refreshed
<1>. QED BY <1>1, <1>2, <1>3 DEF s

(* The dependencies of a second import.                                    *)
LEMMA LinksOfSecondImport ==
    ASSUME NEW p, SoundPlan(p), PlanOK(p, used), NEW M, MapOK(M, used),
           NEW b, SoundBoard(b), DOMAIN b \subseteq Items \cap used, NEW sub,
           NEW r \in Imports(p, M, b, sub), NEW f, NEW k, NEW order, NEW F,
           Importing(p, M, b, sub, r, f, k, order, F),
           NEW again \in SetToSeqs(OfLevel(b, sub) \cap ItemsOf(r.map))
    PROVE  Wired(r.plan.deps, r.map, b, again) = r.plan.deps
<1>. DEFINE N == DOMAIN r.plan.nodes
            T == OfLevel(b, sub) \cap ItemsOf(r.map)
            R == r.map
<1>1. /\ N \in SUBSET Nodes /\ IsFiniteSet(N) /\ NodesOf(R) \subseteq N
      /\ GraphOf(p.deps, N) /\ GraphOf(F[k], N)
  BY ImportIsSound DEF SoundPlan
<1>2. /\ k \in Nat /\ order \in [1 .. k -> T] /\ \A i \in T : \E l \in 1 .. k : order[l] = i
      /\ Linking(R, b, p.deps, order, k, F) /\ r.plan.deps = Graph!Simplify(F[k])
  BY DEF Importing
<1>3. IsFiniteSet(T) /\ T \in SUBSET ItemsOf(R)
  <2>1. T \in SUBSET DOMAIN b
    BY DEF OfLevel
  <2>. QED BY <2>1, FS_Subset DEF SoundBoard
<1>4. again \in SetToSeqs(T)
  OBVIOUS
<1>. HIDE DEF N, T, R
<1>5. PICK l \in Nat : again \in [1 .. l -> T]
  BY <1>3, <1>4, OrdersOf
<1>6. order \in [1 .. k -> ItemsOf(R)]
  BY <1>2, <1>3
<1>7. \A x \in 1 .. k : \A d \in Asked(R, b[order[x]]) :
         \/ d \in F[k][NodeOf(R, order[x])]
         \/ Graph!DependsOn(F[k], d, NodeOf(R, order[x]))
  BY <1>1, <1>2, <1>6, LinksOfAll
<1>8. \A i \in T : \A d \in Asked(R, b[i]) :
         d \in F[k][NodeOf(R, i)] \/ Graph!DependsOn(F[k], d, NodeOf(R, i))
  BY <1>2, <1>7
<1>9. Wired(Graph!Simplify(F[k]), R, b, again) = Graph!Simplify(F[k])
  BY <1>1, <1>3, <1>5, <1>8, WiredAgain, ZenonT(60)
<1>10. Wired(r.plan.deps, R, b, again) = r.plan.deps
  BY <1>2, <1>9
<1>. QED BY <1>10 DEF R

(* An import of q, R is the first of the two or three: its only outcome s  *)
(* is the only outcome of the next, and as far as s is not r it is that    *)
(* for the nodes of p that M does not map.                                 *)
SettlesFrom(p, M, b, sub, r) ==
    LET again == Imports(r.plan, r.map, b, sub)
    IN \E s \in again :
          /\ again = {s} /\ Imports(s.plan, s.map, b, sub) = {s}
          /\ s.map = r.map /\ s.plan.deps = r.plan.deps
          /\ DOMAIN s.plan.nodes = DOMAIN r.plan.nodes
          /\ \A n \in DOMAIN r.plan.nodes :
                \/ s.plan.nodes[n] = r.plan.nodes[n]
                \/ /\ n \in DOMAIN p.nodes \ NodesOf(M)
                   /\ Retouched(r.plan.nodes[n], s.plan.nodes[n])
Settles(p, M, b, sub) == \A r \in Imports(p, M, b, sub) : SettlesFrom(p, M, b, sub, r)

(* Whatever a second import does, it only adapts nodes that were matched,  *)
(* and a third does nothing.                                               *)
LEMMA ImportsAgain ==
    ASSUME NEW p, SoundPlan(p), PlanOK(p, used), NEW M, MapOK(M, used),
           NEW b, SoundBoard(b), DOMAIN b \subseteq Items \cap used, NEW sub
    PROVE  Settles(p, M, b, sub)
<1>. SUFFICES ASSUME NEW r \in Imports(p, M, b, sub)
              PROVE  SettlesFrom(p, M, b, sub, r)
  BY DEF Settles
<1>. DEFINE R == r.map
            T == OfLevel(b, sub) \cap ItemsOf(R)
            q == r.plan
            s == Refreshed(q, R, b, sub)
<1>1. PICK f, k, order, F : Importing(p, M, b, sub, r, f, k, order, F)
  BY ImportComesAbout DEF SoundBoard
<1>2. NodesOf(R) \subseteq DOMAIN q.nodes /\ SoundPlan(q)
  BY <1>1, ImportIsSound
<1>3. \A i \in OfLevel(b, sub) \ ItemsOf(R) : Skipped(b[i])
  <2>1. /\ f \in Linked(p, Existing(p, M), b, sub)
        /\ R = Existing(p, M) \cup {<<i, f[i]>> : i \in DOMAIN f}
    BY <1>1 DEF Importing
  <2>2. ItemsOf(R) = ItemsOf(Existing(p, M)) \cup DOMAIN f
    BY <2>1, NodesOfPairs
  <2>3. DOMAIN f = {i \in OfLevel(b, sub) \ ItemsOf(Existing(p, M)) : ~ Skipped(b[i])}
    BY <2>1, NewItemsMatch
  <2>. QED BY <2>2, <2>3
<1>4. order \in SetToSeqs(T) /\ \A o \in SetToSeqs(T) : Wired(q.deps, R, b, o) = q.deps
  <2>1. order \in SetToSeqs(T)
    BY <1>1 DEF Importing
  <2>2. ASSUME NEW o \in SetToSeqs(T) PROVE Wired(q.deps, R, b, o) = q.deps
    BY <1>1, LinksOfSecondImport
  <2>. QED BY <2>1, <2>2
<1>5. \A n \in DOMAIN q.nodes :
         \/ ImportedNode(q, R, b, sub, R, n) = q.nodes[n]
         \/ /\ n \in DOMAIN p.nodes \ NodesOf(M)
            /\ Retouched(q.nodes[n], ImportedNode(q, R, b, sub, R, n))
  BY <1>1, NodesAgain
<1>. HIDE DEF R, q
<1>6. Imports(q, R, b, sub) = {s}
  BY <1>2, <1>3, <1>4, OneResult, ZenonT(60)
<1>7. /\ s.map = R /\ s.plan.deps = q.deps /\ DOMAIN s.plan.nodes = DOMAIN q.nodes
      /\ \A n \in DOMAIN q.nodes : s.plan.nodes[n] = ImportedNode(q, R, b, sub, R, n)
  BY DEF Refreshed
<1>8. Refreshed(s.plan, R, b, sub) = s
  <2>1. \A n \in DOMAIN q.nodes : q.nodes[n] \in NodeData
    BY <1>2 DEF SoundPlan
  <2>. QED BY <2>1, NodesStay
<1>9. Imports(s.plan, s.map, b, sub) = {s}
  <2>. DEFINE t == s.plan
  <2>1. /\ NodesOf(R) \subseteq DOMAIN t.nodes
        /\ \A o \in SetToSeqs(T) : Wired(t.deps, R, b, o) = t.deps
    BY <1>2, <1>4, <1>7
  <2>2. Refreshed(t, R, b, sub) = s /\ s.map = R
    BY <1>7, <1>8
  <2>. HIDE DEF t, s
  <2>3. Imports(t, R, b, sub) = {Refreshed(t, R, b, sub)}
    BY <1>3, <1>4, <2>1, OneResult, ZenonT(60)
  <2>4. Imports(t, s.map, b, sub) = {s}
    BY <2>2, <2>3
  <2>. QED BY <2>4 DEF t
<1>. HIDE DEF s
<1>10. s.map = r.map /\ s.plan.deps = r.plan.deps
       /\ DOMAIN s.plan.nodes = DOMAIN r.plan.nodes
       /\ Imports(r.plan, r.map, b, sub) = {s}
  BY <1>6, <1>7 DEF R, q
<1>11. ASSUME NEW n \in DOMAIN r.plan.nodes
       PROVE  \/ s.plan.nodes[n] = r.plan.nodes[n]
              \/ /\ n \in DOMAIN p.nodes \ NodesOf(M)
                 /\ Retouched(r.plan.nodes[n], s.plan.nodes[n])
  BY <1>5, <1>7 DEF q
<1>. QED BY <1>9, <1>10, <1>11 DEF SettlesFrom

(* A second import in a row changes nothing but the nodes that the first   *)
(* found by a match, and of those only what the match did not look at; a   *)
(* third changes nothing: in whatever order the items come, and whatever   *)
(* plan, board and map have gone through before.                           *)
THEOREM ImportsSettleDown == Spec => []ImportsSettle
<1>1. MapInv /\ DataInv => ImportsSettle
  <2>. SUFFICES ASSUME MapInv, DataInv PROVE ImportsSettle
    OBVIOUS
  <2>1. /\ SoundPlan(plan) /\ PlanOK(plan, used) /\ MapOK(config.map, used)
        /\ DOMAIN board \subseteq Items \cap used
    BY DEF MapInv, DataInv, ConfigOK
  <2>2. SoundBoard(board)
    BY <2>1, FS_Subset DEF DataInv, SoundBoard
  <2>3. Settles(plan, config.map, board, config.sub)
    BY <2>1, <2>2, ImportsAgain, ZenonT(60)
  <2>4. \A r \in Imports(plan, config.map, board, config.sub) :
           SettlesFrom(plan, config.map, board, config.sub, r)
    BY <2>3 DEF Settles
  <2>. QED BY <2>4, ZenonT(60) DEF ImportsSettle, Again, SettlesFrom, Retouched
<1>. QED BY <1>1, InitIsMapInv, StepKeepsMapInv, InitIsDataInv, StepKeepsDataInv, PTL DEF Spec

-----------------------------------------------------------------------------
(* A push, and the pull after it.                                          *)

(* Two items that differ in blanks around the name at most.                *)
SameButBlanks(v, w) == v = [w EXCEPT !.name = v.name] /\ Trim[v.name] = Trim[w.name]

(* The item of m is there and looks as the plan p and the map M want it.   *)
Tied(p, M, b, m) ==
    /\ m[1] \in DOMAIN b
    /\ SameButBlanks(b[m[1]], Wanted([plan |-> p, map |-> M], m[2], b[m[1]]))

(* What a node u is after it was pushed and pulled: what the board holds.  *)
PulledBack(n, u, v) ==
    /\ Trim[v.name] = Trim[u.name] /\ v.status = u.status
    /\ v.work = IF n \in Milestones THEN u.work ELSE Evened(u.work)
PulledBackIfRead(p, M, b, sub, n, v) ==
    IF \E i \in OfLevel(b, sub) : <<i, n>> \in M
    THEN PulledBack(n, p.nodes[n], v) ELSE v = p.nodes[n]

(* What a push has left: an item for every node, which looks as it should  *)
(* where the node has dates.                                               *)
Pushed(p, M, b) ==
    /\ DOMAIN p.nodes \subseteq NodesOf(M)
    /\ \A m \in M : m[2] \in Scheduled(p) => Tied(p, M, b, m)

(* Two graphs that are the same on a set that neither leaves order it in   *)
(* the same way.                                                           *)
LEMMA OrderWithin ==
    ASSUME NEW g, NEW h, NEW C \in SUBSET Ends, Graph!Closed(g, C),
           \A x \in C : h[x] = g[x], NEW a \in C, NEW c
    PROVE  Graph!DependsOn(h, a, c) <=> Graph!DependsOn(g, a, c)
<1>1. ASSUME NEW u, NEW v, \A x \in C : v[x] = u[x], Graph!Closed(u, C),
             Graph!DependsOn(u, a, c)
      PROVE  Graph!DependsOn(v, a, c)
  <2>. SUFFICES ASSUME NEW S \in SUBSET Ends, a \in S, Graph!Closed(v, S) PROVE c \in S
    BY SameEnds DEF Graph!DependsOn
  <2>1. Graph!Closed(u, S \cap C) /\ a \in S \cap C /\ S \cap C \in SUBSET Ends
    BY <1>1 DEF Graph!Closed
  <2>2. c \in S \cap C
    BY <1>1, <2>1, SameEnds DEF Graph!DependsOn
  <2>. QED BY <2>2
<1>2. Graph!Closed(h, C)
  BY DEF Graph!Closed
<1>. QED BY <1>1, <1>2

(* And are simplified in the same way there.                               *)
LEMMA SimplifiedWithin ==
    ASSUME NEW g, NEW h, NEW C \in SUBSET Ends, Graph!Closed(g, C),
           \A x \in C : h[x] = g[x], NEW n \in C
    PROVE  Graph!Simplify(h)[n] = Graph!Simplify(g)[n]
<1>1. g[n] \subseteq C /\ h[n] = g[n] /\ n \in Ends
  BY DEF Graph!Closed
<1>2. \A j \in g[n] : \A d : Graph!DependsOn(h, j, d) <=> Graph!DependsOn(g, j, d)
  BY <1>1, OrderWithin
<1>3. \A d : Graph!Redundant(h, n, d) <=> Graph!Redundant(g, n, d)
  BY <1>1, <1>2 DEF Graph!Redundant
<1>4. /\ Graph!Simplify(h)[n] = {d \in h[n] : ~ Graph!Redundant(h, n, d)}
      /\ Graph!Simplify(g)[n] = {d \in g[n] : ~ Graph!Redundant(g, n, d)}
  BY <1>1, SameEnds DEF Graph!Simplify
<1>. QED BY <1>1, <1>3, <1>4

(* An item that looks as it should has nothing else to tell its node.      *)
LEMMA PulledFromPushed ==
    ASSUME NEW p, NEW n \in DOMAIN p.nodes, p.nodes[n] \in NodeData, NEW job, job.plan = p,
           NEW item \in ItemData, SameButBlanks(item, Wanted(job, n, item))
    PROVE  PulledBack(n, p.nodes[n], Pulled(p, n, item, TRUE))
<1>. DEFINE u == p.nodes[n]
            w == Wanted(job, n, item)
            old == [u EXCEPT !.name = item.name,
                             !.work = IF n \in Milestones THEN @ ELSE Built(item)]
            v == Pulled(p, n, item, TRUE)
<1>1. /\ w.name = u.name
      /\ n \notin Milestones => /\ w.persons = u.work.users \cap Accounts
                                /\ w.days = u.work.total /\ w.status = u.status
  BY DEF Wanted, ItemData
<1>2. v = IF n \in Milestones \/ item.status = "NotStarted" THEN old
          ELSE [old EXCEPT !.status = item.status]
  BY DEF Pulled
<1>3. u \in NodeData /\ SameButBlanks(item, w)
  OBVIOUS
<1>4. DOMAIN w = DOMAIN item
  BY DEF Wanted, ItemData
<1>. HIDE DEF u, w, v
<1>5. /\ Trim[item.name] = Trim[u.name]
      /\ n \notin Milestones => /\ item.persons = u.work.users \cap Accounts
                                /\ item.days = u.work.total /\ item.status = u.status
  BY <1>1, <1>3, <1>4 DEF SameButBlanks, ItemData
<1>6. n \notin Milestones => Built(item) = Evened(u.work)
  <2>1. u.work.users \in SUBSET Users /\ u.work.total \in Days
    BY <1>3 DEF NodeData, Works
  <2>2. (u.work.users \cap Accounts) \cap Users = u.work.users \cap Accounts
    BY <2>1
  <2>3. u.work.total # NoDays
    BY <2>1, DataAssumption
  <2>. QED BY <1>5, <2>2, <2>3 DEF Built, Evened
<1>7. /\ v.name = item.name /\ v.work = IF n \in Milestones THEN u.work ELSE Built(item)
      /\ v.status = IF n \in Milestones \/ item.status = "NotStarted" THEN u.status
                    ELSE item.status
  BY <1>2, <1>3 DEF NodeData
<1>8. PulledBack(n, u, v)
  BY <1>5, <1>6, <1>7 DEF PulledBack
<1>. QED BY <1>8 DEF u, v

(* Nor has it dependencies that its node does not have: those it has are   *)
(* the items of what the node waits for, and if that is only PlanStart it  *)
(* has none.                                                               *)
LEMMA AsksNothing ==
    ASSUME NEW p, SoundPlan(p), Connected(p), NEW M, NEW R, OneToOne(R),
           M \subseteq Items \X Nodes, DOMAIN p.nodes \subseteq NodesOf(M),
           Existing(p, M) \subseteq R,
           NEW n \in DOMAIN p.nodes, NEW item,
           item.deps = {m[1] : m \in {x \in M : x[2] \in p.deps[n]}}
    PROVE  Asked(R, item) \subseteq p.deps[n]
<1>. DEFINE D == p.deps[n]
            known == {NodeOf(R, d) : d \in item.deps \cap ItemsOf(R)}
<1>1. D \subseteq DOMAIN p.nodes \cup {PlanStart} /\ n \in Ends /\ n # PlanStart
      /\ p.deps \in Graphs
  BY NodesAssumption DEF SoundPlan, GraphOf, Ends, Graphs
<1>2. ASSUME NEW m \in M, m[2] \in D
      PROVE  m \in R /\ NodeOf(R, m[1]) = m[2]
  <2>1. m[2] \in Nodes
    OBVIOUS
  <2>2. m[2] \in DOMAIN p.nodes
    BY <1>1, <1>2, <2>1, NodesAssumption
  <2>. QED BY <2>2, NodeOfPair DEF Existing
<1>3. known \subseteq D
  BY <1>2
<1>4. ASSUME known = {} PROVE PlanStart \in D
  <2>1. D \subseteq {PlanStart}
    <3>. SUFFICES ASSUME NEW x \in D, x # PlanStart PROVE FALSE
      OBVIOUS
    <3>1. PICK m \in M : m[2] = x
      BY <1>1 DEF NodesOf
    <3>2. m \in R /\ m[1] \in item.deps
      BY <1>2, <3>1
    <3>3. m[1] \in ItemsOf(R)
      BY <3>2 DEF ItemsOf
    <3>4. NodeOf(R, m[1]) \in known
      BY <3>2, <3>3
    <3>. QED BY <1>4, <3>4
  <2>2. Graph!DependsOn(p.deps, n, PlanStart) /\ PlanStart \in Ends
    BY DEF Connected, Graph!AllNodesConnected, Ends
  <2>3. D # {}
    BY <1>1, <2>2, FirstStepOf
  <2>. QED BY <2>1, <2>3
<1>. QED BY <1>3, <1>4 DEF Asked

(* An item that the import pairs with a node that was there is the one the *)
(* push paired it with.                                                    *)
LEMMA PairedBefore ==
    ASSUME NEW p, NEW M, M \subseteq Items \X Nodes, NEW R, R \subseteq Items \X Nodes,
           OneToOne(R), Existing(p, M) \subseteq R,
           DOMAIN p.nodes \subseteq NodesOf(M), NEW m \in R, m[2] \in DOMAIN p.nodes
    PROVE  m \in M
<1>1. PICK x \in M : x[2] = m[2]
  BY DEF NodesOf
<1>2. x \in R /\ x \in M /\ x[2] = m[2]
  BY <1>1 DEF Existing
<1>3. x[1] = m[1]
  BY <1>2 DEF OneToOne
<1>4. \A y \in Items \X Nodes, z \in Items \X Nodes : y[1] = z[1] /\ y[2] = z[2] => y = z
  OBVIOUS
<1>. QED BY <1>2, <1>3, <1>4

(* So an import after a push leaves a node that was there as it was, or    *)
(* evens it ...                                                            *)
LEMMA NodesSettled ==
    ASSUME NEW p, SoundPlan(p), Connected(p), NEW M, MapOK(M, used),
           NEW b, SoundBoard(b), Pushed(p, M, b), NEW sub, NEW R, OneToOne(R),
           R \subseteq Items \X Nodes, Existing(p, M) \subseteq R, NEW n \in DOMAIN p.nodes
    PROVE  PulledBackIfRead(p, M, b, sub, n, ImportedNode(p, Existing(p, M), b, sub, R, n))
<1>. DEFINE i == CHOOSE i \in OfLevel(b, sub) : <<i, n>> \in R
            old == Existing(p, M)
<1>0. ASSUME NEW x PROVE <<x, n>> \in R <=> <<x, n>> \in M
  <2>. DEFINE m == <<x, n>>
  <2>1. m[2] = n
    OBVIOUS
  <2>. HIDE DEF m
  <2>2. m \in M => m \in R
    BY <2>1 DEF Existing
  <2>3. m \in R => m \in M
    BY <2>1, PairedBefore DEF MapOK, Pushed
  <2>. QED BY <2>2, <2>3 DEF m
<1>. SUFFICES ASSUME \E j \in OfLevel(b, sub) : <<j, n>> \in R
              PROVE  PulledBack(n, p.nodes[n], Pulled(p, n, b[i], <<i, n>> \in old))
  BY <1>0 DEF ImportedNode, PulledBackIfRead
<1>1. i \in OfLevel(b, sub) /\ <<i, n>> \in R
  OBVIOUS
<1>. HIDE DEF i
<1>. DEFINE m == <<i, n>>
<1>2. m \in R /\ m[1] = i /\ m[2] = n
  BY <1>1
<1>. HIDE DEF m
<1>3. m \in M
  BY <1>2, PairedBefore DEF MapOK, Pushed
<1>4. m \in old
  BY <1>2, <1>3 DEF Existing
<1>5. n \in Scheduled(p)
  BY DEF Scheduled
<1>6. Tied(p, M, b, m)
  BY <1>2, <1>3, <1>5 DEF Pushed
<1>. DEFINE job == [plan |-> p, map |-> M]
            item == b[i]
<1>7. job.plan = p /\ i \in DOMAIN b /\ SameButBlanks(item, Wanted(job, n, item))
  BY <1>2, <1>6 DEF Tied
<1>8. item \in ItemData /\ p.nodes[n] \in NodeData
  BY <1>7 DEF SoundBoard, SoundPlan
<1>. HIDE DEF job, item
<1>9. PulledBack(n, p.nodes[n], Pulled(p, n, item, TRUE))
  BY <1>7, <1>8, PulledFromPushed
<1>10. <<i, n>> \in old
  BY <1>4 DEF m
<1>11. Pulled(p, n, b[i], <<i, n>> \in old) = Pulled(p, n, b[i], TRUE)
  BY <1>10 DEF Pulled
<1>. QED BY <1>9, <1>11 DEF item

(* ... nor what it waits for, until the result is simplified.              *)
LEMMA LinksSettled ==
    ASSUME NEW p, SoundPlan(p), Connected(p), NEW M, MapOK(M, used),
           NEW b, SoundBoard(b), Pushed(p, M, b), NEW R, OneToOne(R),
           R \subseteq Items \X Nodes, Existing(p, M) \subseteq R,
           NEW k \in Nat, NEW order \in [1 .. k -> ItemsOf(R)],
           NEW F, Linking(R, b, p.deps, order, k, F), p.deps = F[0]
    PROVE  \A x \in DOMAIN p.nodes \cup {PlanStart} : F[k][x] = p.deps[x]
<1>. DEFINE C == DOMAIN p.nodes \cup {PlanStart}
            g == p.deps
            S == {j \in 0 .. k : DOMAIN F[j] = Ends /\ \A x \in C : F[j][x] = g[x]}
<1>1. 0 \in S
  BY DEF SoundPlan, GraphOf
<1>2. ASSUME NEW j \in 1 .. k, j - 1 \in S
      PROVE  j \in S
  <2>. DEFINE h == F[j - 1]
              i == order[j]
              n == NodeOf(R, i)
              E == {d \in Asked(R, b[i]) : ~ Graph!DependsOn(h, d, n)}
  <2>1. F[j] = [h EXCEPT ![n] = @ \cup E]
    BY DEF Linking, AddLinks
  <2>2. DOMAIN h = Ends /\ C \subseteq Ends /\ \A x \in C : h[x] = g[x]
    BY <1>2 DEF SoundPlan, Ends
  <2>3. PICK m \in R : m[1] = i /\ m[2] = n
    <3>1. i \in ItemsOf(R)
      OBVIOUS
    <3>2. PICK m \in R : m[1] = i
      BY <3>1 DEF ItemsOf
    <3>3. NodeOf(R, m[1]) = m[2]
      BY NodeOfPair
    <3>. QED BY <3>2, <3>3
  <2>4. n \in Nodes /\ n # PlanStart
    BY <2>3, NodesAssumption
  <2>5. ASSUME n \in DOMAIN p.nodes PROVE E \subseteq g[n]
    <3>1. m \in M
      BY <2>3, <2>5, PairedBefore DEF MapOK, Pushed
    <3>2. n \in Scheduled(p)
      BY <2>5 DEF Scheduled
    <3>3. Tied(p, M, b, m)
      BY <2>3, <3>1, <3>2 DEF Pushed
    <3>4. b[i].deps = {x[1] : x \in {y \in M : y[2] \in g[n]}}
      <4>. DEFINE w == Wanted([plan |-> p, map |-> M], n, b[i])
      <4>1. i \in DOMAIN b /\ SameButBlanks(b[i], w)
        BY <2>3, <3>3 DEF Tied
      <4>2. b[i] \in ItemData
        BY <4>1 DEF SoundBoard
      <4>3. w.deps = {x[1] : x \in {y \in M : y[2] \in g[n]}} /\ DOMAIN w = DOMAIN b[i]
        BY <4>2 DEF Wanted, ItemData
      <4>. HIDE DEF w
      <4>4. b[i].deps = w.deps
        BY <4>1, <4>2, <4>3 DEF SameButBlanks, ItemData
      <4>. QED BY <4>3, <4>4
    <3>5. M \subseteq Items \X Nodes /\ OneToOne(R) /\ DOMAIN p.nodes \subseteq NodesOf(M)
      BY DEF MapOK, Pushed
    <3>. DEFINE item == b[i]
    <3>6. item.deps = {x[1] : x \in {y \in M : y[2] \in p.deps[n]}}
      BY <3>4
    <3>. HIDE DEF item, n
    <3>7. Asked(R, item) \subseteq p.deps[n]
      BY <2>5, <3>5, <3>6, AsksNothing
    <3>. QED BY <3>7 DEF item, n
  <2>. HIDE DEF h, n, E, i
  <2>6. DOMAIN F[j] = Ends
    BY <2>1, <2>2
  <2>7. ASSUME NEW x \in C PROVE F[j][x] = g[x]
    <3>1. CASE x = n
      <4>1. n \in DOMAIN p.nodes /\ F[j][n] = h[n] \cup E /\ h[n] = g[n]
        BY <2>1, <2>2, <2>4, <3>1
      <4>2. E \subseteq g[n]
        BY <2>5, <4>1
      <4>3. F[j][n] = g[n]
        BY <4>1, <4>2
      <4>. QED BY <3>1, <4>3
    <3>2. CASE x # n
      BY <2>1, <2>2, <3>2
    <3>. QED BY <3>1, <3>2
  <2>. QED BY <2>6, <2>7
<1>3. k \in S
  <2>. HIDE DEF S
  <2>1. \A j \in 1 .. k : j - 1 \in S => j \in S
    BY <1>2
  <2>2. \A j \in 0 .. k : j \in S
    BY <1>1, <2>1, UpTo
  <2>3. k \in 0 .. k
    OBVIOUS
  <2>. QED BY <2>2, <2>3
<1>. QED BY <1>3

(* Both together.                                                          *)
LEMMA PullAfterPush ==
    ASSUME NEW p, SoundPlan(p), PlanOK(p, used), Connected(p), NEW M, MapOK(M, used),
           NEW b, SoundBoard(b), DOMAIN b \subseteq Items \cap used, Pushed(p, M, b),
           NEW sub, NEW r \in Imports(p, M, b, sub), NEW n \in DOMAIN p.nodes
    PROVE  /\ PulledBackIfRead(p, M, b, sub, n, r.plan.nodes[n])
           /\ r.plan.deps[n] = Graph!Simplify(p.deps)[n]
<1>. DEFINE R == r.map
            C == DOMAIN p.nodes \cup {PlanStart}
<1>1. PICK f, k, order, F : Importing(p, M, b, sub, r, f, k, order, F)
  BY ImportComesAbout DEF SoundBoard
<1>2. /\ n \in DOMAIN r.plan.nodes
      /\ r.plan.nodes[n] = ImportedNode(p, Existing(p, M), b, sub, R, n)
      /\ k \in Nat /\ order \in [1 .. k -> ItemsOf(R)] /\ Linking(R, b, p.deps, order, k, F)
      /\ r.plan.deps = Graph!Simplify(F[k])
  BY <1>1 DEF Importing
<1>3. OneToOne(R) /\ R \subseteq Items \X Nodes /\ Existing(p, M) \subseteq R
  <2>1. MapOK(R, used \cup (DOMAIN r.plan.nodes \ DOMAIN p.nodes)) /\ Existing(p, M) \subseteq R
    BY ImportsAreOneToOne
  <2>. QED BY <2>1 DEF MapOK
<1>. HIDE DEF R
<1>4. PulledBackIfRead(p, M, b, sub, n, r.plan.nodes[n])
  <2>1. PulledBackIfRead(p, M, b, sub, n, ImportedNode(p, Existing(p, M), b, sub, R, n))
    BY <1>3, NodesSettled, ZenonT(60)
  <2>. QED BY <1>2, <2>1
<1>5. \A x \in C : F[k][x] = p.deps[x]
  <2>1. p.deps = F[0]
    BY <1>2 DEF Linking
  <2>2. k \in Nat /\ order \in [1 .. k -> ItemsOf(R)] /\ Linking(R, b, p.deps, order, k, F)
    BY <1>2
  <2>. QED BY <1>3, <2>1, <2>2, LinksSettled
<1>6. C \in SUBSET Ends /\ n \in C /\ Graph!Closed(p.deps, C)
  <2>1. DOMAIN p.nodes \subseteq Nodes /\ GraphOf(p.deps, DOMAIN p.nodes)
    BY DEF SoundPlan
  <2>. QED BY <2>1 DEF GraphOf, Graph!Closed, Ends
<1>. HIDE DEF C
<1>7. Graph!Simplify(F[k])[n] = Graph!Simplify(p.deps)[n]
  BY <1>5, <1>6, SimplifiedWithin
<1>. QED BY <1>2, <1>4, <1>7

(* What an undisturbed push or preview has done so far: it works on the    *)
(* plan there is, creates all items before it updates one, has left those  *)
(* it updated as they should be, and knows the others as they are.         *)
InStep(job, p, b, U) ==
    /\ job.plan = p /\ job.done \subseteq job.map /\ DOMAIN job.fetched \subseteq U
    /\ job.done # {} => Unmapped(job) = {}
    /\ \A m \in job.done : Tied(p, job.map, b, m)
    /\ \A m \in job.map \ job.done :
          m[1] \in DOMAIN b /\ m[1] \in DOMAIN job.fetched => b[m[1]] = job.fetched[m[1]]

(* The jobs that this is about, and what a push that went through has left.*)
IsPushing(job) == job.kind \in {"push", "preview"}

PushInv ==
    /\ \A j \in undisturbed \cap Jobs :
          IsPushing(jobs[j]) => InStep(jobs[j], plan, board, used)
    /\ settled => Pushed(plan, config.map, board)

(* A change of somebody else's ends it all; steps that change neither plan *)
(* nor board nor configuration, and only end a thread, change nothing.     *)
LEMMA QuietStepsKeepPushes ==
    ASSUME MapInv, PushInv,
           \/ Edit
           \/ /\ ChangeNone /\ UNCHANGED <<plan, board, config, used>>
              /\ UNCHANGED jobs \/ \E j \in Jobs : Become(j, Idle)
    PROVE  PushInv'
<1>1. CASE Edit
  BY <1>1 DEF Edit, PushInv
<1>2. CASE /\ ChangeNone /\ UNCHANGED <<plan, board, config, used>>
           /\ UNCHANGED jobs \/ \E j \in Jobs : Become(j, Idle)
  <2>1. \A j \in Jobs : jobs'[j] = jobs[j] \/ jobs'[j].kind = "idle"
    BY <1>2 DEF Become, MapInv, Idle
  <2>. QED BY <1>2, <2>1 DEF ChangeNone, PushInv, IsPushing
<1>. QED BY <1>1, <1>2

(* The one who changes something remains undisturbed.                      *)
LEMMA OwnChangesKeepPushes ==
    ASSUME MapInv, NEW j \in Jobs, NEW job, Become(j, job),
           undisturbed' \subseteq undisturbed \cap {j}, settled' = FALSE,
           j \in undisturbed' /\ IsPushing(job) => InStep(job, plan', board', used')
    PROVE  PushInv'
<1>1. jobs'[j] = job
  BY DEF Become, MapInv
<1>. QED BY <1>1 DEF PushInv

(* Imports are no pushes.                                                  *)
LEMMA ImportsKeepPushes ==
    ASSUME MapInv, PushInv, NEW j \in Jobs, Import(j) \/ ImportDone(j) PROVE PushInv'
<1>1. PICK job : Become(j, job) /\ job.kind \in {"imported", "idle"}
  <2>1. CASE Import(j)
    <3>1. PICK r : Become(j, [kind |-> "imported", plan |-> r.plan])
      BY <2>1 DEF Import
    <3>2. [kind |-> "imported", plan |-> r.plan].kind = "imported"
      OBVIOUS
    <3>. QED BY <3>1, <3>2
  <2>2. CASE ImportDone(j)
    BY <2>2 DEF ImportDone, Idle
  <2>. QED BY <2>1, <2>2
<1>2. undisturbed' \subseteq undisturbed \cap {j} /\ settled' = FALSE
  BY DEF Import, ImportDone, ChangeBy
<1>3. ~ IsPushing(job)
  BY <1>1 DEF IsPushing
<1>. QED BY <1>1, <1>2, <1>3, OwnChangesKeepPushes

(* A push starts with nothing done and the board as it is.                 *)
LEMMA StartKeepsPushes ==
    ASSUME MapInv, PushInv, NEW j \in Jobs,
           \/ MondayPull(j) \/ MondayFullReimport(j)
           \/ MondayPush(j) \/ MondayPushPreview(j)
    PROVE  PushInv'
<1>1. PICK job : /\ Start(j, job)
                 /\ IsPushing(job) => job.plan = plan /\ job.fetched = board /\ job.done = {}
  BY DEF MondayPull, MondayFullReimport, MondayPush, MondayPushPreview, Push, IsPushing
<1>2. /\ undisturbed' = undisturbed \cup {j} /\ UNCHANGED <<plan, board, config, used, settled>>
      /\ jobs'[j] = job /\ \A k \in Jobs : k # j => jobs'[k] = jobs[k]
  BY <1>1 DEF Start, Become, MapInv
<1>3. IsPushing(job) => InStep(job, plan, board, used)
  BY <1>1 DEF InStep, MapInv
<1>. QED BY <1>2, <1>3 DEF PushInv

(* A push creates an item: it has updated none yet, and the new one is not *)
(* among those it fetched.                                                 *)
LEMMA CreateItemKeepsPushes ==
    ASSUME MapInv, PushInv, NEW j \in Jobs, NEW n \in Nodes, NEW i \in Items,
           CreateItem(j, n, i)
    PROVE  PushInv'
<1>. DEFINE job == jobs[j]
            next == [job EXCEPT !.map = @ \cup {<<i, n>>}]
<1>1. IsPush(job, used) /\ Unmapped(job) # {}
  BY KindOfJob DEF MapInv, CreateItem
<1>2. /\ Become(j, next) /\ i \notin used /\ used' = used \cup {i} /\ UNCHANGED plan
      /\ \A x \in DOMAIN board : x # i => board'[x] = board[x]
      /\ DOMAIN board' = DOMAIN board \cup {i}
      /\ undisturbed' \subseteq undisturbed \cap {j} /\ settled' = FALSE
  BY DEF CreateItem, Put, ChangeBy
<1>3. /\ next.plan = job.plan /\ next.done = job.done /\ next.fetched = job.fetched
      /\ next.map = job.map \cup {<<i, n>>}
  BY <1>1 DEF IsPush
<1>4. IsPushing(job) /\ ItemsOf(job.map) \subseteq used
  BY <1>1 DEF IsPush, IsPushing, MapOK
<1>. HIDE DEF job, next
<1>5. ASSUME j \in undisturbed'
      PROVE  InStep(next, plan', board', used')
  <2>1. InStep(job, plan, board, used)
    BY <1>2, <1>4, <1>5 DEF PushInv, job
  <2>2. next.done = {} /\ next.plan = plan' /\ DOMAIN next.fetched \subseteq used
    BY <1>1, <1>2, <1>3, <2>1 DEF InStep
  <2>3. ASSUME NEW m \in next.map, m[1] \in DOMAIN board', m[1] \in DOMAIN next.fetched
        PROVE  board'[m[1]] = next.fetched[m[1]]
    <3>1. m[1] # i /\ m[1] \in DOMAIN board
      BY <1>2, <2>2, <2>3
    <3>2. m \in job.map
      BY <1>3, <3>1
    <3>3. m \notin job.done
      BY <1>3, <2>2
    <3>. QED BY <1>2, <1>3, <2>1, <2>3, <3>1, <3>2, <3>3 DEF InStep
  <2>. QED BY <1>2, <2>2, <2>3 DEF InStep
<1>. QED BY <1>2, <1>5, OwnChangesKeepPushes

(* The fields of an item, and what each is to be.                          *)
IsItem(v) == v = [name |-> v.name, persons |-> v.persons, days |-> v.days,
                  status |-> v.status, deps |-> v.deps, milestone |-> v.milestone,
                  sub |-> v.sub]

LEMMA WantedIs ==
    ASSUME NEW job, NEW n, NEW item, IsItem(item)
    PROVE  Wanted(job, n, item) =
             [name |-> job.plan.nodes[n].name,
              persons |-> IF n \in Milestones THEN item.persons
                          ELSE job.plan.nodes[n].work.users \cap Accounts,
              days |-> IF n \in Milestones THEN item.days
                       ELSE job.plan.nodes[n].work.total,
              status |-> IF n \in Milestones THEN item.status ELSE job.plan.nodes[n].status,
              deps |-> {m[1] : m \in {k \in job.map : k[2] \in job.plan.deps[n]}},
              milestone |-> n \in Milestones, sub |-> item.sub]
<1>. DEFINE node == job.plan.nodes[n]
            D == {m[1] : m \in {k \in job.map : k[2] \in job.plan.deps[n]}}
            t == n \in Milestones
            wanted == [item EXCEPT !.name = node.name, !.milestone = t, !.deps = D]
<1>1. Wanted(job, n, item) = IF t THEN wanted
        ELSE [wanted EXCEPT !.persons = node.work.users \cap Accounts,
                            !.days = node.work.total, !.status = node.status]
  BY DEF Wanted
<1>. HIDE DEF D, t, node
<1>2. wanted = [name |-> node.name, persons |-> item.persons, days |-> item.days,
                status |-> item.status, deps |-> D, milestone |-> t, sub |-> item.sub]
  <2>1. DOMAIN item = {"name", "persons", "days", "status", "deps", "milestone", "sub"}
    BY DEF IsItem
  <2>2. wanted = [f \in DOMAIN item |-> IF f = "name" THEN node.name
                    ELSE IF f = "milestone" THEN t ELSE IF f = "deps" THEN D ELSE item[f]]
    BY <2>1
  <2>. HIDE DEF wanted
  <2>. QED BY <2>1, <2>2
<1>. HIDE DEF wanted
<1>3. [wanted EXCEPT !.persons = node.work.users \cap Accounts, !.days = node.work.total,
                     !.status = node.status]
        = [name |-> node.name, persons |-> node.work.users \cap Accounts,
           days |-> node.work.total, status |-> node.status, deps |-> D,
           milestone |-> t, sub |-> item.sub]
  <2>. DEFINE full == [wanted EXCEPT !.persons = node.work.users \cap Accounts,
                                     !.days = node.work.total, !.status = node.status]
              all == {"name", "persons", "days", "status", "deps", "milestone", "sub"}
  <2>1. DOMAIN wanted = all
    BY <1>2
  <2>2. full = [f \in all |-> IF f = "persons" THEN node.work.users \cap Accounts
                  ELSE IF f = "days" THEN node.work.total
                  ELSE IF f = "status" THEN node.status ELSE wanted[f]]
    BY <2>1
  <2>. HIDE DEF full
  <2>3. full = [name |-> node.name, persons |-> node.work.users \cap Accounts,
                days |-> node.work.total, status |-> node.status, deps |-> D,
                milestone |-> t, sub |-> item.sub]
    BY <1>2, <2>2
  <2>. QED BY <2>3 DEF full
<1>4. CASE t
  BY <1>1, <1>2, <1>4 DEF node, D, t
<1>5. CASE ~ t
  BY <1>1, <1>3, <1>5 DEF node, D, t
<1>. QED BY <1>4, <1>5

(* What is as it is wanted is not changed again.                           *)
LEMMA WantedTwice ==
    ASSUME NEW job, NEW n, NEW item, IsItem(item), NEW v,
           SameButBlanks(v, Wanted(job, n, item))
    PROVE  Wanted(job, n, v) = Wanted(job, n, item)
<1>. DEFINE w == Wanted(job, n, item)
            t == n \in Milestones
<1>1. /\ IsItem(w) /\ w.sub = item.sub
      /\ t => w.persons = item.persons /\ w.days = item.days /\ w.status = item.status
  BY WantedIs DEF IsItem
<1>2. SameButBlanks(v, w)
  OBVIOUS
<1>. HIDE DEF w, t
<1>3. IsItem(v) /\ v.sub = w.sub /\ v.persons = w.persons /\ v.days = w.days
      /\ v.status = w.status
  BY <1>1, <1>2 DEF SameButBlanks, IsItem
<1>4. v.sub = item.sub
      /\ (t => v.persons = item.persons /\ v.days = item.days /\ v.status = item.status)
  BY <1>1, <1>3
<1>. DEFINE node == job.plan.nodes[n]
            D == {m[1] : m \in {k \in job.map : k[2] \in job.plan.deps[n]}}
            of(x) == [name |-> node.name,
                      persons |-> IF t THEN x.persons ELSE node.work.users \cap Accounts,
                      days |-> IF t THEN x.days ELSE node.work.total,
                      status |-> IF t THEN x.status ELSE node.status,
                      deps |-> D, milestone |-> t, sub |-> x.sub]
<1>5. Wanted(job, n, item) = of(item) /\ Wanted(job, n, v) = of(v)
  BY <1>3, WantedIs DEF t
<1>. HIDE DEF node, D
<1>6. of(item) = of(v)
  BY <1>4
<1>. QED BY <1>5, <1>6

(* An update leaves the item as it is wanted, but for blanks.              *)
LEMMA WrittenAsWanted ==
    ASSUME NEW job, NEW n, NEW i, NEW item, IsItem(item),
           i \in DOMAIN job.fetched => job.fetched[i] = item, NEW v,
           v = [f \in DOMAIN item |->
                   IF f \in Differing(job, n, i) THEN Wanted(job, n, item)[f] ELSE item[f]]
    PROVE  SameButBlanks(v, Wanted(job, n, item))
<1>. DEFINE w == Wanted(job, n, item)
            D == Differing(job, n, i)
            fields == {"name", "persons", "days", "status", "deps", "milestone", "sub"}
<1>1. IsItem(w)
  BY WantedIs DEF IsItem
<1>2. ASSUME NEW f \in fields, f \notin D
      PROVE  w[f] = item[f] \/ (f = "name" /\ Trim[w.name] = Trim[item.name])
  BY <1>2 DEF Differing
<1>3. v = [f \in DOMAIN item |-> IF f \in D THEN w[f] ELSE item[f]]
  OBVIOUS
<1>. HIDE DEF w, D
<1>4. DOMAIN item = fields
  BY DEF IsItem
<1>. HIDE DEF fields
<1>5. /\ v = [f \in fields |-> IF f \in D THEN w[f] ELSE item[f]]
      /\ \A f \in fields : v[f] = IF f \in D THEN w[f] ELSE item[f]
  BY <1>3, <1>4
<1>6. \A f \in fields : v[f] = w[f] \/ (f = "name" /\ Trim[w.name] = Trim[item.name])
  BY <1>2, <1>5
<1>7. IsItem(v)
  BY <1>5 DEF IsItem, fields
<1>8. /\ v.persons = w.persons /\ v.days = w.days /\ v.status = w.status
      /\ v.deps = w.deps /\ v.milestone = w.milestone /\ v.sub = w.sub
  BY <1>6 DEF fields
<1>9. Trim[v.name] = Trim[w.name]
  <2>1. "name" \in fields
    BY DEF fields
  <2>2. v["name"] = w["name"] \/ (v["name"] = item["name"] /\ Trim[w.name] = Trim[item.name])
    BY <1>2, <1>5, <2>1
  <2>. QED BY <2>2
<1>10. v = [w EXCEPT !.name = v.name]
  BY <1>1, <1>7, <1>8 DEF IsItem
<1>. QED BY <1>9, <1>10 DEF SameButBlanks, w

(* So what it has updated is as it should be.                              *)
LEMMA UpdateItemKeepsPushes ==
    ASSUME MapInv, DataInv, PushInv, NEW j \in Jobs, NEW m, NEW lost, UpdateItem(j, m, lost)
    PROVE  PushInv'
<1>. DEFINE job == jobs[j]
            next == [job EXCEPT !.done = @ \cup {m}]
            i == m[1]
            w == Wanted(job, m[2], board[i])
<1>1. IsPush(job, used) /\ IsPushing(job)
  BY KindOfJob DEF MapInv, UpdateItem, IsPushing
<1>2. /\ Become(j, next) /\ UNCHANGED <<plan, used>> /\ settled' = FALSE
      /\ Unmapped(job) = {} /\ m \in job.map \ job.done
      /\ undisturbed' \subseteq undisturbed \cap {j}
      /\ undisturbed' # {} => lost = {} /\ i \in DOMAIN board
  BY DEF UpdateItem, Pushable
<1>3. /\ next.plan = job.plan /\ next.fetched = job.fetched /\ next.map = job.map
      /\ next.done = job.done \cup {m}
  BY <1>1 DEF IsPush
<1>4. ASSUME j \in undisturbed'
      PROVE  InStep(next, plan', board', used')
  <2>1. InStep(job, plan, board, used)
    BY <1>1, <1>2, <1>4 DEF PushInv
  <2>2. i \in DOMAIN board /\ lost = {} /\ board[i] \in ItemData
    BY <1>2, <1>4 DEF DataInv
  <2>3. /\ DOMAIN board' = DOMAIN board
        /\ \A x \in DOMAIN board : x # i => board'[x] = board[x]
        /\ board'[i] = [f \in DOMAIN board[i] |->
                          IF f \in Differing(job, m[2], i) \ lost
                          THEN w[f] ELSE board[i][f]]
    BY <2>2 DEF UpdateItem
  <2>4. i \in DOMAIN job.fetched => job.fetched[i] = board[i]
    BY <1>2, <2>1, <2>2 DEF InStep
  <2>5. IsItem(board[i])
    BY <2>2 DEF ItemData, IsItem
  <2>6. SameButBlanks(board'[i], w)
    <3>. DEFINE item == board[i]
                v == board'[i]
                n == m[2]
    <3>1. v = [f \in DOMAIN item |->
                 IF f \in Differing(job, n, i) THEN Wanted(job, n, item)[f] ELSE item[f]]
      BY <2>2, <2>3
    <3>2. IsItem(item) /\ (i \in DOMAIN job.fetched => job.fetched[i] = item)
      BY <2>4, <2>5
    <3>. HIDE DEF item, v, n, job, i
    <3>3. SameButBlanks(v, Wanted(job, n, item))
      BY <3>1, <3>2, WrittenAsWanted, ZenonT(60)
    <3>. QED BY <3>3 DEF item, v, n
  <2>7. Wanted(job, m[2], board'[i]) = w
    <3>. DEFINE item == board[i]
                v == board'[i]
                n == m[2]
    <3>1. IsItem(item) /\ SameButBlanks(v, Wanted(job, n, item))
      BY <2>5, <2>6
    <3>. HIDE DEF item, v, n, job
    <3>2. Wanted(job, n, v) = Wanted(job, n, item)
      BY <3>1, WantedTwice, ZenonT(60)
    <3>. QED BY <3>2 DEF item, v, n
  <2>8. Wanted([plan |-> job.plan, map |-> job.map], m[2], board'[i]) = w
    <3>. DEFINE v == board'[i]
    <3>. HIDE DEF v, w, job
    <3>1. Wanted([plan |-> job.plan, map |-> job.map], m[2], v) = Wanted(job, m[2], v)
      BY DEF Wanted
    <3>. QED BY <2>7, <3>1 DEF v
  <2>9. Tied(plan', next.map, board', m)
    <3>1. job.plan = plan'
      BY <1>2, <2>1 DEF InStep
    <3>. HIDE DEF w, job, next
    <3>2. Wanted([plan |-> plan', map |-> next.map], m[2], board'[i]) = w
      BY <1>3, <2>8, <3>1
    <3>. QED BY <2>2, <2>3, <2>6, <3>2 DEF Tied
  <2>10. \A x \in job.map : x # m => x[1] # i
    BY <1>1, <1>2 DEF IsPush, MapOK, OneToOne
  <2>. HIDE DEF w, job, next
  <2>11. ASSUME NEW x \in next.done PROVE Tied(plan', next.map, board', x)
    <3>1. CASE x = m
      BY <2>9, <3>1
    <3>2. CASE x # m
      <4>1. x \in job.done /\ x[1] # i /\ Tied(plan, job.map, board, x)
        BY <1>3, <2>1, <2>10, <3>2 DEF InStep
      <4>2. x[1] \in DOMAIN board' /\ board'[x[1]] = board[x[1]]
        BY <2>3, <4>1 DEF Tied
      <4>. QED BY <1>2, <1>3, <4>1, <4>2 DEF Tied
    <3>. QED BY <3>1, <3>2
  <2>12. ASSUME NEW x \in next.map \ next.done, x[1] \in DOMAIN board',
                x[1] \in DOMAIN next.fetched
         PROVE  board'[x[1]] = next.fetched[x[1]]
    BY <1>3, <2>1, <2>3, <2>10, <2>12 DEF InStep
  <2>13. Unmapped(next) = {}
    BY <1>2, <1>3 DEF Unmapped
  <2>14. next.plan = plan' /\ next.done \subseteq next.map /\ DOMAIN next.fetched \subseteq used'
    BY <1>2, <1>3, <2>1 DEF InStep
  <2>. QED BY <2>11, <2>12, <2>13, <2>14 DEF InStep
<1>. HIDE DEF job, next
<1>. QED BY <1>2, <1>4, OwnChangesKeepPushes

(* At the end all is done.                                                 *)
LEMMA EndPushKeepsPushes ==
    ASSUME MapInv, PushInv, NEW j \in Jobs, EndPush(j) PROVE PushInv'
<1>. DEFINE job == jobs[j]
<1>1. IsPush(job, used) /\ IsPushing(job)
  BY KindOfJob DEF MapInv, EndPush, IsPushing
<1>2. /\ jobs'[j] = Idle /\ UNCHANGED <<plan, board>>
      /\ Unmapped(job) = {} /\ Pushable(job) \subseteq job.done
      /\ settled' = (j \in undisturbed) /\ undisturbed' = undisturbed \cap {j}
  BY DEF EndPush, Finished, Become, MapInv
<1>3. config'.map = job.map
  BY <1>1 DEF EndPush, IsPush, ConfigOK, Configs
<1>4. ASSUME j \in undisturbed
      PROVE  Pushed(plan', config'.map, board')
  <2>1. InStep(job, plan, board, used)
    BY <1>1, <1>4 DEF PushInv
  <2>2. job.plan = plan /\ \A x \in job.done : Tied(plan, job.map, board, x)
    BY <2>1 DEF InStep
  <2>3. DOMAIN plan.nodes \subseteq NodesOf(job.map)
    BY <1>2, <2>2 DEF Unmapped
  <2>4. \A x \in job.map : x[2] \in Scheduled(plan) => x \in job.done
    BY <1>2, <2>2 DEF Pushable
  <2>5. Pushed(plan, job.map, board)
    BY <2>2, <2>3, <2>4 DEF Pushed
  <2>. QED BY <1>2, <1>3, <2>5
<1>5. ~ IsPushing(jobs'[j])
  BY <1>2 DEF Idle, IsPushing
<1>. HIDE DEF job
<1>. QED BY <1>2, <1>4, <1>5 DEF PushInv

(* Every step keeps it.                                                    *)
LEMMA StepKeepsPushInv == MapInv /\ DataInv /\ PushInv /\ [Next]_vars => PushInv'
<1>. SUFFICES ASSUME MapInv, DataInv, PushInv, [Next]_vars PROVE PushInv'
  OBVIOUS
<1>1. CASE UNCHANGED vars
  BY <1>1 DEF vars, PushInv
<1>2. CASE BoardEdit \/ PlanEdit
  <2>1. ASSUME BoardEdit PROVE Edit
    <3>1. ASSUME NEW i \in Items, NEW item, AddItem(i, item) PROVE Edit
      BY <3>1 DEF AddItem
    <3>2. ASSUME NEW i, RemoveItem(i) \/ (\E item : EditItem(i, item)) PROVE Edit
      BY <3>2 DEF RemoveItem, EditItem
    <3>. QED BY <2>1, <3>1, <3>2 DEF BoardEdit
  <2>2. ASSUME PlanEdit PROVE Edit
    BY <2>2, PlanEditIs
  <2>3. Edit
    BY <1>2, <2>1, <2>2
  <2>. QED BY <2>3, QuietStepsKeepPushes
<1>3. ASSUME NEW c \in Dialogs, Dialog(c)
      PROVE  PushInv'
  <2>1. Edit \/ (ChangeNone /\ UNCHANGED <<plan, board, config, used, jobs>>)
    BY <1>3 DEF Dialog, OpenDialog, EditDialog, SaveMondayConfig
  <2>. QED BY <2>1, QuietStepsKeepPushes
<1>4. ASSUME NEW j \in Jobs, SessionGone(j) \/ Fail(j) \/ EndPreview(j)
      PROVE  PushInv'
  <2>1. ChangeNone /\ UNCHANGED <<plan, board, config, used>> /\ Become(j, Idle)
    BY <1>4 DEF SessionGone, Fail, EndPreview
  <2>. QED BY <2>1, QuietStepsKeepPushes
<1>5. ASSUME NEW j \in Jobs, Pulling(j)
      PROVE  PushInv'
  BY <1>4, <1>5, StartKeepsPushes, ImportsKeepPushes DEF Pulling
<1>6. ASSUME NEW j \in Jobs, Pushing(j)
      PROVE  PushInv'
  BY <1>4, <1>6, StartKeepsPushes, CreateItemKeepsPushes, UpdateItemKeepsPushes,
     EndPushKeepsPushes DEF Pushing
<1>. QED BY <1>1, <1>2, <1>3, <1>5, <1>6 DEF Next

(* Where a push has gone through undisturbed and nothing has changed       *)
(* since, a pull changes nothing of the nodes but what the board does not  *)
(* hold of them, and drops no dependencies but those that others imply:    *)
(* whoever else pushed, pulled, failed or overwrote the configuration      *)
(* before.                                                                 *)
THEOREM PullAfterPushOnlyEvens == Spec => []PushSettles
<1>1. ASSUME SoundPlan(plan), PlanOK(plan, used), Connected(plan), SoundBoard(board),
             DOMAIN board \subseteq Items \cap used, NEW M, MapOK(M, used),
             Pushed(plan, M, board), NEW sub, NEW r \in Imports(plan, M, board, sub),
             NEW n \in DOMAIN plan.nodes
      PROVE  /\ PulledBackIfRead(plan, M, board, sub, n, r.plan.nodes[n])
             /\ r.plan.deps[n] = Graph!Simplify(plan.deps)[n]
  BY <1>1, PullAfterPush
<1>2. MapInv /\ DataInv /\ PushInv => PushSettles
  <2>. SUFFICES ASSUME MapInv, DataInv, PushInv, settled, Connected(plan),
                       NEW r \in Imports(plan, config.map, board, config.sub),
                       NEW n \in DOMAIN plan.nodes
                PROVE  /\ Trim[r.plan.nodes[n].name] = Trim[plan.nodes[n].name]
                       /\ r.plan.nodes[n].status = plan.nodes[n].status
                       /\ r.plan.nodes[n].work
                            = IF n \in Milestones \/ ~ Read(n) THEN plan.nodes[n].work
                              ELSE Evened(plan.nodes[n].work)
                       /\ r.plan.deps[n] = Graph!Simplify(plan.deps)[n]
    BY DEF PushSettles
  <2>1. /\ SoundPlan(plan) /\ PlanOK(plan, used) /\ MapOK(config.map, used)
        /\ DOMAIN board \subseteq Items \cap used /\ Pushed(plan, config.map, board)
    BY DEF MapInv, DataInv, ConfigOK, PushInv
  <2>2. SoundBoard(board)
    BY <2>1, FS_Subset DEF DataInv, SoundBoard
  <2>3. /\ IF Read(n) THEN PulledBack(n, plan.nodes[n], r.plan.nodes[n])
           ELSE r.plan.nodes[n] = plan.nodes[n]
        /\ r.plan.deps[n] = Graph!Simplify(plan.deps)[n]
    BY <1>1, <2>1, <2>2 DEF Read, PulledBackIfRead
  <2>. QED BY <2>3 DEF PulledBack
<1>3. Init => PushInv
  BY DEF Init, PushInv
<1>. QED BY <1>2, <1>3, InitIsMapInv, StepKeepsMapInv, InitIsDataInv, StepKeepsDataInv,
         StepKeepsPushInv, PTL DEF Spec
=============================================================================
