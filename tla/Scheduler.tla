------------------------------ MODULE Scheduler ------------------------------
(***************************************************************************)
(* A scheduling run, compute_time_optimised_plan, node by node: what has   *)
(* been worked on is anchored, what is in progress goes first, then the    *)
(* nodes with a date to keep, the target and the rest, each from the       *)
(* earliest day its dependencies allow into the hours its workers have     *)
(* left; then passes that try every node once more.  Between runs the      *)
(* requests that change the status of a task, and the days, go by.         *)
(*                                                                         *)
(* Days are numbers, Epoch the 1970-01-01 of an allocation without dates.  *)
(* The hours are counted in units that all shares of a day come out even   *)
(* in (the code compares floats up to EPSILON).  Horizon stands for        *)
(* MAX_FILL_DAYS after any start.  Plans here are connected and staffed:   *)
(* what the run refuses is modelled in PlanGraph.                          *)
(***************************************************************************)
EXTENDS Integers, FiniteSetsExt, SequencesExt

CONSTANTS Tasks, Milestones, PlanStart,
          Users,        \* numbers: the lowest id wins a tie
          Horizon,      \* the last day
          FirstDay,     \* the day the plan is made
          LastDay,      \* no request is made after it
          NoDay,
          PerDay,       \* hours_per_workload_day
          MaxPasses,    \* of compaction, 50 in the code
          Plans,        \* the plans to look at
          Requests,     \* the kinds of requests to look at
          MaxRequests   \* and their number

Nodes == Tasks \cup Milestones
Days == 0 .. Horizon

ASSUME NodesAssumption ==
    IsFiniteSet(Nodes) /\ Tasks \cap Milestones = {} /\ PlanStart \notin Nodes
ASSUME DaysAssumption ==
    Horizon \in Nat /\ FirstDay \in Days /\ LastDay \in FirstDay .. Horizon
ASSUME HoursAssumption == Users \subseteq Nat /\ PerDay \in Nat
ASSUME BoundsAssumption == MaxPasses \in Nat /\ MaxRequests \in Nat

Epoch == 0
Status == {"NotStarted", "InProgress", "OnHold", "Complete", "Dropped"}

VARIABLES
    plan,     \* what the run reads and does not change
    today,
    started,  \* actual_start of each task
    saved,    \* node_allocations
    now,      \* SchedulerState: allocations made so far, hours left
    agenda,   \* the lists still to be inserted, or <<>>
    pass,     \* of compaction
    stage,
    asked     \* requests so far

vars == <<plan, today, started, saved, now, agenda, pass, stage, asked>>

Constraint == [kind : {"None", "Earliest", "Latest", "Fixed"}, date : Days]
Slot == [who : (SUBSET Users) \ {{}}, days : 1 .. Horizon]   \* one user: Specific
PlanOK(p) ==
    /\ DOMAIN p = {"start", "target", "deps", "slots", "duration", "relaxed",
                   "constraint", "hours", "working"}
    /\ p.start \in Days /\ p.target \in Nodes \cup {PlanStart}
    /\ DOMAIN p.deps = Nodes              \* the lag of each dependency
    /\ \A n \in Nodes : /\ DOMAIN p.deps[n] \subseteq Nodes \cup {PlanStart}
                         /\ p.deps[n] \in [DOMAIN p.deps[n] -> Int]
    /\ p.slots \in [Tasks -> Seq(Slot)]
    /\ p.duration \in [Tasks -> Nat]      \* 0: as long as the work takes
    /\ p.relaxed \in [Tasks -> BOOLEAN]
    /\ p.constraint \in [Nodes -> Constraint]
    /\ p.hours \in [Users -> [Days -> Nat]]
    /\ p.working \subseteq Days           \* of the plan's own calendar

(* Among any nodes one depends on no other of them (see PlanGraph).        *)
Acyclic(p) == \A U \in (SUBSET Nodes) \ {{}} : \E n \in U : DOMAIN p.deps[n] \cap U = {}

ASSUME PlansAssumption == \A p \in Plans : PlanOK(p) /\ Acyclic(p)

Segment == [slot : Nat, user : Users, date : Days, hours : Nat]   \* WorkSegment
Allocation == [status : Status, kind : {"Fixed", "Dynamic"}, start : Nat,
               end : Nat, corrected : Nat \cup {NoDay}, work : SUBSET Segment]
Marker == [date : Nat, status : Status]   \* MilestoneAllocation

AllocationsOK(a) ==
    /\ DOMAIN a.tasks \subseteq Tasks /\ \A t \in DOMAIN a.tasks : a.tasks[t] \in Allocation
    /\ DOMAIN a.milestones \subseteq Milestones
    /\ \A m \in DOMAIN a.milestones : a.milestones[m] \in Marker
    /\ DOMAIN a.late \subseteq Nodes /\ \A n \in DOMAIN a.late : a.late[n] \in Nat

TypeOK ==
    /\ PlanOK(plan) /\ today \in FirstDay .. LastDay
    /\ started \in [Tasks -> Nat \cup {NoDay}]
    /\ AllocationsOK(saved) /\ AllocationsOK(now)
    /\ now.cap \in [Users -> [Days -> Nat]]
    /\ stage \in {"idle", "inserting", "compacting"}
    /\ asked \in 0 .. MaxRequests

-----------------------------------------------------------------------------
Spent(segs, u, d) ==
    SumFunction([g \in {h \in segs : h.user = u /\ h.date = d} |-> g.hours])
(* The hours of a user on a day that all tasks but the dropped ones have.  *)
Booked(tasks, u, d) ==
    SumFunction([t \in {x \in DOMAIN tasks : tasks[x].status # "Dropped"} |->
             Spent(tasks[t].work, u, d)])
Free(cap, segs) == [u \in Users |-> [d \in Days |-> cap[u][d] + Spent(segs, u, d)]]
(* Day after day from start to Horizon, or slot after slot.                *)
Through(Step(_, _), none, first, last) ==
    LET upTo[k \in first - 1 .. Max({last, first - 1})] ==
          IF k < first THEN none ELSE Step(upTo[k - 1], k)
    IN upTo[Max({last, first - 1})]
TotalHours(t, i) == plan.slots[t][i].days * PerDay
Without(f, x) == [y \in DOMAIN f \ {x} |-> f[y]]
With(f, x, v) == [y \in DOMAIN f \cup {x} |-> IF y = x THEN v ELSE f[y]]

EndOf(a) == IF a.corrected = NoDay THEN a.end ELSE a.corrected
StatusOf(alloc, t) ==
    IF t \in DOMAIN alloc.tasks THEN alloc.tasks[t].status ELSE "NotStarted"
InProgress(t) == t \in Tasks /\ StatusOf(saved, t) = "InProgress"
IsAnchored(a) == a.status \notin {"NotStarted", "InProgress"}

NextWorkingDay(d) ==
    LET on == {e \in plan.working : e >= d} IN IF on = {} THEN d ELSE Min(on)
(* advance_working_days: the count-th working day from start on.           *)
AdvanceWorkingDays(start, count) ==
    LET on == {e \in plan.working : /\ e >= start
                                    /\ Cardinality(plan.working \cap (start .. e)) = count}
    IN IF on = {} THEN Horizon ELSE Min(on)

-----------------------------------------------------------------------------
(* milestone_derived_complete and milestone_derived_in_progress: the tasks *)
(* as of before the run, the milestones as of this run.                    *)
DerivedComplete(s, m) ==
    \A d \in DOMAIN plan.deps[m] \ {PlanStart} :
        IF d \in Tasks THEN StatusOf(saved, d) \in {"Complete", "Dropped"}
        ELSE d \in DOMAIN s.milestones /\ s.milestones[d].status = "Complete"
DerivedStatus(s, m) ==
    IF DerivedComplete(s, m) THEN "Complete"
    ELSE IF \E t \in DOMAIN plan.deps[m] : InProgress(t) THEN "InProgress"
    ELSE "NotStarted"

(* Where the dependency d lets the node n begin: a task the day after, a   *)
(* milestone the same day, both as if a dropped task took no time.         *)
Allows(s, n, d) ==
    LET lag == plan.deps[n][d]
        next == IF n \in Milestones THEN 0 ELSE 1
    IN CASE d = PlanStart ->
              lag + (IF n \in Milestones /\ DerivedComplete(s, n)
                     THEN plan.start ELSE Max({today, plan.start}))
         [] d \in DOMAIN s.milestones -> s.milestones[d].date + lag + next
         [] d \in DOMAIN s.tasks ->
              IF s.tasks[d].status = "Dropped" THEN s.tasks[d].start + lag
                                               ELSE EndOf(s.tasks[d]) + lag + next
         [] OTHER -> plan.start + lag + next

(* Mutant of EarliestStart: any one dependency will do.                    *)
EarliestStartOfAny(s, n) ==
    IF InProgress(n) THEN today
    ELSE Max({plan.start, IF n \in Tasks THEN today + 1 ELSE 0,
              Min({Horizon} \cup {Allows(s, n, d) : d \in DOMAIN plan.deps[n]})})

(* earliest_start_from_dependencies; what is in progress has started.      *)
EarliestStart(s, n) ==
    IF InProgress(n)
    THEN CASE started[n] # NoDay -> started[n]
           [] saved.tasks[n].kind = "Fixed" -> saved.tasks[n].start
           [] OTHER -> today
    ELSE Max({plan.start, IF n \in Tasks THEN today + 1 ELSE 0,
              IF plan.constraint[n].kind = "Earliest" THEN plan.constraint[n].date ELSE 0}
             \cup {Allows(s, n, d) : d \in DOMAIN plan.deps[n]})

(* A fixed date is kept unless the dependencies come later; then a day on  *)
(* which the plan works.                                                   *)
Wanted(s, n) ==
    LET c == plan.constraint[n]
    IN NextWorkingDay(IF c.kind = "Fixed" THEN Max({EarliestStart(s, n), c.date})
                                          ELSE EarliestStart(s, n))

(* The constraint_violations after n was put on a day.                     *)
Late(s, n, day) ==
    IF plan.constraint[n].kind \in {"Fixed", "Latest"} /\ day > plan.constraint[n].date
    THEN With(s.late, n, day) ELSE s.late

-----------------------------------------------------------------------------
(* effective_duration: the days the work is spread over, 0 if it is done   *)
(* at the full rate of each day.                                           *)
Span(t) ==
    LET longest == Max({1} \cup {plan.slots[t][i].days : i \in DOMAIN plan.slots[t]})
    IN CASE plan.duration[t] > 0 -> Max({plan.duration[t], longest})
         [] ~ plan.relaxed[t] /\ Len(plan.slots[t]) > 1 -> longest
         [] OTHER -> 0

(* The daily_cap of a slot on a day for its user.                          *)
Cap(t, i, u, d) ==
    IF Span(t) = 0 THEN plan.hours[u][d] ELSE TotalHours(t, i) \div Span(t)

(* A strict task takes its share of a day or nothing.                      *)
Take(t, i, u, d, avail, left) ==
    IF plan.relaxed[t] \/ avail >= Cap(t, i, u, d)
    THEN Min({Cap(t, i, u, d), avail, left}) ELSE 0

(* What is left to do of each slot, and of the hours; what has been planned. *)
NoneDone(s, t) == [left |-> [i \in DOMAIN plan.slots[t] |-> TotalHours(t, i)],
                   cap |-> s.cap, work |-> {}]
Use(a, i, u, d, hours) ==
    IF hours = 0 THEN a
    ELSE [left |-> [a.left EXCEPT ![i] = @ - hours],
          cap |-> [a.cap EXCEPT ![u][d] = @ - hours],
          work |-> a.work \cup {[slot |-> i, user |-> u, date |-> d, hours |-> hours]}]

(* fill_slot of a relaxed task: whatever is there.                         *)
FillSlot(t, i, u, a, start) ==
    LET Day(b, d) == Use(b, i, u, d, Take(t, i, u, d, b.cap[u][d], b.left[i]))
    IN Through(Day, a, start, Horizon)
FillRelaxed(s, t, who, start) ==
    LET OneSlot(a, i) == FillSlot(t, i, who[i], a, start)
    IN Through(OneSlot, NoneDone(s, t), 1, Len(plan.slots[t]))

Busy(a) == {i \in DOMAIN a.left : a.left[i] > 0}
Short(t, who, a, d) == {i \in Busy(a) : a.cap[who[i]][d] < Cap(t, i, who[i], d)}

(* Everyone's share of a day.                                              *)
Shared(t, who, a, d) ==
    LET Share(b, i) == Use(b, i, who[i], d, Min({Cap(t, i, who[i], d), b.left[i],
                                                b.cap[who[i]][d]}))
    IN Through(Share, a, 1, Len(plan.slots[t]))

(* Mutant of FillStrict: a run begun anew forgets to give back its hours.  *)
FillStrictUncounted(s, t, who, start) ==
    LET Day(a, d) ==
          IF Short(t, who, a, d) = {} THEN Shared(t, who, a, d)
          ELSE IF \E i \in Short(t, who, a, d) : plan.hours[who[i]][d] > 0
               THEN [a EXCEPT !.work = {}]
          ELSE a
    IN Through(Day, NoneDone(s, t), start, Horizon)

(* fill_slots_synchronized, and for one worker fill_slot in strict mode:   *)
(* days on which all have their share; a day on which one that works has   *)
(* not breaks the run, which is undone and begun anew.                     *)
FillStrict(s, t, who, start) ==
    LET Day(a, d) ==
          IF Short(t, who, a, d) = {} THEN Shared(t, who, a, d)
          ELSE IF \E i \in Short(t, who, a, d) : plan.hours[who[i]][d] > 0 THEN NoneDone(s, t)
          ELSE a
    IN Through(Day, NoneDone(s, t), start, Horizon)

(* simulate_fill: the last day a user would work on it, never begun anew.  *)
SimulatedEnd(s, t, i, u, start) ==
    LET Day(a, d) == LET got == Take(t, i, u, d, s.cap[u][d], a.left)
                     IN IF got > 0 THEN [left |-> a.left - got, last |-> d] ELSE a
    IN Through(Day, [left |-> TotalHours(t, i), last |-> start], start, Horizon).last

(* select_user_for_placeholder: who would be done first, before hours are  *)
(* taken for any other slot of the task.                                   *)
SelectUser(s, t, i, start) ==
    LET End(u) == SimulatedEnd(s, t, i, u, start)
    IN Min({u \in plan.slots[t][i].who :
              \A v \in plan.slots[t][i].who : End(u) <= End(v)})

(* insert_task, without what it would propagate: see NothingOvertaken.     *)
Placed(s, t, start, filled) ==
    LET work == filled.work
        on == {g.date : g \in work}
        first == IF on = {} THEN start ELSE Min(on)
        ends == {IF plan.duration[t] > 0 THEN AdvanceWorkingDays(start, plan.duration[t])
                                         ELSE start}
                \cup on \cup (IF InProgress(t) THEN {today} ELSE {})
    IN [s EXCEPT !.cap = filled.cap, !.late = Late(s, t, first),
                 !.tasks = With(@, t, [status |-> IF InProgress(t) THEN "InProgress"
                                                  ELSE "NotStarted",
                                       kind |-> "Dynamic", start |-> first, end |-> Max(ends),
                                       corrected |-> NoDay, work |-> work])]
Fill(s, t, who, start) ==
    IF plan.relaxed[t] THEN FillRelaxed(s, t, who, start) ELSE FillStrict(s, t, who, start)
InsertFrom(s, t, start) ==
    Placed(s, t, start,
           Fill(s, t, [i \in DOMAIN plan.slots[t] |-> SelectUser(s, t, i, start)], start))
InsertTask(s, t) == InsertFrom(s, t, Wanted(s, t))

InsertMilestone(s, m) ==
    LET day == Wanted(s, m)
    IN [s EXCEPT !.late = Late(s, m, day),
                 !.milestones = With(@, m, [date |-> day, status |-> DerivedStatus(s, m)])]

Insert(s, n) == IF n \in Tasks THEN InsertTask(s, n) ELSE InsertMilestone(s, n)

-----------------------------------------------------------------------------
Inserted(s) == DOMAIN s.tasks \cup DOMAIN s.milestones
StartOf(s, n) == IF n \in Tasks THEN s.tasks[n].start ELSE s.milestones[n].date
FinishOf(s, n) == IF n \in Tasks THEN EndOf(s.tasks[n]) ELSE s.milestones[n].date

(* collect_ancestors: the node and all it leads to.                        *)
UpTo(n) == {m \in Nodes : \A S \in SUBSET Nodes :
                            (/\ n \in S
                             /\ \A x \in S : DOMAIN plan.deps[x] \ {PlanStart} \subseteq S)
                            => m \in S}

(* effective_duration_days of a task.                                      *)
Duration(t) ==
    IF plan.duration[t] > 0 THEN plan.duration[t]
    ELSE 2 * Max({0} \cup {plan.slots[t][i].days : i \in DOMAIN plan.slots[t]})

(* crit_remaining: the longest way to an end of the list's nodes.          *)
CritRemaining(over) ==
    LET crit[n \in over] ==
          (IF n \in Tasks THEN Duration(n) ELSE 0)
          + Max({0} \cup {Max({0, plan.deps[m][n]}) + crit[m] :
                            m \in {m \in over : n \in DOMAIN plan.deps[m]}})
    IN crit

(* Mutant of NextOf: the critical path without the topological order.      *)
NextOfAnyTie(list, s) ==
    LET crit == CritRemaining(list.over)
        left == list.nodes \ Inserted(s)
    IN {n \in left : \A m \in left : crit[m] <= crit[n]}

(* topological_critical_path_sort: what may be next.  Ties are broken by a *)
(* topological order that depends on the order of a hash table.            *)
NextOf(list, s) ==
    LET crit == CritRemaining(list.over)
        left == list.nodes \ Inserted(s)
    IN {n \in left : /\ \A m \in left : crit[m] <= crit[n]
                     /\ \A m \in left \cap (UpTo(n) \ {n}) : crit[m] < crit[n]}

(* The lists of stages 1.5 to 4: what is in progress, what leads to each   *)
(* node with a latest or fixed date (by date), to the target, everything.  *)
Dated == {n \in Nodes : plan.constraint[n].kind \in {"Latest", "Fixed"}}
ByDate == {o \in SetToSeqs(Dated) : \A i, j \in DOMAIN o : i < j =>
               plan.constraint[o[i]].date <= plan.constraint[o[j]].date}
Lists(alloc, order) ==
    LET list(over, nodes) == [over |-> over, nodes |-> nodes]
    IN <<list(Nodes, {t \in Tasks : StatusOf(alloc, t) = "InProgress"})>>
       \o [i \in DOMAIN order |-> list(UpTo(order[i]), UpTo(order[i]))]
       \o (IF plan.target = PlanStart THEN <<>> ELSE <<list(UpTo(plan.target), UpTo(plan.target))>>)
       \o <<list(Nodes, Nodes)>>
(* The lists from the first that is not inserted yet.                      *)
Pending(lists, s) ==
    LET open == {i \in DOMAIN lists : ~ lists[i].nodes \subseteq Inserted(s)}
    IN IF open = {} THEN <<>> ELSE SubSeq(lists, Min(open), Len(lists))

-----------------------------------------------------------------------------
NoHours == [u \in Users |-> [d \in Days |-> 0]]
Nothing == [tasks |-> <<>>, milestones |-> <<>>, late |-> <<>>, cap |-> NoHours]
NoPass == [todo |-> <<>>, moved |-> TRUE, count |-> 0]
Fixed(status, start, end, work) ==
    [status |-> status, kind |-> "Fixed", start |-> start, end |-> end,
     corrected |-> NoDay, work |-> work]

(* What the run does to the allocations before anything else: the end of a *)
(* task that is not over is forgotten, what should be done by now goes on. *)
Refreshed(a) ==
    LET b == IF a.status \in {"Complete", "Dropped"} THEN a ELSE [a EXCEPT !.corrected = NoDay]
    IN IF b.status = "InProgress" /\ EndOf(b) < today
       THEN IF b.kind = "Fixed" THEN [b EXCEPT !.corrected = today]
                                ELSE Fixed("InProgress", b.start, today, {})
       ELSE b

(* Mutant of Anchor: what is on hold does not hold on to its hours.        *)
AnchorFreely(tasks, hours) ==
    LET kept == {t \in DOMAIN tasks : IsAnchored(tasks[t])}
    IN [Nothing EXCEPT !.cap = hours,
          !.tasks = [t \in kept |-> Fixed(tasks[t].status, tasks[t].start,
                                          EndOf(tasks[t]), tasks[t].work)]]

(* Mutant of Anchor: hours that are gone from the calendar are owed.       *)
AnchorOverdrawn(tasks, hours) ==
    LET s == AnchorFreely(tasks, hours)
    IN [s EXCEPT !.cap = [u \in Users |-> [d \in Days |->
          IF d < today THEN hours[u][d] ELSE hours[u][d] - Booked(s.tasks, u, d)]]]

(* pre_insert_anchored_tasks: what is over or on hold keeps its dates, and *)
(* from today on its hours, as far as the calendar still has them.         *)
Anchor(tasks, hours) ==
    LET kept == [t \in {x \in DOMAIN tasks : IsAnchored(tasks[x])} |->
                   Fixed(tasks[t].status, tasks[t].start, EndOf(tasks[t]), tasks[t].work)]
    IN [Nothing EXCEPT !.tasks = kept,
          !.cap = [u \in Users |-> [d \in Days |->
             IF d < today THEN hours[u][d]
             ELSE Max({0, hours[u][d] - Booked(kept, u, d)})]]]

(* A request: alloc and begun are what it makes of the allocations and of  *)
(* actual_start, hours of the calendars; the run it starts has the lock.   *)
Run(alloc, begun, hours) ==
    LET tasks == [t \in DOMAIN alloc.tasks |-> Refreshed(alloc.tasks[t])]
    IN /\ plan' = [plan EXCEPT !.hours = hours]
       /\ started' = [t \in Tasks |-> IF StatusOf(alloc, t) = "NotStarted" THEN NoDay
                                      ELSE begun[t]]
       /\ saved' = [alloc EXCEPT !.tasks = tasks]
       /\ now' = Anchor(tasks, hours)
       /\ \E order \in ByDate :
              agenda' = Pending(Lists(alloc, order), now')
       /\ stage' = "inserting" /\ pass' = NoPass
       /\ UNCHANGED today

(* Stages 1.5 to 4                                                         *)
InsertNode(n) ==
    /\ stage = "inserting" /\ agenda # <<>> /\ n \in NextOf(Head(agenda), now)
    /\ now' = Insert(now, n)
    /\ agenda' = Pending(agenda, now')
    /\ UNCHANGED <<plan, today, started, saved, pass, stage, asked>>

(* Stage 5: the nodes a pass tries, by the day they start when it begins.  *)
Movable(s) == {t \in DOMAIN s.tasks : s.tasks[t].status = "NotStarted"}
                \cup DOMAIN s.milestones
StartPass ==
    /\ agenda = <<>> /\ pass.todo = <<>> /\ pass.moved /\ pass.count < MaxPasses
    /\ stage \in {"inserting", "compacting"} /\ stage' = "compacting"
    /\ pass' = [todo |-> [n \in Movable(now) |-> StartOf(now, n)],
                moved |-> FALSE, count |-> pass.count + 1]
    /\ UNCHANGED <<plan, today, started, saved, now, agenda, asked>>

(* Mutant of Improves: as good is good enough.                             *)
ImprovesOrNot(s, r, n) == FinishOf(r, n) <= FinishOf(s, n)

Improves(s, r, n) == FinishOf(r, n) < FinishOf(s, n)

(* The task once more, from its earliest day, with its own hours free.     *)
Again(s, t) ==
    InsertTask([s EXCEPT !.cap = Free(@, s.tasks[t].work), !.tasks = Without(@, t)], t)

(* Mutant of Retried: a discarded attempt leaves the task's hours free.    *)
RetriedForFree(s, tried, t) ==
    IF Improves(s, tried, t) THEN tried
    ELSE [s EXCEPT !.late = tried.late, !.cap = Free(@, s.tasks[t].work)]

(* The old allocation again if the new one does not end earlier, but not   *)
(* the old constraint_violations.                                          *)
Retried(s, tried, t) ==
    IF Improves(s, tried, t) THEN tried ELSE [s EXCEPT !.late = tried.late]

(* A milestone that is not fixed, on the day its dependencies allow now;   *)
(* its status is not derived anew.                                         *)
MovedMilestone(s, m) ==
    LET day == NextWorkingDay(EarliestStart(s, m))
    IN IF plan.constraint[m].kind # "Fixed" /\ day < s.milestones[m].date
       THEN [s EXCEPT !.milestones[m] = [date |-> day, status |-> "NotStarted"]] ELSE s

(* compact_pass for one node                                               *)
CompactNode(n) ==
    /\ stage = "compacting" /\ n \in DOMAIN pass.todo
    /\ \A m \in DOMAIN pass.todo : pass.todo[n] <= pass.todo[m]
    /\ now' = IF EarliestStart(now, n) >= FinishOf(now, n) THEN now
              ELSE IF n \in Tasks THEN Retried(now, Again(now, n), n)
              ELSE MovedMilestone(now, n)
    /\ pass' = [pass EXCEPT !.todo = Without(@, n), !.moved = @ \/ Improves(now, now', n)]
    /\ UNCHANGED <<plan, today, started, saved, agenda, stage, asked>>

Commit ==
    /\ stage = "compacting" /\ pass.todo = <<>>
    /\ pass.moved => pass.count >= MaxPasses
    /\ saved' = [tasks |-> now.tasks, milestones |-> now.milestones, late |-> now.late]
    /\ now' = Nothing /\ stage' = "idle"
    /\ pass' = [NoPass EXCEPT !.moved = pass.moved]
    /\ UNCHANGED <<plan, today, started, agenda, asked>>

-----------------------------------------------------------------------------
(* Every request is made when no run is on: both hold the engine's lock.   *)
Request(kind) == /\ stage = "idle" /\ kind \in Requests
                 /\ asked < MaxRequests /\ asked' = asked + 1

NotStarted == [status |-> "NotStarted", kind |-> "Dynamic", start |-> Epoch,
               end |-> Epoch, corrected |-> NoDay, work |-> {}]
Entry(t) == IF t \in DOMAIN saved.tasks THEN saved.tasks[t] ELSE NotStarted
RunWith(t, entry, begun) ==
    Run([saved EXCEPT !.tasks = With(@, t, entry)], begun, plan.hours)

RunScheduler == Request("RunScheduler") /\ Run(saved, started, plan.hours)

StartTask(t) ==
    /\ Request("StartTask")
    /\ LET day == IF started[t] = NoDay THEN today ELSE started[t]
       IN RunWith(t, Fixed("InProgress", day, day, {}), [started EXCEPT ![t] = day])

(* set_task_actual_end, and what complete_task does with today.            *)
EndedOn(a, day) ==
    IF a.kind = "Fixed" THEN [a EXCEPT !.corrected = day]
                        ELSE Fixed(a.status, a.start, day, {})
CompleteTask(t) ==
    /\ Request("CompleteTask")
    /\ RunWith(t, [EndedOn(Entry(t), today) EXCEPT !.status = "Complete"], started)

PauseTask(t) ==
    Request("PauseTask") /\ RunWith(t, [Entry(t) EXCEPT !.status = "OnHold"], started)
ResumeTask(t) ==
    Request("ResumeTask") /\ RunWith(t, [Entry(t) EXCEPT !.status = "InProgress"], started)
DropTask(t) ==
    Request("DropTask") /\ RunWith(t, [Entry(t) EXCEPT !.status = "Dropped"], started)

(* Mutant of Invalidated: only Fixed allocations are kept.                 *)
InvalidatedDynamic(tasks) ==
    LET kept == {t \in DOMAIN tasks : tasks[t].kind = "Fixed"}
    IN [tasks |-> [t \in kept |-> tasks[t]], milestones |-> <<>>, late |-> <<>>]

(* NodeAllocations::invalidate                                             *)
Invalidated(tasks) ==
    LET kept == {t \in DOMAIN tasks : tasks[t].kind = "Fixed" \/ tasks[t].status # "NotStarted"}
    IN [tasks |-> [t \in kept |-> tasks[t]], milestones |-> <<>>, late |-> <<>>]

(* The form of a task: a status, the day it started and the day it ended,  *)
(* of which the form asks for those the status needs.                      *)
UpdateTask(t, status, start, end) ==
    /\ Request("UpdateTask")
    /\ status \in {"InProgress", "OnHold"} => start # NoDay
    /\ status \in {"Complete", "Dropped"} <=> end # NoDay
    /\ LET a == [Entry(t) EXCEPT !.status = status]
           day == IF started[t] = NoDay THEN Epoch ELSE started[t]
           b == IF status # "NotStarted" /\ a.kind = "Dynamic"
                THEN Fixed(status, day, day, {}) ELSE a
           c == IF start # NoDay /\ b.kind = "Fixed" THEN [b EXCEPT !.start = start] ELSE b
           e == IF end # NoDay THEN EndedOn(c, end) ELSE c
       IN Run(Invalidated(With(saved.tasks, t, e)),
              IF start = NoDay THEN started ELSE [started EXCEPT ![t] = start], plan.hours)

(* A holiday, a half day or an extra day in the calendar of a user.        *)
SetUserCalendarOverride(u, day, hours) ==
    /\ Request("SetUserCalendarOverride")
    /\ Run(saved, started, [plan.hours EXCEPT ![u][day] = hours])

NextDay ==
    /\ stage = "idle" /\ today < LastDay
    /\ today' = today + 1
    /\ UNCHANGED <<plan, started, saved, now, agenda, pass, stage, asked>>

(* The plan as it was made or imported, no run yet.                        *)
Init ==
    /\ plan \in Plans
    /\ today = FirstDay
    /\ started = [t \in Tasks |-> NoDay]
    /\ saved = [tasks |-> <<>>, milestones |-> <<>>, late |-> <<>>]
    /\ now = Anchor(<<>>, plan.hours)
    /\ \E order \in ByDate : agenda = Pending(Lists(saved, order), now)
    /\ pass = NoPass /\ stage = "inserting" /\ asked = 0

RunStep == (\E n \in Nodes : InsertNode(n) \/ CompactNode(n)) \/ StartPass \/ Commit

Next ==
    \/ RunStep
    \/ RunScheduler
    \/ \E t \in Tasks : \/ StartTask(t) \/ PauseTask(t) \/ ResumeTask(t)
                        \/ CompleteTask(t) \/ DropTask(t)
    \/ \E t \in Tasks, status \in Status, start, end \in (FirstDay .. today) \cup {NoDay} :
           UpdateTask(t, status, start, end)
    \/ \E u \in Users, day \in today .. LastDay, hours \in {0, PerDay} :
           SetUserCalendarOverride(u, day, hours)
    \/ NextDay

Spec == Init /\ [][Next]_vars

-----------------------------------------------------------------------------
Scheduled(s) == {t \in DOMAIN s.tasks : ~ IsAnchored(s.tasks[t])}

(* "cannot double-book hours already consumed": on a day on which it plans *)
(* work the run never plans more than the user has hours, in the middle of *)
(* all the taking and giving back of hours by restarted runs and retries,  *)
(* next to tasks on hold whose hours were planned by earlier runs.         *)
NoOverbooking ==
    LET s == IF stage = "idle" THEN saved ELSE now
    IN \A u \in Users, d \in today .. Horizon :
           (\E t \in Scheduled(s) : Spent(s.tasks[t].work, u, d) > 0)
               => Booked(s.tasks, u, d) <= plan.hours[u][d]

(* The schedule keeps to the dependencies: what is not started is planned  *)
(* no earlier than each of them allows, after all lists and passes, days   *)
(* and changes of status, also where the order of insertion, the target or *)
(* a pass had other things in mind.                                        *)
InOrder ==
    stage = "idle" =>
        \A n \in Movable(saved) : \A d \in DOMAIN plan.deps[n] \ {PlanStart} :
            StartOf(saved, n) >= Allows(saved, n, d)

(* All work of a task is planned, however often its run is broken by days  *)
(* other tasks have taken.                                                 *)
Hours(a) == SumFunction([g \in a.work |-> g.hours])
AllWorkPlanned ==
    \A t \in Scheduled(now) :
        Hours(now.tasks[t]) = SumFunction([i \in DOMAIN plan.slots[t] |-> TotalHours(t, i)])

(* Nothing not started goes in before what it waits for, so there never is *)
(* anything for propagate_to_dependents to move.                           *)
NothingOvertaken ==
    \A n \in Movable(now) : DOMAIN plan.deps[n] \ {PlanStart} \subseteq Inserted(now)

(* Runs and forms leave the status of all other tasks as it was, whether   *)
(* it stands in an allocation that is thrown away or in one that is made.  *)
OneStatusAtATime ==
    [][Cardinality({t \in Tasks : StatusOf(saved', t) # StatusOf(saved, t)})
           <= IF stage = "idle" THEN 1 ELSE 0]_vars

(* The passes end because nothing can be improved any more, not because    *)
(* fifty of them have gone by.                                             *)
EndsByItself == stage = "idle" => ~ pass.moved

(* scheduler.rs of the lists: for tasks in progress "ordering does not     *)
(* affect start dates", their actual_start is their start.                 *)
StartedWhenStarted ==
    stage = "idle" => \A t \in DOMAIN saved.tasks :
        InProgress(t) /\ started[t] # NoDay =>
            saved.tasks[t].start <= NextWorkingDay(started[t])

(* The test of a dropped task in the middle of a chain: it is transparent, *)
(* the task after it "must start the day after" the one before it ends.    *)
DroppedIsTransparent ==
    stage = "idle" => \A n \in Movable(saved) : \A d \in DOMAIN plan.deps[n] \cap Tasks :
        n \in Tasks /\ StatusOf(saved, d) = "Dropped" =>
            \A e \in DOMAIN plan.deps[d] \cap Tasks :
                StartOf(saved, n) > FinishOf(saved, e)

(* milestone_derived_in_progress is to be "true if any direct dependency   *)
(* TASK has status InProgress".                                            *)
MilestoneShowsProgress ==
    stage = "idle" => \A m \in DOMAIN saved.milestones :
        (\E t \in DOMAIN plan.deps[m] : InProgress(t))
            => saved.milestones[m].status = "InProgress"

(* insert_task of the days a task takes: "at least as long as the          *)
(* most-loaded worker requires to stay within their daily hours", so that  *)
(* all work gets done.                                                     *)
StaysWithinDailyHours == AllWorkPlanned

(* allocation.rs of ConstraintViolation: it "records that a task or        *)
(* milestone could not meet its scheduled constraint and was pushed".      *)
LateIsLate ==
    stage = "idle" => \A n \in DOMAIN saved.late :
        StartOf(saved, n) > plan.constraint[n].date
=============================================================================
