---------------------------- MODULE MCScheduler ----------------------------
(* Plans to schedule: a few nodes each, in the shapes the stages, the two  *)
(* ways to fill a day and the passes tell apart.                           *)
EXTENDS Scheduler, TLC

CONSTANTS t1, t2, t3, t4, m1, m2

(* Every fourth day is off.                                                *)
Week == {d \in Days : d % 4 # 0}
FullTime == [u \in Users |-> [d \in Days |-> IF d \in Week THEN PerDay ELSE 0]]
Only(u, n) == <<[who |-> {u}, days |-> n]>>
AnyOf(n) == <<[who |-> Users, days |-> n]>>
AnyDay == [n \in Nodes |-> [kind |-> "None", date |-> 0]]
By(n, kind, day) == [AnyDay EXCEPT ![n] = [kind |-> kind, date |-> day]]
After(S) == [d \in S |-> 0]

Plain == [start |-> FirstDay, target |-> PlanStart,
          deps |-> [n \in Nodes |-> After({PlanStart})],
          slots |-> [t \in Tasks |-> Only(1, 1)], duration |-> [t \in Tasks |-> 0],
          relaxed |-> [t \in Tasks |-> FALSE], constraint |-> AnyDay,
          hours |-> FullTime, working |-> Week]

(* A task for two and, after it, one for whoever is free; a milestone.     *)
TeamPlan == [Plain EXCEPT
    !.deps = [n \in Nodes |-> CASE n = t2 -> After({t1}) [] n = m1 -> After({t1, t2})
                                [] OTHER -> After({PlanStart})],
    !.slots = [t \in Tasks |-> IF t = t1 THEN Only(1, 2) \o Only(2, 1) ELSE AnyOf(1)]]
TeamPlans == {[TeamPlan EXCEPT !.relaxed[t1] = r] : r \in BOOLEAN}

(* Two ways to depend on each other, dates to keep, targets, durations.    *)
Dependencies ==
    {[n \in Nodes |-> CASE n = t2 -> [d \in {t1} |-> 1] [] n = m1 -> After({t2})
                        [] n = m2 -> After({m1, t3}) [] OTHER -> After({PlanStart})],
     [n \in Nodes |-> CASE n = m1 -> After({t1, t2}) [] n = m2 -> After({m1})
                        [] n = t3 -> After({m2, PlanStart}) [] OTHER -> After({PlanStart})]}
Dates == {AnyDay, By(t3, "Fixed", 3), By(m1, "Latest", 2), By(t2, "Earliest", 5),
          [By(t2, "Latest", 3) EXCEPT ![m2] = [kind |-> "Fixed", date |-> 9]]}
Shapes ==
    {[Plain EXCEPT !.deps = deps, !.constraint = dates, !.target = target,
                   !.relaxed = [t \in Tasks |-> t \in relaxed], !.duration[t1] = duration,
                   !.slots = [t \in Tasks |-> CASE t = t1 -> Only(1, 2)
                                                [] t = t2 -> AnyOf(1) \o Only(2, 2)
                                                [] OTHER -> AnyOf(1)]] :
       deps \in Dependencies, dates \in Dates, target \in {PlanStart, m1, t3},
       relaxed \in {{}, {t1, t2, t3}}, duration \in {0, 3}}

(* t1 is given to whoever would be done first, who then finds a day of t2  *)
(* in the way, and better given to the other user once t3 is planned.      *)
GapPlan == [Plain EXCEPT
    !.deps = [n \in Nodes |-> IF n = m1 THEN After({t1, t4} \cap Tasks) ELSE After({PlanStart})],
    !.slots = [t \in Tasks |-> CASE t = t1 -> AnyOf(3) [] t = t4 -> <<>> [] OTHER -> Only(1, 1)],
    !.constraint = By(t2, "Fixed", 3),
    !.hours[2][2] = 0]
GapPlans == {GapPlan, [GapPlan EXCEPT !.constraint[m1] = [kind |-> "Latest", date |-> 6]]}

ShapesAndGaps == Shapes \cup GapPlans

(* Three tasks in a row.                                                   *)
RowPlans == {[Plain EXCEPT
    !.deps = [n \in Nodes |-> CASE n = t2 -> After({t1}) [] n = t3 -> After({t2})
                                [] OTHER -> After({PlanStart})]]}

(* Two tasks for the same worker.                                          *)
PairPlans == {Plain}

(* A day's work in a day, for who works half days.                         *)
HalfDayPlans == {[Plain EXCEPT
    !.duration = [t \in Tasks |-> 1],
    !.hours[1] = [d \in Days |-> IF d \in Week THEN PerDay \div 2 ELSE 0]]}
=============================================================================
