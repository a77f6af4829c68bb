\* One run on each of many plans.
CONSTANTS
    t1 = t1
    t2 = t2
    t3 = t3
    t4 = t4
    m1 = m1
    m2 = m2
    Tasks = {t1, t2, t3}
    Milestones = {m1, m2}
    PlanStart = PlanStart
    Users = {1, 2}
    Horizon = 14
    FirstDay = 1
    LastDay = 1
    NoDay = NoDay
    PerDay = 6
    MaxPasses = 4
    Plans <- ShapesAndGaps
    Requests = {"UpdateTask"}
    MaxRequests = 0
SPECIFICATION Spec
INVARIANTS NothingOvertaken AllWorkPlanned InOrder NoOverbooking EndsByItself
CHECK_DEADLOCK FALSE
