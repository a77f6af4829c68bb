\* Two tasks of one worker that were started on the same day.
CONSTANTS
    t1 = t1
    t2 = t2
    t3 = t3
    t4 = t4
    m1 = m1
    m2 = m2
    Tasks = {t1, t2}
    Milestones = {}
    PlanStart = PlanStart
    Users = {1}
    Horizon = 10
    FirstDay = 1
    LastDay = 1
    NoDay = NoDay
    PerDay = 6
    MaxPasses = 4
    Plans <- PairPlans
    Requests = {"StartTask"}
    MaxRequests = 2
SPECIFICATION Spec
INVARIANTS StartedWhenStarted
CHECK_DEADLOCK FALSE
