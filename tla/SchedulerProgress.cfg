\* A milestone the passes move forgets that work on it is in progress.
CONSTANTS
    t1 = t1
    t2 = t2
    t3 = t3
    t4 = t4
    m1 = m1
    m2 = m2
    Tasks = {t1, t2, t3, t4}
    Milestones = {m1}
    PlanStart = PlanStart
    Users = {1, 2}
    Horizon = 14
    FirstDay = 1
    LastDay = 3
    NoDay = NoDay
    PerDay = 6
    MaxPasses = 4
    Plans <- GapPlans
    Requests = {"StartTask"}
    MaxRequests = 1
SPECIFICATION Spec
INVARIANTS MilestoneShowsProgress
CHECK_DEADLOCK FALSE
