\* A dropped task stays where it was when the one before it moves.
CONSTANTS
    t1 = t1
    t2 = t2
    t3 = t3
    t4 = t4
    m1 = m1
    m2 = m2
    Tasks = {t1, t2, t3}
    Milestones = {}
    PlanStart = PlanStart
    Users = {1, 2}
    Horizon = 10
    FirstDay = 1
    LastDay = 3
    NoDay = NoDay
    PerDay = 6
    MaxPasses = 4
    Plans <- RowPlans
    Requests = {"DropTask", "RunScheduler"}
    MaxRequests = 2
SPECIFICATION Spec
INVARIANTS DroppedIsTransparent
CHECK_DEADLOCK FALSE
