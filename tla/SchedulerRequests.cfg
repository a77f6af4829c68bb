\* The requests that change a status and the hours, on a task for two.
CONSTANTS
    t1 = t1
    t2 = t2
    t3 = t3
    t4 = t4
    m1 = m1
    m2 = m2
    Tasks = {t1, t2}
    Milestones = {m1}
    PlanStart = PlanStart
    Users = {1, 2}
    Horizon = 10
    FirstDay = 1
    LastDay = 3
    NoDay = NoDay
    PerDay = 6
    MaxPasses = 4
    Plans <- TeamPlans
    Requests = {"StartTask", "PauseTask", "ResumeTask", "CompleteTask", "DropTask", "SetUserCalendarOverride",
                "UpdateTask", "RunScheduler"}
    MaxRequests = 2
SPECIFICATION Spec
INVARIANTS TypeOK NoOverbooking InOrder
PROPERTIES OneStatusAtATime
CHECK_DEADLOCK FALSE
