\* A client works towards a milestone after what another client has deleted.
CONSTANTS
    u1 = u1
    u2 = u2
    red = red
    blue = blue
    t1 = t1
    t2 = t2
    t3 = t3
    m1 = m1
    Tasks = {t1, t2}
    Milestones = {m1}
    PlanStart = PlanStart
    Users = {}
    Tags = {}
    DepSets <- MCAllDeps
    SlotSets <- MCNoWorkers
    Targets <- MCTargets
SPECIFICATION Spec
INVARIANTS OnlyKnownNodes
CHECK_DEADLOCK FALSE
