\* Three nodes with every set of dependencies, and every way to staff two of
\* them.
CONSTANTS
    u1 = u1
    u2 = u2
    red = red
    blue = blue
    t1 = t1
    t2 = t2
    t3 = t3
    m1 = m1
    Tasks = {t1, t2}
    Milestones = {m1}
    PlanStart = PlanStart
    Users = {u1}
    Tags = {red}
    DepSets <- MCAllDeps
    SlotSets <- MCSlots
    Targets <- MCTargets
SPECIFICATION Spec
VIEW view
SYMMETRY Symmetric
INVARIANTS TypeOK Acyclic OneByOneIsTheSame Staffed
PROPERTIES DeletingKeepsTheOrder PatchingOrdersAsAsked
CHECK_DEADLOCK FALSE
