\* A preview of a push.
CONSTANTS
    i1 = i1
    i2 = i2
    i3 = i3
    t1 = t1
    t2 = t2
    t3 = t3
    m1 = m1
    j1 = j1
    j2 = j2
    c1 = c1
    PlanStart = PlanStart
    Items = {i1, i2}
    Tasks = {t1, t2}
    Milestones = {}
    Names = {"a"}
    Trim <- MCTrim
    Users = {}
    Accounts = {}
    Days = {8}
    NoDays = NoDays
    DefaultDays = 8
    Splits = {"even"}
    Statuses = {"NotStarted"}
    NewNodes <- MCNode
    NewItems <- MCTask
    LinkSizes = {}
    Jobs = {j1}
    Dialogs = {c1}
    Previews = TRUE
    Faults = FALSE
    Sub = FALSE
    MaxEdits = 2
SPECIFICATION Spec

PROPERTY PreviewsChangeNothing
CHECK_DEADLOCK FALSE
