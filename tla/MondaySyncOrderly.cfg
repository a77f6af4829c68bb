\* One import or push at a time from the toolbar, no failures.
CONSTANTS
    i1 = i1
    i2 = i2
    i3 = i3
    t1 = t1
    t2 = t2
    t3 = t3
    m1 = m1
    j1 = j1
    j2 = j2
    c1 = c1
    PlanStart = PlanStart
    Items = {i1, i2}
    Tasks = {t1, t2}
    Milestones = {m1}
    Names = {"a", "a "}
    Trim <- MCTrim
    Users = {"u", "v", "w"}
    Accounts = {"u", "v", "x"}
    Days = {8, 10}
    NoDays = NoDays
    DefaultDays = 8
    Splits = {"even", "uneven"}
    Statuses = {"NotStarted", "Dropped"}
    NewNodes <- MCNodes
    NewItems <- MCItems
    LinkSizes = {0, 1}
    Jobs = {j1}
    Dialogs = {}
    Previews = FALSE
    Faults = FALSE
    Sub = TRUE
    MaxEdits = 4
SPECIFICATION Spec
SYMMETRY Symmetric
VIEW WithoutGone
INVARIANTS TypeOK NoTwins PushSettles ImportsSettle NoCycles
CHECK_DEADLOCK FALSE
