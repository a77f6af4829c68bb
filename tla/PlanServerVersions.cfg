\* A site admin and a member save, restore, import and edit one plan, and
\* the server may crash.
SPECIFICATION Spec
CONSTANTS
    root = root
    boss = boss
    mate = mate
    s1 = s1
    s2 = s2
    s3 = s3
    p1 = p1
    p2 = p2
    acme = acme
    Users = {root, mate}
    Plans = {p1}
    Orgs = {acme}
    NoOrg = NoOrg
    NoUser = NoUser
    Sessions = {s1, s2}
    UserOf <- MCUserOfRoot
    SiteAdmins <- MCSiteAdmins
    Member <- MCMember
    ActiveOrg <- MCActiveOrg
    InitialPlans = {p1}
    InitialPerm <- MCInherit
    InitialLast <- MCEveryLast
    Requests = {"PlanEdit", "SavePlan", "RestorePlanVersion", "MondayPull", "MondayFullReimport", "RunScheduler", "Crash"}
    MaxEdits = 2
    MaxClock = 2
    NoPlan = NoPlan
    Absent = Absent
    Torn = Torn
INVARIANTS TypeOK EngineSaved EditsHeard
PROPERTIES StoreSpec
