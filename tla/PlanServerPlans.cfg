\* A site admin and a member create, load, delete and edit plans.
SPECIFICATION Spec
CONSTANTS
    root = root
    boss = boss
    mate = mate
    s1 = s1
    s2 = s2
    s3 = s3
    p1 = p1
    p2 = p2
    acme = acme
    Users = {root, mate}
    Plans = {p1, p2}
    Orgs = {acme}
    NoOrg = NoOrg
    NoUser = NoUser
    Sessions = {s1, s2}
    UserOf <- MCUserOfRoot
    SiteAdmins <- MCSiteAdmins
    Member <- MCMember
    ActiveOrg <- MCActiveOrg
    InitialPlans = {p1}
    InitialPerm <- MCBarred
    InitialLast <- MCMateLast
    Requests = {"TaskEdit", "NewPlan", "LoadPlan", "DeletePlan"}
    MaxEdits = 1
    MaxClock = 1
    NoPlan = NoPlan
    Absent = Absent
    Torn = Torn
INVARIANTS EngineSaved EditsHeard
PROPERTIES JoiningReplacesNothing StoreSpec
