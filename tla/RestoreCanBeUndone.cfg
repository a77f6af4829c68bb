\* A site admin alone edits and restores.
SPECIFICATION Spec
CONSTANTS
    root = root
    boss = boss
    mate = mate
    s1 = s1
    s2 = s2
    s3 = s3
    p1 = p1
    p2 = p2
    acme = acme
    Users = {root}
    Plans = {p1}
    Orgs = {acme}
    NoOrg = NoOrg
    NoUser = NoUser
    Sessions = {s1}
    UserOf <- MCUserOfRoot
    SiteAdmins <- MCSiteAdmins
    Member <- MCMember
    ActiveOrg <- MCActiveOrg
    InitialPlans = {p1}
    InitialPerm <- MCInherit
    InitialLast <- MCAnyLast
    Requests = {"TaskEdit", "RestorePlanVersion"}
    MaxEdits = 1
    MaxClock = 2
    NoPlan = NoPlan
    Absent = Absent
    Torn = Torn
PROPERTIES RestoreCanBeUndone
