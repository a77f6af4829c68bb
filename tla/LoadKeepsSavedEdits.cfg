\* Two sessions edit and load the active plan again.
SPECIFICATION Spec
CONSTANTS
    root = root
    boss = boss
    mate = mate
    s1 = s1
    s2 = s2
    s3 = s3
    p1 = p1
    p2 = p2
    acme = acme
    Users = {boss, mate}
    Plans = {p1}
    Orgs = {acme}
    NoOrg = NoOrg
    NoUser = NoUser
    Sessions = {s1, s2}
    UserOf <- MCUserOf
    SiteAdmins <- MCSiteAdmins
    Member <- MCMember
    ActiveOrg <- MCActiveOrg
    InitialPlans = {p1}
    InitialPerm <- MCInherit
    InitialLast <- MCAnyLast
    Requests = {"TaskEdit", "LoadPlan"}
    MaxEdits = 2
    MaxClock = 1
    NoPlan = NoPlan
    Absent = Absent
    Torn = Torn
PROPERTIES LoadKeepsSavedEdits
