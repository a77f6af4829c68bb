\* Liveness: with fair handlers every edit reaches everyone.
SPECIFICATION FairSpec
CONSTANTS
    root = root
    boss = boss
    mate = mate
    s1 = s1
    s2 = s2
    s3 = s3
    p1 = p1
    p2 = p2
    acme = acme
    Users = {boss, mate}
    Plans = {p1}
    Orgs = {acme}
    NoOrg = NoOrg
    NoUser = NoUser
    Sessions = {s1, s2}
    UserOf <- MCUserOf
    SiteAdmins <- MCSiteAdmins
    Member <- MCMember
    ActiveOrg <- MCActiveOrg
    InitialPlans = {p1}
    InitialPerm <- MCInherit
    InitialLast <- MCAnyLast
    Requests = {"TaskEdit", "LoadPlan"}
    MaxEdits = 1
    MaxClock = 1
    NoPlan = NoPlan
    Absent = Absent
    Torn = Torn
PROPERTIES EditsReachEveryone
