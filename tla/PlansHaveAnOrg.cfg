\* An org admin alone creates a plan.
SPECIFICATION Spec
CONSTANTS
    root = root
    boss = boss
    mate = mate
    s1 = s1
    s2 = s2
    s3 = s3
    p1 = p1
    p2 = p2
    acme = acme
    Users = {boss}
    Plans = {p1, p2}
    Orgs = {acme}
    NoOrg = NoOrg
    NoUser = NoUser
    Sessions = {s1}
    UserOf <- MCUserOf
    SiteAdmins <- MCSiteAdmins
    Member <- MCMember
    ActiveOrg <- MCActiveOrg
    InitialPlans = {p1}
    InitialPerm <- MCInherit
    InitialLast <- MCAnyLast
    Requests = {"NewPlan", "TaskEdit"}
    MaxEdits = 2
    MaxClock = 1
    NoPlan = NoPlan
    Absent = Absent
    Torn = Torn
INVARIANTS PlansHaveAnOrg
