\* All requests in any order, three of them, from two connections.
CONSTANTS
    root = root
    boss = boss
    mate = mate
    acme = acme
    zeta = zeta
    p1 = p1
    c1 = c1
    c2 = c2
    k1 = k1
    k2 = k2
    k3 = k3
    pw = pw
    pw2 = pw2
    Users = {root, boss, mate}
    Plans = {p1}
    Orgs = {acme, zeta}
    FirstOrgs = {acme}
    NoOrg = NoOrg
    NoUser = NoUser
    Conns = {c1, c2}
    Tokens = {k1, k2}
    Passwords = {pw, pw2}
    Root = root
    Default = pw
    NoRow = NoRow
    NoSession = NoSession
    Founders = {boss}
    Member <- MCMember
    Requests = {"CreateAuthUser", "UpdateAuthUser", "SetAuthUserPassword", "DeleteAuthUser", "ChangeMyPassword", "SubmitBugReport", "CreateOrganisation", "DeleteOrganisation", "AddOrgMember", "RemoveOrgMember", "SetPlanOrg", "SetUserPlanPermission", "SetActiveOrg", "Expire", "Restart"}
    MaxRequests = 3
SPECIFICATION Spec
SYMMETRY Symmetric
INVARIANTS TypeOK TokensKnowThePassword
CHECK_DEADLOCK FALSE
