\* A session whose user is no longer an admin.
CONSTANTS
    root = root
    boss = boss
    mate = mate
    acme = acme
    zeta = zeta
    p1 = p1
    c1 = c1
    c2 = c2
    k1 = k1
    k2 = k2
    k3 = k3
    pw = pw
    pw2 = pw2
    Users = {root, boss}
    Plans = {p1}
    Orgs = {acme}
    FirstOrgs = {acme}
    NoOrg = NoOrg
    NoUser = NoUser
    Conns = {c1, c2}
    Tokens = {k1, k2, k3}
    Passwords = {pw}
    Root = root
    Default = pw
    NoRow = NoRow
    NoSession = NoSession
    Founders = {boss}
    Member <- MCMember
    Requests = {"UpdateAuthUser"}
    MaxRequests = 3
SPECIFICATION Spec
PROPERTIES OnlyAdminsUpdate
CHECK_DEADLOCK FALSE
