-------------------------------- MODULE AuthDb --------------------------------
(***************************************************************************)
(* Accounts: the tables of auth.db, behind one mutex, and the connections  *)
(* that log in and administer them.  A connection keeps what it read at    *)
(* login - whether its user is a site admin, their organisations, the      *)
(* active one - and a handler takes the mutex once per question it asks,   *)
(* so that what it was told may have changed when it acts on it.  A step   *)
(* is one hold of the mutex with the statements run under it; foreign keys *)
(* are enforced by SQLite as the schema declares them.  Names, e-mail      *)
(* addresses and their uniqueness are left out, as is all that only reads. *)
(***************************************************************************)
EXTENDS PlanAccess, Naturals, FiniteSets

CONSTANTS Conns,      \* connection slots
          Tokens,     \* session tokens, none given out twice
          Passwords,
          Root,       \* the user bootstrap_root makes
          Default,    \* and the password it has
          NoRow, NoSession,
          Founders,   \* the users there are at the start, besides Root
          FirstOrgs, Member,  \* the organisations and org_members then
          Requests,   \* the kinds of request clients issue, and "Expire"
          MaxRequests \* and their number

ASSUME BoundAssumption == MaxRequests \in Nat
ASSUME RootAssumption == Root \in Users /\ Default \in Passwords
ASSUME FoundersAssumption == Founders \subseteq Users /\ FirstOrgs \subseteq Orgs
ASSUME MemberAssumption ==
    /\ Member \in [Users -> [Orgs -> OrgRoles \cup {"None"}]]
    /\ \A u \in Users, o \in Orgs : Member[u][o] # "None" =>
           u \in Founders \cup {Root} /\ o \in FirstOrgs

VARIABLES
    users, admin, password,   \* table users: who is in it, is_admin, the hash
    orgs,                     \* table organisations
    member,                   \* table org_members
    planOrg,                  \* table plan_org
    perm,                     \* table plan_permissions
    reports,                  \* table bug_reports: by whom there are any
    rows,                     \* table sessions
    given,                    \* ids given out: each is a fresh Uuid
    session,                  \* the SessionInfo of a connection
    doing,                    \* the request its handler is in the middle of
    asked                     \* requests so far

accounts == <<users, admin, password, reports>>
orgTables == <<orgs, member, planOrg, perm>>
vars == <<accounts, orgTables, rows, given, session, doing, asked>>

Roles == OrgRoles \cup {"None"}
Rows == [user : Users, active : Orgs \cup {NoOrg}, expired : BOOLEAN,
         pw : Passwords]    \* the password of the login, not in the table
Sessions == [user : Users, token : Tokens, admin : BOOLEAN,
             orgs : SUBSET Orgs, active : Orgs \cup {NoOrg}]

ASSUME MarkersAssumption == NoRow \notin Rows /\ NoSession \notin Sessions

(* What a handler carries from one hold of the mutex to the next.          *)
Nothing == [step |-> "none", user |-> Root, org |-> NoOrg, plan |-> NoOrg,
            grant |-> "None", old |-> Default, new |-> Default]
Do(c, what) == doing' = [doing EXCEPT ![c] = what]
Done(c) == Do(c, Nothing)
Another(kind) ==
    kind \in Requests /\ asked < MaxRequests /\ asked' = asked + 1
Serving(c, kind) ==
    Another(kind) /\ session[c] # NoSession /\ doing[c] = Nothing

(* Every reference of every table is to a row that is there: no order of   *)
(* deletions, and no handler that acts on what was deleted meanwhile,      *)
(* leaves a member, a permission, a plan or a session of nobody or of no   *)
(* organisation.                                                           *)
References ==
    /\ admin \subseteq users /\ reports \subseteq users
    /\ \A o \in Orgs, u \in Users : member[u][o] # "None" => o \in orgs /\ u \in users
    /\ \A p \in Plans : planOrg[p] \in orgs \cup {NoOrg}
    /\ \A p \in Plans, u \in Users : perm[p][u] # "Inherit" => u \in users
    /\ \A k \in Tokens : rows[k] # NoRow => rows[k].user \in users
                                            /\ rows[k].active \in orgs \cup {NoOrg}

TypeOK ==
    /\ users \subseteq Users /\ password \in [Users -> Passwords]
    /\ orgs \subseteq Orgs /\ member \in [Users -> [Orgs -> Roles]]
    /\ planOrg \in [Plans -> Orgs \cup {NoOrg}]
    /\ perm \in [Plans -> [Users -> Permissions \cup {"Inherit"}]]
    /\ rows \in [Tokens -> Rows \cup {NoRow}]
    /\ given \subseteq Users \cup Orgs \cup Tokens
    /\ session \in [Conns -> Sessions \cup {NoSession}]
    /\ \A c \in Conns : doing[c].step # "none" => session[c] # NoSession
    /\ asked \in 0 .. MaxRequests
    /\ References

OrgsOf(u) == {o \in Orgs : member[u][o] # "None"}

-----------------------------------------------------------------------------
(* login: all under one hold of the mutex, but for the memberships.        *)
Login(c, u, pw) ==
    /\ session[c] = NoSession
    /\ u \in users /\ password[u] = pw
    /\ u \in admin \/ OrgsOf(u) # {}
    /\ \E k \in Tokens \ given,
          first \in IF OrgsOf(u) = {} THEN {NoOrg} ELSE OrgsOf(u) :
        /\ given' = given \cup {k}
        /\ rows' = [rows EXCEPT ![k] = [user |-> u, active |-> first,
                                        expired |-> FALSE, pw |-> pw]]
        /\ session' = [session EXCEPT ![c] =
              [user |-> u, token |-> k, admin |-> u \in admin,
               orgs |-> {}, active |-> first]]
    /\ Do(c, [Nothing EXCEPT !.step = "login"])
    /\ UNCHANGED <<accounts, orgTables, asked>>

LoginMemberships(c) ==
    /\ doing[c].step = "login"
    /\ session' = [session EXCEPT ![c].orgs = OrgsOf(session[c].user)]
    /\ Done(c)
    /\ UNCHANGED <<accounts, orgTables, rows, given, asked>>

(* authenticate_token: the row; the memberships; the active org, if the    *)
(* one of the row is none of them any more.                                *)
Authenticate(c, k) ==
    /\ session[c] = NoSession
    /\ rows[k] # NoRow /\ ~ rows[k].expired
    /\ session' = [session EXCEPT ![c] =
          [user |-> rows[k].user, token |-> k, admin |-> rows[k].user \in admin,
           orgs |-> {}, active |-> rows[k].active]]
    /\ Do(c, [Nothing EXCEPT !.step = "token"])
    /\ UNCHANGED <<accounts, orgTables, rows, given, asked>>

TokenMemberships(c) ==
    /\ doing[c].step = "token"
    /\ LET held == OrgsOf(session[c].user)
           found(o) == session' = [session EXCEPT ![c].orgs = held, ![c].active = o]
       IN \/ session[c].active \in held /\ found(session[c].active) /\ Done(c)
          \/ session[c].active \notin held /\ held = {} /\ found(NoOrg) /\ Done(c)
          \/ /\ session[c].active \notin held
             /\ \E o \in held : found(o) /\ Do(c, [Nothing EXCEPT !.step = "backfill"])
    /\ UNCHANGED <<accounts, orgTables, rows, given, asked>>

(* The row gets the new active org, unless either is gone.                 *)
Backfill(c) ==
    /\ doing[c].step = "backfill"
    /\ LET k == session[c].token
       IN rows' = IF rows[k] # NoRow /\ session[c].active \in orgs
                  THEN [rows EXCEPT ![k].active = session[c].active] ELSE rows
    /\ Done(c)
    /\ UNCHANGED <<accounts, orgTables, given, session, asked>>

Leave(c) == session' = [session EXCEPT ![c] = NoSession] /\ Done(c)

Logout(c) ==
    /\ session[c] # NoSession /\ doing[c] = Nothing
    /\ rows' = [rows EXCEPT ![session[c].token] = NoRow]
    /\ Leave(c)
    /\ UNCHANGED <<accounts, orgTables, given, asked>>

(* The connection is gone; a handler in the middle of a request ends it.   *)
Disconnect(c) ==
    /\ session[c] # NoSession /\ doing[c] = Nothing
    /\ Leave(c)
    /\ UNCHANGED <<accounts, orgTables, rows, given, asked>>

(* Seven days pass: the row stays, and is refused.                         *)
Expire(k) ==
    /\ Another("Expire") /\ rows[k] # NoRow /\ ~ rows[k].expired
    /\ rows' = [rows EXCEPT ![k].expired = TRUE]
    /\ UNCHANGED <<accounts, orgTables, given, session, doing>>

-----------------------------------------------------------------------------
SessionsOf(u) == {k \in Tokens : rows[k] # NoRow /\ rows[k].user = u}
WithoutRows(K) == [k \in Tokens |-> IF k \in K THEN NoRow ELSE rows[k]]

CreateAuthUser(c, u, isAdmin) ==
    /\ Serving(c, "CreateAuthUser") /\ session[c].admin
    /\ u \notin given
    /\ given' = given \cup {u} /\ users' = users \cup {u}
    /\ admin' = IF isAdmin THEN admin \cup {u} ELSE admin
    /\ \E pw \in Passwords : password' = [password EXCEPT ![u] = pw]
    /\ UNCHANGED <<reports, orgTables, rows, session, doing>>

(* update_user of somebody no longer there updates no row.                 *)
UpdateAuthUser(c, u, isAdmin) ==
    /\ Serving(c, "UpdateAuthUser") /\ session[c].admin
    /\ admin' = IF isAdmin /\ u \in users THEN admin \cup {u} ELSE admin \ {u}
    /\ UNCHANGED <<users, password, reports, orgTables, rows, given, session, doing>>

SetAuthUserPassword(c, u, pw) ==
    /\ Serving(c, "SetAuthUserPassword") /\ session[c].admin
    /\ password' = IF u \in users THEN [password EXCEPT ![u] = pw] ELSE password
    /\ rows' = WithoutRows(SessionsOf(u))
    /\ UNCHANGED <<users, admin, reports, orgTables, given, session, doing>>

(* delete_user, and what the schema deletes with the row.                  *)
DeleteAuthUser(c, u) ==
    /\ Serving(c, "DeleteAuthUser") /\ session[c].admin /\ u # session[c].user
    /\ users' = users \ {u} /\ admin' = admin \ {u} /\ reports' = reports \ {u}
    /\ rows' = WithoutRows(SessionsOf(u))
    /\ member' = [member EXCEPT ![u] = [o \in Orgs |-> "None"]]
    /\ perm' = [p \in Plans |-> [perm[p] EXCEPT ![u] = "Inherit"]]
    /\ password' = [password EXCEPT ![u] = Default]
    /\ UNCHANGED <<orgs, planOrg, given, session, doing>>

(* change_own_password: the old one is verified under one hold of the      *)
(* mutex, the new one hashed, and stored under the next.                   *)
VerifyMyPassword(c, old, new) ==
    /\ Serving(c, "ChangeMyPassword")
    /\ session[c].user \in users /\ password[session[c].user] = old
    /\ Do(c, [Nothing EXCEPT !.step = "change", !.old = old, !.new = new])
    /\ UNCHANGED <<accounts, orgTables, rows, given, session>>

(* Mutant of ChangeMyPassword: sessions that began since stay.             *)
ChangeMyPasswordVerified(c) ==
    /\ doing[c].step = "change"
    /\ LET u == session[c].user IN LET k == session[c].token IN LET new == doing[c].new IN
        /\ password' = IF u \in users THEN [password EXCEPT ![u] = new] ELSE password
        /\ rows' = [t \in Tokens |->
             IF t \in SessionsOf(u) \ {k} /\ rows[t].pw = doing[c].old THEN NoRow
             ELSE IF t = k /\ rows[k] # NoRow THEN [rows[k] EXCEPT !.pw = new]
             ELSE rows[t]]
    /\ Done(c)
    /\ UNCHANGED <<users, admin, reports, orgTables, given, session, asked>>

(* All other sessions of the user end; this one goes on (and has proved to *)
(* know the new password, says the pw of its row).                         *)
ChangeMyPassword(c) ==
    /\ doing[c].step = "change"
    /\ LET u == session[c].user IN LET k == session[c].token IN LET new == doing[c].new IN
        /\ password' = IF u \in users THEN [password EXCEPT ![u] = new] ELSE password
        /\ rows' = [t \in Tokens |->
             IF t \in SessionsOf(u) \ {k} THEN NoRow
             ELSE IF t = k /\ rows[k] # NoRow THEN [rows[k] EXCEPT !.pw = new]
             ELSE rows[t]]
    /\ Done(c)
    /\ UNCHANGED <<users, admin, reports, orgTables, given, session, asked>>

SubmitBugReport(c) ==
    /\ Serving(c, "SubmitBugReport") /\ session[c].user \in users
    /\ reports' = reports \cup {session[c].user}
    /\ UNCHANGED <<users, admin, password, orgTables, rows, given, session, doing>>
-----------------------------------------------------------------------------
CreateOrganisation(c, o) ==
    /\ Serving(c, "CreateOrganisation") /\ session[c].admin
    /\ o \notin given
    /\ given' = given \cup {o} /\ orgs' = orgs \cup {o}
    /\ UNCHANGED <<accounts, member, planOrg, perm, rows, session, doing>>

(* RESTRICT for plan_org, CASCADE for org_members, SET NULL for sessions.  *)
DeleteOrganisation(c, o) ==
    /\ Serving(c, "DeleteOrganisation") /\ session[c].admin
    /\ \A p \in Plans : planOrg[p] # o
    /\ orgs' = orgs \ {o}
    /\ member' = [u \in Users |-> [member[u] EXCEPT ![o] = "None"]]
    /\ rows' = [k \in Tokens |-> IF rows[k] # NoRow /\ rows[k].active = o
                                 THEN [rows[k] EXCEPT !.active = NoOrg] ELSE rows[k]]
    /\ UNCHANGED <<accounts, planOrg, perm, given, session, doing>>

(* The right to change the members of o: the flag of the session, or a     *)
(* question to the table that is answered before the change is made.       *)
InActiveOrg(c, o) == session[c].admin \/ session[c].active = o
MayAdminister(c, o) == session[c].admin \/ member[session[c].user][o] = "Admin"

ChangeMemberAllowed(c, kind, o, u, role) ==
    /\ Serving(c, kind) /\ InActiveOrg(c, o) /\ MayAdminister(c, o)
    /\ Do(c, [Nothing EXCEPT !.step = "member", !.org = o, !.user = u, !.grant = role])
    /\ UNCHANGED <<accounts, orgTables, rows, given, session>>
AddOrgMember(c, o, u, role) == ChangeMemberAllowed(c, "AddOrgMember", o, u, role)
RemoveOrgMember(c, o, u) == ChangeMemberAllowed(c, "RemoveOrgMember", o, u, "None")

(* set_org_member fails if either is gone; remove_org_member only deletes. *)
SetMember(c) ==
    /\ doing[c].step = "member"
    /\ LET d == doing[c]
       IN member' = IF d.org \in orgs /\ d.user \in users
                    THEN [member EXCEPT ![d.user][d.org] = d.grant] ELSE member
    /\ Done(c)
    /\ UNCHANGED <<accounts, orgs, planOrg, perm, rows, given, session, asked>>

(* A plan must remain assigned; an org that is not there is refused.       *)
SetPlanOrg(c, p, o) ==
    /\ Serving(c, "SetPlanOrg") /\ session[c].admin /\ o \in orgs
    /\ planOrg' = [planOrg EXCEPT ![p] = o]
    /\ UNCHANGED <<accounts, orgs, member, perm, rows, given, session, doing>>

(* SetUserPlanPermission: the org of the plan, the right of the caller,    *)
(* the membership of the user, the row: four holds of the mutex.           *)
PermissionOrg(c, p, u, grant) ==
    /\ Serving(c, "SetUserPlanPermission") /\ planOrg[p] # NoOrg
    /\ Do(c, [Nothing EXCEPT !.step = "permAdmin", !.org = planOrg[p],
                             !.plan = p, !.user = u, !.grant = grant])
    /\ UNCHANGED <<accounts, orgTables, rows, given, session>>
PermissionCheck(c, step, allowed, next) ==
    /\ doing[c].step = step
    /\ IF allowed THEN Do(c, [doing[c] EXCEPT !.step = next]) ELSE Done(c)
    /\ UNCHANGED <<accounts, orgTables, rows, given, session, asked>>
PermissionAdmin(c) ==
    PermissionCheck(c, "permAdmin", MayAdminister(c, doing[c].org), "permMember")
PermissionMember(c) ==
    PermissionCheck(c, "permMember",
                    member[doing[c].user][doing[c].org] # "None", "permSet")

(* Mutant of PermissionSet: plan_permissions refers to no users.           *)
PermissionSetUnchecked(c) ==
    /\ doing[c].step = "permSet"
    /\ LET d == doing[c] IN perm' = [perm EXCEPT ![d.plan][d.user] = d.grant]
    /\ Done(c)
    /\ UNCHANGED <<accounts, orgs, member, planOrg, rows, given, session, asked>>

PermissionSet(c) ==
    /\ doing[c].step = "permSet"
    /\ LET d == doing[c]
       IN perm' = IF d.user \in users \/ d.grant = "Inherit"
                  THEN [perm EXCEPT ![d.plan][d.user] = d.grant] ELSE perm
    /\ Done(c)
    /\ UNCHANGED <<accounts, orgs, member, planOrg, rows, given, session, asked>>

(* The copy of the memberships is asked first, then the tables.            *)
SetActiveOrg(c, o) ==
    /\ Serving(c, "SetActiveOrg")
    /\ session[c].admin \/ o \in session[c].orgs
    /\ LET k == session[c].token
       IN /\ rows[k] # NoRow /\ member[rows[k].user][o] # "None"
          /\ rows' = [rows EXCEPT ![k].active = o]
    /\ session' = [session EXCEPT ![c].active = o]
    /\ UNCHANGED <<accounts, orgTables, given, doing>>

(* The process starts again: the connections are gone, the tables are not, *)
(* and bootstrap_root makes a user if there is none.                       *)
Restart ==
    /\ "Restart" \in Requests
    /\ session' = [c \in Conns |-> NoSession]
    /\ doing' = [c \in Conns |-> Nothing]
    /\ IF users = {} /\ \E u \in Users : u \notin given
       THEN \E u \in Users \ given :
              /\ given' = given \cup {u} /\ users' = {u} /\ admin' = {u}
              /\ password' = [password EXCEPT ![u] = Default]
       ELSE UNCHANGED <<users, admin, password, given>>
    /\ UNCHANGED <<reports, orgTables, rows, asked>>

Init ==
    /\ users = {Root} \cup Founders /\ admin = {Root}
    /\ password = [u \in Users |-> Default]
    /\ orgs = FirstOrgs /\ member = Member
    /\ planOrg = [p \in Plans |-> NoOrg]
    /\ perm = [p \in Plans |-> [u \in Users |-> "Inherit"]]
    /\ reports = {} /\ rows = [k \in Tokens |-> NoRow]
    /\ given = {Root} \cup Founders \cup FirstOrgs
    /\ session = [c \in Conns |-> NoSession] /\ doing = [c \in Conns |-> Nothing]
    /\ asked = 0

Next ==
    \/ \E c \in Conns :
        \/ \E u \in Users, pw \in Passwords : Login(c, u, pw)
        \/ \E k \in Tokens : Authenticate(c, k)
        \/ LoginMemberships(c) \/ TokenMemberships(c) \/ Backfill(c)
        \/ Logout(c) \/ Disconnect(c)
        \/ \E u \in Users, isAdmin \in BOOLEAN :
               CreateAuthUser(c, u, isAdmin) \/ UpdateAuthUser(c, u, isAdmin)
        \/ \E u \in Users, pw \in Passwords : SetAuthUserPassword(c, u, pw)
        \/ \E u \in Users : DeleteAuthUser(c, u)
        \/ \E old, new \in Passwords : VerifyMyPassword(c, old, new)
        \/ ChangeMyPassword(c) \/ SubmitBugReport(c)
        \/ \E o \in Orgs : CreateOrganisation(c, o) \/ DeleteOrganisation(c, o)
                           \/ SetActiveOrg(c, o)
        \/ \E o \in Orgs, u \in Users : RemoveOrgMember(c, o, u)
        \/ \E o \in Orgs, u \in Users, r \in {"Admin", "User"} : AddOrgMember(c, o, u, r)
        \/ SetMember(c)
        \/ \E p \in Plans, o \in Orgs : SetPlanOrg(c, p, o)
        \/ \E p \in Plans, u \in Users, grant \in {"NoAccess", "Inherit"} :
               PermissionOrg(c, p, u, grant)
        \/ PermissionAdmin(c) \/ PermissionMember(c) \/ PermissionSet(c)
    \/ \E k \in Tokens : Expire(k)
    \/ Restart

Spec == Init /\ [][Next]_vars

-----------------------------------------------------------------------------
(* Changing or resetting a password ends the sessions it was the password  *)
(* of, however it meets logins and other changes on the way: whatever      *)
(* token still authenticates belongs to somebody who has shown the         *)
(* password of today.                                                      *)
TokensKnowThePassword ==
    \A k \in Tokens : rows[k] # NoRow => rows[k].pw = password[rows[k].user]

(* auth.rs of change_own_password: it "requires correct old password".     *)
OwnChangeKnowsThePassword ==
    [][\A c \in Conns : doing[c].step = "change" /\ doing'[c] # doing[c] =>
           password[session[c].user] \in {doing[c].old, password'[session[c].user]}]_vars

(* auth.rs of update_user: "Only admins can call this."                    *)
OnlyAdminsUpdate ==
    [][admin' # admin /\ users' = users =>
         \E c \in Conns : session[c] # NoSession /\ session[c].user \in admin]_vars

(* auth.rs of set_password: "Invalidate all sessions for this user."       *)
ConnectedHaveARow ==
    \A c \in Conns : session[c] # NoSession => rows[session[c].token] # NoRow
=============================================================================
