----------------------------- MODULE AuthDb_proofs -----------------------------
(***************************************************************************)
(* The tables of AuthDb refer to nothing that is gone, and no token        *)
(* outlives the password it was given for.  Neither is inductive: both     *)
(* rest on ids not being given out twice, on what a handler carries from   *)
(* one hold of the mutex to the next, and on the row of a connection's     *)
(* token being of the user the connection logged in as.                    *)
(*                                                                         *)
(* The three decisions of PlanAccess, which read the tables, agree on all  *)
(* of them: a plan is listed, broadcast and served to the same users.      *)
(***************************************************************************)
EXTENDS AuthDb, TLAPS

(* TypeOK without the handlers and the references.                         *)
Tables ==
    /\ users \subseteq Users /\ password \in [Users -> Passwords]
    /\ orgs \subseteq Orgs /\ member \in [Users -> [Orgs -> Roles]]
    /\ planOrg \in [Plans -> Orgs \cup {NoOrg}]
    /\ perm \in [Plans -> [Users -> Permissions \cup {"Inherit"}]]
    /\ rows \in [Tokens -> Rows \cup {NoRow}]
    /\ given \subseteq Users \cup Orgs \cup Tokens
    /\ asked \in 0 .. MaxRequests

(* Whatever is in a table had its id given out.                            *)
Fresh ==
    /\ users \subseteq given /\ orgs \subseteq given
    /\ \A k \in Tokens : rows[k] # NoRow => k \in given

Steps == {"none", "login", "token", "backfill", "change", "member",
          "permAdmin", "permMember", "permSet"}
Grants == Roles \cup Permissions \cup {"Inherit"}
Carried == [step : Steps, user : Users, org : Orgs \cup {NoOrg},
            plan : Plans \cup {NoOrg}, grant : Grants,
            old : Passwords, new : Passwords]

(* What a handler has in hand when it is to write a table.                 *)
InHand(d) ==
    /\ d.step = "member" => d.org \in Orgs /\ d.grant \in Roles
    /\ d.step \in {"permAdmin", "permMember", "permSet"} =>
           /\ d.org \in Orgs /\ d.plan \in Plans
           /\ d.grant \in Permissions \cup {"Inherit"}

Handlers ==
    /\ session \in [Conns -> Sessions \cup {NoSession}]
    /\ doing \in [Conns -> Carried]
    /\ \A c \in Conns : InHand(doing[c])
    /\ \A c \in Conns : doing[c].step # "none" => session[c] # NoSession

(* A connection's token was given out, and to its user.                    *)
Identified ==
    \A c \in Conns : session[c] # NoSession =>
        /\ session[c].token \in given
        /\ rows[session[c].token] # NoRow =>
               rows[session[c].token].user = session[c].user

Inv == Tables /\ References /\ Fresh /\ Handlers /\ Identified
       /\ TokensKnowThePassword

-----------------------------------------------------------------------------
(* A connection and its handler take a step together.                      *)
LEMMA HandlerStep ==
    ASSUME Handlers, NEW c \in Conns, NEW s \in Sessions \cup {NoSession},
           NEW h \in Carried, InHand(h), h.step # "none" => s # NoSession,
           session' = [session EXCEPT ![c] = s], doing' = [doing EXCEPT ![c] = h]
    PROVE  Handlers'
<1>1. session' \in [Conns -> Sessions \cup {NoSession}] /\ doing' \in [Conns -> Carried]
  BY DEF Handlers
<1>2. ASSUME NEW d \in Conns
      PROVE  InHand(doing'[d]) /\ (doing'[d].step # "none" => session'[d] # NoSession)
  <2>1. CASE d = c
    BY <2>1 DEF Handlers
  <2>2. CASE d # c
    BY <2>2 DEF Handlers
  <2>. QED BY <2>1, <2>2
<1>3. \A d \in Conns : InHand(doing[d])'
  BY <1>2 DEF InHand
<1>. QED BY <1>1, <1>2, <1>3 DEF Handlers

(* A handler takes a step that leaves the connections alone.               *)
LEMMA RequestStep ==
    ASSUME Handlers, NEW c \in Conns, session[c] # NoSession, session' = session,
           NEW h \in Carried, InHand(h), doing' = [doing EXCEPT ![c] = h]
    PROVE  Handlers'
<1>1. session[c] \in Sessions \cup {NoSession} /\ session' = [session EXCEPT ![c] = session[c]]
  BY DEF Handlers
<1>. QED BY <1>1, HandlerStep

(* What a handler has in hand when it is doing nothing, or has just begun. *)
LEMMA NothingInHand ==
    Nothing \in Carried /\ InHand(Nothing) /\ Nothing.step = "none"
BY RootAssumption DEF Nothing, Carried, InHand, Steps, Grants, Roles

(* A connection's record after an assignment to one of its fields.         *)
LEMMA SessionFields ==
    ASSUME NEW s \in Sessions, NEW O \in SUBSET Orgs, NEW o \in Orgs \cup {NoOrg}
    PROVE  /\ [s EXCEPT !.orgs = O] \in Sessions
           /\ [s EXCEPT !.active = o] \in Sessions
           /\ [s EXCEPT !.orgs = O].user = s.user /\ [s EXCEPT !.orgs = O].token = s.token
           /\ [s EXCEPT !.active = o].user = s.user /\ [s EXCEPT !.active = o].token = s.token
BY DEF Sessions

(* And a row after one of its columns is set.                              *)
LEMMA RowColumns ==
    ASSUME NEW r \in Rows, NEW o \in Orgs \cup {NoOrg}, NEW pw \in Passwords
    PROVE  [r EXCEPT !.active = o] \in Rows /\ [r EXCEPT !.pw = pw] \in Rows
BY DEF Rows

(* A step that writes no table keeps the invariant if the connections and  *)
(* handlers it leaves are sound.                                           *)
LEMMA TablesUntouched ==
    ASSUME Inv, UNCHANGED <<accounts, orgTables, rows, given>>,
           asked' \in 0 .. MaxRequests, Handlers', Identified'
    PROVE  Inv'
<1>1. Tables' /\ References' /\ Fresh' /\ TokensKnowThePassword'
  BY DEF Inv, Tables, References, Fresh, TokensKnowThePassword, accounts, orgTables
<1>. QED BY <1>1 DEF Inv

(* One more request is within the bound.                                   *)
LEMMA AskedOnce ==
    ASSUME Inv, NEW kind, Another(kind)
    PROVE  asked' \in 0 .. MaxRequests
BY BoundAssumption DEF Inv, Tables, Another

-----------------------------------------------------------------------------
(* A token nobody had is given the password the login has just shown.      *)
LEMMA LoginKeeps ==
    ASSUME Inv, NEW c \in Conns, NEW u \in Users, NEW pw \in Passwords, Login(c, u, pw)
    PROVE  Inv'
<1>. USE DEF Login, OrgsOf, Do, Nothing, accounts, orgTables
<1>1. Tables'
  BY BoundAssumption, MarkersAssumption, RootAssumption
  DEF Inv, Tables, Handlers, Carried, InHand, Sessions, Rows, Roles
<1>2. References'
  BY MarkersAssumption
  DEF Inv, Tables, Fresh, References, Handlers, Identified, Rows, Sessions, Carried
<1>3. Fresh'
  BY MarkersAssumption DEF Inv, Tables, Fresh, Handlers, Rows
<1>4. Handlers'
  <2>. DEFINE h == [Nothing EXCEPT !.step = "login"]
  <2>1. PICK k \in Tokens, first \in Orgs \cup {NoOrg} :
          session' = [session EXCEPT ![c] = [user |-> u, token |-> k, admin |-> u \in admin,
                                             orgs |-> {}, active |-> first]]
    BY DEF Login, OrgsOf
  <2>. DEFINE s == [user |-> u, token |-> k, admin |-> u \in admin,
                    orgs |-> {}, active |-> first]
  <2>2. (u \in admin) \in BOOLEAN
    OBVIOUS
  <2>3. s \in Sessions
    BY <2>2 DEF Sessions
  <2>4. h \in Carried /\ InHand(h)
    BY NothingInHand DEF Carried, InHand, Steps
  <2>5. doing' = [doing EXCEPT ![c] = h]
    BY DEF Login, Do
  <2>. QED BY <2>1, <2>3, <2>4, <2>5, HandlerStep, MarkersAssumption DEF Inv
<1>5. Identified'
  BY MarkersAssumption
  DEF Inv, Tables, Fresh, Handlers, Identified, Rows, Sessions, Carried, References
<1>6. TokensKnowThePassword'
  BY MarkersAssumption
  DEF Inv, Tables, Fresh, References, Handlers, Identified, Rows, Sessions, Carried,
      TokensKnowThePassword
<1>. QED BY <1>1, <1>2, <1>3, <1>4, <1>5, <1>6 DEF Inv

(* The memberships are read into the connection.                           *)
LEMMA LoginMembershipsKeeps ==
    ASSUME Inv, NEW c \in Conns, LoginMemberships(c)
    PROVE  Inv'
<1>. DEFINE s == [session[c] EXCEPT !.orgs = OrgsOf(session[c].user)]
<1>1. session[c] \in Sessions /\ OrgsOf(session[c].user) \in SUBSET Orgs
  BY DEF LoginMemberships, OrgsOf, Inv, Handlers
<1>2. s \in Sessions /\ s.user = session[c].user /\ s.token = session[c].token
  BY <1>1, SessionFields
<1>3. session' = [session EXCEPT ![c] = s] /\ doing' = [doing EXCEPT ![c] = Nothing]
  BY DEF LoginMemberships, Done, Do
<1>4. Handlers'
  BY <1>2, <1>3, NothingInHand, HandlerStep DEF Inv
<1>5. Identified'
  BY <1>1, <1>2, <1>3, MarkersAssumption DEF LoginMemberships, Inv, Handlers, Identified
<1>. QED BY <1>4, <1>5, TablesUntouched DEF LoginMemberships, Inv, Tables

(* The token was given out when its row was made, and the connection       *)
(* takes the user of the row.                                              *)
LEMMA AuthenticateKeeps ==
    ASSUME Inv, NEW c \in Conns, NEW k \in Tokens, Authenticate(c, k)
    PROVE  Inv'
<1>. DEFINE s == [user |-> rows[k].user, token |-> k, admin |-> rows[k].user \in admin,
                  orgs |-> {}, active |-> rows[k].active]
            h == [Nothing EXCEPT !.step = "token"]
<1>1. rows[k] \in Rows
  BY DEF Authenticate, Inv, Tables
<1>2. (rows[k].user \in admin) \in BOOLEAN
  OBVIOUS
<1>3. rows[k].user \in Users /\ rows[k].active \in Orgs \cup {NoOrg}
  BY <1>1 DEF Rows
<1>4. s \in Sessions
  BY <1>2, <1>3 DEF Sessions
<1>5. h \in Carried /\ InHand(h)
  BY NothingInHand DEF Carried, InHand, Steps
<1>6. session' = [session EXCEPT ![c] = s] /\ doing' = [doing EXCEPT ![c] = h]
  BY DEF Authenticate, Do
<1>7. Handlers'
  BY <1>4, <1>5, <1>6, HandlerStep, MarkersAssumption DEF Inv
<1>8. Identified'
  BY <1>6 DEF Authenticate, Inv, Handlers, Identified, Fresh
<1>. QED BY <1>7, <1>8, TablesUntouched DEF Authenticate, Inv, Tables

(* The memberships, and perhaps another active organisation, are read      *)
(* into the connection.                                                    *)
LEMMA TokenMembershipsKeeps ==
    ASSUME Inv, NEW c \in Conns, TokenMemberships(c)
    PROVE  Inv'
<1>. DEFINE held == OrgsOf(session[c].user)
            s(o) == [[session[c] EXCEPT !.orgs = held] EXCEPT !.active = o]
            later == [Nothing EXCEPT !.step = "backfill"]
<1>1. session[c] \in Sessions /\ held \in SUBSET Orgs
  BY DEF TokenMemberships, OrgsOf, Inv, Handlers
<1>2. later \in Carried /\ InHand(later)
  BY NothingInHand DEF Carried, InHand, Steps
<1>3. PICK o \in Orgs \cup {NoOrg}, h \in {Nothing, later} :
        session' = [session EXCEPT ![c] = s(o)] /\ doing' = [doing EXCEPT ![c] = h]
  <2>1. session[c].active \in Orgs \cup {NoOrg}
    BY <1>1 DEF Sessions
  <2>2. ASSUME NEW o, session' = [session EXCEPT ![c].orgs = held, ![c].active = o]
        PROVE  session' = [session EXCEPT ![c] = s(o)]
    BY <2>2, <1>1 DEF Inv, Handlers
  <2>3. CASE session[c].active \in held
    BY <2>1, <2>2, <2>3 DEF TokenMemberships, Done, Do
  <2>4. CASE session[c].active \notin held /\ held = {}
    <3>1. session' = [session EXCEPT ![c].orgs = held, ![c].active = NoOrg]
      BY <2>4 DEF TokenMemberships
    <3>2. doing' = [doing EXCEPT ![c] = Nothing]
      BY <2>4 DEF TokenMemberships, Done, Do
    <3>. QED BY <3>1, <3>2, <2>2
  <2>5. CASE session[c].active \notin held /\ held # {}
    <3>1. PICK o \in held :
            /\ session' = [session EXCEPT ![c].orgs = held, ![c].active = o]
            /\ doing' = [doing EXCEPT ![c] = later]
      BY <2>5 DEF TokenMemberships, Done, Do
    <3>. QED BY <3>1, <2>2, <1>1
  <2>. QED BY <2>3, <2>4, <2>5
<1>4. s(o) \in Sessions /\ s(o).user = session[c].user /\ s(o).token = session[c].token
  BY <1>1 DEF Sessions
<1>5. h \in Carried /\ InHand(h)
  BY <1>2, NothingInHand
<1>. HIDE DEF s
<1>6. Handlers'
  BY <1>3, <1>4, <1>5, HandlerStep, MarkersAssumption DEF Inv
<1>7. Identified'
  BY <1>1, <1>3, <1>4, MarkersAssumption DEF TokenMemberships, Inv, Handlers, Identified
<1>. QED BY <1>6, <1>7, TablesUntouched DEF TokenMemberships, Inv, Tables

(* The row keeps its user and its password.                                *)
LEMMA BackfillKeeps ==
    ASSUME Inv, NEW c \in Conns, Backfill(c)
    PROVE  Inv'
<1>. USE DEF Backfill, Done, Do, Nothing, accounts, orgTables
<1>1. Tables'
  <2>1. session[c] \in Sessions
    BY DEF Inv, Handlers
  <2>2. session[c].token \in Tokens /\ session[c].active \in Orgs \cup {NoOrg}
    BY <2>1 DEF Sessions
  <2>. DEFINE r == rows[session[c].token]
  <2>3. r # NoRow => [r EXCEPT !.active = session[c].active] \in Rows
    <3>1. r # NoRow => r \in Rows
      BY <2>2 DEF Inv, Tables
    <3>. QED BY <3>1, <2>2 DEF Rows
  <2>4. rows' \in [Tokens -> Rows \cup {NoRow}]
    BY <2>2, <2>3 DEF Inv, Tables
  <2>. QED BY <2>4 DEF Inv, Tables
<1>2. References'
  BY MarkersAssumption
  DEF Inv, Tables, Fresh, References, Handlers, Identified, Rows, Sessions, Carried
<1>3. Fresh'
  BY MarkersAssumption DEF Inv, Tables, Fresh, Handlers, Rows
<1>4. Handlers'
  BY MarkersAssumption, RootAssumption
  DEF Inv, Tables, Handlers, Carried, InHand, Steps, Grants, Roles, OrgRoles,
      Permissions, Sessions, Rows, References
<1>5. Identified'
  BY MarkersAssumption
  DEF Inv, Tables, Fresh, Handlers, Identified, Rows, Sessions, Carried, References
<1>6. TokensKnowThePassword'
  BY MarkersAssumption
  DEF Inv, Tables, Fresh, References, Handlers, Identified, Rows, Sessions, Carried,
      TokensKnowThePassword
<1>. QED BY <1>1, <1>2, <1>3, <1>4, <1>5, <1>6 DEF Inv

(* The row of the token is gone.                                           *)
LEMMA LogoutKeeps ==
    ASSUME Inv, NEW c \in Conns, Logout(c)
    PROVE  Inv'
<1>. USE DEF Logout, Nothing, Leave, Done, Do, accounts, orgTables
<1>1. Tables'
  BY BoundAssumption, MarkersAssumption, RootAssumption
  DEF Inv, Tables, Handlers, Carried, InHand, Sessions, Rows, Roles
<1>2. References'
  BY MarkersAssumption
  DEF Inv, Tables, Fresh, References, Handlers, Identified, Rows, Sessions, Carried
<1>3. Fresh'
  BY MarkersAssumption DEF Inv, Tables, Fresh, Handlers, Rows
<1>4. Handlers'
  BY MarkersAssumption, RootAssumption
  DEF Inv, Tables, Handlers, Carried, InHand, Steps, Grants, Roles, OrgRoles,
      Permissions, Sessions, Rows, References
<1>5. Identified'
  BY MarkersAssumption
  DEF Inv, Tables, Fresh, Handlers, Identified, Rows, Sessions, Carried, References
<1>6. TokensKnowThePassword'
  BY MarkersAssumption
  DEF Inv, Tables, Fresh, References, Handlers, Identified, Rows, Sessions, Carried,
      TokensKnowThePassword
<1>. QED BY <1>1, <1>2, <1>3, <1>4, <1>5, <1>6 DEF Inv

(* The connection is gone.                                                 *)
LEMMA DisconnectKeeps ==
    ASSUME Inv, NEW c \in Conns, Disconnect(c)
    PROVE  Inv'
<1>1. session' = [session EXCEPT ![c] = NoSession] /\ doing' = [doing EXCEPT ![c] = Nothing]
  BY DEF Disconnect, Leave, Done, Do
<1>2. Handlers'
  BY <1>1, NothingInHand, HandlerStep DEF Inv
<1>3. Identified'
  BY <1>1 DEF Disconnect, Inv, Handlers, Identified
<1>. QED BY <1>2, <1>3, TablesUntouched DEF Disconnect, Inv, Tables

(* An expired row refers to what it referred to.                           *)
LEMMA ExpireKeeps ==
    ASSUME Inv, NEW k \in Tokens, Expire(k)
    PROVE  Inv'
<1>. USE DEF Expire, Another, accounts, orgTables
<1>1. Tables'
  <2>1. rows[k] \in Rows
    BY DEF Inv, Tables
  <2>2. [rows[k] EXCEPT !.expired = TRUE] \in Rows
    BY <2>1 DEF Rows
  <2>3. rows' \in [Tokens -> Rows \cup {NoRow}]
    BY <2>2 DEF Inv, Tables
  <2>. QED BY <2>3, AskedOnce DEF Inv, Tables
<1>2. References'
  BY MarkersAssumption
  DEF Inv, Tables, Fresh, References, Handlers, Identified, Rows, Sessions, Carried
<1>3. Fresh'
  BY MarkersAssumption DEF Inv, Tables, Fresh, Handlers, Rows
<1>4. Handlers'
  BY MarkersAssumption, RootAssumption
  DEF Inv, Tables, Handlers, Carried, InHand, Steps, Grants, Roles, OrgRoles,
      Permissions, Sessions, Rows, References
<1>5. Identified'
  BY MarkersAssumption, SMTT(30)
  DEF Inv, Tables, Fresh, Handlers, Identified, Rows, Sessions, Carried, References
<1>6. TokensKnowThePassword'
  BY MarkersAssumption
  DEF Inv, Tables, Fresh, References, Handlers, Identified, Rows, Sessions, Carried,
      TokensKnowThePassword
<1>. QED BY <1>1, <1>2, <1>3, <1>4, <1>5, <1>6 DEF Inv

(* Nobody of that id has a session, so none has the old password.          *)
LEMMA CreateAuthUserKeeps ==
    ASSUME Inv, NEW c \in Conns, NEW u \in Users, NEW isAdmin \in BOOLEAN, CreateAuthUser(c, u, isAdmin)
    PROVE  Inv'
<1>. USE DEF CreateAuthUser, Serving, Another, Nothing, orgTables
<1>1. Tables'
  BY BoundAssumption, MarkersAssumption, RootAssumption
  DEF Inv, Tables, Handlers, Carried, InHand, Sessions, Rows, Roles
<1>2. References'
  BY MarkersAssumption
  DEF Inv, Tables, Fresh, References, Handlers, Identified, Rows, Sessions, Carried
<1>3. Fresh'
  BY MarkersAssumption DEF Inv, Tables, Fresh, Handlers, Rows
<1>4. Handlers'
  BY MarkersAssumption, RootAssumption
  DEF Inv, Tables, Handlers, Carried, InHand, Steps, Grants, Roles, OrgRoles,
      Permissions, Sessions, Rows, References
<1>5. Identified'
  BY MarkersAssumption
  DEF Inv, Tables, Fresh, Handlers, Identified, Rows, Sessions, Carried, References
<1>6. TokensKnowThePassword'
  BY MarkersAssumption
  DEF Inv, Tables, Fresh, References, Handlers, Identified, Rows, Sessions, Carried,
      TokensKnowThePassword
<1>. QED BY <1>1, <1>2, <1>3, <1>4, <1>5, <1>6 DEF Inv

(* An update of nobody makes nobody an admin.                              *)
LEMMA UpdateAuthUserKeeps ==
    ASSUME Inv, NEW c \in Conns, NEW u \in Users, NEW isAdmin \in BOOLEAN, UpdateAuthUser(c, u, isAdmin)
    PROVE  Inv'
<1>. USE DEF UpdateAuthUser, Serving, Another, Nothing, orgTables
<1>1. Tables'
  BY BoundAssumption, MarkersAssumption, RootAssumption
  DEF Inv, Tables, Handlers, Carried, InHand, Sessions, Rows, Roles
<1>2. References'
  BY MarkersAssumption
  DEF Inv, Tables, Fresh, References, Handlers, Identified, Rows, Sessions, Carried
<1>3. Fresh'
  BY MarkersAssumption DEF Inv, Tables, Fresh, Handlers, Rows
<1>4. Handlers'
  BY MarkersAssumption, RootAssumption
  DEF Inv, Tables, Handlers, Carried, InHand, Steps, Grants, Roles, OrgRoles,
      Permissions, Sessions, Rows, References
<1>5. Identified'
  BY MarkersAssumption
  DEF Inv, Tables, Fresh, Handlers, Identified, Rows, Sessions, Carried, References
<1>6. TokensKnowThePassword'
  BY MarkersAssumption
  DEF Inv, Tables, Fresh, References, Handlers, Identified, Rows, Sessions, Carried,
      TokensKnowThePassword
<1>. QED BY <1>1, <1>2, <1>3, <1>4, <1>5, <1>6 DEF Inv

(* All rows of the user go with the password they were made for.           *)
LEMMA SetAuthUserPasswordKeeps ==
    ASSUME Inv, NEW c \in Conns, NEW u \in Users, NEW pw \in Passwords, SetAuthUserPassword(c, u, pw)
    PROVE  Inv'
<1>. USE DEF SetAuthUserPassword, Serving, Another, Nothing, WithoutRows,
            SessionsOf, orgTables
<1>1. Tables'
  BY BoundAssumption, MarkersAssumption, RootAssumption
  DEF Inv, Tables, Handlers, Carried, InHand, Sessions, Rows, Roles
<1>2. References'
  BY MarkersAssumption
  DEF Inv, Tables, Fresh, References, Handlers, Identified, Rows, Sessions, Carried
<1>3. Fresh'
  BY MarkersAssumption DEF Inv, Tables, Fresh, Handlers, Rows
<1>4. Handlers'
  BY MarkersAssumption, RootAssumption
  DEF Inv, Tables, Handlers, Carried, InHand, Steps, Grants, Roles, OrgRoles,
      Permissions, Sessions, Rows, References
<1>5. Identified'
  BY MarkersAssumption
  DEF Inv, Tables, Fresh, Handlers, Identified, Rows, Sessions, Carried, References
<1>6. TokensKnowThePassword'
  BY MarkersAssumption
  DEF Inv, Tables, Fresh, References, Handlers, Identified, Rows, Sessions, Carried,
      TokensKnowThePassword
<1>. QED BY <1>1, <1>2, <1>3, <1>4, <1>5, <1>6 DEF Inv

(* The cascades leave no reference to the user.                            *)
LEMMA DeleteAuthUserKeeps ==
    ASSUME Inv, NEW c \in Conns, NEW u \in Users, DeleteAuthUser(c, u)
    PROVE  Inv'
<1>. USE DEF DeleteAuthUser, Serving, Another, Nothing, WithoutRows, SessionsOf
<1>1. Tables'
  BY BoundAssumption, MarkersAssumption, RootAssumption
  DEF Inv, Tables, Handlers, Carried, InHand, Sessions, Rows, Roles
<1>2. References'
  BY MarkersAssumption
  DEF Inv, Tables, Fresh, References, Handlers, Identified, Rows, Sessions, Carried
<1>3. Fresh'
  BY MarkersAssumption DEF Inv, Tables, Fresh, Handlers, Rows
<1>4. Handlers'
  BY MarkersAssumption, RootAssumption
  DEF Inv, Tables, Handlers, Carried, InHand, Steps, Grants, Roles, OrgRoles,
      Permissions, Sessions, Rows, References
<1>5. Identified'
  BY MarkersAssumption
  DEF Inv, Tables, Fresh, Handlers, Identified, Rows, Sessions, Carried, References
<1>6. TokensKnowThePassword'
  BY MarkersAssumption
  DEF Inv, Tables, Fresh, References, Handlers, Identified, Rows, Sessions, Carried,
      TokensKnowThePassword
<1>. QED BY <1>1, <1>2, <1>3, <1>4, <1>5, <1>6 DEF Inv

(* The old password was right: nothing is written yet.                     *)
LEMMA VerifyMyPasswordKeeps ==
    ASSUME Inv, NEW c \in Conns, NEW old \in Passwords, NEW new \in Passwords,
           VerifyMyPassword(c, old, new)
    PROVE  Inv'
<1>. DEFINE h == [Nothing EXCEPT !.step = "change", !.old = old, !.new = new]
<1>1. h \in Carried /\ InHand(h)
  BY NothingInHand DEF Carried, InHand, Steps
<1>2. session[c] # NoSession /\ session' = session /\ doing' = [doing EXCEPT ![c] = h]
  BY DEF VerifyMyPassword, Serving, Do
<1>3. Handlers'
  BY <1>1, <1>2, RequestStep DEF Inv
<1>4. Identified'
  BY <1>2 DEF VerifyMyPassword, Inv, Identified
<1>5. asked' \in 0 .. MaxRequests
  BY AskedOnce DEF VerifyMyPassword, Serving
<1>. QED BY <1>3, <1>4, <1>5, TablesUntouched DEF VerifyMyPassword

(* The row that stays is of the user and has the new password.             *)
LEMMA ChangeMyPasswordKeeps ==
    ASSUME Inv, NEW c \in Conns, ChangeMyPassword(c)
    PROVE  Inv'
<1>. USE DEF ChangeMyPassword, SessionsOf, Done, Do, Nothing, orgTables
<1>1. Tables'
  <2>1. doing[c] \in Carried /\ session[c] \in Sessions
    BY DEF Inv, Handlers
  <2>2. doing[c].new \in Passwords
    BY <2>1 DEF Carried
  <2>3. rows' \in [Tokens -> Rows \cup {NoRow}]
    BY <2>2, RowColumns DEF Inv, Tables
  <2>4. password' \in [Users -> Passwords]
    BY <2>2 DEF Inv, Tables
  <2>. QED BY <2>3, <2>4 DEF Inv, Tables
<1>2. References'
  BY MarkersAssumption
  DEF Inv, Tables, Fresh, References, Handlers, Identified, Rows, Sessions, Carried
<1>3. Fresh'
  BY MarkersAssumption DEF Inv, Tables, Fresh, Handlers, Rows
<1>4. Handlers'
  BY MarkersAssumption, RootAssumption
  DEF Inv, Tables, Handlers, Carried, InHand, Steps, Grants, Roles, OrgRoles,
      Permissions, Sessions, Rows, References
<1>5. Identified'
  BY MarkersAssumption
  DEF Inv, Tables, Fresh, Handlers, Identified, Rows, Sessions, Carried, References
<1>6. TokensKnowThePassword'
  BY MarkersAssumption
  DEF Inv, Tables, Fresh, References, Handlers, Identified, Rows, Sessions, Carried,
      TokensKnowThePassword
<1>. QED BY <1>1, <1>2, <1>3, <1>4, <1>5, <1>6 DEF Inv

(* Reports are of users that are there.                                    *)
LEMMA SubmitBugReportKeeps ==
    ASSUME Inv, NEW c \in Conns, SubmitBugReport(c)
    PROVE  Inv'
<1>. USE DEF SubmitBugReport, Serving, Another, Nothing, orgTables
<1>1. Tables'
  BY BoundAssumption, MarkersAssumption, RootAssumption
  DEF Inv, Tables, Handlers, Carried, InHand, Sessions, Rows, Roles
<1>2. References'
  BY MarkersAssumption
  DEF Inv, Tables, Fresh, References, Handlers, Identified, Rows, Sessions, Carried
<1>3. Fresh'
  BY MarkersAssumption DEF Inv, Tables, Fresh, Handlers, Rows
<1>4. Handlers'
  BY MarkersAssumption, RootAssumption
  DEF Inv, Tables, Handlers, Carried, InHand, Steps, Grants, Roles, OrgRoles,
      Permissions, Sessions, Rows, References
<1>5. Identified'
  BY MarkersAssumption
  DEF Inv, Tables, Fresh, Handlers, Identified, Rows, Sessions, Carried, References
<1>6. TokensKnowThePassword'
  BY MarkersAssumption
  DEF Inv, Tables, Fresh, References, Handlers, Identified, Rows, Sessions, Carried,
      TokensKnowThePassword
<1>. QED BY <1>1, <1>2, <1>3, <1>4, <1>5, <1>6 DEF Inv

(* One more organisation is referred to by nothing.                        *)
LEMMA CreateOrganisationKeeps ==
    ASSUME Inv, NEW c \in Conns, NEW o \in Orgs, CreateOrganisation(c, o)
    PROVE  Inv'
<1>. USE DEF CreateOrganisation, Serving, Another, Nothing, accounts
<1>1. Tables'
  BY BoundAssumption, MarkersAssumption, RootAssumption
  DEF Inv, Tables, Handlers, Carried, InHand, Sessions, Rows, Roles
<1>2. References'
  BY MarkersAssumption
  DEF Inv, Tables, Fresh, References, Handlers, Identified, Rows, Sessions, Carried
<1>3. Fresh'
  BY MarkersAssumption DEF Inv, Tables, Fresh, Handlers, Rows
<1>4. Handlers'
  BY MarkersAssumption, RootAssumption
  DEF Inv, Tables, Handlers, Carried, InHand, Steps, Grants, Roles, OrgRoles,
      Permissions, Sessions, Rows, References
<1>5. Identified'
  BY MarkersAssumption
  DEF Inv, Tables, Fresh, Handlers, Identified, Rows, Sessions, Carried, References
<1>6. TokensKnowThePassword'
  BY MarkersAssumption
  DEF Inv, Tables, Fresh, References, Handlers, Identified, Rows, Sessions, Carried,
      TokensKnowThePassword
<1>. QED BY <1>1, <1>2, <1>3, <1>4, <1>5, <1>6 DEF Inv

(* RESTRICT, CASCADE and SET NULL leave no reference to it.                *)
LEMMA DeleteOrganisationKeeps ==
    ASSUME Inv, NEW c \in Conns, NEW o \in Orgs, DeleteOrganisation(c, o)
    PROVE  Inv'
<1>. USE DEF DeleteOrganisation, Serving, Another, Nothing, accounts
<1>1. Tables'
  <2>0. ASSUME NEW k \in Tokens, rows[k] # NoRow
        PROVE  [rows[k] EXCEPT !.active = NoOrg] \in Rows
    BY <2>0 DEF Inv, Tables, Rows
  <2>1. rows' \in [Tokens -> Rows \cup {NoRow}]
    BY <2>0 DEF Inv, Tables
  <2>2. member' \in [Users -> [Orgs -> Roles]]
    BY DEF Inv, Tables, Roles
  <2>. QED BY <2>1, <2>2, AskedOnce DEF Inv, Tables
<1>2. References'
  BY MarkersAssumption
  DEF Inv, Tables, Fresh, References, Handlers, Identified, Rows, Sessions, Carried
<1>3. Fresh'
  BY MarkersAssumption DEF Inv, Tables, Fresh, Handlers, Rows
<1>4. Handlers'
  BY MarkersAssumption, RootAssumption
  DEF Inv, Tables, Handlers, Carried, InHand, Steps, Grants, Roles, OrgRoles,
      Permissions, Sessions, Rows, References
<1>5. Identified'
  BY MarkersAssumption
  DEF Inv, Tables, Fresh, Handlers, Identified, Rows, Sessions, Carried, References
<1>6. TokensKnowThePassword'
  BY MarkersAssumption
  DEF Inv, Tables, Fresh, References, Handlers, Identified, Rows, Sessions, Carried,
      TokensKnowThePassword
<1>. QED BY <1>1, <1>2, <1>3, <1>4, <1>5, <1>6 DEF Inv

(* The change of a member is allowed: nothing is written yet.              *)
LEMMA ChangeMemberAllowedKeeps ==
    ASSUME Inv, NEW c \in Conns, NEW kind, NEW o \in Orgs, NEW u \in Users, NEW role \in Roles,
           ChangeMemberAllowed(c, kind, o, u, role)
    PROVE  Inv'
<1>. DEFINE h == [Nothing EXCEPT !.step = "member", !.org = o, !.user = u, !.grant = role]
<1>1. h \in Carried /\ InHand(h)
  BY NothingInHand DEF Carried, InHand, Steps, Grants
<1>2. session[c] # NoSession /\ session' = session /\ doing' = [doing EXCEPT ![c] = h]
  BY DEF ChangeMemberAllowed, Serving, Do
<1>3. Handlers'
  BY <1>1, <1>2, RequestStep DEF Inv
<1>4. Identified'
  BY <1>2 DEF ChangeMemberAllowed, Inv, Identified
<1>5. asked' \in 0 .. MaxRequests
  BY AskedOnce DEF ChangeMemberAllowed, Serving
<1>. QED BY <1>3, <1>4, <1>5, TablesUntouched DEF ChangeMemberAllowed

(* A member whose organisation or user is gone is refused.                 *)
LEMMA SetMemberKeeps ==
    ASSUME Inv, NEW c \in Conns, SetMember(c)
    PROVE  Inv'
<1>. USE DEF SetMember, Done, Do, Nothing, accounts
<1>1. Tables'
  BY BoundAssumption, MarkersAssumption, RootAssumption
  DEF Inv, Tables, Handlers, Carried, InHand, Sessions, Rows, Roles
<1>2. References'
  BY MarkersAssumption
  DEF Inv, Tables, Fresh, References, Handlers, Identified, Rows, Sessions, Carried
<1>3. Fresh'
  BY MarkersAssumption DEF Inv, Tables, Fresh, Handlers, Rows
<1>4. Handlers'
  BY MarkersAssumption, RootAssumption
  DEF Inv, Tables, Handlers, Carried, InHand, Steps, Grants, Roles, OrgRoles,
      Permissions, Sessions, Rows, References
<1>5. Identified'
  BY MarkersAssumption
  DEF Inv, Tables, Fresh, Handlers, Identified, Rows, Sessions, Carried, References
<1>6. TokensKnowThePassword'
  BY MarkersAssumption
  DEF Inv, Tables, Fresh, References, Handlers, Identified, Rows, Sessions, Carried,
      TokensKnowThePassword
<1>. QED BY <1>1, <1>2, <1>3, <1>4, <1>5, <1>6 DEF Inv

(* The organisation of a plan is there.                                    *)
LEMMA SetPlanOrgKeeps ==
    ASSUME Inv, NEW c \in Conns, NEW p \in Plans, NEW o \in Orgs, SetPlanOrg(c, p, o)
    PROVE  Inv'
<1>. USE DEF SetPlanOrg, Serving, Another, Nothing, accounts
<1>1. Tables'
  BY BoundAssumption, MarkersAssumption, RootAssumption
  DEF Inv, Tables, Handlers, Carried, InHand, Sessions, Rows, Roles
<1>2. References'
  BY MarkersAssumption
  DEF Inv, Tables, Fresh, References, Handlers, Identified, Rows, Sessions, Carried
<1>3. Fresh'
  BY MarkersAssumption DEF Inv, Tables, Fresh, Handlers, Rows
<1>4. Handlers'
  BY MarkersAssumption, RootAssumption
  DEF Inv, Tables, Handlers, Carried, InHand, Steps, Grants, Roles, OrgRoles,
      Permissions, Sessions, Rows, References
<1>5. Identified'
  BY MarkersAssumption
  DEF Inv, Tables, Fresh, Handlers, Identified, Rows, Sessions, Carried, References
<1>6. TokensKnowThePassword'
  BY MarkersAssumption
  DEF Inv, Tables, Fresh, References, Handlers, Identified, Rows, Sessions, Carried,
      TokensKnowThePassword
<1>. QED BY <1>1, <1>2, <1>3, <1>4, <1>5, <1>6 DEF Inv

(* The plan has an organisation: nothing is written yet.                   *)
LEMMA PermissionOrgKeeps ==
    ASSUME Inv, NEW c \in Conns, NEW p \in Plans, NEW u \in Users, NEW grant \in {"NoAccess", "Inherit"},
           PermissionOrg(c, p, u, grant)
    PROVE  Inv'
<1>. DEFINE h == [Nothing EXCEPT !.step = "permAdmin", !.org = planOrg[p],
                             !.plan = p, !.user = u, !.grant = grant]
<1>1. h \in Carried /\ InHand(h)
  <2>1. planOrg[p] \in Orgs /\ grant \in Permissions \cup {"Inherit"}
    BY DEF PermissionOrg, Inv, Tables, Permissions
  <2>. QED BY <2>1, NothingInHand DEF Carried, InHand, Steps, Grants
<1>2. session[c] # NoSession /\ session' = session /\ doing' = [doing EXCEPT ![c] = h]
  BY DEF PermissionOrg, Serving, Do
<1>3. Handlers'
  BY <1>1, <1>2, RequestStep DEF Inv
<1>4. Identified'
  BY <1>2 DEF PermissionOrg, Inv, Identified
<1>5. asked' \in 0 .. MaxRequests
  BY AskedOnce DEF PermissionOrg, Serving
<1>. QED BY <1>3, <1>4, <1>5, TablesUntouched DEF PermissionOrg

(* A right is confirmed or refused: nothing is written yet.                *)
LEMMA PermissionCheckKeeps ==
    ASSUME Inv, NEW c \in Conns, NEW allowed \in BOOLEAN,
           NEW step \in {"permAdmin", "permMember"}, NEW next \in {"permMember", "permSet"},
           PermissionCheck(c, step, allowed, next)
    PROVE  Inv'
<1>1. PICK h \in {Nothing, [doing[c] EXCEPT !.step = next]} : doing' = [doing EXCEPT ![c] = h]
  BY DEF PermissionCheck, Done, Do
<1>2. doing[c] \in Carried /\ InHand(doing[c]) /\ doing[c].step = step /\ session[c] # NoSession
  BY DEF PermissionCheck, Inv, Handlers
<1>3. h \in Carried /\ InHand(h)
  <2>1. CASE h = Nothing
    BY <2>1, NothingInHand
  <2>2. CASE h = [doing[c] EXCEPT !.step = next]
    BY <2>2, <1>2 DEF Carried, InHand, Steps
  <2>. QED BY <2>1, <2>2
<1>4. session' = session
  BY DEF PermissionCheck
<1>5. Handlers'
  BY <1>1, <1>2, <1>3, <1>4, RequestStep DEF Inv
<1>6. Identified'
  BY <1>4 DEF PermissionCheck, Inv, Identified
<1>. QED BY <1>5, <1>6, TablesUntouched DEF PermissionCheck, Inv, Tables

(* A permission of somebody who is gone is refused.                        *)
LEMMA PermissionSetKeeps ==
    ASSUME Inv, NEW c \in Conns, PermissionSet(c)
    PROVE  Inv'
<1>. USE DEF PermissionSet, Done, Do, Nothing, accounts
<1>1. Tables'
  BY BoundAssumption, MarkersAssumption, RootAssumption
  DEF Inv, Tables, Handlers, Carried, InHand, Sessions, Rows, Roles
<1>2. References'
  BY MarkersAssumption
  DEF Inv, Tables, Fresh, References, Handlers, Identified, Rows, Sessions, Carried
<1>3. Fresh'
  BY MarkersAssumption DEF Inv, Tables, Fresh, Handlers, Rows
<1>4. Handlers'
  BY MarkersAssumption, RootAssumption
  DEF Inv, Tables, Handlers, Carried, InHand, Steps, Grants, Roles, OrgRoles,
      Permissions, Sessions, Rows, References
<1>5. Identified'
  BY MarkersAssumption
  DEF Inv, Tables, Fresh, Handlers, Identified, Rows, Sessions, Carried, References
<1>6. TokensKnowThePassword'
  BY MarkersAssumption
  DEF Inv, Tables, Fresh, References, Handlers, Identified, Rows, Sessions, Carried,
      TokensKnowThePassword
<1>. QED BY <1>1, <1>2, <1>3, <1>4, <1>5, <1>6 DEF Inv

(* Whoever is a member of it refers to an organisation that is there.      *)
LEMMA SetActiveOrgKeeps ==
    ASSUME Inv, NEW c \in Conns, NEW o \in Orgs, SetActiveOrg(c, o)
    PROVE  Inv'
<1>. USE DEF SetActiveOrg, Serving, Another, Nothing, accounts, orgTables
<1>1. Tables'
  <2>1. session[c] \in Sessions
    BY DEF Inv, Handlers
  <2>2. rows' \in [Tokens -> Rows \cup {NoRow}]
    BY <2>1, RowColumns DEF Inv, Tables, Sessions
  <2>. QED BY <2>2, AskedOnce DEF Inv, Tables
<1>2. References'
  BY MarkersAssumption
  DEF Inv, Tables, Fresh, References, Handlers, Identified, Rows, Sessions, Carried
<1>3. Fresh'
  BY MarkersAssumption DEF Inv, Tables, Fresh, Handlers, Rows
<1>4. Handlers'
  <2>. DEFINE s == [session[c] EXCEPT !.active = o]
  <2>1. session[c] \in Sessions /\ doing[c] \in Carried /\ InHand(doing[c])
    BY DEF Inv, Handlers
  <2>2. s \in Sessions
    BY <2>1, SessionFields
  <2>3. session' = [session EXCEPT ![c] = s] /\ doing' = [doing EXCEPT ![c] = doing[c]]
    BY DEF Inv, Handlers
  <2>. QED BY <2>1, <2>2, <2>3, HandlerStep, MarkersAssumption DEF Inv
<1>5. Identified'
  BY MarkersAssumption
  DEF Inv, Tables, Fresh, Handlers, Identified, Rows, Sessions, Carried, References
<1>6. TokensKnowThePassword'
  BY MarkersAssumption
  DEF Inv, Tables, Fresh, References, Handlers, Identified, Rows, Sessions, Carried,
      TokensKnowThePassword
<1>. QED BY <1>1, <1>2, <1>3, <1>4, <1>5, <1>6 DEF Inv

(* The connections are gone; a first user has no rows.                     *)
LEMMA RestartKeeps ==
    ASSUME Inv, Restart
    PROVE  Inv'
<1>. USE DEF Restart, Nothing, orgTables
<1>1. Tables'
  BY BoundAssumption, MarkersAssumption, RootAssumption
  DEF Inv, Tables, Handlers, Carried, InHand, Sessions, Rows, Roles
<1>2. References'
  BY MarkersAssumption
  DEF Inv, Tables, Fresh, References, Handlers, Identified, Rows, Sessions, Carried
<1>3. Fresh'
  BY MarkersAssumption DEF Inv, Tables, Fresh, Handlers, Rows
<1>4. Handlers'
  BY MarkersAssumption, RootAssumption
  DEF Inv, Tables, Handlers, Carried, InHand, Steps, Grants, Roles, OrgRoles,
      Permissions, Sessions, Rows, References
<1>5. Identified'
  BY MarkersAssumption
  DEF Inv, Tables, Fresh, Handlers, Identified, Rows, Sessions, Carried, References
<1>6. TokensKnowThePassword'
  BY MarkersAssumption
  DEF Inv, Tables, Fresh, References, Handlers, Identified, Rows, Sessions, Carried,
      TokensKnowThePassword
<1>. QED BY <1>1, <1>2, <1>3, <1>4, <1>5, <1>6 DEF Inv

-----------------------------------------------------------------------------
(* The process starts with Root and the founders, and with nobody connected.*)
LEMMA InitIsInv == Init => Inv
<1>. SUFFICES ASSUME Init PROVE Inv
  OBVIOUS
<1>1. Tables
  BY BoundAssumption, RootAssumption, FoundersAssumption, MemberAssumption
  DEF Init, Tables, Roles
<1>2. References
  BY MemberAssumption, MarkersAssumption DEF Init, References
<1>3. Fresh /\ Identified /\ TokensKnowThePassword
  BY DEF Init, Fresh, Identified, TokensKnowThePassword
<1>4. Handlers
  BY NothingInHand DEF Init, Handlers
<1>. QED BY <1>1, <1>2, <1>3, <1>4 DEF Inv

(* Every step keeps the invariant: one case per action.                    *)
LEMMA StepKeepsInv == Inv /\ [Next]_vars => Inv'
<1>. SUFFICES ASSUME Inv, [Next]_vars PROVE Inv'
  OBVIOUS
<1>1. CASE UNCHANGED vars
  BY <1>1 DEF vars, accounts, orgTables, Inv, Tables, References, Fresh, Handlers,
              InHand, Identified, TokensKnowThePassword
<1>2. ASSUME NEW k \in Tokens, Expire(k) PROVE Inv'
  BY <1>2, ExpireKeeps
<1>3. CASE Restart
  BY <1>3, RestartKeeps
<1>4. ASSUME NEW c \in Conns, NEW o \in Orgs, NEW u \in Users,
             NEW role \in {"Admin", "User"}, AddOrgMember(c, o, u, role)
      PROVE  Inv'
  BY <1>4, ChangeMemberAllowedKeeps DEF AddOrgMember, Roles, OrgRoles
<1>5. ASSUME NEW c \in Conns, NEW o \in Orgs, NEW u \in Users, RemoveOrgMember(c, o, u)
      PROVE  Inv'
  BY <1>5, ChangeMemberAllowedKeeps DEF RemoveOrgMember, Roles
<1>6. ASSUME NEW c \in Conns, PermissionAdmin(c) PROVE Inv'
  <2>1. MayAdminister(c, doing[c].org) \in BOOLEAN
    BY DEF MayAdminister, Inv, Handlers, Sessions
  <2>. QED BY <1>6, <2>1, PermissionCheckKeeps DEF PermissionAdmin
<1>7. ASSUME NEW c \in Conns, PermissionMember(c) PROVE Inv'
  <2>1. (member[doing[c].user][doing[c].org] # "None") \in BOOLEAN
    OBVIOUS
  <2>. QED BY <1>7, <2>1, PermissionCheckKeeps DEF PermissionMember
<1>8. ASSUME NEW c \in Conns,
             \/ \E u \in Users, pw \in Passwords : Login(c, u, pw)
             \/ \E k \in Tokens : Authenticate(c, k)
             \/ LoginMemberships(c) \/ TokenMemberships(c) \/ Backfill(c)
             \/ Logout(c) \/ Disconnect(c)
      PROVE  Inv'
  BY <1>8, LoginKeeps, AuthenticateKeeps, LoginMembershipsKeeps, TokenMembershipsKeeps,
     BackfillKeeps, LogoutKeeps, DisconnectKeeps
<1>9. ASSUME NEW c \in Conns,
             \/ \E u \in Users, isAdmin \in BOOLEAN :
                    CreateAuthUser(c, u, isAdmin) \/ UpdateAuthUser(c, u, isAdmin)
             \/ \E u \in Users, pw \in Passwords : SetAuthUserPassword(c, u, pw)
             \/ \E u \in Users : DeleteAuthUser(c, u)
             \/ \E old, new \in Passwords : VerifyMyPassword(c, old, new)
             \/ ChangeMyPassword(c) \/ SubmitBugReport(c)
      PROVE  Inv'
  BY <1>9, CreateAuthUserKeeps, UpdateAuthUserKeeps, SetAuthUserPasswordKeeps,
     DeleteAuthUserKeeps, VerifyMyPasswordKeeps, ChangeMyPasswordKeeps, SubmitBugReportKeeps
<1>10. ASSUME NEW c \in Conns,
             \/ \E o \in Orgs : CreateOrganisation(c, o) \/ DeleteOrganisation(c, o)
                                \/ SetActiveOrg(c, o)
             \/ SetMember(c) \/ PermissionSet(c)
             \/ \E p \in Plans, o \in Orgs : SetPlanOrg(c, p, o)
             \/ \E p \in Plans, u \in Users, grant \in {"NoAccess", "Inherit"} :
                    PermissionOrg(c, p, u, grant)
       PROVE  Inv'
  BY <1>10, CreateOrganisationKeeps, DeleteOrganisationKeeps, SetActiveOrgKeeps,
     SetMemberKeeps, PermissionSetKeeps, SetPlanOrgKeeps, PermissionOrgKeeps
<1>. QED BY <1>1, <1>2, <1>3, <1>4, <1>5, <1>6, <1>7, <1>8, <1>9, <1>10 DEF Next

(* The strengthening holds in every reachable state.                       *)
LEMMA Invariance == Spec => []Inv
BY InitIsInv, StepKeepsInv, PTL DEF Spec

(* Every reference of every table of auth.db is to a row that is there,    *)
(* and every variable has its type: the cascades of the schema and the     *)
(* checks of the statements are enough for any order of requests, any      *)
(* deletion between two holds of the mutex, and restarts (auth.rs).        *)
THEOREM TypeCorrect == Spec => []TypeOK
<1>1. Inv => TypeOK
  BY DEF Inv, Tables, Handlers, TypeOK
<1>. QED BY <1>1, Invariance, PTL

(* No token outlives the password its owner showed for it, whatever        *)
(* changes, resets and logins meet (change_own_password, set_password and  *)
(* login of auth.rs).                                                      *)
THEOREM NoTokenOutlivesItsPassword == Spec => []TokensKnowThePassword
<1>1. Inv => TokensKnowThePassword
  BY DEF Inv
<1>. QED BY <1>1, Invariance, PTL

-----------------------------------------------------------------------------
(* What the three decisions of PlanAccess answer on the tables.            *)

(* A plan's org and a user's role in it, read from a database.             *)
LEMMA RowTypes ==
    ASSUME NEW db \in AccessDb, NEW u \in Users, NEW p \in Plans
    PROVE  /\ db.planOrg[p] \in Orgs \cup {NoOrg}
           /\ db.planOrg[p] # NoOrg
                 => db.member[u][db.planOrg[p]] \in OrgRoles \cup {"None"}
           /\ db.perm[p][u] \in Permissions \cup {"Inherit"}
BY DEF AccessDb

(* effective_plan_role always answers one of the four roles.               *)
LEMMA RoleIsARole ==
    ASSUME NEW db \in AccessDb, NEW u \in Users, NEW isAdmin \in BOOLEAN,
           NEW p \in Plans
    PROVE  EffectivePlanRole(db, u, isAdmin, p) \in PlanRoles
BY RowTypes DEF EffectivePlanRole, PlanRoles, OrgRoles, Permissions

(* A broadcast of a plan goes to exactly the users whose requests on the   *)
(* plan are not refused outright: has_plan_access, which was written for   *)
(* the broadcasts, agrees with effective_plan_role, which gates requests.  *)
THEOREM BroadcastsFollowRoles ==
    ASSUME NEW db \in AccessDb, NEW u \in Users, NEW isAdmin \in BOOLEAN,
           NEW p \in Plans
    PROVE  HasPlanAccess(db, u, isAdmin, p)
              <=> EffectivePlanRole(db, u, isAdmin, p) # "NoAccess"
<1>. DEFINE org == db.planOrg[p]
<1>1. u # NoUser
  BY NoUserAssumption
<1>2. CASE isAdmin
  BY <1>2 DEF HasPlanAccess, EffectivePlanRole
<1>3. CASE ~isAdmin /\ org = NoOrg
  BY <1>3 DEF HasPlanAccess, EffectivePlanRole
<1>4. CASE ~isAdmin /\ org # NoOrg
  BY <1>1, <1>4, RowTypes
     DEF HasPlanAccess, EffectivePlanRole, OrgRoles, Permissions
<1>. QED BY <1>2, <1>3, <1>4

(* The plans filter_visible_plans leaves in a list are those the user is   *)
(* sent broadcasts of.                                                     *)
THEOREM ListsFollowBroadcasts ==
    ASSUME NEW db \in AccessDb, NEW u \in Users, NEW isAdmin \in BOOLEAN,
           NEW ids \in SUBSET Plans
    PROVE  FilterVisiblePlans(db, u, isAdmin, ids)
              = {p \in ids : HasPlanAccess(db, u, isAdmin, p)}
<1>1. u # NoUser
  BY NoUserAssumption
<1>2. CASE isAdmin
  BY <1>2 DEF FilterVisiblePlans, HasPlanAccess
<1>3. CASE ~isAdmin
  <2>1. ASSUME NEW p \in ids
        PROVE  p \in FilterVisiblePlans(db, u, isAdmin, ids)
                  <=> HasPlanAccess(db, u, isAdmin, p)
    BY <1>1, <1>3, RowTypes DEF FilterVisiblePlans, HasPlanAccess, OrgRoles
  <2>2. FilterVisiblePlans(db, u, isAdmin, ids) \subseteq ids
    BY DEF FilterVisiblePlans
  <2>. QED BY <2>1, <2>2
<1>. QED BY <1>2, <1>3
=============================================================================
