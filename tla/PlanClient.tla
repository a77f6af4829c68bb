------------------------------ MODULE PlanClient ------------------------------
(***************************************************************************)
(* The browser's side of a connection, the hook usePlan: sockets, of which *)
(* one is the current one, requests that wait for their answers, the       *)
(* status and the screen it leads to.  All handlers of all sockets share   *)
(* the variable ws, the last socket made; wsRef is what the user's actions *)
(* go to.  The server is its handler's phases and answers, its messages    *)
(* what the browser tells apart: who caused a plan state is the model's    *)
(* and not in the message.  The Hello of the server, which the browser     *)
(* ignores, and the progress of imports are left out.                      *)
(***************************************************************************)
EXTENDS Naturals, FiniteSets, Sequences

CONSTANTS MaxSockets,   \* connections the browser makes
          MaxRequests,  \* requests of the user
          MaxLogins,
          MaxTrouble,   \* connections lost, sessions ended, wrong passwords and
                        \* versions, and changes by others
          Asks,         \* the kinds of requests there are
          NoSocket

Kinds == {"Edit",       \* answered PlanUpdated, then the plan
          "Manage",     \* answered PlanUpdated, and no plan
          "Query",      \* answered otherwise
          "Unreadable"} \* a form sends what does not parse, an id or date left empty

ASSUME BoundsAssumption ==
    /\ {MaxSockets, MaxRequests, MaxLogins, MaxTrouble} \subseteq Nat
    /\ Asks \subseteq Kinds /\ MaxSockets > 0 /\ NoSocket \notin 1 .. MaxSockets

Sockets == 1 .. MaxSockets
NoToken == 0
Tokens == 1 .. MaxLogins

VARIABLES
    state,    \* readyState of each socket
    up, down, \* messages on their way to the server and from it
    handler,  \* the phase of handle_protocol at the other end
    session,  \* the token it was logged in with
    rows,     \* the tokens the server accepts
    logins,   \* tokens given out
    unread,   \* promises whose request was dropped
    ws, wsRef,
    status,
    timer,    \* connectionTimeoutRef is running
    pending,  \* pendingRef: [id, ask], ask the promise
    nextId,
    own,      \* ownPlanStateCountRef
    stored,   \* the token in localStorage
    required, account,  \* auth.required, auth.currentUser # null
    asked,    \* promises made
    settled,  \* promises resolved or rejected
    answers,  \* which were resolved with the answer of which
    trouble   \* what went wrong, or others did, so far

network == <<state, up, down>>
server == <<handler, session, rows, logins, unread>>
hook == <<ws, wsRef, status, timer, nextId, stored, required, account>>
promises == <<pending, own, asked, settled, answers>>
vars == <<network, server, hook, promises, trouble>>

Hello == [type |-> "Hello"]
Logout == [type |-> "Logout"]
ToServer == {Hello, Logout} \cup [type : {"Login"}, right : BOOLEAN]
            \cup [type : {"Authenticate"}, token : Tokens]
            \cup [type : {"Request"}, id : 1 .. MaxRequests, ask : 1 .. MaxRequests,
                  kind : Kinds]
ToClient == [type : {"AuthRequired", "VersionError", "LoginFailed", "NoPlanActive"}]
            \cup [type : {"LoginSuccess"}, token : Tokens]
            \cup [type : {"PlanState"}, cause : {"own", "other", "first"}]
            \cup [type : {"Response"}, id : 1 .. MaxRequests, ask : 1 .. MaxRequests,
                  updated : BOOLEAN]
Just(type) == [type |-> type]

TypeOK ==
    /\ state \in [Sockets -> {"none", "connecting", "open", "closing", "closed"}]
    /\ \A s \in Sockets : up[s] \in Seq(ToServer) /\ down[s] \in Seq(ToClient)
    /\ handler \in [Sockets -> {"none", "hello", "auth", "greet", "ready", "owes", "gone"}]
    /\ session \in [Sockets -> Tokens \cup {NoToken}]
    /\ rows \subseteq 1 .. logins /\ logins \in 0 .. MaxLogins /\ unread \subseteq 1 .. asked
    /\ ws \in Sockets /\ state[ws] # "none" /\ wsRef \in {ws, NoSocket}
    /\ status \in {"connecting", "handshaking", "authenticating", "connected",
                   "disconnected", "error"}
    /\ timer \in BOOLEAN /\ asked \in 0 .. MaxRequests /\ nextId \in 1 .. asked + 1
    /\ pending \subseteq [id : 1 .. nextId - 1, ask : 1 .. asked]
    /\ own \in 0 .. asked /\ stored \in 0 .. logins
    /\ required \in BOOLEAN /\ account \in BOOLEAN
    /\ settled \subseteq 1 .. asked /\ answers \subseteq [to : 1 .. asked, of : 1 .. asked]
    /\ trouble \in 0 .. MaxTrouble

(* What PageRouter shows.                                                  *)
Screen ==
    CASE status \in {"connecting", "handshaking"} -> "connecting"
      [] status = "authenticating" /\ ~ required -> "connecting"
      [] status = "authenticating" \/ required -> "login"
      [] status \in {"disconnected", "error"} -> status
      [] OTHER -> "plan"

-----------------------------------------------------------------------------
(* send() of a socket that is not open throws or does nothing.             *)
Sent(s, m) == [up EXCEPT ![s] = IF state[s] = "open" THEN Append(@, m) ELSE @]
SendRaw(m) == IF wsRef = NoSocket THEN up ELSE Sent(wsRef, m)
Closed(s) == [state EXCEPT ![s] = IF @ \in {"connecting", "open"} THEN "closing" ELSE @]

Connect(readyState) ==
    /\ ws < MaxSockets /\ ws' = ws + 1 /\ wsRef' = ws + 1
    /\ state' = [readyState EXCEPT ![ws + 1] = "connecting"]
    /\ status' = "connecting" /\ timer' = TRUE
    /\ UNCHANGED <<down, server, nextId, required, account, promises, trouble>>

Goes(well) ==
    IF well THEN UNCHANGED trouble ELSE trouble < MaxTrouble /\ trouble' = trouble + 1

CloseCurrent == IF wsRef = NoSocket THEN state ELSE Closed(wsRef)

(* Both screens that wait have the button.                                 *)
Reconnect ==
    /\ Screen \in {"connecting", "disconnected"}
    /\ Connect(CloseCurrent)
    /\ UNCHANGED <<up, stored>>

DoLogout ==
    /\ Screen = "plan" /\ account
    /\ up' = SendRaw(Logout) /\ stored' = NoToken
    /\ Connect(CloseCurrent)

(* The form of the login page, with the right password or another one, once *)
(* the last try is answered.                                               *)
Login(right) ==
    /\ Screen = "login" /\ wsRef # NoSocket /\ state[wsRef] = "open"
    /\ up[wsRef] = <<>> /\ down[wsRef] = <<>> /\ handler[wsRef] = "auth"
    /\ right => logins < MaxLogins
    /\ up' = Sent(wsRef, [type |-> "Login", right |-> right])
    /\ Goes(right) /\ UNCHANGED <<state, down, server, hook, promises>>

(* Mutant of SendRequest: the number is that of the requests that wait.    *)
SendRequestRenumbered(kind) ==
    /\ Screen = "plan" /\ asked < MaxRequests /\ asked' = asked + 1
    /\ IF wsRef = NoSocket \/ state[wsRef] # "open"
       THEN settled' = settled \cup {asked + 1} /\ UNCHANGED <<up, pending, nextId>>
       ELSE /\ nextId' = Cardinality(pending) + 1 /\ UNCHANGED settled
            /\ pending' = {p \in pending : p.id # nextId'}
                             \cup {[id |-> nextId', ask |-> asked + 1]}
            /\ up' = SendRaw([type |-> "Request", id |-> nextId', ask |-> asked + 1,
                              kind |-> kind])
    /\ UNCHANGED <<state, down, server, ws, wsRef, status, timer, stored, required,
                   account, own, answers, trouble>>

SendRequest(kind) ==
    /\ Screen = "plan" /\ asked < MaxRequests /\ asked' = asked + 1
    /\ IF wsRef = NoSocket \/ state[wsRef] # "open"
       THEN settled' = settled \cup {asked + 1} /\ UNCHANGED <<up, pending, nextId>>
       ELSE /\ nextId' = nextId + 1 /\ UNCHANGED settled
            /\ pending' = {p \in pending : p.id # nextId}
                             \cup {[id |-> nextId, ask |-> asked + 1]}
            /\ up' = SendRaw([type |-> "Request", id |-> nextId, ask |-> asked + 1,
                              kind |-> kind])
    /\ UNCHANGED <<state, down, server, ws, wsRef, status, timer, stored, required,
                   account, own, answers, trouble>>

-----------------------------------------------------------------------------
(* onopen                                                                  *)
Opens(s) ==
    /\ state[s] = "connecting" /\ state' = [state EXCEPT ![s] = "open"]
    /\ handler' = [handler EXCEPT ![s] = "hello"]
    /\ status' = "handshaking"
    /\ up' = [up EXCEPT ![ws] = IF state'[ws] = "open" THEN Append(@, Hello) ELSE @]
    /\ UNCHANGED <<down, session, rows, logins, unread, ws, wsRef, timer, nextId,
                   stored, required, account, promises, trouble>>

(* The connection is lost, or never made.                                  *)
Drop(s) ==
    /\ state[s] \in {"connecting", "open"}
    /\ state' = Closed(s) /\ down' = [down EXCEPT ![s] = <<>>]
    /\ Goes(FALSE) /\ UNCHANGED <<up, server, hook, promises>>

(* Mutant of RejectAll: those who wait are only forgotten.                 *)
RejectNone == {}

RejectAll == {p.ask : p \in pending}

(* onclose: isCurrent compares the shared ws, not the socket that closed.  *)
(* Once its handler has ended the server closes a socket, with or without  *)
(* what the handler sent last: is_finished comes after the channel was     *)
(* found empty.                                                            *)
CloseEvent(s) ==
    /\ \/ state[s] = "closing"
       \/ state[s] = "open" /\ handler[s] = "gone"
    /\ state' = [state EXCEPT ![s] = "closed"]
    /\ down' = [down EXCEPT ![s] = <<>>]
    /\ settled' = settled \cup RejectAll /\ pending' = {}
    /\ IF wsRef = ws
       THEN wsRef' = NoSocket /\ timer' = FALSE /\ status' = "disconnected"
       ELSE UNCHANGED <<wsRef, timer, status>>
    /\ UNCHANGED <<up, server, ws, nextId, stored, required, account, own, asked, answers,
                   trouble>>

(* Fifteen seconds after connect.                                          *)
Timeout ==
    /\ timer /\ timer' = FALSE
    /\ state' = IF status \in {"connecting", "handshaking"} THEN Closed(ws) ELSE state
    /\ UNCHANGED <<up, down, server, ws, wsRef, status, nextId, stored, required,
                   account, promises, trouble>>

-----------------------------------------------------------------------------
(* onmessage, message by message.                                          *)
Deliver(s) ==
    /\ state[s] = "open" /\ down[s] # <<>>
    /\ down' = [down EXCEPT ![s] = Tail(@)]
    /\ UNCHANGED <<server, ws, wsRef, nextId, asked, trouble>>
Receives(s, type) == Deliver(s) /\ Head(down[s]).type = type

ReceiveVersionError(s) ==
    /\ Receives(s, "VersionError")
    /\ timer' = FALSE /\ status' = "error" /\ state' = Closed(ws)
    /\ UNCHANGED <<up, stored, required, account, promises>>

ReceiveAuthRequired(s) ==
    /\ Receives(s, "AuthRequired")
    /\ timer' = FALSE /\ status' = "authenticating"
    /\ IF stored # NoToken
       THEN /\ up' = Sent(ws, [type |-> "Authenticate", token |-> stored])
            /\ UNCHANGED required
       ELSE required' = TRUE /\ UNCHANGED up
    /\ UNCHANGED <<state, stored, account, promises>>

ReceiveLoginSuccess(s) ==
    /\ Receives(s, "LoginSuccess")
    /\ stored' = Head(down[s]).token /\ required' = FALSE /\ account' = TRUE
    /\ UNCHANGED <<state, up, status, timer, promises>>

ReceiveLoginFailed(s) ==
    /\ Receives(s, "LoginFailed")
    /\ stored' = NoToken /\ required' = TRUE /\ account' = FALSE
    /\ UNCHANGED <<state, up, status, timer, promises>>

(* Mutant of ReceivePlan: every plan state is taken for an own one.         *)
ReceivePlanUncounted(s) ==
    /\ Receives(s, "PlanState") \/ Receives(s, "NoPlanActive")
    /\ status' = "connected"
    /\ own' = IF Head(down[s]).type = "PlanState" THEN own - 1 ELSE own
    /\ UNCHANGED <<state, up, timer, stored, required, account, pending, settled, answers>>

ReceivePlan(s) ==
    /\ Receives(s, "PlanState") \/ Receives(s, "NoPlanActive")
    /\ status' = "connected"
    /\ own' = IF Head(down[s]).type = "PlanState" /\ own > 0 THEN own - 1 ELSE own
    /\ UNCHANGED <<state, up, timer, stored, required, account, pending, settled, answers>>

(* The answer goes to the promise with its id, if there is one.            *)
ReceiveResponse(s) ==
    /\ Receives(s, "Response")
    /\ LET m == Head(down[s])
           mine == {p \in pending : p.id = m.id}
       IN /\ pending' = pending \ mine
          /\ settled' = settled \cup {p.ask : p \in mine}
          /\ answers' = answers \cup {[to |-> p.ask, of |-> m.ask] : p \in mine}
          /\ own' = IF mine # {} /\ m.updated THEN own + 1 ELSE own
    /\ UNCHANGED <<state, up, status, timer, stored, required, account>>

-----------------------------------------------------------------------------
(* handle_protocol.  What it sends to a browser that is gone is lost.      *)
Put(s, messages) ==
    down' = [down EXCEPT ![s] = IF state[s] = "open" THEN @ \o messages ELSE @]
Phase(s, phase) == handler' = [handler EXCEPT ![s] = phase]
Takes(s, phase) ==
    /\ handler[s] = phase /\ up[s] # <<>>
    /\ up' = [up EXCEPT ![s] = Tail(@)]
    /\ UNCHANGED <<state, hook, promises>>

(* Anything but a Hello ends it; so does another version.                  *)
Handshake(s) ==
    /\ Takes(s, "hello")
    /\ \/ /\ Head(up[s]) = Hello
          /\ Put(s, <<Just("AuthRequired")>>) /\ Phase(s, "auth") /\ Goes(TRUE)
       \/ /\ Head(up[s]) = Hello
          /\ Put(s, <<Just("VersionError")>>) /\ Phase(s, "gone") /\ Goes(FALSE)
       \/ Head(up[s]) # Hello /\ Phase(s, "gone") /\ UNCHANGED <<down, trouble>>
    /\ UNCHANGED <<session, rows, logins, unread>>

Enters(s, t) ==
    /\ session' = [session EXCEPT ![s] = t] /\ Phase(s, "greet")
    /\ Put(s, <<[type |-> "LoginSuccess", token |-> t]>>)

(* A login, a token, or something that is ignored.                         *)
Authentication(s) ==
    /\ Takes(s, "auth") /\ UNCHANGED <<unread, trouble>>
    /\ LET m == Head(up[s])
       IN \/ /\ m.type = "Login" /\ m.right /\ logins < MaxLogins
             /\ logins' = logins + 1 /\ rows' = rows \cup {logins + 1}
             /\ Enters(s, logins + 1)
          \/ /\ m.type = "Login" /\ ~ m.right
             /\ Put(s, <<Just("LoginFailed")>>)
             /\ UNCHANGED <<handler, session, rows, logins>>
          \/ /\ m.type = "Authenticate" /\ m.token \in rows
             /\ Enters(s, m.token) /\ UNCHANGED <<rows, logins>>
          \/ /\ m.type = "Authenticate" /\ m.token \notin rows
             /\ Put(s, <<Just("LoginFailed"), Just("AuthRequired")>>)
             /\ UNCHANGED <<handler, session, rows, logins>>
          \/ /\ m.type \notin {"Login", "Authenticate"}
             /\ UNCHANGED <<down, handler, session, rows, logins>>

PlanState(cause) == [type |-> "PlanState", cause |-> cause]

Greet(s) ==
    /\ handler[s] = "greet" /\ Phase(s, "ready")
    /\ \E first \in {PlanState("first"), Just("NoPlanActive")} : Put(s, <<first>>)
    /\ UNCHANGED <<state, up, session, rows, logins, unread, hook, promises, trouble>>

(* A request, a logout, or something that is ignored.  What does not parse *)
(* is logged and dropped: it is not answered.                              *)
Serve(s) ==
    /\ Takes(s, "ready") /\ UNCHANGED trouble
    /\ LET m == Head(up[s])
       IN \/ /\ m.type = "Request" /\ m.kind = "Unreadable"
             /\ unread' = unread \cup {m.ask}
             /\ UNCHANGED <<down, handler, session, rows, logins>>
          \/ /\ m.type = "Request" /\ m.kind # "Unreadable"
             /\ Put(s, <<[type |-> "Response", id |-> m.id, ask |-> m.ask,
                          updated |-> m.kind # "Query"]>>)
             /\ Phase(s, IF m.kind = "Edit" THEN "owes" ELSE "ready")
             /\ UNCHANGED <<session, rows, logins, unread>>
          \/ /\ m = Logout
             /\ rows' = rows \ {session[s]} /\ Phase(s, "gone")
             /\ UNCHANGED <<down, session, logins, unread>>
          \/ /\ m.type \notin {"Request", "Logout"}
             /\ UNCHANGED <<down, handler, session, rows, logins, unread>>

(* What follows PlanUpdated, after the save.                               *)
SendOwnPlan(s) ==
    /\ handler[s] = "owes" /\ Phase(s, "ready") /\ Put(s, <<PlanState("own")>>)
    /\ UNCHANGED <<state, up, session, rows, logins, unread, hook, promises, trouble>>

(* A broadcast of a change by somebody else, to all that are registered.   *)
Broadcast ==
    /\ down' = [s \in Sockets |->
                  IF handler[s] \in {"greet", "ready", "owes"} /\ state[s] = "open"
                  THEN Append(down[s], PlanState("other")) ELSE down[s]]
    /\ Goes(FALSE) /\ UNCHANGED <<state, up, server, hook, promises>>

(* The handler notices that the browser is gone, or panics.                *)
HandlerEnds(s) ==
    /\ handler[s] \notin {"none", "gone"} /\ Phase(s, "gone")
    /\ up' = [up EXCEPT ![s] = <<>>]
    /\ Goes(FALSE) /\ UNCHANGED <<state, down, session, rows, logins, unread, hook, promises>>

(* A session expires, or an administrator ends it.                         *)
Revoke(t) ==
    /\ t \in rows /\ rows' = rows \ {t}
    /\ Goes(FALSE) /\ UNCHANGED <<network, handler, session, logins, unread, hook, promises>>

Init ==
    /\ state = [s \in Sockets |-> IF s = 1 THEN "connecting" ELSE "none"]
    /\ up = [s \in Sockets |-> <<>>] /\ down = [s \in Sockets |-> <<>>]
    /\ handler = [s \in Sockets |-> "none"]
    /\ session = [s \in Sockets |-> NoToken]
    /\ rows = {} /\ logins = 0 /\ unread = {}
    /\ ws = 1 /\ wsRef = 1 /\ status = "connecting" /\ timer = TRUE /\ nextId = 1
    /\ stored = NoToken /\ required = FALSE /\ account = FALSE
    /\ pending = {} /\ own = 0 /\ asked = 0 /\ settled = {} /\ answers = {} /\ trouble = 0

User == \/ Reconnect \/ DoLogout
        \/ \E right \in BOOLEAN : Login(right)
        \/ \E kind \in Asks : SendRequest(kind)
Receive(s) == \/ ReceiveVersionError(s) \/ ReceiveAuthRequired(s)
              \/ ReceiveLoginSuccess(s) \/ ReceiveLoginFailed(s)
              \/ ReceivePlan(s) \/ ReceiveResponse(s)
Handle(s) == \/ Handshake(s) \/ Authentication(s) \/ Greet(s) \/ Serve(s)
             \/ SendOwnPlan(s)
Next ==
    \/ User \/ Timeout \/ Broadcast
    \/ \E s \in Sockets : \/ Opens(s) \/ Drop(s) \/ CloseEvent(s)
                          \/ Receive(s) \/ Handle(s) \/ HandlerEnds(s)
    \/ \E t \in Tokens : Revoke(t)

Spec == Init /\ [][Next]_vars
FairSpec == /\ Spec
            /\ \A s \in Sockets : WF_vars(Receive(s)) /\ WF_vars(Handle(s))
                                   /\ WF_vars(CloseEvent(s))

-----------------------------------------------------------------------------
(* A promise is resolved with the answer of its own request, also where an *)
(* answer comes late, from a connection before the present one.            *)
NoAnswerIsMistaken == \A a \in answers : a.to = a.of

(* A second socket is open that is not the current one any more.           *)
Abandoned == \E s \in Sockets \ {wsRef} : state[s] \in {"connecting", "open"}

Online == wsRef # NoSocket /\ state[wsRef] = "open"

(* Every request is answered or rejected, unless the browser has two       *)
(* connections at once.  One that the server could not read is only        *)
(* rejected when the connection it went to ends: until then its promise    *)
(* hangs, for the hook has no timeout for it.                              *)
EveryRequestSettles ==
    \A n \in 1 .. MaxRequests :
        /\ asked >= n ~> n \in settled \/ n \in unread \/ Abandoned
        /\ n \in unread /\ ~ Online ~> n \in settled \/ Abandoned

(* usePlan.ts of onclose: "the old socket's close event must not stomp the *)
(* new connection's "connecting" status".                                  *)
OldCloseIsHarmless ==
    [][\A s \in Sockets \ {wsRef} : state'[s] = "closed" /\ state[s] # "closed" =>
           status' = status]_vars

(* usePlan.ts of PlanUpdated: "The server will follow up with a PlanState; *)
(* count it so we know it's our own", so that only those of others are     *)
(* shown as such, and those are.                                           *)
UpdatesAreNoticed ==
    [][\A s \in Sockets :
          ReceivePlan(s) /\ Head(down[s]) = PlanState("other") /\ status = "connected" =>
              \/ own = 0
              \/ \E t \in Sockets : handler[t] = "owes"
                     \/ \E i \in DOMAIN down[t] : down[t][i] = PlanState("own")]_vars

(* usePlan.ts of onclose: "user must click the reconnect button", so there *)
(* is one.                                                                 *)
DisconnectedCanRetry ==
    status = "disconnected" => Screen \in {"connecting", "disconnected"}
=============================================================================
