--------------------------- MODULE PlanClient_proofs ---------------------------
(***************************************************************************)
(* Type correctness of PlanClient, and that no promise is resolved with    *)
(* the answer of another one, for any number of connections, requests,     *)
(* logins and troubles.                                                    *)
(***************************************************************************)
EXTENDS PlanClient, FiniteSetTheorems, SequenceTheorems, TLAPS

-----------------------------------------------------------------------------
(* The messages of a queue, and the requests and answers among them.       *)
In(q) == {q[i] : i \in 1 .. Len(q)}
Carries(m, i, a) == m.type \in {"Request", "Response"} /\ m.id = i /\ m.ask = a
Issued(i, a) ==
    \/ [id |-> i, ask |-> a] \in pending
    \/ \E s \in Sockets : \E m \in In(up[s]) \cup In(down[s]) : Carries(m, i, a)

Queues == up \in [Sockets -> Seq(ToServer)] /\ down \in [Sockets -> Seq(ToClient)]

HookOK ==
    /\ state \in [Sockets -> {"none", "connecting", "open", "closing", "closed"}]
    /\ handler \in [Sockets -> {"none", "hello", "auth", "greet", "ready", "owes", "gone"}]
    /\ session \in [Sockets -> Tokens \cup {NoToken}]
    /\ rows \subseteq 1 .. logins /\ logins \in 0 .. MaxLogins
    /\ ws \in Sockets /\ state[ws] # "none" /\ wsRef \in {ws, NoSocket}
    /\ status \in {"connecting", "handshaking", "authenticating", "connected",
                   "disconnected", "error"}
    /\ timer \in BOOLEAN /\ stored \in 0 .. logins
    /\ required \in BOOLEAN /\ account \in BOOLEAN /\ trouble \in 0 .. MaxTrouble

(* No more own plan states are counted than promises were resolved.        *)
PromisesOK ==
    /\ asked \in 0 .. MaxRequests /\ nextId \in 1 .. asked + 1
    /\ pending \subseteq [id : 1 .. nextId - 1, ask : 1 .. asked]
    /\ IsFiniteSet(pending) /\ own \in Nat /\ own + Cardinality(pending) <= asked
    /\ settled \subseteq 1 .. asked /\ answers \subseteq [to : 1 .. asked, of : 1 .. asked]

(* A login is only told of tokens that were given out.                     *)
TokensIssued ==
    \A s \in Sockets : \A m \in In(down[s]) : m.type = "LoginSuccess" => m.token <= logins

(* Wherever an id is, on its way there, waiting, or on its way back, it    *)
(* stands for the same request; and it was given out.                      *)
OneAskPerId ==
    \A i, a \in 1 .. MaxRequests : Issued(i, a) =>
        /\ i < nextId /\ a <= asked
        /\ \A b \in 1 .. MaxRequests : Issued(i, b) => a = b

ClientInv ==
    HookOK /\ PromisesOK /\ Queues /\ TokensIssued /\ OneAskPerId /\ NoAnswerIsMistaken

-----------------------------------------------------------------------------
(* Lemmas about queues.                                                    *)

(* What is in a queue is of its kind.                                      *)
LEMMA InQueue ==
    ASSUME NEW S, NEW q \in Seq(S)
    PROVE  In(q) \subseteq S
BY DEF In

(* Nothing is in the empty queue.                                          *)
LEMMA InEmpty == ASSUME NEW S PROVE <<>> \in Seq(S) /\ In(<<>>) = {}
BY DEF In

(* send() adds its message.                                                *)
LEMMA InAppend ==
    ASSUME NEW S, NEW q \in Seq(S), NEW m \in S
    PROVE  Append(q, m) \in Seq(S) /\ In(Append(q, m)) \subseteq In(q) \cup {m}
BY DEF In

(* What is sent together arrives with what was there.                      *)
LEMMA InConcat ==
    ASSUME NEW S, NEW q \in Seq(S), NEW r \in Seq(S)
    PROVE  q \o r \in Seq(S) /\ In(q \o r) \subseteq In(q) \cup In(r)
<1>1. q \o r \in Seq(S) /\ Len(q \o r) = Len(q) + Len(r)
      /\ \A i \in 1 .. Len(q) + Len(r) :
            (q \o r)[i] = IF i <= Len(q) THEN q[i] ELSE r[i - Len(q)]
  BY ConcatProperties
<1>2. ASSUME NEW i \in 1 .. Len(q) + Len(r)
      PROVE  (q \o r)[i] \in In(q) \cup In(r)
  <2>1. CASE i <= Len(q)
    BY <1>1, <2>1 DEF In
  <2>2. CASE ~ (i <= Len(q))
    <3>1. i - Len(q) \in 1 .. Len(r)
      BY <2>2
    <3>. QED BY <1>1, <2>2, <3>1 DEF In
  <2>. QED BY <2>1, <2>2
<1>. QED BY <1>1, <1>2 DEF In

(* Taking the first message leaves the others.                             *)
LEMMA InTail ==
    ASSUME NEW S, NEW q \in Seq(S), q # <<>>
    PROVE  /\ Tail(q) \in Seq(S) /\ In(Tail(q)) \subseteq In(q)
           /\ Head(q) \in In(q) /\ Head(q) \in S
<1>1. Tail(q) \in Seq(S) /\ Len(Tail(q)) = Len(q) - 1
      /\ \A i \in 1 .. Len(Tail(q)) : Tail(q)[i] = q[i + 1]
  BY HeadTailProperties
<1>2. Len(q) \in Nat \ {0}
  BY EmptySeq
<1>3. Head(q) = q[1] /\ Head(q) \in S
  BY HeadTailProperties
<1>4. In(Tail(q)) \subseteq In(q)
  BY <1>1, <1>2 DEF In
<1>. QED BY <1>1, <1>2, <1>3, <1>4 DEF In

(* One message, or two.                                                    *)
LEMMA InFew ==
    ASSUME NEW S, NEW m \in S, NEW n \in S
    PROVE  /\ <<m>> \in Seq(S) /\ In(<<m>>) = {m}
           /\ <<m, n>> \in Seq(S) /\ In(<<m, n>>) = {m, n}
BY DEF In

-----------------------------------------------------------------------------
(* Lemmas about what a step adds to the queues.                            *)

(* The messages that a step may add to the queues, on the way to the       *)
(* server and on the way from it.                                          *)
AddsUp(M) ==
    /\ up' \in [Sockets -> Seq(ToServer)]
    /\ \A s \in Sockets : In(up'[s]) \subseteq In(up[s]) \cup M
AddsDown(M) ==
    /\ down' \in [Sockets -> Seq(ToClient)]
    /\ \A s \in Sockets : In(down'[s]) \subseteq In(down[s]) \cup M

(* What is left alone, or emptied, has no more than before.                *)
LEMMA NothingAdded ==
    ASSUME Queues
    PROVE  /\ UNCHANGED up => AddsUp({})
           /\ UNCHANGED down => AddsDown({})
           /\ \A s \in Sockets : up' = [up EXCEPT ![s] = <<>>] => AddsUp({})
           /\ \A s \in Sockets : down' = [down EXCEPT ![s] = <<>>] => AddsDown({})
<1>1. <<>> \in Seq(ToServer) /\ <<>> \in Seq(ToClient) /\ In(<<>>) = {}
  BY InEmpty
<1>. QED BY <1>1 DEF Queues, AddsUp, AddsDown

(* send() of a socket, which is open or not.                               *)
LEMMA SentAdds ==
    ASSUME Queues, NEW s \in Sockets, NEW m \in ToServer, NEW open \in BOOLEAN,
           up' = [up EXCEPT ![s] = IF open THEN Append(@, m) ELSE @]
    PROVE  AddsUp({m})
<1>1. up[s] \in Seq(ToServer)
  BY DEF Queues
<1>2. Append(up[s], m) \in Seq(ToServer) /\ In(Append(up[s], m)) \subseteq In(up[s]) \cup {m}
  BY <1>1, InAppend
<1>. QED BY <1>1, <1>2 DEF Queues, AddsUp

(* What a handler sends.                                                   *)
LEMMA PutAdds ==
    ASSUME Queues, NEW s \in Sockets, NEW q \in Seq(ToClient), Put(s, q)
    PROVE  AddsDown(In(q))
<1>1. down[s] \in Seq(ToClient)
  BY DEF Queues
<1>2. down[s] \o q \in Seq(ToClient) /\ In(down[s] \o q) \subseteq In(down[s]) \cup In(q)
  BY <1>1, InConcat
<1>. QED BY <1>1, <1>2 DEF Queues, AddsDown, Put

(* What a handler takes from its queue was on its way.                     *)
LEMMA TakesOne ==
    ASSUME Queues, NEW s \in Sockets, NEW phase, Takes(s, phase)
    PROVE  /\ AddsUp({})
           /\ Head(up[s]) \in In(up[s]) /\ Head(up[s]) \in ToServer
<1>1. up[s] \in Seq(ToServer) /\ up[s] # <<>>
  BY DEF Queues, Takes
<1>2. /\ Tail(up[s]) \in Seq(ToServer) /\ In(Tail(up[s])) \subseteq In(up[s])
      /\ Head(up[s]) \in In(up[s]) /\ Head(up[s]) \in ToServer
  BY <1>1, InTail
<1>. QED BY <1>2 DEF Queues, AddsUp, Takes

(* So was what the browser receives.                                       *)
LEMMA DeliversOne ==
    ASSUME Queues, NEW s \in Sockets, Deliver(s)
    PROVE  /\ AddsDown({})
           /\ Head(down[s]) \in In(down[s]) /\ Head(down[s]) \in ToClient
<1>1. down[s] \in Seq(ToClient) /\ down[s] # <<>>
  BY DEF Queues, Deliver
<1>2. /\ Tail(down[s]) \in Seq(ToClient) /\ In(Tail(down[s])) \subseteq In(down[s])
      /\ Head(down[s]) \in In(down[s]) /\ Head(down[s]) \in ToClient
  BY <1>1, InTail
<1>. QED BY <1>2 DEF Queues, AddsDown, Deliver

-----------------------------------------------------------------------------
(* Lemmas about the parts of the invariant.                                *)

(* No request gets a new id where none is sent and nothing is answered     *)
(* that was not asked.                                                     *)
LEMMA NoIdIssued ==
    ASSUME OneAskPerId, NEW M, NEW N, AddsUp(M), AddsDown(N),
           \A m \in M \cup N : \A i, a \in 1 .. MaxRequests : Carries(m, i, a) => Issued(i, a),
           pending' \subseteq pending, UNCHANGED <<nextId, asked>>
    PROVE  OneAskPerId'
<1>1. ASSUME NEW i \in 1 .. MaxRequests, NEW a \in 1 .. MaxRequests, Issued(i, a)'
      PROVE  Issued(i, a)
  <2>1. CASE [id |-> i, ask |-> a] \in pending'
    BY <2>1 DEF Issued
  <2>2. CASE \E s \in Sockets : \E m \in In(up'[s]) \cup In(down'[s]) : Carries(m, i, a)
    <3>1. PICK s \in Sockets : \E m \in In(up'[s]) \cup In(down'[s]) : Carries(m, i, a)
      BY <2>2
    <3>2. PICK m \in In(up'[s]) \cup In(down'[s]) : Carries(m, i, a)
      BY <3>1
    <3>3. m \in In(up[s]) \cup In(down[s]) \cup M \cup N
      BY <3>2 DEF AddsUp, AddsDown
    <3>. QED BY <3>2, <3>3 DEF Issued
  <2>. QED BY <1>1, <2>1, <2>2 DEF Issued, Carries, In
<1>. QED BY <1>1 DEF OneAskPerId

(* No token is told of that was not given out.                             *)
LEMMA NoTokenInvented ==
    ASSUME Queues, TokensIssued, HookOK, HookOK', NEW N, AddsDown(N), logins <= logins',
           \A m \in N : m.type = "LoginSuccess" => m.token <= logins'
    PROVE  TokensIssued'
<1>. SUFFICES ASSUME NEW s \in Sockets, NEW m \in In(down'[s]), m.type = "LoginSuccess"
              PROVE  m.token <= logins'
  BY DEF TokensIssued
<1>1. CASE m \in N
  BY <1>1
<1>2. CASE m \in In(down[s])
  <2>1. m.token <= logins
    BY <1>2 DEF TokensIssued
  <2>2. m \in ToClient
    BY <1>2, InQueue DEF Queues
  <2>3. m.token \in Tokens
    BY <2>2 DEF ToClient
  <2>4. logins \in Nat /\ logins' \in Nat /\ m.token \in Nat
    BY <2>3, BoundsAssumption DEF HookOK, Tokens
  <2>. QED BY <2>1, <2>4
<1>. QED BY <1>1, <1>2 DEF AddsDown

(* A step that leaves the promises alone only has to be right about the    *)
(* hook and about what it sends.                                           *)
LEMMA QuietKeeps ==
    ASSUME ClientInv, HookOK', UNCHANGED <<promises, nextId>>, logins <= logins',
           NEW M, AddsUp(M), \A m \in M : m.type \notin {"Request", "Response"},
           NEW N, AddsDown(N), \A m \in N : m.type # "Request",
           \A m \in N : \A i, a \in 1 .. MaxRequests :
                 m.type = "Response" /\ Carries(m, i, a) => Issued(i, a),
           \A m \in N : m.type = "LoginSuccess" => m.token <= logins'
    PROVE  ClientInv'
<1>1. PromisesOK' /\ NoAnswerIsMistaken'
  BY DEF ClientInv, PromisesOK, NoAnswerIsMistaken, promises
<1>2. OneAskPerId'
  <2>1. \A m \in M \cup N : \A i, a \in 1 .. MaxRequests : Carries(m, i, a) => Issued(i, a)
    BY DEF Carries
  <2>. QED BY <2>1, NoIdIssued DEF ClientInv, promises
<1>3. TokensIssued'
  BY NoTokenInvented DEF ClientInv
<1>4. Queues'
  BY DEF AddsUp, AddsDown, Queues
<1>. QED BY <1>1, <1>2, <1>3, <1>4 DEF ClientInv

(* close() of a socket.                                                    *)
LEMMA ClosedIsState ==
    ASSUME HookOK, NEW s \in Sockets
    PROVE  /\ Closed(s) \in
                [Sockets -> {"none", "connecting", "open", "closing", "closed"}]
           /\ Closed(s)[ws] # "none"
BY DEF HookOK, Closed

(* A new connection is the current one.                                    *)
LEMMA ConnectKeeps ==
    ASSUME HookOK, NEW r, Connect(r),
           r \in [Sockets -> {"none", "connecting", "open", "closing", "closed"}],
           stored' \in 0 .. logins
    PROVE  HookOK'
<1>1. ws + 1 \in Sockets
  BY BoundsAssumption DEF HookOK, Connect, Sockets
<1>. QED BY <1>1 DEF HookOK, Connect, server

(* Where the old one is closed, if there is one.                           *)
LEMMA CloseCurrentIsState ==
    ASSUME HookOK
    PROVE  CloseCurrent \in [Sockets -> {"none", "connecting", "open", "closing", "closed"}]
BY ClosedIsState DEF HookOK, CloseCurrent

(* What went wrong is bounded.                                             *)
LEMMA GoesKeeps ==
    ASSUME HookOK, NEW well, Goes(well)
    PROVE  trouble' \in 0 .. MaxTrouble
BY BoundsAssumption DEF HookOK, Goes

-----------------------------------------------------------------------------
(* The steps of the user and of the connection.                            *)

(* A message to the socket wsRef, if there is one.                         *)
LEMMA SendRawAdds ==
    ASSUME HookOK, Queues, NEW m \in ToServer, up' = SendRaw(m)
    PROVE  AddsUp({m})
<1>1. CASE wsRef = NoSocket
  <2>1. AddsUp({})
    BY <1>1, NothingAdded DEF SendRaw
  <2>. QED BY <2>1 DEF AddsUp
<1>2. CASE wsRef # NoSocket
  <2>1. wsRef \in Sockets /\ (state[wsRef] = "open") \in BOOLEAN
    BY <1>2 DEF HookOK
  <2>. QED BY <1>2, <2>1, SentAdds DEF SendRaw, Sent
<1>. QED BY <1>1, <1>2

(* Reconnect and logout make a new connection.                             *)
LEMMA NewConnectionKeeps ==
    ASSUME ClientInv, Reconnect \/ DoLogout
    PROVE  ClientInv'
<1>1. HookOK'
  <2>1. Connect(CloseCurrent) /\ stored' \in {stored, NoToken}
    BY DEF Reconnect, DoLogout
  <2>2. stored' \in 0 .. logins
    BY <2>1 DEF ClientInv, HookOK, NoToken
  <2>. QED BY <2>1, <2>2, ConnectKeeps, CloseCurrentIsState DEF ClientInv
<1>2. AddsUp({Logout})
  <2>1. CASE Reconnect
    <3>1. AddsUp({})
      BY <2>1, NothingAdded DEF Reconnect, ClientInv
    <3>. QED BY <3>1 DEF AddsUp
  <2>2. CASE DoLogout
    <3>1. Logout \in ToServer
      BY DEF ToServer
    <3>. QED BY <2>2, <3>1, SendRawAdds DEF DoLogout, ClientInv
  <2>. QED BY <2>1, <2>2
<1>3. Connect(CloseCurrent)
  BY DEF Reconnect, DoLogout
<1>4. AddsDown({}) /\ UNCHANGED <<promises, nextId>> /\ logins' = logins /\ logins <= logins'
  BY <1>3, NothingAdded DEF Connect, server, ClientInv, HookOK
<1>5. Logout.type = "Logout"
  BY DEF Logout
<1>. QED BY <1>1, <1>2, <1>4, <1>5, QuietKeeps

(* The login form.                                                         *)
LEMMA LoginKeeps ==
    ASSUME ClientInv, NEW right \in BOOLEAN, Login(right)
    PROVE  ClientInv'
<1>. DEFINE m == [type |-> "Login", right |-> right]
<1>1. HookOK'
  <2>1. trouble' \in 0 .. MaxTrouble
    BY GoesKeeps DEF Login, ClientInv
  <2>. QED BY <2>1 DEF Login, ClientInv, HookOK, server, hook
<1>2. AddsUp({m})
  <2>1. m \in ToServer
    BY DEF ToServer
  <2>2. wsRef \in Sockets /\ (state[wsRef] = "open") \in BOOLEAN
    BY DEF Login, ClientInv, HookOK
  <2>. QED BY <2>1, <2>2, SentAdds DEF Login, Sent, ClientInv
<1>3. AddsDown({})
  BY NothingAdded DEF Login, ClientInv
<1>4. UNCHANGED <<promises, nextId>> /\ logins <= logins'
  BY DEF Login, hook, server, ClientInv, HookOK
<1>. QED BY <1>1, <1>2, <1>3, <1>4, QuietKeeps

(* onopen sends Hello to the last socket made.                             *)
LEMMA OpensKeeps ==
    ASSUME ClientInv, NEW s \in Sockets, Opens(s)
    PROVE  ClientInv'
<1>1. HookOK'
  BY DEF Opens, ClientInv, HookOK
<1>2. AddsUp({Hello})
  <2>1. Hello \in ToServer /\ ws \in Sockets /\ (state'[ws] = "open") \in BOOLEAN
    BY DEF ToServer, ClientInv, HookOK
  <2>. QED BY <2>1, SentAdds DEF Opens, ClientInv
<1>3. AddsDown({})
  BY NothingAdded DEF Opens, ClientInv
<1>4. UNCHANGED <<promises, nextId>> /\ logins <= logins' /\ Hello.type = "Hello"
  BY DEF Opens, ClientInv, HookOK, Hello
<1>. QED BY <1>1, <1>2, <1>3, <1>4, QuietKeeps

(* The steps that only lose what was on its way, or send nothing.          *)
LEMMA LosingKeeps ==
    ASSUME ClientInv, Timeout \/ (\E s \in Sockets : Drop(s) \/ HandlerEnds(s))
                              \/ (\E t \in Tokens : Revoke(t))
    PROVE  ClientInv'
<1>1. HookOK'
  <2>1. CASE Timeout
    BY <2>1, ClosedIsState DEF Timeout, ClientInv, HookOK, server
  <2>2. ASSUME NEW s \in Sockets, Drop(s)
        PROVE  HookOK'
    BY <2>2, ClosedIsState, GoesKeeps DEF Drop, ClientInv, HookOK, server, hook
  <2>3. ASSUME NEW s \in Sockets, HandlerEnds(s)
        PROVE  HookOK'
    BY <2>3, GoesKeeps DEF HandlerEnds, Phase, ClientInv, HookOK, hook
  <2>4. ASSUME NEW t \in Tokens, Revoke(t)
        PROVE  HookOK'
    BY <2>4, GoesKeeps DEF Revoke, ClientInv, HookOK, hook, network
  <2>. QED BY <2>1, <2>2, <2>3, <2>4
<1>2. AddsUp({}) /\ AddsDown({})
  BY NothingAdded DEF Timeout, Drop, HandlerEnds, Revoke, ClientInv, network
<1>3. UNCHANGED <<promises, nextId>> /\ UNCHANGED logins
  BY DEF Timeout, Drop, HandlerEnds, Revoke, hook, server
<1>4. logins <= logins'
  BY <1>3 DEF ClientInv, HookOK
<1>. QED BY <1>1, <1>2, <1>3, <1>4, QuietKeeps

-----------------------------------------------------------------------------
(* What the browser receives.                                              *)

(* Messages that change the screen, and what it answers to one of them.    *)
LEMMA ReceiveForScreenKeeps ==
    ASSUME ClientInv, NEW s \in Sockets,
           \/ ReceiveVersionError(s) \/ ReceiveAuthRequired(s)
           \/ ReceiveLoginSuccess(s) \/ ReceiveLoginFailed(s)
    PROVE  ClientInv'
<1>. DEFINE token == [type |-> "Authenticate", token |-> stored]
<1>1. Deliver(s)
  BY DEF ReceiveVersionError, ReceiveAuthRequired, ReceiveLoginSuccess, ReceiveLoginFailed,
         Receives
<1>2. AddsDown({}) /\ Head(down[s]) \in In(down[s]) /\ Head(down[s]) \in ToClient
  BY <1>1, DeliversOne DEF ClientInv
<1>3. HookOK'
  <2>1. CASE ReceiveVersionError(s)
    BY <2>1, ClosedIsState DEF ReceiveVersionError, Receives, Deliver, ClientInv, HookOK, server
  <2>2. CASE ReceiveAuthRequired(s)
    BY <2>2 DEF ReceiveAuthRequired, Receives, Deliver, ClientInv, HookOK, server
  <2>3. CASE ReceiveLoginSuccess(s)
    <3>1. Head(down[s]).type = "LoginSuccess"
      BY <2>3 DEF ReceiveLoginSuccess, Receives
    <3>2. Head(down[s]).token <= logins
      BY <1>2, <3>1 DEF ClientInv, TokensIssued
    <3>3. Head(down[s]).token \in Tokens
      BY <1>2, <3>1 DEF ToClient
    <3>4. Head(down[s]).token \in 0 .. logins
      BY <3>2, <3>3, BoundsAssumption DEF Tokens, ClientInv, HookOK
    <3>. QED BY <2>3, <3>4
             DEF ReceiveLoginSuccess, Receives, Deliver, ClientInv, HookOK, server
  <2>4. CASE ReceiveLoginFailed(s)
    <3>1. NoToken \in 0 .. logins
      BY BoundsAssumption DEF ClientInv, HookOK, NoToken
    <3>. QED BY <2>4, <3>1
             DEF ReceiveLoginFailed, Receives, Deliver, ClientInv, HookOK, server
  <2>. QED BY <2>1, <2>2, <2>3, <2>4
<1>4. AddsUp({}) \/ AddsUp({token})
  <2>1. CASE UNCHANGED up
    BY <2>1, NothingAdded DEF ClientInv
  <2>2. CASE ReceiveAuthRequired(s) /\ stored # NoToken
    <3>1. token \in ToServer
      BY <2>2, BoundsAssumption DEF ToServer, Tokens, NoToken, ClientInv, HookOK
    <3>2. ws \in Sockets /\ (state[ws] = "open") \in BOOLEAN
      BY DEF ClientInv, HookOK
    <3>. QED BY <2>2, <3>1, <3>2, SentAdds DEF ReceiveAuthRequired, Sent, ClientInv
  <2>. QED BY <2>1, <2>2 DEF ReceiveVersionError, ReceiveAuthRequired, ReceiveLoginSuccess,
                             ReceiveLoginFailed
<1>5. UNCHANGED <<promises, nextId>> /\ UNCHANGED logins
  BY <1>1 DEF ReceiveVersionError, ReceiveAuthRequired, ReceiveLoginSuccess,
              ReceiveLoginFailed, Deliver, server
<1>6. logins <= logins'
  BY <1>5 DEF ClientInv, HookOK
<1>7. CASE AddsUp({})
  BY <1>2, <1>3, <1>5, <1>6, <1>7, QuietKeeps
<1>8. CASE AddsUp({token})
  BY <1>2, <1>3, <1>5, <1>6, <1>8, QuietKeeps
<1>. QED BY <1>4, <1>7, <1>8

(* Where nothing is sent the queues stay right, and the tokens with them.  *)
LEMMA SilenceKeeps ==
    ASSUME ClientInv, HookOK', AddsUp({}), AddsDown({}), UNCHANGED logins,
           pending' \subseteq pending, UNCHANGED <<nextId, asked>>
    PROVE  Queues' /\ TokensIssued' /\ OneAskPerId'
<1>1. logins <= logins'
  BY DEF ClientInv, HookOK
<1>2. TokensIssued'
  BY <1>1, NoTokenInvented DEF ClientInv
<1>3. OneAskPerId'
  BY NoIdIssued DEF ClientInv
<1>. QED BY <1>2, <1>3 DEF Queues, AddsUp, AddsDown

(* A plan state uncounts one of the own ones.                              *)
LEMMA ReceivePlanKeeps ==
    ASSUME ClientInv, NEW s \in Sockets, ReceivePlan(s)
    PROVE  ClientInv'
<1>1. Deliver(s)
  BY DEF ReceivePlan, Receives
<1>2. AddsDown({}) /\ AddsUp({})
  BY <1>1, DeliversOne, NothingAdded DEF ClientInv, ReceivePlan
<1>3. HookOK'
  BY <1>1 DEF ReceivePlan, Deliver, ClientInv, HookOK, server
<1>4. PromisesOK'
  <2>1. /\ IsFiniteSet(pending) /\ own \in Nat /\ own + Cardinality(pending) <= asked
        /\ asked \in Nat /\ own' \in {own, own - 1} /\ own' \in Nat
    BY BoundsAssumption DEF ReceivePlan, ClientInv, PromisesOK
  <2>2. Cardinality(pending) \in Nat
    BY <2>1, FS_CardinalityType
  <2>3. own' + Cardinality(pending) <= asked
    BY <2>1, <2>2
  <2>. QED BY <1>1, <2>1, <2>3 DEF ReceivePlan, Deliver, ClientInv, PromisesOK
<1>5. Queues' /\ TokensIssued' /\ OneAskPerId'
  BY <1>1, <1>2, <1>3, SilenceKeeps DEF ReceivePlan, Deliver, server
<1>6. NoAnswerIsMistaken'
  BY DEF ReceivePlan, ClientInv, NoAnswerIsMistaken
<1>. QED BY <1>3, <1>4, <1>5, <1>6 DEF ClientInv

(* The end of a connection rejects all that wait.                          *)
LEMMA CloseEventKeeps ==
    ASSUME ClientInv, NEW s \in Sockets, CloseEvent(s)
    PROVE  ClientInv'
<1>1. HookOK'
  BY DEF CloseEvent, ClientInv, HookOK, server
<1>2. AddsDown({}) /\ AddsUp({})
  BY NothingAdded DEF ClientInv, CloseEvent
<1>3. PromisesOK'
  <2>1. /\ own \in Nat /\ asked \in Nat /\ IsFiniteSet(pending)
        /\ own + Cardinality(pending) <= asked
    BY BoundsAssumption DEF ClientInv, PromisesOK
  <2>2. Cardinality(pending) \in Nat
    BY <2>1, FS_CardinalityType
  <2>3. IsFiniteSet({}) /\ Cardinality({}) = 0
    BY FS_EmptySet
  <2>4. RejectAll \subseteq 1 .. asked
    BY DEF RejectAll, ClientInv, PromisesOK
  <2>5. own + Cardinality(pending') <= asked
    BY <2>1, <2>2, <2>3 DEF CloseEvent
  <2>. QED BY <2>3, <2>4, <2>5 DEF CloseEvent, ClientInv, PromisesOK
<1>4. Queues' /\ TokensIssued' /\ OneAskPerId'
  BY <1>1, <1>2, SilenceKeeps DEF CloseEvent, server
<1>5. NoAnswerIsMistaken'
  BY DEF CloseEvent, ClientInv, NoAnswerIsMistaken
<1>. QED BY <1>1, <1>3, <1>4, <1>5 DEF ClientInv

(* An answer settles the promise with its id, which is the one it is for.  *)
LEMMA ReceiveResponseKeeps ==
    ASSUME ClientInv, NEW s \in Sockets, ReceiveResponse(s)
    PROVE  ClientInv'
<1>. DEFINE m == Head(down[s])
            mine == {p \in pending : p.id = m.id}
<1>1. Deliver(s) /\ m.type = "Response"
  BY DEF ReceiveResponse, Receives
<1>2. AddsDown({}) /\ AddsUp({}) /\ m \in In(down[s]) /\ m \in ToClient
  BY <1>1, DeliversOne, NothingAdded DEF ClientInv, ReceiveResponse
<1>3. m.id \in 1 .. MaxRequests /\ m.ask \in 1 .. MaxRequests
  BY <1>1, <1>2 DEF ToClient
<1>4. Issued(m.id, m.ask)
  BY <1>1, <1>2 DEF Issued, Carries
<1>5. HookOK'
  BY <1>1 DEF ReceiveResponse, Deliver, ClientInv, HookOK, server
<1>6. /\ pending' = pending \ mine
      /\ settled' = settled \cup {p.ask : p \in mine}
      /\ answers' = answers \cup {[to |-> p.ask, of |-> m.ask] : p \in mine}
      /\ own' \in {own, own + 1} /\ (mine = {} => own' = own)
      /\ UNCHANGED <<nextId, asked, logins>>
  BY <1>1 DEF ReceiveResponse, Deliver, server
<1>7. ASSUME NEW p \in mine
      PROVE  p.ask = m.ask /\ p.ask \in 1 .. asked
  <2>1. p \in [id : 1 .. nextId - 1, ask : 1 .. asked] /\ p = [id |-> p.id, ask |-> p.ask]
    BY DEF ClientInv, PromisesOK
  <2>2. p.id = m.id /\ p.id \in 1 .. MaxRequests /\ p.ask \in 1 .. MaxRequests
    BY <1>3, <2>1, BoundsAssumption DEF ClientInv, PromisesOK
  <2>3. Issued(p.id, p.ask)
    BY <2>1 DEF Issued
  <2>. QED BY <1>3, <1>4, <2>1, <2>2, <2>3 DEF ClientInv, OneAskPerId
<1>. HIDE DEF m
<1>8. PromisesOK'
  <2>1. /\ IsFiniteSet(pending) /\ own \in Nat /\ own + Cardinality(pending) <= asked
        /\ asked \in Nat /\ nextId \in Nat
    BY BoundsAssumption DEF ClientInv, PromisesOK
  <2>2. IsFiniteSet(pending') /\ Cardinality(pending') \in Nat
        /\ own' + Cardinality(pending') <= asked
    <3>1. CASE mine = {}
      BY <1>6, <2>1, <3>1, FS_CardinalityType
    <3>2. CASE mine # {}
      <4>1. PICK p \in mine : TRUE
        BY <3>2
      <4>2. p \in pending /\ pending' \subseteq pending \ {p}
        BY <1>6
      <4>3. IsFiniteSet(pending \ {p}) /\ Cardinality(pending \ {p}) = Cardinality(pending) - 1
        BY <2>1, <4>2, FS_RemoveElement
      <4>4. IsFiniteSet(pending') /\ Cardinality(pending') <= Cardinality(pending \ {p})
        BY <4>2, <4>3, FS_Subset
      <4>5. Cardinality(pending) \in Nat /\ Cardinality(pending') \in Nat
        BY <2>1, <4>4, FS_CardinalityType
      <4>. QED BY <1>6, <2>1, <4>3, <4>4, <4>5
    <3>. QED BY <3>1, <3>2
  <2>3. own' \in Nat
    BY <1>6, <2>1
  <2>4. settled' \subseteq 1 .. asked
    BY <1>6, <1>7 DEF ClientInv, PromisesOK
  <2>5. answers' \subseteq [to : 1 .. asked, of : 1 .. asked]
    BY <1>6, <1>7 DEF ClientInv, PromisesOK
  <2>6. pending' \subseteq [id : 1 .. nextId - 1, ask : 1 .. asked]
    BY <1>6 DEF ClientInv, PromisesOK
  <2>. QED BY <1>6, <2>2, <2>3, <2>4, <2>5, <2>6 DEF ClientInv, PromisesOK
<1>9. Queues' /\ TokensIssued' /\ OneAskPerId'
  <2>1. pending' \subseteq pending
    BY <1>6
  <2>. QED BY <1>2, <1>5, <1>6, <2>1, SilenceKeeps
<1>10. NoAnswerIsMistaken'
  BY <1>6, <1>7 DEF ClientInv, NoAnswerIsMistaken
<1>. QED BY <1>5, <1>8, <1>9, <1>10 DEF ClientInv

-----------------------------------------------------------------------------
(* A request that is sent gets an id no other one has ever had; one that   *)
(* cannot be sent is rejected at once.                                     *)
LEMMA SendRequestKeeps ==
    ASSUME ClientInv, NEW kind \in Asks, SendRequest(kind)
    PROVE  ClientInv'
<1>. DEFINE m == [type |-> "Request", id |-> nextId, ask |-> asked + 1, kind |-> kind]
            slip == [id |-> nextId, ask |-> asked + 1]
<1>1. HookOK' /\ UNCHANGED logins
  BY DEF SendRequest, ClientInv, HookOK, server
<1>2. AddsDown({})
  BY NothingAdded DEF ClientInv, SendRequest
<1>3. /\ asked \in Nat /\ MaxRequests \in Nat /\ asked + 1 \in 1 .. MaxRequests
      /\ asked' = asked + 1 /\ nextId \in 1 .. asked + 1 /\ nextId \in 1 .. MaxRequests
      /\ UNCHANGED <<own, answers>>
  BY BoundsAssumption DEF SendRequest, ClientInv, PromisesOK
<1>4. /\ IsFiniteSet(pending) /\ Cardinality(pending) \in Nat
      /\ own \in Nat /\ own + Cardinality(pending) <= asked
  BY FS_CardinalityType DEF ClientInv, PromisesOK
<1>5. NoAnswerIsMistaken'
  BY <1>3 DEF ClientInv, NoAnswerIsMistaken
<1>6. logins <= logins'
  BY <1>1 DEF ClientInv, HookOK
<1>7. TokensIssued'
  BY <1>1, <1>2, <1>6, NoTokenInvented DEF ClientInv
<1>8. CASE wsRef = NoSocket \/ state[wsRef] # "open"
  <2>1. settled' = settled \cup {asked + 1} /\ UNCHANGED <<up, pending, nextId>>
    BY <1>8 DEF SendRequest
  <2>2. PromisesOK'
    BY <1>3, <1>4, <2>1 DEF ClientInv, PromisesOK
  <2>3. UNCHANGED down
    BY DEF SendRequest
  <2>4. ASSUME NEW i \in 1 .. MaxRequests, NEW a \in 1 .. MaxRequests
        PROVE  Issued(i, a)' <=> Issued(i, a)
    BY <2>1, <2>3 DEF Issued
  <2>5. OneAskPerId'
    BY <1>3, <2>1, <2>4 DEF ClientInv, OneAskPerId
  <2>6. Queues'
    BY <2>1, <2>3 DEF ClientInv, Queues
  <2>. QED BY <1>1, <1>5, <1>7, <2>2, <2>5, <2>6 DEF ClientInv
<1>9. CASE ~ (wsRef = NoSocket \/ state[wsRef] # "open")
  <2>1. /\ nextId' = nextId + 1 /\ UNCHANGED settled /\ up' = SendRaw(m)
        /\ pending' = {p \in pending : p.id # nextId} \cup {slip}
    BY <1>9 DEF SendRequest
  <2>2. AddsUp({m})
    <3>1. m \in ToServer
      BY <1>3, BoundsAssumption DEF ToServer
    <3>. QED BY <2>1, <3>1, SendRawAdds DEF ClientInv
  <2>3. slip.id = nextId /\ slip.ask = asked + 1 /\ m.id = nextId /\ m.ask = asked + 1
    OBVIOUS
  <2>4. pending' \subseteq pending \cup {slip}
    BY <2>1
  <2>5. PromisesOK'
    <3>1. /\ IsFiniteSet(pending \cup {slip})
          /\ Cardinality(pending \cup {slip}) <= Cardinality(pending) + 1
          /\ Cardinality(pending \cup {slip}) \in Nat
      <4>. HIDE DEF slip
      <4>1. /\ IsFiniteSet(pending \cup {slip})
            /\ \/ Cardinality(pending \cup {slip}) = Cardinality(pending)
               \/ Cardinality(pending \cup {slip}) = Cardinality(pending) + 1
        BY <1>4, FS_AddElement
      <4>. QED BY <1>4, <4>1
    <3>2. /\ IsFiniteSet(pending') /\ Cardinality(pending') \in Nat
          /\ Cardinality(pending') <= Cardinality(pending \cup {slip})
      BY <2>4, <3>1, FS_Subset, FS_CardinalityType
    <3>3. own' + Cardinality(pending') <= asked'
      BY <1>3, <1>4, <3>1, <3>2
    <3>4. pending' \subseteq [id : 1 .. nextId' - 1, ask : 1 .. asked']
      <4>1. slip \in [id : 1 .. nextId' - 1, ask : 1 .. asked']
        BY <1>3, <2>1
      <4>2. pending \subseteq [id : 1 .. nextId' - 1, ask : 1 .. asked']
        BY <1>3, <2>1 DEF ClientInv, PromisesOK
      <4>. QED BY <2>4, <4>1, <4>2
    <3>. HIDE DEF slip
    <3>5. settled' \subseteq 1 .. asked' /\ answers' \subseteq [to : 1 .. asked', of : 1 .. asked']
      BY <1>3, <2>1 DEF ClientInv, PromisesOK
    <3>6. asked' \in 0 .. MaxRequests /\ nextId' \in 1 .. asked' + 1 /\ own' \in Nat
      BY <1>3, <1>4, <2>1
    <3>. QED BY <3>2, <3>3, <3>4, <3>5, <3>6 DEF PromisesOK
  <2>6. ASSUME NEW i \in 1 .. MaxRequests, NEW a \in 1 .. MaxRequests, Issued(i, a)'
        PROVE  Issued(i, a) \/ (i = nextId /\ a = asked + 1)
    <3>1. CASE [id |-> i, ask |-> a] \in pending'
      BY <2>4, <3>1 DEF Issued
    <3>2. CASE \E s \in Sockets : \E n \in In(up'[s]) \cup In(down'[s]) : Carries(n, i, a)
      <4>1. PICK s \in Sockets : \E n \in In(up'[s]) \cup In(down'[s]) : Carries(n, i, a)
        BY <3>2
      <4>2. PICK n \in In(up'[s]) \cup In(down'[s]) : Carries(n, i, a)
        BY <4>1
      <4>3. n \in In(up[s]) \cup In(down[s]) \cup {m}
        BY <1>2, <2>2, <4>2 DEF AddsUp, AddsDown
      <4>. QED BY <2>3, <4>2, <4>3 DEF Issued, Carries
    <3>. QED BY <2>6, <3>1, <3>2 DEF Issued, Carries, In
  <2>7. OneAskPerId'
    <3>. SUFFICES ASSUME NEW i \in 1 .. MaxRequests, NEW a \in 1 .. MaxRequests, Issued(i, a)'
                  PROVE  /\ i < nextId' /\ a <= asked'
                         /\ \A b \in 1 .. MaxRequests : Issued(i, b)' => a = b
      BY DEF OneAskPerId
    <3>1. Issued(i, a) => i < nextId /\ a <= asked
      BY DEF ClientInv, OneAskPerId
    <3>2. i < nextId' /\ a <= asked'
      BY <1>3, <2>1, <2>6, <3>1
    <3>3. ASSUME NEW b \in 1 .. MaxRequests, Issued(i, b)'
          PROVE  a = b
      <4>1. Issued(i, b) => i < nextId
        BY DEF ClientInv, OneAskPerId
      <4>2. Issued(i, a) /\ Issued(i, b) => a = b
        BY DEF ClientInv, OneAskPerId
      <4>3. ~ (i < i)
        OBVIOUS
      <4>. QED BY <2>6, <3>1, <3>3, <4>1, <4>2, <4>3
    <3>. QED BY <3>2, <3>3
  <2>8. Queues'
    BY <1>2, <2>2 DEF AddsUp, AddsDown, Queues
  <2>. QED BY <1>1, <1>5, <1>7, <2>5, <2>7, <2>8 DEF ClientInv
<1>. QED BY <1>8, <1>9

-----------------------------------------------------------------------------
(* The handlers at the other end.                                          *)

(* One message more on its way to the browser, which is no answer and, if  *)
(* it tells of a token, of one that was given out.                         *)
LEMMA TellKeeps ==
    ASSUME ClientInv, HookOK', UNCHANGED <<promises, nextId>>, logins <= logins',
           AddsUp({}), NEW s \in Sockets, NEW m \in ToClient, Put(s, <<m>>),
           m.type \notin {"Request", "Response"}, m.type = "LoginSuccess" => m.token <= logins'
    PROVE  ClientInv'
<1>1. <<m>> \in Seq(ToClient) /\ In(<<m>>) = {m}
  BY InFew
<1>2. AddsDown({m})
  BY <1>1, PutAdds DEF ClientInv
<1>. QED BY <1>2, QuietKeeps

(* A step that sends nothing.                                              *)
LEMMA TellNothingKeeps ==
    ASSUME ClientInv, HookOK', UNCHANGED <<promises, nextId>>, logins <= logins',
           AddsUp({}), UNCHANGED down
    PROVE  ClientInv'
<1>1. AddsDown({})
  BY NothingAdded DEF ClientInv
<1>. QED BY <1>1, QuietKeeps

(* Messages without a payload, and plan states, are messages.              *)
LEMMA Messages ==
    /\ \A type \in {"AuthRequired", "VersionError", "LoginFailed", "NoPlanActive"} :
          Just(type) \in ToClient /\ Just(type).type = type
    /\ \A cause \in {"own", "other", "first"} :
          PlanState(cause) \in ToClient /\ PlanState(cause).type = "PlanState"
BY DEF Just, PlanState, ToClient

(* A handler goes through its phases, and the hook is left alone.          *)
LEMMA PhaseKeeps ==
    ASSUME HookOK, NEW s \in Sockets,
           NEW phase \in {"hello", "auth", "greet", "ready", "owes", "gone"},
           Phase(s, phase), UNCHANGED <<state, hook>>,
           session' \in [Sockets -> Tokens \cup {NoToken}],
           rows' \subseteq 1 .. logins', logins' \in logins .. MaxLogins,
           trouble' \in 0 .. MaxTrouble
    PROVE  HookOK'
<1>1. handler' \in [Sockets -> {"none", "hello", "auth", "greet", "ready", "owes", "gone"}]
  BY DEF HookOK, Phase
<1>2. stored' \in 0 .. logins' /\ logins' \in 0 .. MaxLogins
  BY BoundsAssumption DEF HookOK, hook
<1>. QED BY <1>1, <1>2 DEF HookOK, hook

(* The handshake.                                                          *)
LEMMA HandshakeKeeps ==
    ASSUME ClientInv, NEW s \in Sockets, Handshake(s)
    PROVE  ClientInv'
<1>1. Takes(s, "hello") /\ UNCHANGED <<session, rows, logins>>
  BY DEF Handshake
<1>2. AddsUp({}) /\ UNCHANGED <<promises, nextId>> /\ UNCHANGED <<state, hook>>
  BY <1>1, TakesOne DEF ClientInv, Takes, hook
<1>3. logins <= logins' /\ logins' \in logins .. MaxLogins
  BY <1>1, BoundsAssumption DEF ClientInv, HookOK
<1>4. trouble' \in 0 .. MaxTrouble
  <2>1. UNCHANGED trouble \/ Goes(TRUE) \/ Goes(FALSE)
    BY DEF Handshake
  <2>. QED BY <2>1, GoesKeeps DEF ClientInv, HookOK
<1>5. HookOK'
  <2>1. Phase(s, "auth") \/ Phase(s, "gone")
    BY DEF Handshake
  <2>. QED BY <1>1, <1>2, <1>3, <1>4, <2>1, PhaseKeeps DEF ClientInv, HookOK
<1>6. CASE UNCHANGED down
  BY <1>2, <1>3, <1>5, <1>6, TellNothingKeeps
<1>7. ASSUME NEW type \in {"AuthRequired", "VersionError"}, Put(s, <<Just(type)>>)
      PROVE  ClientInv'
  <2>1. Just(type) \in ToClient /\ Just(type).type = type
    BY Messages
  <2>. QED BY <1>2, <1>3, <1>5, <1>7, <2>1, TellKeeps
<1>. QED BY <1>6, <1>7 DEF Handshake

(* A login or a token: the session gets a token that was given out.        *)
LEMMA EntersKeeps ==
    ASSUME ClientInv, NEW s \in Sockets, NEW t \in 1 .. logins', Enters(s, t),
           UNCHANGED <<state, hook, promises, trouble>>, AddsUp({}),
           rows' \subseteq 1 .. logins', logins' \in logins .. MaxLogins
    PROVE  ClientInv'
<1>. DEFINE m == [type |-> "LoginSuccess", token |-> t]
<1>1. t \in Tokens /\ t <= logins' /\ logins <= logins'
  BY BoundsAssumption DEF Tokens, ClientInv, HookOK
<1>2. session' \in [Sockets -> Tokens \cup {NoToken}]
  BY <1>1 DEF Enters, ClientInv, HookOK
<1>3. HookOK'
  BY <1>2, PhaseKeeps DEF Enters, ClientInv, HookOK
<1>4. m \in ToClient
  BY <1>1 DEF ToClient
<1>. QED BY <1>1, <1>3, <1>4, TellKeeps DEF Enters, hook

(* Wrong passwords, unknown tokens and what is ignored leave all as it is. *)
LEMMA AuthenticationKeeps ==
    ASSUME ClientInv, NEW s \in Sockets, Authentication(s)
    PROVE  ClientInv'
<1>. DEFINE m == Head(up[s])
<1>1. Takes(s, "auth") /\ UNCHANGED trouble
  BY DEF Authentication
<1>2. AddsUp({}) /\ UNCHANGED <<promises, nextId>> /\ UNCHANGED <<state, hook, promises, trouble>>
  BY <1>1, TakesOne DEF ClientInv, Takes, hook
<1>3. logins \in Nat /\ MaxLogins \in Nat /\ logins <= MaxLogins /\ rows \subseteq 1 .. logins
  BY BoundsAssumption DEF ClientInv, HookOK
<1>4. CASE logins < MaxLogins /\ logins' = logins + 1 /\ rows' = rows \cup {logins + 1}
           /\ Enters(s, logins + 1)
  <2>1. logins + 1 \in 1 .. logins' /\ logins' \in logins .. MaxLogins
    BY <1>3, <1>4
  <2>2. rows' \subseteq 1 .. logins'
    BY <1>3, <1>4
  <2>. QED BY <1>2, <1>4, <2>1, <2>2, EntersKeeps
<1>5. CASE m.token \in rows /\ Enters(s, m.token) /\ UNCHANGED <<rows, logins>>
  <2>1. m.token \in 1 .. logins' /\ rows' \subseteq 1 .. logins'
    BY <1>3, <1>5
  <2>2. logins' \in logins .. MaxLogins
    BY <1>3, <1>5
  <2>. QED BY <1>2, <1>5, <2>1, <2>2, EntersKeeps
<1>6. ASSUME UNCHANGED <<handler, session, rows, logins>>
      PROVE  HookOK' /\ logins <= logins'
  BY <1>2, <1>6 DEF ClientInv, HookOK, hook
<1>7. CASE /\ Put(s, <<Just("LoginFailed")>>)
           /\ UNCHANGED <<handler, session, rows, logins>>
  BY <1>2, <1>6, <1>7, Messages, TellKeeps
<1>8. CASE /\ Put(s, <<Just("LoginFailed"), Just("AuthRequired")>>)
           /\ UNCHANGED <<handler, session, rows, logins>>
  <2>. DEFINE a == Just("LoginFailed")
              b == Just("AuthRequired")
  <2>1. a \in ToClient /\ b \in ToClient /\ a.type = "LoginFailed" /\ b.type = "AuthRequired"
    BY Messages
  <2>. HIDE DEF a, b
  <2>2. <<a, b>> \in Seq(ToClient) /\ In(<<a, b>>) = {a, b}
    BY <2>1, InFew, ZenonT(40)
  <2>3. AddsDown({a, b})
    BY <1>8, <2>2, PutAdds DEF ClientInv, a, b
  <2>. QED BY <1>2, <1>6, <1>8, <2>1, <2>3, QuietKeeps
<1>9. CASE UNCHANGED <<down, handler, session, rows, logins>>
  BY <1>2, <1>6, <1>9, TellNothingKeeps
<1>. QED BY <1>4, <1>5, <1>7, <1>8, <1>9 DEF Authentication

(* The first plan state, and the one that follows an edit.                 *)
LEMMA TellingThePlanKeeps ==
    ASSUME ClientInv, NEW s \in Sockets, Greet(s) \/ SendOwnPlan(s)
    PROVE  ClientInv'
<1>1. /\ UNCHANGED <<promises, nextId>> /\ UNCHANGED <<state, hook, session, rows, logins>>
      /\ UNCHANGED up /\ UNCHANGED trouble /\ Phase(s, "ready")
  BY DEF Greet, SendOwnPlan, hook
<1>2. AddsUp({})
  BY <1>1, NothingAdded DEF ClientInv
<1>3. logins <= logins' /\ logins' \in logins .. MaxLogins
  BY <1>1, BoundsAssumption DEF ClientInv, HookOK
<1>4. HookOK'
  BY <1>1, <1>3, PhaseKeeps DEF ClientInv, HookOK
<1>5. PICK m \in {PlanState("first"), PlanState("own"), Just("NoPlanActive")} : Put(s, <<m>>)
  BY DEF Greet, SendOwnPlan
<1>6. m \in ToClient /\ m.type \in {"PlanState", "NoPlanActive"}
  BY Messages
<1>. QED BY <1>1, <1>2, <1>3, <1>4, <1>5, <1>6, TellKeeps

(* The answer to a request has its id, and is the answer of that request.  *)
LEMMA ServeKeeps ==
    ASSUME ClientInv, NEW s \in Sockets, Serve(s)
    PROVE  ClientInv'
<1>. DEFINE m == Head(up[s])
            r == [type |-> "Response", id |-> m.id, ask |-> m.ask, updated |-> m.kind # "Query"]
<1>1. Takes(s, "ready") /\ UNCHANGED <<trouble, session, logins>>
  BY DEF Serve
<1>2. /\ AddsUp({}) /\ UNCHANGED <<promises, nextId>> /\ UNCHANGED <<state, hook>>
      /\ m \in In(up[s]) /\ m \in ToServer
  BY <1>1, TakesOne DEF ClientInv, Takes, hook
<1>3. logins <= logins' /\ logins' \in logins .. MaxLogins
  BY <1>1, BoundsAssumption DEF ClientInv, HookOK
<1>4. HookOK'
  <2>1. rows' \subseteq rows
    BY DEF Serve
  <2>2. rows' \subseteq 1 .. logins'
    BY <1>1, <2>1 DEF ClientInv, HookOK
  <2>3. \/ \E phase \in {"owes", "ready", "gone"} : Phase(s, phase)
        \/ UNCHANGED handler
    BY DEF Serve
  <2>4. CASE UNCHANGED handler
    BY <1>1, <1>2, <2>2, <2>4 DEF ClientInv, HookOK, hook
  <2>. QED BY <1>1, <1>2, <1>3, <2>2, <2>3, <2>4, PhaseKeeps DEF ClientInv, HookOK
<1>5. CASE UNCHANGED down
  BY <1>2, <1>3, <1>4, <1>5, TellNothingKeeps
<1>6. CASE m.type = "Request" /\ Put(s, <<r>>)
  <2>1. m.id \in 1 .. MaxRequests /\ m.ask \in 1 .. MaxRequests /\ m.kind \in Kinds
    BY <1>2, <1>6 DEF ToServer, Hello, Logout
  <2>2. r \in ToClient
    <3>1. (m.kind # "Query") \in BOOLEAN
      OBVIOUS
    <3>. QED BY <2>1, <3>1 DEF ToClient
  <2>3. Issued(m.id, m.ask)
    BY <1>2, <1>6 DEF Issued, Carries
  <2>4. r.type = "Response" /\ r.id = m.id /\ r.ask = m.ask
    OBVIOUS
  <2>. HIDE DEF r
  <2>5. <<r>> \in Seq(ToClient) /\ In(<<r>>) = {r}
    BY <2>2, InFew
  <2>6. AddsDown({r})
    BY <1>6, <2>5, PutAdds DEF ClientInv
  <2>. HIDE DEF m
  <2>7. \A i, a \in 1 .. MaxRequests : Carries(r, i, a) => Issued(i, a)
    BY <2>3, <2>4 DEF Carries
  <2>. QED BY <1>2, <1>3, <1>4, <2>4, <2>6, <2>7, QuietKeeps
<1>. QED BY <1>5, <1>6 DEF Serve

(* A broadcast.                                                            *)
LEMMA BroadcastKeeps ==
    ASSUME ClientInv, Broadcast
    PROVE  ClientInv'
<1>. DEFINE m == PlanState("other")
<1>1. m \in ToClient /\ m.type = "PlanState"
  BY Messages
<1>. HIDE DEF m
<1>2. AddsDown({m})
  <2>1. \A s \in Sockets : /\ down[s] \in Seq(ToClient)
                           /\ Append(down[s], m) \in Seq(ToClient)
                           /\ In(Append(down[s], m)) \subseteq In(down[s]) \cup {m}
    BY <1>1, InAppend DEF ClientInv, Queues
  <2>2. down' \in [Sockets -> Seq(ToClient)]
        /\ \A s \in Sockets : down'[s] \in {down[s], Append(down[s], m)}
    BY <2>1 DEF Broadcast, m
  <2>. QED BY <2>1, <2>2 DEF AddsDown
<1>3. AddsUp({})
  BY NothingAdded DEF Broadcast, ClientInv
<1>4. HookOK' /\ logins <= logins' /\ UNCHANGED <<promises, nextId>>
  <2>1. trouble' \in 0 .. MaxTrouble
    BY GoesKeeps DEF Broadcast, ClientInv
  <2>2. UNCHANGED <<promises, nextId>> /\ UNCHANGED <<state, server, hook>>
    BY DEF Broadcast, hook
  <2>. QED BY <2>1, <2>2 DEF ClientInv, HookOK, hook, server
<1>. QED BY <1>1, <1>2, <1>3, <1>4, QuietKeeps

-----------------------------------------------------------------------------
(* The hook starts without promises, with empty queues.                    *)
LEMMA InitIsClientInv == Init => ClientInv
<1>. SUFFICES ASSUME Init PROVE ClientInv
  OBVIOUS
<1>1. \A S : <<>> \in Seq(S) /\ In(<<>>) = {}
  BY InEmpty
<1>2. HookOK
  <2>1. 1 \in Sockets
    BY BoundsAssumption DEF Sockets
  <2>2. 0 \in 0 .. MaxLogins /\ 0 \in 0 .. 0 /\ 0 \in 0 .. MaxTrouble
    BY BoundsAssumption
  <2>3. /\ state \in [Sockets -> {"none", "connecting", "open", "closing", "closed"}]
        /\ state[1] = "connecting" /\ session \in [Sockets -> {NoToken}]
    BY <2>1 DEF Init
  <2>4. stored = 0 /\ logins = 0 /\ rows = {}
    BY DEF Init, NoToken
  <2>. QED BY <2>1, <2>2, <2>3, <2>4 DEF Init, HookOK
<1>3. Queues /\ TokensIssued
  BY <1>1 DEF Init, Queues, TokensIssued
<1>4. PromisesOK
  <2>1. IsFiniteSet({}) /\ Cardinality({}) = 0
    BY FS_EmptySet
  <2>. QED BY <2>1, BoundsAssumption DEF Init, PromisesOK
<1>5. OneAskPerId
  BY <1>1 DEF Init, OneAskPerId, Issued
<1>6. NoAnswerIsMistaken
  BY DEF Init, NoAnswerIsMistaken
<1>. QED BY <1>2, <1>3, <1>4, <1>5, <1>6 DEF ClientInv

(* And every step of the browser, the network and the server keeps it.     *)
LEMMA StepKeepsClientInv == ClientInv /\ [Next]_vars => ClientInv'
<1>. SUFFICES ASSUME ClientInv, [Next]_vars PROVE ClientInv'
  OBVIOUS
<1>1. CASE UNCHANGED vars
  <2>1. /\ HookOK' /\ AddsUp({}) /\ AddsDown({}) /\ UNCHANGED <<promises, nextId>>
        /\ UNCHANGED logins
    BY <1>1, NothingAdded DEF vars, network, server, hook, ClientInv, HookOK
  <2>2. logins <= logins'
    BY <2>1 DEF ClientInv, HookOK
  <2>. QED BY <2>1, <2>2, QuietKeeps
<1>2. CASE User
  BY <1>2, NewConnectionKeeps, LoginKeeps, SendRequestKeeps DEF User
<1>3. CASE Timeout \/ Broadcast \/ (\E t \in Tokens : Revoke(t))
  BY <1>3, LosingKeeps, BroadcastKeeps
<1>4. ASSUME NEW s \in Sockets, Opens(s) \/ Drop(s) \/ CloseEvent(s) \/ HandlerEnds(s)
      PROVE  ClientInv'
  BY <1>4, OpensKeeps, LosingKeeps, CloseEventKeeps
<1>5. ASSUME NEW s \in Sockets, Receive(s)
      PROVE  ClientInv'
  BY <1>5, ReceiveForScreenKeeps, ReceivePlanKeeps, ReceiveResponseKeeps DEF Receive
<1>6. ASSUME NEW s \in Sockets, Handle(s)
      PROVE  ClientInv'
  BY <1>6, HandshakeKeeps, AuthenticationKeeps, TellingThePlanKeeps, ServeKeeps DEF Handle
<1>. QED BY <1>1, <1>2, <1>3, <1>4, <1>5, <1>6 DEF Next

(* So it always holds.                                                     *)
LEMMA AlwaysClientInv == Spec => []ClientInv
BY InitIsClientInv, StepKeepsClientInv, PTL DEF Spec

(* What was dropped was asked for.                                         *)
Dropped == unread \subseteq 1 .. asked

LEMMA StepKeepsDropped ==
    ASSUME ClientInv, Dropped, [Next]_vars
    PROVE  Dropped'
<1>1. asked \in Nat /\ MaxRequests \in Nat
  BY BoundsAssumption DEF ClientInv, PromisesOK
<1>2. CASE UNCHANGED unread /\ asked' \in {asked, asked + 1}
  BY <1>1, <1>2 DEF Dropped
<1>3. ASSUME NEW s \in Sockets, Serve(s)
      PROVE  Dropped'
  <2>. DEFINE m == Head(up[s])
  <2>1. Takes(s, "ready") /\ UNCHANGED asked
    BY <1>3 DEF Serve, Takes, promises
  <2>2. m \in In(up[s]) /\ m \in ToServer
    BY <2>1, TakesOne DEF ClientInv
  <2>3. UNCHANGED unread \/ (m.type = "Request" /\ unread' = unread \cup {m.ask})
    BY <1>3 DEF Serve
  <2>4. CASE m.type = "Request" /\ unread' = unread \cup {m.ask}
    <3>1. m.id \in 1 .. MaxRequests /\ m.ask \in 1 .. MaxRequests
      BY <2>2, <2>4 DEF ToServer, Hello, Logout
    <3>2. Issued(m.id, m.ask)
      BY <2>2, <2>4 DEF Issued, Carries
    <3>3. m.ask <= asked
      BY <3>1, <3>2 DEF ClientInv, OneAskPerId
    <3>4. m.ask \in 1 .. asked
      BY <1>1, <3>1, <3>3
    <3>. HIDE DEF m
    <3>. QED BY <2>1, <2>4, <3>4 DEF Dropped
  <2>. QED BY <2>1, <2>3, <2>4 DEF Dropped
<1>4. CASE UNCHANGED vars
  BY <1>2, <1>4 DEF vars, server, promises
<1>5. ASSUME NEW s \in Sockets, Handle(s), ~ Serve(s)
      PROVE  UNCHANGED unread /\ asked' \in {asked, asked + 1}
  BY <1>5 DEF Handle, Handshake, Authentication, Greet, SendOwnPlan, Takes, promises
<1>6. CASE User \/ Timeout \/ Broadcast
  <2>1. UNCHANGED unread /\ asked' \in {asked, asked + 1}
    BY <1>6 DEF User, Timeout, Broadcast, Reconnect, DoLogout, Connect, Login, SendRequest,
                server, promises
  <2>. QED BY <1>2, <2>1
<1>7. ASSUME NEW s \in Sockets,
             Opens(s) \/ Drop(s) \/ CloseEvent(s) \/ Receive(s) \/ HandlerEnds(s)
      PROVE  UNCHANGED unread /\ asked' \in {asked, asked + 1}
  BY <1>7 DEF Opens, Drop, CloseEvent, Receive, HandlerEnds, Deliver, Receives,
              ReceiveVersionError, ReceiveAuthRequired, ReceiveLoginSuccess,
              ReceiveLoginFailed, ReceivePlan, ReceiveResponse, server, promises
<1>8. CASE \E t \in Tokens : Revoke(t)
  BY <1>2, <1>8 DEF Revoke, promises
<1>. QED BY <1>2, <1>3, <1>4, <1>5, <1>6, <1>7, <1>8 DEF Next

(* Every variable keeps its type.  That the counter of own plan states     *)
(* stays within the requests made needs more: it is only counted up when   *)
(* a promise stops waiting.                                                *)
THEOREM TypeCorrect == Spec => []TypeOK
<1>1. ClientInv /\ Dropped => TypeOK
  <2>. SUFFICES ASSUME ClientInv, Dropped PROVE TypeOK
    OBVIOUS
  <2>1. Cardinality(pending) \in Nat
    BY FS_CardinalityType DEF ClientInv, PromisesOK
  <2>2. own \in 0 .. asked
    BY <2>1, BoundsAssumption DEF ClientInv, PromisesOK
  <2>. QED BY <2>2 DEF ClientInv, HookOK, PromisesOK, Queues, TypeOK, Dropped
<1>2. Init => Dropped
  BY DEF Init, Dropped
<1>. QED BY <1>1, <1>2, AlwaysClientInv, StepKeepsDropped, PTL DEF Spec

(* A promise is resolved with the answer of its own request, also by       *)
(* answers that come late, over a connection before the present one.       *)
THEOREM AnswersFindTheirRequest == Spec => []NoAnswerIsMistaken
<1>1. ClientInv => NoAnswerIsMistaken
  BY DEF ClientInv
<1>. QED BY <1>1, AlwaysClientInv, PTL
=============================================================================
