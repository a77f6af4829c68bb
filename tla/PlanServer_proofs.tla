------------------------- MODULE PlanServer_proofs --------------------------
(***************************************************************************)
(* Type correctness of PlanServer, and that what is active is what a       *)
(* restart would read back, for any number of sessions, users, plans,      *)
(* edits and seconds.                                                      *)
(***************************************************************************)
EXTENDS PlanServer, WellFoundedInduction, TLAPS

(* What a handler carries at each of its steps.                            *)
Carrying(s) ==
    /\ pc[s] \in {"loadInstall", "loadPref", "newPref", "newOrg", "rsInstall",
                  "importOwn", "own", "broadcast"} => loc[s] # NoPlan
    /\ pc[s] \in {"save", "importClone"} => engine # NoPlan
    /\ pc[s] \in {"delFiles", "rsLoad"} => target[s].plan # NoPlan
    /\ pc[s] = "rsLoad" => target[s].second # 0

TInv == TypeOK /\ \A s \in Sessions : Carrying(s)

USE DEF server, tables, handler, client, history, vars

-----------------------------------------------------------------------------
(* Facts about the latest version.                                         *)
LEMMA MaxIs ==
    ASSUME NEW S \in SUBSET Int, NEW m \in S, \A n \in S : n <= m
    PROVE  Max(S) = m
<1>1. \A n \in S : m >= n
  OBVIOUS
<1>2. /\ Max(S) \in S
      /\ \A n \in S : Max(S) >= n
  BY <1>1 DEF Max
<1>3. Max(S) >= m /\ m >= Max(S) /\ m \in Int /\ Max(S) \in Int
  BY <1>1, <1>2
<1>. HIDE DEF Max
<1>. QED BY <1>3

(* A set of seconds has a latest one.                                      *)
LEMMA MaxExists ==
    ASSUME NEW S \in SUBSET Seconds, S # {}
    PROVE  Max(S) \in S /\ \A n \in S : n <= Max(S)
<1>. DEFINE T == {MaxClock - n : n \in S}
<1>1. MaxClock \in Nat
  BY BoundsAssumption
<1>2. T \subseteq Nat /\ T # {}
  <2>1. \A n \in S : MaxClock - n \in Nat
    BY <1>1 DEF Seconds
  <2>2. PICK n \in S : TRUE
    OBVIOUS
  <2>3. MaxClock - n \in T
    BY <2>2
  <2>. QED BY <2>1, <2>3
<1>3. \E x \in T : \A y \in T : ~ (<<y, x>> \in OpToRel(<, Nat))
  <2>. HIDE DEF T
  <2>. QED BY <1>2, NatLessThanWellFounded, WFMin
<1>4. PICK x \in T : \A y \in T : ~ (<<y, x>> \in OpToRel(<, Nat))
  BY <1>3
<1>5. \A y \in T : ~ (y < x)
  BY <1>2, <1>4 DEF OpToRel
<1>6. PICK m \in S : x = MaxClock - m
  OBVIOUS
<1>7. \A n \in S : n <= m
  <2>. TAKE n \in S
  <2>1. ~ (MaxClock - n < MaxClock - m)
    BY <1>5, <1>6
  <2>. QED BY <2>1, <1>1 DEF Seconds
<1>8. S \in SUBSET Int
  BY DEF Seconds
<1>9. Max(S) = m
  BY <1>7, <1>8, MaxIs
<1>. QED BY <1>7, <1>9

(* A version that is read is a plan.                                       *)
LEMMA LoadVersionType ==
    ASSUME TypeOK, NEW p \in Plans, NEW c \in Seconds
    PROVE  LoadVersion(p, c) \in Contents \cup {NoPlan}
BY DEF TypeOK, ServerType, LoadVersion

(* The latest version is a plan, or nothing.                               *)
LEMMA LoadLatestType ==
    ASSUME TypeOK, NEW p \in Plans
    PROVE  LoadLatest(p) \in Contents \cup {NoPlan}
<1>1. CASE Versions(p) = {}
  BY <1>1 DEF LoadLatest
<1>2. CASE Versions(p) # {}
  <2>1. Max(Versions(p)) \in Seconds
    BY <1>2, MaxExists DEF Versions
  <2>. QED BY <1>2, <2>1, LoadVersionType DEF LoadLatest
<1>. QED BY <1>1, <1>2

-----------------------------------------------------------------------------
(* Type correctness.                                                       *)
Labels == Resting \cup Joining \cup Working

(* An empty engine is told from a plan.                                    *)
LEMMA NoPlanIsNoContents == NoPlan \notin Contents
BY MarkersAssumption

(* The server starts with no connection and no active plan.                *)
LEMMA InitType == Init => TInv
<1>. SUFFICES ASSUME Init PROVE TInv
  OBVIOUS
<1>. USE DEF Init
<1>1. ServerType
  <2>1. 1 \in Seconds
    BY BoundsAssumption DEF Seconds
  <2>2. \A p \in Plans : [id |-> p, edits |-> {}] \in Contents
    BY DEF Contents
  <2>. QED BY <2>1, <2>2 DEF ServerType
<1>2. TablesType
  BY PlansAssumption, PermAssumption, LastPlanAssumption DEF TablesType
<1>3. HandlerType
  BY DEF HandlerType, Resting, Targets, NoTarget
<1>4. ClientType
  BY DEF ClientType
<1>5. HistoryType
  <2>1. nextEdit \in 1 .. MaxEdits + 1
    BY BoundsAssumption
  <2>2. unsaved \in BOOLEAN /\ hushed \subseteq Edits
    OBVIOUS
  <2>. QED BY <2>1, <2>2 DEF HistoryType
<1>6. job \in [Sessions -> Contents \cup {NoPlan}]
  OBVIOUS
<1>7. ASSUME NEW s \in Sessions PROVE Carrying(s)
  BY DEF Carrying
<1>. QED BY <1>1, <1>2, <1>3, <1>4, <1>5, <1>6, <1>7 DEF TInv, TypeOK

(* A step of one handler changes its own variables only.                   *)
OnlyHandlerOf(s) ==
    \A r \in Sessions \ {s} : pc'[r] = pc[r] /\ loc'[r] = loc[r] /\ target'[r] = target[r]

(* A handler moves on with a plan in hand.                                 *)
LEMMA GoType ==
    ASSUME TInv, NEW s \in Sessions, NEW label \in Labels,
           NEW plan \in Contents \cup {NoPlan}, Go(s, label, plan)
    PROVE  /\ HandlerType'
           /\ pc'[s] = label /\ loc'[s] = plan /\ target'[s] = target[s]
           /\ OnlyHandlerOf(s)
<1>. USE DEF TInv, TypeOK, HandlerType, Go, Labels
<1>1. HandlerType'
  OBVIOUS
<1>2. pc'[s] = label /\ loc'[s] = plan /\ target'[s] = target[s]
  OBVIOUS
<1>3. OnlyHandlerOf(s)
  BY DEF OnlyHandlerOf
<1>. QED BY <1>1, <1>2, <1>3

(* A handler waits for its next request, or ends.                          *)
LEMMA RestType ==
    ASSUME TInv, NEW s \in Sessions, Rest(s) \/ Stop(s)
    PROVE  /\ HandlerType'
           /\ pc'[s] \in {"idle", "none"}
           /\ OnlyHandlerOf(s)
<1>. USE DEF TInv, TypeOK, HandlerType, Rest, Stop
<1>1. pc' \in [Sessions -> Resting \cup Joining \cup Working] /\ pc'[s] \in {"idle", "none"}
  BY DEF Resting
<1>2. loc' \in [Sessions -> Contents \cup {NoPlan}]
  OBVIOUS
<1>3. target' \in [Sessions -> Targets]
  <2>1. NoTarget \in Targets
    BY DEF NoTarget, Targets
  <2>. QED BY <2>1
<1>4. OnlyHandlerOf(s)
  BY DEF OnlyHandlerOf
<1>. QED BY <1>1, <1>2, <1>3, <1>4

(* A plan state is put in channels.                                        *)
LEMMA DeliverType ==
    ASSUME TInv, NEW R, NEW plan \in Contents, Deliver(R, plan)
    PROVE  ClientType'
BY DEF TInv, TypeOK, ClientType, Deliver, Contents

(* A save writes a plan under a second.                                    *)
LEMMA SaveType ==
    ASSUME TInv, NEW plan \in Contents, Save(plan)
    PROVE  disk' \in [Plans -> [Seconds -> Contents \cup {Absent, Torn}]]
BY DEF TInv, TypeOK, ServerType, Save, Contents

(* The other handlers keep what they carry as long as the engine is not    *)
(* emptied.                                                                *)
LEMMA CarryingKept ==
    ASSUME TInv, NEW s \in Sessions, OnlyHandlerOf(s), Carrying(s)',
           engine' = engine \/ engine' # NoPlan
    PROVE  \A r \in Sessions : Carrying(r)'
BY DEF TInv, OnlyHandlerOf, Carrying

(* A handler at rest carries nothing.                                      *)
LEMMA RestCarries ==
    ASSUME NEW s, pc'[s] \in {"idle", "none"}
    PROVE  Carrying(s)'
BY DEF Carrying

(* The parts of TInv', for a step whose parts are known.                   *)
LEMMA Unchanged ==
    ASSUME TInv
    PROVE  /\ UNCHANGED server => ServerType'
           /\ UNCHANGED tables => TablesType'
           /\ UNCHANGED handler => HandlerType'
           /\ UNCHANGED client => ClientType'
           /\ UNCHANGED history => HistoryType'
           /\ UNCHANGED job => (job \in [Sessions -> Contents \cup {NoPlan}])'
<1>. USE DEF TInv, TypeOK
<1>1. UNCHANGED server => ServerType'
  BY DEF ServerType
<1>2. UNCHANGED tables => TablesType'
  BY DEF TablesType
<1>3. UNCHANGED handler => HandlerType'
  BY DEF HandlerType
<1>4. UNCHANGED client => ClientType'
  BY DEF ClientType
<1>5. UNCHANGED history => HistoryType'
  BY DEF HistoryType
<1>6. UNCHANGED job => (job \in [Sessions -> Contents \cup {NoPlan}])'
  OBVIOUS
<1>. QED BY <1>1, <1>2, <1>3, <1>4, <1>5, <1>6

(* A handler step that ends at rest and touches nothing but client state.  *)
LEMMA RespondType ==
    ASSUME TInv, NEW s \in Sessions, Respond(s)
    PROVE  /\ HandlerType' /\ Carrying(s)' /\ OnlyHandlerOf(s)
           /\ pc'[s] \in {"idle", "none"}
<1>1. Rest(s) \/ Stop(s)
  BY DEF Respond
<1>. QED BY <1>1, RestType, RestCarries

(* The parts of TInv after a step of the handler of s.                     *)
LEMMA Assembled ==
    ASSUME TInv, NEW s \in Sessions,
           ServerType', TablesType', HandlerType', ClientType', HistoryType',
           (job \in [Sessions -> Contents \cup {NoPlan}])',
           OnlyHandlerOf(s), Carrying(s)', engine' = engine \/ engine' # NoPlan
    PROVE  TInv'
BY CarryingKept DEF TInv, TypeOK

(* A step that changes nothing but the variables of its handler.           *)
LEMMA HandlerStep ==
    ASSUME TInv, NEW s \in Sessions,
           UNCHANGED <<server, tables, client, history, job>>,
           HandlerType', OnlyHandlerOf(s), Carrying(s)'
    PROVE  TInv'
BY Unchanged, Assembled

(* A connection is made and logs in.                                       *)
LEMMA JoinType ==
    ASSUME TInv, NEW s \in Sessions, Connect(s) \/ Login(s)
    PROVE  TInv'
<1>1. HandlerType' /\ OnlyHandlerOf(s) /\ Carrying(s)'
  BY DEF TInv, TypeOK, HandlerType, Connect, Login, OnlyHandlerOf, Carrying,
         Resting, Joining
<1>2. ClientType'
  BY Unchanged DEF TInv, TypeOK, ClientType, Connect, Login
<1>3. (job \in [Sessions -> Contents \cup {NoPlan}])'
  BY DEF TInv, TypeOK, Connect, Login
<1>4. UNCHANGED <<server, tables, history>>
  BY DEF Connect, Login
<1>. QED BY <1>1, <1>2, <1>3, <1>4, Unchanged, Assembled

(* Channels go with what is in them.                                       *)
LEMMA CloseType ==
    ASSUME TInv, NEW R, Close(R)
    PROVE  ClientType'
BY DEF TInv, TypeOK, ClientType, Close

(* A connection is lost or logs out, and its handler ends.                 *)
LEMMA LeaveType ==
    ASSUME TInv, NEW s \in Sessions, Disconnect(s) \/ Leave(s) \/ Logout(s)
    PROVE  TInv'
<1>1. CASE Disconnect(s)
  <2>1. OnlyHandlerOf(s) /\ Carrying(s)'
    BY <1>1 DEF Disconnect, OnlyHandlerOf, Carrying, TInv
  <2>2. UNCHANGED <<server, tables, handler, history, job>> /\ ClientType'
    BY <1>1, CloseType DEF Disconnect
  <2>. QED BY <2>1, <2>2, Unchanged, Assembled
<1>2. CASE Leave(s)
  <2>1. HandlerType' /\ OnlyHandlerOf(s) /\ Carrying(s)'
    BY <1>2, RestType, RestCarries DEF Leave
  <2>. QED BY <1>2, <2>1, HandlerStep DEF Leave
<1>3. CASE Logout(s)
  <2>1. HandlerType' /\ OnlyHandlerOf(s) /\ Carrying(s)'
    BY <1>3, RestType, RestCarries DEF Logout
  <2>2. UNCHANGED <<server, tables, history, job>> /\ ClientType'
    BY <1>3, CloseType DEF Logout
  <2>. QED BY <2>1, <2>2, Unchanged, Assembled
<1>. QED BY <1>1, <1>2, <1>3

(* The engine is looked at.                                                *)
LEMMA ProbeEngineType ==
    ASSUME TInv, NEW s \in Sessions, ProbeEngine(s)
    PROVE  TInv'
<1>1. PICK label \in {"autoload", "install"} : Go(s, label, NoPlan)
  BY DEF ProbeEngine
<1>2. label \in Labels
  BY DEF Labels, Joining
<1>3. HandlerType' /\ OnlyHandlerOf(s) /\ pc'[s] = label
  BY <1>1, <1>2, GoType
<1>4. Carrying(s)'
  BY <1>3 DEF Carrying
<1>. QED BY <1>3, <1>4, HandlerStep DEF ProbeEngine

(* The user's last plan is read, if it may be seen.                        *)
LEMMA ReadLastPlanType ==
    ASSUME TInv, NEW s \in Sessions, ReadLastPlan(s)
    PROVE  TInv'
<1>1. PICK plan \in Contents \cup {NoPlan} : Go(s, "install", plan)
  <2>. DEFINE p == lastPlan[UserOf[s]]
              seen == FilterVisiblePlans(db, UserOf[s], IsAdmin(s),
                                         {q \in Plans : Versions(q) # {}})
  <2>1. seen \subseteq Plans
    BY DEF FilterVisiblePlans
  <2>2. CASE p \in seen
    <3>1. LoadLatest(p) \in Contents \cup {NoPlan}
      BY <2>1, <2>2, LoadLatestType DEF TInv
    <3>. QED BY <2>2, <3>1 DEF ReadLastPlan
  <2>3. CASE p \notin seen
    BY <2>3 DEF ReadLastPlan
  <2>. QED BY <2>2, <2>3
<1>2. "install" \in Labels
  BY DEF Labels, Joining
<1>3. HandlerType' /\ OnlyHandlerOf(s) /\ pc'[s] = "install"
  BY <1>1, <1>2, GoType
<1>4. Carrying(s)'
  BY <1>3 DEF Carrying
<1>. QED BY <1>3, <1>4, HandlerStep DEF ReadLastPlan

(* An empty engine is filled.                                              *)
LEMMA InstallIfEmptyType ==
    ASSUME TInv, NEW s \in Sessions, InstallIfEmpty(s)
    PROVE  TInv'
<1>1. loc[s] \in Contents \cup {NoPlan} /\ engine \in Contents \cup {NoPlan}
  BY DEF TInv, TypeOK, HandlerType, ServerType
<1>2. engine' \in Contents \cup {NoPlan} /\ (engine' = engine \/ engine' # NoPlan)
  BY <1>1 DEF InstallIfEmpty
<1>3. ServerType'
  BY <1>2 DEF TInv, TypeOK, ServerType, InstallIfEmpty
<1>4. engine' # engine => loc[s] \in Contents
  BY <1>1 DEF InstallIfEmpty
<1>5. HistoryType'
  <2>1. UNCHANGED <<nextEdit, unsaved>>
    BY DEF InstallIfEmpty
  <2>2. hushed' \subseteq Edits
    BY <1>4 DEF InstallIfEmpty, TInv, TypeOK, HistoryType, Contents
  <2>. QED BY <2>1, <2>2 DEF TInv, TypeOK, HistoryType
<1>6. "greet" \in Labels
  BY DEF Labels, Joining
<1>7. HandlerType' /\ OnlyHandlerOf(s) /\ pc'[s] = "greet"
  BY <1>2, <1>6, GoType DEF InstallIfEmpty
<1>8. Carrying(s)'
  BY <1>7 DEF Carrying
<1>9. UNCHANGED <<tables, client, job>>
  BY DEF InstallIfEmpty
<1>. QED BY <1>2, <1>3, <1>5, <1>7, <1>8, <1>9, Unchanged, Assembled

(* The first state is sent.                                                *)
LEMMA GreetType ==
    ASSUME TInv, NEW s \in Sessions, Greet(s)
    PROVE  TInv'
<1>1. ClientType'
  <2>1. CASE conn[s] /\ loc[s] # NoPlan /\ Access(s, loc[s].id)
    <3>1. loc[s] \in Contents
      BY <2>1 DEF TInv, TypeOK, HandlerType
    <3>. QED BY <2>1, <3>1, DeliverType DEF Greet
  <2>2. CASE ~(conn[s] /\ loc[s] # NoPlan /\ Access(s, loc[s].id))
    BY <2>2 DEF Greet, TInv, TypeOK, ClientType
  <2>. QED BY <2>1, <2>2
<1>2. HandlerType' /\ OnlyHandlerOf(s) /\ Carrying(s)'
  BY RespondType DEF Greet
<1>3. UNCHANGED <<server, tables, history, job>>
  BY DEF Greet
<1>. QED BY <1>1, <1>2, <1>3, Unchanged, Assembled

(* A response is sent, or the handler ends.                                *)
LEMMA RespondThenGoType ==
    ASSUME TInv, NEW s \in Sessions, NEW label \in Labels,
           NEW plan \in Contents \cup {NoPlan}, RespondThenGo(s, label, plan)
    PROVE  /\ HandlerType' /\ OnlyHandlerOf(s)
           /\ \/ pc'[s] \in {"idle", "none"}
              \/ pc'[s] = label /\ loc'[s] = plan
BY GoType, RestType DEF RespondThenGo

(* The plan that a handler carries from one step to the next.              *)
LEMMA CarriedPlan ==
    ASSUME TInv, NEW s \in Sessions,
           pc[s] \in {"loadInstall", "loadPref", "newPref", "newOrg", "rsInstall",
                     "importOwn", "own", "broadcast"}
    PROVE  loc[s] \in Contents
BY DEF TInv, TypeOK, HandlerType, Carrying

(* Another plan is made active and saved.                                  *)
LEMMA EngineReplaced ==
    ASSUME TInv, NEW plan \in Contents, engine' = plan, Save(plan), UNCHANGED clock
    PROVE  ServerType' /\ engine' # NoPlan
BY SaveType, NoPlanIsNoContents DEF TInv, TypeOK, ServerType

(* The active plan is saved.                                               *)
LEMMA EngineSavedType ==
    ASSUME TInv, engine # NoPlan, Save(engine), UNCHANGED <<engine, clock>>
    PROVE  ServerType'
<1>1. engine \in Contents
  BY DEF TInv, TypeOK, ServerType
<1>. QED BY <1>1, SaveType DEF TInv, TypeOK, ServerType

(* The snapshot is sent to the session itself.                             *)
LEMMA SendOwnType ==
    ASSUME TInv, NEW s \in Sessions, SendOwn(s)
    PROVE  TInv'
<1>1. loc[s] \in Contents
  BY CarriedPlan DEF SendOwn
<1>2. ClientType'
  <2>1. CASE conn[s]
    BY <1>1, <2>1, DeliverType DEF SendOwn
  <2>2. CASE ~conn[s]
    BY <2>2, Unchanged DEF SendOwn
  <2>. QED BY <2>1, <2>2
<1>3. HistoryType'
  <2>1. UNCHANGED <<nextEdit, unsaved>>
    BY DEF SendOwn
  <2>2. hushed' \subseteq Edits
    BY <1>1 DEF SendOwn, TInv, TypeOK, HistoryType, Contents
  <2>. QED BY <2>1, <2>2 DEF TInv, TypeOK, HistoryType
<1>4. "broadcast" \in Labels
  BY DEF Labels, Working
<1>5. /\ HandlerType' /\ OnlyHandlerOf(s)
      /\ \/ pc'[s] \in {"idle", "none"}
         \/ pc'[s] = "broadcast" /\ loc'[s] = loc[s]
  BY <1>1, <1>4, RespondThenGoType DEF SendOwn
<1>6. Carrying(s)'
  BY <1>1, <1>5, NoPlanIsNoContents DEF Carrying
<1>7. UNCHANGED <<server, tables, job>>
  BY DEF SendOwn
<1>. QED BY <1>2, <1>3, <1>5, <1>6, <1>7, Unchanged, Assembled

(* The snapshot is sent to the other sessions.                             *)
LEMMA BroadcastType ==
    ASSUME TInv, NEW s \in Sessions, Broadcast(s)
    PROVE  TInv'
<1>1. loc[s] \in Contents
  BY CarriedPlan DEF Broadcast
<1>2. ClientType'
  BY <1>1, DeliverType DEF Broadcast
<1>3. HistoryType'
  <2>1. UNCHANGED <<nextEdit, unsaved>>
    BY DEF Broadcast
  <2>2. hushed' \subseteq Edits
    BY <1>1 DEF Broadcast, TInv, TypeOK, HistoryType, Contents
  <2>. QED BY <2>1, <2>2 DEF TInv, TypeOK, HistoryType
<1>4. HandlerType' /\ OnlyHandlerOf(s) /\ Carrying(s)'
  BY RestType, RestCarries DEF Broadcast
<1>5. UNCHANGED <<server, tables, job>>
  BY DEF Broadcast
<1>. QED BY <1>2, <1>3, <1>4, <1>5, Unchanged, Assembled

(* A step that saves, and settles that nothing is left to save.            *)
LEMMA SavedHistory ==
    ASSUME TInv, unsaved' = FALSE, UNCHANGED <<nextEdit, hushed>>
    PROVE  HistoryType'
BY DEF TInv, TypeOK, HistoryType

(* SavePlan.                                                               *)
LEMMA SavePlanType ==
    ASSUME TInv, NEW s \in Sessions, SavePlan(s)
    PROVE  TInv'
<1>1. ServerType' /\ engine' = engine
  BY EngineSavedType DEF SavePlan
<1>2. HistoryType'
  BY SavedHistory DEF SavePlan
<1>3. HandlerType' /\ OnlyHandlerOf(s) /\ Carrying(s)'
  BY RespondType DEF SavePlan
<1>4. UNCHANGED <<tables, client, job>>
  BY DEF SavePlan
<1>. QED BY <1>1, <1>2, <1>3, <1>4, Unchanged, Assembled

(* NewPlan: the plan is made active and saved.                             *)
LEMMA NewPlanInstallType ==
    ASSUME TInv, NEW s \in Sessions, NEW p \in Plans, NEW org \in Orgs,
           NewPlanInstall(s, p, org)
    PROVE  TInv'
<1>. DEFINE plan == [id |-> p, edits |-> {}]
<1>1. plan \in Contents
  BY DEF Contents
<1>2. ServerType' /\ engine' # NoPlan
  BY <1>1, EngineReplaced DEF NewPlanInstall
<1>3. TablesType'
  BY DEF NewPlanInstall, TInv, TypeOK, TablesType
<1>4. HistoryType'
  BY SavedHistory DEF NewPlanInstall
<1>5. HandlerType' /\ OnlyHandlerOf(s) /\ Carrying(s)'
  <2>1. CASE conn[s]
    <3>1. /\ pc' = [pc EXCEPT ![s] = "newPref"]
          /\ loc' = [loc EXCEPT ![s] = plan]
          /\ target' = [target EXCEPT ![s].org = org]
      BY <2>1 DEF NewPlanInstall
    <3>2. target' \in [Sessions -> Targets]
      BY <3>1 DEF TInv, TypeOK, HandlerType, Targets
    <3>. HIDE DEF plan
    <3>3. HandlerType'
      BY <1>1, <3>1, <3>2 DEF TInv, TypeOK, HandlerType, Working
    <3>4. OnlyHandlerOf(s)
      BY <3>1 DEF TInv, TypeOK, HandlerType, OnlyHandlerOf
    <3>5. pc'[s] = "newPref" /\ loc'[s] = plan
      BY <3>1 DEF TInv, TypeOK, HandlerType
    <3>6. Carrying(s)'
      BY <1>1, <3>5, NoPlanIsNoContents DEF Carrying
    <3>. QED BY <3>3, <3>4, <3>6
  <2>2. CASE ~conn[s]
    BY <2>2, RestType, RestCarries DEF NewPlanInstall
  <2>. QED BY <2>1, <2>2
<1>6. UNCHANGED <<client, job>>
  BY DEF NewPlanInstall
<1>. QED BY <1>2, <1>3, <1>4, <1>5, <1>6, Unchanged, Assembled

(* The steps that only record something in the tables.                     *)
LEMMA RecordType ==
    ASSUME TInv, NEW s \in Sessions,
           NewPlanPreference(s) \/ NewPlanOrg(s) \/ LoadPlanPreference(s)
    PROVE  TInv'
<1>1. loc[s] \in Contents
  BY CarriedPlan DEF NewPlanPreference, NewPlanOrg, LoadPlanPreference
<1>2. TablesType'
  <2>1. loc[s].id \in Plans /\ target[s].org \in Orgs \cup {NoOrg}
    BY <1>1 DEF Contents, TInv, TypeOK, HandlerType, Targets
  <2>. QED BY <2>1 DEF NewPlanPreference, NewPlanOrg, LoadPlanPreference,
                       TInv, TypeOK, TablesType
<1>3. PICK label \in {"newOrg", "own"} : Go(s, label, loc[s])
  BY DEF NewPlanPreference, NewPlanOrg, LoadPlanPreference
<1>4. label \in Labels
  BY DEF Labels, Working
<1>5. HandlerType' /\ OnlyHandlerOf(s) /\ pc'[s] = label /\ loc'[s] = loc[s]
  BY <1>1, <1>3, <1>4, GoType
<1>6. Carrying(s)'
  BY <1>1, <1>5, NoPlanIsNoContents DEF Carrying
<1>7. UNCHANGED <<server, client, history, job>>
  BY DEF NewPlanPreference, NewPlanOrg, LoadPlanPreference
<1>. QED BY <1>2, <1>5, <1>6, <1>7, Unchanged, Assembled

(* LoadPlan: the version is read.                                          *)
LEMMA LoadPlanType ==
    ASSUME TInv, NEW s \in Sessions, NEW p \in Plans, LoadPlan(s, p)
    PROVE  TInv'
<1>1. CASE LoadLatest(p) # NoPlan /\ Go(s, "loadInstall", LoadLatest(p))
  <2>1. LoadLatest(p) \in Contents
    BY <1>1, LoadLatestType DEF TInv
  <2>2. "loadInstall" \in Labels
    BY DEF Labels, Working
  <2>3. HandlerType' /\ OnlyHandlerOf(s)
        /\ pc'[s] = "loadInstall" /\ loc'[s] = LoadLatest(p)
    BY <1>1, <2>1, <2>2, GoType
  <2>4. Carrying(s)'
    BY <1>1, <2>3 DEF Carrying
  <2>. QED BY <2>3, <2>4, HandlerStep DEF LoadPlan
<1>2. CASE Respond(s)
  BY <1>2, RespondType, HandlerStep DEF LoadPlan
<1>. QED BY <1>1, <1>2 DEF LoadPlan

(* LoadPlan: what was read is made active and saved.                       *)
LEMMA LoadPlanInstallType ==
    ASSUME TInv, NEW s \in Sessions, LoadPlanInstall(s)
    PROVE  TInv'
<1>1. loc[s] \in Contents
  BY CarriedPlan DEF LoadPlanInstall
<1>2. ServerType' /\ engine' # NoPlan
  BY <1>1, EngineReplaced DEF LoadPlanInstall
<1>3. HistoryType'
  <2>1. UNCHANGED nextEdit /\ unsaved' \in BOOLEAN
    BY DEF LoadPlanInstall
  <2>2. hushed' \subseteq Edits
    BY <1>1 DEF LoadPlanInstall, TInv, TypeOK, HistoryType, Contents
  <2>. QED BY <2>1, <2>2 DEF TInv, TypeOK, HistoryType
<1>4. "loadPref" \in Labels
  BY DEF Labels, Working
<1>5. /\ HandlerType' /\ OnlyHandlerOf(s)
      /\ \/ pc'[s] \in {"idle", "none"}
         \/ pc'[s] = "loadPref" /\ loc'[s] = loc[s]
  BY <1>1, <1>4, RespondThenGoType DEF LoadPlanInstall
<1>6. Carrying(s)'
  BY <1>1, <1>5, NoPlanIsNoContents DEF Carrying
<1>7. UNCHANGED <<tables, client, job>>
  BY DEF LoadPlanInstall
<1>. QED BY <1>2, <1>3, <1>5, <1>6, <1>7, Unchanged, Assembled

(* DeletePlan: the permissions go.                                         *)
LEMMA DeletePlanType ==
    ASSUME TInv, NEW s \in Sessions, NEW p \in Plans, DeletePlan(s, p)
    PROVE  TInv'
<1>1. TablesType'
  BY DEF DeletePlan, TInv, TypeOK, TablesType
<1>2. /\ pc' = [pc EXCEPT ![s] = "delFiles"]
      /\ target' = [target EXCEPT ![s].plan = p]
      /\ UNCHANGED loc
  BY DEF DeletePlan
<1>3. target' \in [Sessions -> Targets] /\ target'[s].plan = p
  BY <1>2 DEF TInv, TypeOK, HandlerType, Targets
<1>4. HandlerType' /\ OnlyHandlerOf(s) /\ pc'[s] = "delFiles"
  BY <1>2, <1>3 DEF TInv, TypeOK, HandlerType, OnlyHandlerOf, Working
<1>5. Carrying(s)'
  BY <1>3, <1>4, PlansAssumption DEF Carrying
<1>6. UNCHANGED <<server, client, job>>
  BY DEF DeletePlan
<1>7. HistoryType'
  <2>1. engine # NoPlan => engine.edits \subseteq Edits
    BY DEF TInv, TypeOK, ServerType, Contents
  <2>2. hushed' \in {hushed, hushed \cup engine.edits} /\ UNCHANGED <<nextEdit, unsaved>>
    BY DEF DeletePlan
  <2>3. engine = NoPlan => hushed' = hushed
    BY DEF DeletePlan
  <2>. QED BY <2>1, <2>2, <2>3 DEF TInv, TypeOK, HistoryType
<1>. QED BY <1>1, <1>4, <1>5, <1>6, <1>7, Unchanged, Assembled

(* DeletePlan: the files go.                                               *)
LEMMA DeletePlanFilesType ==
    ASSUME TInv, NEW s \in Sessions, DeletePlanFiles(s)
    PROVE  TInv'
<1>1. ServerType'
  BY DEF DeletePlanFiles, TInv, TypeOK, ServerType
<1>2. HandlerType' /\ OnlyHandlerOf(s) /\ Carrying(s)'
  BY RespondType DEF DeletePlanFiles
<1>3. UNCHANGED <<engine, tables, client, history, job>>
  BY DEF DeletePlanFiles
<1>. QED BY <1>1, <1>2, <1>3, Unchanged, Assembled

(* RestorePlanVersion: the active plan is saved.                           *)
LEMMA RestoreSaveType ==
    ASSUME TInv, NEW s \in Sessions, NEW p \in Plans, NEW c \in Seconds,
           RestoreSave(s, p, c)
    PROVE  TInv'
<1>1. ServerType' /\ UNCHANGED engine
  <2>1. CASE engine = NoPlan
    BY <2>1, Unchanged DEF RestoreSave
  <2>2. CASE engine # NoPlan
    BY <2>2, EngineSavedType DEF RestoreSave
  <2>. QED BY <2>1, <2>2
<1>2. HistoryType'
  BY DEF RestoreSave, TInv, TypeOK, HistoryType
<1>3. /\ pc' = [pc EXCEPT ![s] = "rsLoad"]
      /\ target' = [target EXCEPT ![s].plan = p, ![s].second = c]
      /\ UNCHANGED loc
  BY DEF RestoreSave
<1>4. target' \in [Sessions -> Targets]
      /\ target'[s].plan = p /\ target'[s].second = c
  BY <1>3 DEF TInv, TypeOK, HandlerType, Targets
<1>5. HandlerType' /\ OnlyHandlerOf(s) /\ pc'[s] = "rsLoad"
  BY <1>3, <1>4 DEF TInv, TypeOK, HandlerType, OnlyHandlerOf, Working
<1>6. c # 0
  BY DEF Seconds
<1>7. Carrying(s)'
  BY <1>4, <1>5, <1>6, PlansAssumption DEF Carrying
<1>8. UNCHANGED <<tables, client, job>>
  BY DEF RestoreSave
<1>. QED BY <1>1, <1>2, <1>5, <1>7, <1>8, Unchanged, Assembled

(* RestorePlanVersion: the version is read.                                *)
LEMMA RestoreLoadType ==
    ASSUME TInv, NEW s \in Sessions, RestoreLoad(s)
    PROVE  TInv'
<1>. DEFINE version == LoadVersion(target[s].plan, target[s].second)
<1>1. target[s].plan \in Plans /\ target[s].second \in Seconds
  BY DEF RestoreLoad, TInv, TypeOK, HandlerType, Targets, Carrying
<1>2. version \in Contents \cup {NoPlan}
  BY <1>1, LoadVersionType DEF TInv
<1>3. HandlerType' /\ OnlyHandlerOf(s) /\ Carrying(s)'
  <2>1. CASE version # NoPlan
    <3>1. Go(s, "rsInstall", version) /\ "rsInstall" \in Labels
      BY <2>1 DEF RestoreLoad, Labels, Working
    <3>. HIDE DEF version
    <3>2. HandlerType' /\ OnlyHandlerOf(s) /\ pc'[s] = "rsInstall" /\ loc'[s] = version
      BY <1>2, <3>1, GoType
    <3>3. Carrying(s)'
      BY <2>1, <3>2 DEF Carrying
    <3>. QED BY <3>2, <3>3
  <2>2. CASE version = NoPlan
    BY <2>2, RestType, RestCarries DEF RestoreLoad
  <2>. QED BY <2>1, <2>2
<1>. QED BY <1>3, HandlerStep DEF RestoreLoad

(* RestorePlanVersion: the version is made active and saved.               *)
LEMMA RestoreInstallType ==
    ASSUME TInv, NEW s \in Sessions, RestoreInstall(s)
    PROVE  TInv'
<1>1. loc[s] \in Contents
  BY CarriedPlan DEF RestoreInstall
<1>2. ServerType' /\ engine' # NoPlan
  BY <1>1, EngineReplaced DEF RestoreInstall
<1>3. HistoryType'
  BY SavedHistory DEF RestoreInstall
<1>4. "own" \in Labels
  BY DEF Labels, Working
<1>5. HandlerType' /\ OnlyHandlerOf(s) /\ pc'[s] = "own" /\ loc'[s] = loc[s]
  BY <1>1, <1>4, GoType DEF RestoreInstall
<1>6. Carrying(s)'
  BY <1>1, <1>5, NoPlanIsNoContents DEF Carrying
<1>7. UNCHANGED <<tables, client, job>>
  BY DEF RestoreInstall
<1>. QED BY <1>2, <1>3, <1>5, <1>6, <1>7, Unchanged, Assembled

(* A request is let through or refused.                                    *)
LEMMA CheckRoleType ==
    ASSUME TInv, NEW s \in Sessions, NEW kind, CheckRole(s, kind)
    PROVE  TInv'
<1>1. CASE Go(s, "apply", NoPlan)
  <2>1. "apply" \in Labels
    BY DEF Labels, Working
  <2>2. HandlerType' /\ OnlyHandlerOf(s) /\ pc'[s] = "apply"
    BY <1>1, <2>1, GoType
  <2>3. Carrying(s)'
    BY <2>2 DEF Carrying
  <2>. QED BY <2>2, <2>3, HandlerStep DEF CheckRole
<1>2. CASE Respond(s)
  BY <1>2, RespondType, HandlerStep DEF CheckRole
<1>. QED BY <1>1, <1>2 DEF CheckRole

(* An edit leaves a plan in the engine and the next edit its number.       *)
LEMMA EditedType ==
    ASSUME TInv, NEW plan \in Contents, nextEdit \in Edits,
           engine' = [plan EXCEPT !.edits = @ \cup {nextEdit}],
           nextEdit' = nextEdit + 1
    PROVE  /\ engine' \in Contents /\ engine' # NoPlan
           /\ engine'.id = plan.id
           /\ nextEdit' \in 1 .. MaxEdits + 1
<1>1. engine' \in Contents /\ engine'.id = plan.id
  BY DEF Contents
<1>2. nextEdit' \in 1 .. MaxEdits + 1
  BY BoundsAssumption DEF Edits
<1>. QED BY <1>1, <1>2, NoPlanIsNoContents

(* An edit is applied, or a scheduler run fails half way.                  *)
LEMMA ApplyEditType ==
    ASSUME TInv, NEW s \in Sessions, ApplyEdit(s) \/ FailScheduler(s)
    PROVE  TInv'
<1>1. engine \in Contents /\ nextEdit \in Edits
  BY DEF ApplyEdit, FailScheduler, TInv, TypeOK, ServerType
<1>2. engine' \in Contents /\ engine' # NoPlan /\ nextEdit' \in 1 .. MaxEdits + 1
  BY <1>1, EditedType DEF ApplyEdit, FailScheduler
<1>3. ServerType'
  BY <1>2 DEF ApplyEdit, FailScheduler, TInv, TypeOK, ServerType
<1>4. HistoryType'
  <2>1. unsaved' \in BOOLEAN
    BY DEF ApplyEdit, FailScheduler, TInv, TypeOK, HistoryType, ClientType
  <2>2. hushed' \subseteq Edits
    BY <1>1 DEF ApplyEdit, FailScheduler, TInv, TypeOK, HistoryType
  <2>. QED BY <1>2, <2>1, <2>2 DEF HistoryType
<1>5. HandlerType' /\ OnlyHandlerOf(s) /\ Carrying(s)'
  <2>1. CASE ApplyEdit(s)
    <3>1. "save" \in Labels
      BY DEF Labels, Working
    <3>2. /\ HandlerType' /\ OnlyHandlerOf(s)
          /\ pc'[s] \in {"idle", "none"} \/ pc'[s] = "save"
      BY <2>1, <3>1, RespondThenGoType DEF ApplyEdit
    <3>3. Carrying(s)'
      BY <1>2, <3>2 DEF Carrying
    <3>. QED BY <3>2, <3>3
  <2>2. CASE FailScheduler(s)
    BY <2>2, RespondType DEF FailScheduler
  <2>. QED BY <2>1, <2>2
<1>6. UNCHANGED <<tables, client, job>>
  BY DEF ApplyEdit, FailScheduler
<1>. QED BY <1>2, <1>3, <1>4, <1>5, <1>6, Unchanged, Assembled

(* An edit is refused by the engine.                                       *)
LEMMA RejectEditType ==
    ASSUME TInv, NEW s \in Sessions, RejectEdit(s)
    PROVE  TInv'
BY RespondType, HandlerStep DEF RejectEdit

(* The plan is saved after an edit.                                        *)
LEMMA SaveEditType ==
    ASSUME TInv, NEW s \in Sessions, SaveEdit(s)
    PROVE  TInv'
<1>1. engine # NoPlan /\ engine \in Contents
  BY DEF SaveEdit, TInv, TypeOK, ServerType, Carrying
<1>2. ServerType' /\ UNCHANGED engine
  BY <1>1, EngineSavedType DEF SaveEdit
<1>3. HistoryType'
  BY SavedHistory DEF SaveEdit
<1>4. "own" \in Labels
  BY DEF Labels, Working
<1>5. HandlerType' /\ OnlyHandlerOf(s) /\ pc'[s] = "own" /\ loc'[s] = engine
  BY <1>1, <1>4, GoType DEF SaveEdit
<1>6. Carrying(s)'
  BY <1>1, <1>5 DEF Carrying
<1>7. UNCHANGED <<tables, client, job>>
  BY DEF SaveEdit
<1>. QED BY <1>2, <1>3, <1>5, <1>6, <1>7, Unchanged, Assembled

(* An import starts from a clone of the active plan.                       *)
LEMMA MondayPullType ==
    ASSUME TInv, NEW s \in Sessions, NEW p \in Plans, NEW reimport \in BOOLEAN,
           MondayPull(s, p, reimport)
    PROVE  TInv'
<1>1. engine \in Contents \cup {NoPlan}
  BY DEF TInv, TypeOK, ServerType
<1>2. PICK plan \in Contents \cup {NoPlan} : job' = [job EXCEPT ![s] = plan]
  <2>1. engine # NoPlan => [engine EXCEPT !.edits = {}] \in Contents
    BY <1>1 DEF Contents
  <2>. QED BY <1>1, <2>1 DEF MondayPull
<1>3. (job \in [Sessions -> Contents \cup {NoPlan}])'
  BY <1>2 DEF TInv, TypeOK
<1>4. HandlerType' /\ OnlyHandlerOf(s) /\ Carrying(s)'
  BY RespondType DEF MondayPull
<1>5. UNCHANGED <<server, tables, client, history>>
  BY DEF MondayPull
<1>. QED BY <1>3, <1>4, <1>5, Unchanged, Assembled

(* An import fails.                                                        *)
LEMMA MondayErrorType ==
    ASSUME TInv, NEW s \in Sessions, MondayError(s)
    PROVE  TInv'
<1>1. (job \in [Sessions -> Contents \cup {NoPlan}])'
  BY DEF MondayError, TInv, TypeOK
<1>2. OnlyHandlerOf(s) /\ Carrying(s)'
  BY DEF MondayError, OnlyHandlerOf, Carrying, TInv
<1>3. UNCHANGED <<server, tables, handler, client, history>>
  BY DEF MondayError
<1>. QED BY <1>1, <1>2, <1>3, Unchanged, Assembled

(* What an import made replaces the active plan.                           *)
LEMMA ImportInstallType ==
    ASSUME TInv, NEW s \in Sessions, ImportInstall(s)
    PROVE  TInv'
<1>1. job[s] \in Contents
  BY DEF ImportInstall, TInv, TypeOK
<1>2. engine' \in Contents /\ engine' # NoPlan /\ nextEdit' \in 1 .. MaxEdits + 1
  BY <1>1, EditedType DEF ImportInstall
<1>3. ServerType'
  BY <1>2, EngineReplaced DEF ImportInstall
<1>4. HistoryType'
  BY <1>2 DEF ImportInstall, TInv, TypeOK, HistoryType
<1>5. (job \in [Sessions -> Contents \cup {NoPlan}])'
  BY DEF ImportInstall, TInv, TypeOK
<1>6. "importClone" \in Labels
  BY DEF Labels, Working
<1>7. HandlerType' /\ OnlyHandlerOf(s) /\ pc'[s] = "importClone"
  BY <1>6, GoType DEF ImportInstall
<1>8. Carrying(s)'
  BY <1>2, <1>7 DEF Carrying
<1>9. UNCHANGED <<tables, client>>
  BY DEF ImportInstall
<1>. QED BY <1>2, <1>3, <1>4, <1>5, <1>7, <1>8, <1>9, Unchanged, Assembled

(* The snapshot is taken after an import.                                  *)
LEMMA ImportCloneType ==
    ASSUME TInv, NEW s \in Sessions, ImportClone(s)
    PROVE  TInv'
<1>1. engine # NoPlan /\ engine \in Contents
  BY DEF ImportClone, TInv, TypeOK, ServerType, Carrying
<1>2. "importOwn" \in Labels
  BY DEF Labels, Working
<1>3. HandlerType' /\ OnlyHandlerOf(s) /\ pc'[s] = "importOwn" /\ loc'[s] = engine
  BY <1>1, <1>2, GoType DEF ImportClone
<1>4. Carrying(s)'
  BY <1>1, <1>3 DEF Carrying
<1>. QED BY <1>3, <1>4, HandlerStep DEF ImportClone

(* The snapshot of an import is sent to the session itself.                *)
LEMMA ImportSendOwnType ==
    ASSUME TInv, NEW s \in Sessions, ImportSendOwn(s)
    PROVE  TInv'
<1>1. loc[s] \in Contents
  BY CarriedPlan DEF ImportSendOwn
<1>2. ClientType'
  BY <1>1, DeliverType, Unchanged DEF ImportSendOwn
<1>3. "broadcast" \in Labels
  BY DEF Labels, Working
<1>4. HandlerType' /\ OnlyHandlerOf(s) /\ pc'[s] = "broadcast" /\ loc'[s] = loc[s]
  BY <1>1, <1>3, GoType DEF ImportSendOwn
<1>5. Carrying(s)'
  BY <1>1, <1>4, NoPlanIsNoContents DEF Carrying
<1>6. UNCHANGED <<server, tables, history, job>>
  BY DEF ImportSendOwn
<1>. QED BY <1>2, <1>4, <1>5, <1>6, Unchanged, Assembled

(* A second passes.                                                        *)
LEMMA TickType ==
    ASSUME TInv, Tick
    PROVE  TInv'
<1>1. ServerType'
  BY BoundsAssumption DEF Tick, TInv, TypeOK, ServerType, Seconds
<1>2. \A s \in Sessions : Carrying(s)'
  BY DEF Tick, TInv, Carrying
<1>3. UNCHANGED <<tables, handler, client, history, job>>
  BY DEF Tick
<1>. QED BY <1>1, <1>2, <1>3, Unchanged DEF TInv, TypeOK

(* A crash tears a file of a plan, in the directory of that plan.          *)
LEMMA BeingSavedType ==
    ASSUME TInv, NEW s \in Sessions
    PROVE  BeingSaved(s) \subseteq Plans
<1>1. CASE pc[s] = "save"
  BY <1>1 DEF BeingSaved, TInv, TypeOK, ServerType, Carrying, Contents
<1>2. CASE pc[s] \in {"loadInstall", "rsInstall"}
  <2>1. loc[s].id \in Plans
    BY <1>2, CarriedPlan DEF Contents
  <2>. QED BY <1>2, <2>1 DEF BeingSaved
<1>3. CASE pc[s] = "idle"
  <2>1. engine # NoPlan => engine.id \in Plans
    BY DEF TInv, TypeOK, ServerType, Contents
  <2>2. job[s] # NoPlan => job[s].id \in Plans
    BY DEF TInv, TypeOK, Contents
  <2>. QED BY <1>3, <2>1, <2>2 DEF BeingSaved
<1>4. CASE pc[s] \notin {"save", "loadInstall", "rsInstall", "idle"}
  BY <1>4 DEF BeingSaved
<1>. QED BY <1>1, <1>2, <1>3, <1>4

(* The process stops and starts again.                                     *)
LEMMA CrashType ==
    ASSUME TInv, Crash
    PROVE  TInv'
<1>1. ServerType'
  <2>1. CASE UNCHANGED disk
    BY <2>1 DEF Crash, TInv, TypeOK, ServerType
  <2>2. ASSUME NEW s \in Sessions, NEW p \in BeingSaved(s),
               disk' = [disk EXCEPT ![p][clock] = Torn]
        PROVE  ServerType'
    <3>1. p \in Plans
      BY BeingSavedType
    <3>. QED BY <2>2, <3>1 DEF Crash, TInv, TypeOK, ServerType
  <2>. QED BY <2>1, <2>2 DEF Crash
<1>2. TablesType' /\ ClientType'
  BY Unchanged, CloseType DEF Crash
<1>3. HandlerType'
  <2>1. NoTarget \in Targets
    BY DEF NoTarget, Targets
  <2>. QED BY <2>1 DEF Crash, HandlerType, Resting
<1>4. HistoryType'
  BY DEF Crash, TInv, TypeOK, HistoryType
<1>5. (job \in [Sessions -> Contents \cup {NoPlan}])'
  BY DEF Crash
<1>6. \A s \in Sessions : Carrying(s)'
  BY DEF Crash, Carrying
<1>. QED BY <1>1, <1>2, <1>3, <1>4, <1>5, <1>6 DEF TInv, TypeOK

(* A step of the server keeps the types and what the handlers carry.       *)
LEMMA NextType ==
    ASSUME TInv, [Next]_vars
    PROVE  TInv'
<1>1. ASSUME NEW s \in Sessions, Request(s) PROVE TInv'
  BY <1>1, SavePlanType, NewPlanInstallType, LoadPlanType, DeletePlanType,
     RestoreSaveType, CheckRoleType, MondayPullType DEF Request
<1>2. ASSUME NEW s \in Sessions, Environment(s) PROVE TInv'
  BY <1>2, JoinType, LeaveType, MondayErrorType DEF Environment
<1>3. ASSUME NEW s \in Sessions, Handle(s) PROVE TInv'
  BY <1>3, LeaveType, ProbeEngineType, ReadLastPlanType, InstallIfEmptyType,
     GreetType, SendOwnType, BroadcastType, RecordType, LoadPlanInstallType,
     DeletePlanFilesType, RestoreLoadType, RestoreInstallType, ApplyEditType,
     RejectEditType, SaveEditType, ImportInstallType, ImportCloneType,
     ImportSendOwnType DEF Handle
<1>4. CASE UNCHANGED vars
  <2>1. \A s \in Sessions : Carrying(s)'
    BY <1>4 DEF TInv, Carrying
  <2>2. UNCHANGED <<server, tables, handler, client, history, job>>
    BY <1>4
  <2>. QED BY <2>1, <2>2, Unchanged DEF TInv, TypeOK
<1>. QED BY <1>1, <1>2, <1>3, <1>4, TickType, CrashType DEF Next

(* Every variable keeps its type, whatever the clients request and however *)
(* the handlers interleave, and a handler that is about to use a plan it   *)
(* has read has one.                                                       *)
THEOREM TypeCorrect == Spec => []TypeOK
<1>1. TInv => TypeOK
  BY DEF TInv
<1>. QED BY <1>1, InitType, NextType, PTL DEF Spec

-----------------------------------------------------------------------------
(* What is active is what a restart would read back.  The invariant that   *)
(* carries the proof says of the directory of saved versions what makes    *)
(* the save of this second the latest one, and of a handler that has read  *)
(* a plan for an empty engine that the plan is still the latest one.       *)

(* The directory of one plan.                                              *)
SeenIn(files) == {c \in Seconds : files[c] # Absent}
LatestIn(files) ==
    IF SeenIn(files) = {} \/ files[Max(SeenIn(files))] \in {Absent, Torn}
    THEN NoPlan ELSE files[Max(SeenIn(files))]

ClockBound == \A p \in Plans : \A c \in SeenIn(disk[p]) : c <= clock
IdsMatch   == \A p \in Plans, c \in Seconds :
                 disk[p][c] \in Contents => disk[p][c].id = p
CandidateFresh ==
    \A s \in Sessions :
       (/\ pc[s] = "install" /\ loc[s] # NoPlan
        /\ engine = NoPlan
        /\ SeenIn(disk[loc[s].id]) # {})
       => LatestIn(disk[loc[s].id]) = loc[s]
EngineLatest ==
    (/\ engine # NoPlan
     /\ SeenIn(disk[engine.id]) # {}
     /\ ~unsaved
     /\ \A s \in Sessions : pc[s] # "save")
    => LatestIn(disk[engine.id]) = engine

SavedInv == ClockBound /\ IdsMatch /\ CandidateFresh /\ EngineLatest
IInv == TInv /\ SavedInv

-----------------------------------------------------------------------------
(* The latest version of a plan depends on its directory alone.            *)
LEMMA LatestIs == \A p : LoadLatest(p) = LatestIn(disk[p]) /\ Versions(p) = SeenIn(disk[p])
BY DEF LoadLatest, LoadVersion, Versions, LatestIn, SeenIn

(* EngineSaved is EngineLatest, written with the operators of the storage. *)
LEMMA EngineLatestIsSaved == EngineLatest => EngineSaved
BY DEF EngineLatest, EngineSaved, LoadLatest, LoadVersion, Versions, LatestIn, SeenIn

(* The version of the second with the last name is the one that is read.   *)
LEMMA LatestVersion ==
    ASSUME NEW files \in [Seconds -> Contents \cup {Absent, Torn}],
           NEW now \in Seconds, files[now] \in Contents,
           \A c \in SeenIn(files) : c <= now
    PROVE  LatestIn(files) = files[now]
<1>1. files[now] \notin {Absent, Torn}
  BY MarkersAssumption
<1>2. now \in SeenIn(files)
  BY <1>1 DEF SeenIn
<1>3. SeenIn(files) \in SUBSET Int
  BY DEF SeenIn, Seconds
<1>4. Max(SeenIn(files)) = now
  BY <1>2, <1>3, MaxIs
<1>. QED BY <1>1, <1>2, <1>4 DEF LatestIn

(* A version that is read back has the id of the directory it is read from.*)
LEMMA LatestHasId ==
    ASSUME TInv, IdsMatch, NEW p \in Plans, LatestIn(disk[p]) # NoPlan
    PROVE  LatestIn(disk[p]) \in Contents /\ LatestIn(disk[p]).id = p
<1>1. SeenIn(disk[p]) # {} /\ SeenIn(disk[p]) \in SUBSET Seconds
  BY DEF LatestIn, SeenIn
<1>2. Max(SeenIn(disk[p])) \in Seconds
  BY <1>1, MaxExists
<1>3. /\ LatestIn(disk[p]) = disk[p][Max(SeenIn(disk[p]))]
      /\ LatestIn(disk[p]) \notin {Absent, Torn}
  BY DEF LatestIn
<1>4. LatestIn(disk[p]) \in Contents
  BY <1>2, <1>3 DEF TInv, TypeOK, ServerType
<1>. QED BY <1>2, <1>3, <1>4 DEF IdsMatch

-----------------------------------------------------------------------------
(* The server starts with an empty engine and whole first versions.        *)
LEMMA InitSaved == Init => SavedInv
<1>. SUFFICES ASSUME Init PROVE SavedInv
  OBVIOUS
<1>1. ASSUME NEW p \in Plans, NEW c \in Seconds
      PROVE  disk[p][c] = IF p \in InitialPlans /\ c = 1
                          THEN [id |-> p, edits |-> {}] ELSE Absent
  BY DEF Init
<1>2. ClockBound
  BY <1>1 DEF Init, ClockBound, SeenIn
<1>3. IdsMatch
  <2>. SUFFICES ASSUME NEW p \in Plans, NEW c \in Seconds, disk[p][c] \in Contents
                PROVE  disk[p][c].id = p
    BY DEF IdsMatch
  <2>1. disk[p][c] # Absent
    BY MarkersAssumption
  <2>2. disk[p][c] = [id |-> p, edits |-> {}]
    BY <1>1, <2>1
  <2>. QED BY <2>2
<1>4. CandidateFresh /\ EngineLatest
  BY DEF Init, CandidateFresh, EngineLatest
<1>. QED BY <1>2, <1>3, <1>4 DEF SavedInv

(* Every save in the same critical section as the change it saves.         *)
LEMMA SavingStep ==
    ASSUME IInv, NEW plan \in Contents, engine' = plan, Save(plan), UNCHANGED clock
    PROVE  SavedInv'
<1>. USE DEF IInv, TInv, TypeOK, ServerType
<1>1. plan.id \in Plans /\ clock \in Seconds
  BY DEF Contents
<1>2. /\ disk'[plan.id] = [disk[plan.id] EXCEPT ![clock] = plan]
      /\ \A p \in Plans \ {plan.id} : disk'[p] = disk[p]
  BY <1>1 DEF Save
<1>3. \A p \in Plans, c \in Seconds :
         disk'[p][c] = disk[p][c] \/ (p = plan.id /\ c = clock /\ disk'[p][c] = plan)
  BY <1>1, <1>2
<1>4. ClockBound'
  <2>. SUFFICES ASSUME NEW p \in Plans, NEW c \in Seconds, disk'[p][c] # Absent
                PROVE  c <= clock'
    BY DEF ClockBound, SeenIn
  <2>1. CASE disk'[p][c] = disk[p][c]
    BY <2>1 DEF SavedInv, ClockBound, SeenIn
  <2>2. CASE c = clock
    BY <1>1, <2>2 DEF Seconds
  <2>. QED BY <1>3, <2>1, <2>2
<1>5. IdsMatch'
  BY <1>3 DEF SavedInv, IdsMatch
<1>6. CandidateFresh'
  BY NoPlanIsNoContents DEF CandidateFresh
<1>7. EngineLatest'
  <2>1. /\ disk'[plan.id] \in [Seconds -> Contents \cup {Absent, Torn}]
        /\ disk'[plan.id][clock] = plan
    BY <1>1, <1>2
  <2>2. \A c \in SeenIn(disk'[plan.id]) : c <= clock
    BY <1>1, <1>4 DEF ClockBound
  <2>3. LatestIn(disk'[plan.id]) = plan
    BY <1>1, <2>1, <2>2, LatestVersion
  <2>. QED BY <2>3 DEF EngineLatest
<1>. QED BY <1>4, <1>5, <1>6, <1>7 DEF SavedInv

(* A handler step that leaves the engine, the directory and the clock      *)
(* alone: it must not pass over the save of an edit, nor carry a plan of   *)
(* its own choice to an empty engine.                                      *)
LEMMA QuietStep ==
    ASSUME IInv, NEW s \in Sessions,
           UNCHANGED <<server, unsaved>>, OnlyHandlerOf(s),
           pc[s] # "save" \/ pc'[s] = pc[s],
           pc'[s] # "install" \/ (pc'[s] = pc[s] /\ loc'[s] = loc[s]) \/ loc'[s] = NoPlan
    PROVE  SavedInv'
<1>. USE DEF IInv, SavedInv
<1>1. ClockBound'
  BY DEF ClockBound
<1>2. IdsMatch'
  BY DEF IdsMatch
<1>3. CandidateFresh'
  BY DEF CandidateFresh, OnlyHandlerOf
<1>4. EngineLatest'
  <2>1. (\A r \in Sessions : pc'[r] # "save") => \A r \in Sessions : pc[r] # "save"
    BY DEF OnlyHandlerOf
  <2>. QED BY <2>1 DEF EngineLatest
<1>. QED BY <1>1, <1>2, <1>3, <1>4

(* A handler that moves on, or comes to rest.                              *)
LEMMA Moved ==
    ASSUME IInv, NEW s \in Sessions, NEW label, NEW plan,
           Go(s, label, plan) \/ RespondThenGo(s, label, plan) \/ Rest(s)
              \/ Stop(s) \/ Respond(s)
    PROVE  OnlyHandlerOf(s) /\ (pc'[s] \in {"idle", "none"} \/ pc'[s] = label)
BY DEF Go, RespondThenGo, Rest, Stop, Respond, OnlyHandlerOf, IInv, TInv,
       TypeOK, HandlerType

(* Connections come and go, and imports fail, without touching a plan.     *)
LEMMA EnvironmentSaved ==
    ASSUME IInv, NEW s \in Sessions, Environment(s) \/ Leave(s)
    PROVE  SavedInv'
<1>1. UNCHANGED <<server, unsaved>>
  BY DEF Environment, Connect, Login, Disconnect, Logout, MondayError, Leave
<1>2. CASE Connect(s) \/ Login(s)
  <2>1. OnlyHandlerOf(s) /\ pc[s] # "save" /\ pc'[s] # "install"
    BY <1>2 DEF Connect, Login, OnlyHandlerOf, IInv, TInv, TypeOK, HandlerType
  <2>. QED BY <1>1, <2>1, QuietStep
<1>3. CASE Disconnect(s) \/ MondayError(s)
  <2>1. OnlyHandlerOf(s) /\ pc'[s] = pc[s] /\ loc'[s] = loc[s]
    BY <1>3 DEF Disconnect, MondayError, OnlyHandlerOf
  <2>. QED BY <1>1, <2>1, QuietStep
<1>4. CASE Logout(s) \/ Leave(s)
  <2>1. Stop(s) /\ pc[s] # "save"
    BY <1>4 DEF Logout, Leave
  <2>2. OnlyHandlerOf(s) /\ pc'[s] # "install"
    BY <2>1, Moved
  <2>. QED BY <1>1, <2>1, <2>2, QuietStep
<1>. QED BY <1>2, <1>3, <1>4 DEF Environment

(* The steps that read, record or send.                                    *)
LEMMA ReadingSaved ==
    ASSUME IInv, NEW s \in Sessions,
           \/ \E p \in Plans : LoadPlan(s, p) \/ DeletePlan(s, p)
           \/ \E kind \in {"TaskEdit", "PlanEdit"} : CheckRole(s, kind)
           \/ \E p \in Plans, reimport \in BOOLEAN : MondayPull(s, p, reimport)
           \/ RestoreLoad(s) \/ RejectEdit(s)
    PROVE  SavedInv'
<1>1. UNCHANGED <<server, unsaved>> /\ pc[s] # "save"
  BY DEF LoadPlan, DeletePlan, CheckRole, MondayPull, RestoreLoad, RejectEdit
<1>2. OnlyHandlerOf(s) /\ pc'[s] # "install"
  <2>1. CASE \E p \in Plans : DeletePlan(s, p)
    BY <2>1 DEF DeletePlan, OnlyHandlerOf, IInv, TInv, TypeOK, HandlerType
  <2>2. CASE \E p \in Plans : LoadPlan(s, p)
    BY <2>2, Moved DEF LoadPlan
  <2>3. CASE \E kind \in {"TaskEdit", "PlanEdit"} : CheckRole(s, kind)
    BY <2>3, Moved DEF CheckRole
  <2>4. CASE \E p \in Plans, reimport \in BOOLEAN : MondayPull(s, p, reimport)
    BY <2>4, Moved DEF MondayPull
  <2>5. CASE RestoreLoad(s)
    BY <2>5, Moved DEF RestoreLoad
  <2>6. CASE RejectEdit(s)
    BY <2>6, Moved DEF RejectEdit
  <2>. QED BY <2>1, <2>2, <2>3, <2>4, <2>5, <2>6
<1>. QED BY <1>1, <1>2, QuietStep

(* The steps that send a snapshot or record something in the tables.       *)
LEMMA SendingSaved ==
    ASSUME IInv, NEW s \in Sessions,
           Greet(s) \/ SendOwn(s) \/ Broadcast(s) \/ NewPlanPreference(s)
              \/ NewPlanOrg(s) \/ LoadPlanPreference(s) \/ ImportClone(s)
              \/ ImportSendOwn(s)
    PROVE  SavedInv'
<1>1. UNCHANGED <<server, unsaved>> /\ pc[s] # "save"
  BY DEF Greet, SendOwn, Broadcast, NewPlanPreference, NewPlanOrg,
         LoadPlanPreference, ImportClone, ImportSendOwn
<1>2. OnlyHandlerOf(s) /\ pc'[s] # "install"
  <2>1. CASE Greet(s) \/ Broadcast(s)
    BY <2>1, Moved DEF Greet, Broadcast
  <2>2. CASE SendOwn(s) \/ ImportSendOwn(s)
    BY <2>2, Moved DEF SendOwn, ImportSendOwn
  <2>3. CASE NewPlanPreference(s) \/ NewPlanOrg(s) \/ LoadPlanPreference(s)
    BY <2>3, Moved DEF NewPlanPreference, NewPlanOrg, LoadPlanPreference
  <2>4. CASE ImportClone(s)
    BY <2>4, Moved DEF ImportClone
  <2>. QED BY <2>1, <2>2, <2>3, <2>4
<1>. QED BY <1>1, <1>2, QuietStep

(* The steps that replace or save the active plan.                         *)
LEMMA SavingSaved ==
    ASSUME IInv, NEW s \in Sessions,
           \/ SavePlan(s) \/ SaveEdit(s)
           \/ LoadPlanInstall(s) \/ RestoreInstall(s) \/ ImportInstall(s)
           \/ \E p \in Plans, org \in Orgs : NewPlanInstall(s, p, org)
    PROVE  SavedInv'
<1>. USE DEF IInv
<1>1. CASE SavePlan(s) \/ SaveEdit(s)
  <2>1. engine \in Contents
    BY <1>1 DEF SavePlan, SaveEdit, TInv, TypeOK, ServerType, Carrying
  <2>2. engine' = engine /\ Save(engine) /\ UNCHANGED clock
    BY <1>1 DEF SavePlan, SaveEdit
  <2>. QED BY <2>1, <2>2, SavingStep
<1>2. CASE LoadPlanInstall(s) \/ RestoreInstall(s)
  <2>1. loc[s] \in Contents
    BY <1>2, CarriedPlan DEF LoadPlanInstall, RestoreInstall
  <2>2. engine' = loc[s] /\ Save(loc[s]) /\ UNCHANGED clock
    BY <1>2 DEF LoadPlanInstall, RestoreInstall
  <2>. QED BY <2>1, <2>2, SavingStep
<1>3. CASE ImportInstall(s)
  <2>. DEFINE plan == [job[s] EXCEPT !.edits = @ \cup {nextEdit}]
  <2>1. plan \in Contents
    BY <1>3 DEF ImportInstall, TInv, TypeOK, Contents
  <2>2. engine' = plan /\ Save(plan) /\ UNCHANGED clock
    BY <1>3 DEF ImportInstall, Save
  <2>. HIDE DEF plan
  <2>. QED BY <2>1, <2>2, SavingStep
<1>4. ASSUME NEW p \in Plans, NEW org \in Orgs, NewPlanInstall(s, p, org)
      PROVE  SavedInv'
  <2>. DEFINE plan == [id |-> p, edits |-> {}]
  <2>1. plan \in Contents
    BY DEF Contents
  <2>2. engine' = plan /\ Save(plan) /\ UNCHANGED clock
    BY <1>4 DEF NewPlanInstall, Save
  <2>. HIDE DEF plan
  <2>. QED BY <2>1, <2>2, SavingStep
<1>. QED BY <1>1, <1>2, <1>3, <1>4

(* A restore first saves the active plan, if there is one.                 *)
LEMMA RestoreSaveSaved ==
    ASSUME IInv, NEW s \in Sessions, NEW p \in Plans, NEW c \in Seconds,
           RestoreSave(s, p, c)
    PROVE  SavedInv'
<1>1. CASE engine = NoPlan
  <2>1. UNCHANGED <<server, unsaved>> /\ pc[s] # "save"
    BY <1>1 DEF RestoreSave
  <2>2. OnlyHandlerOf(s) /\ pc'[s] # "install"
    BY DEF RestoreSave, OnlyHandlerOf, IInv, TInv, TypeOK, HandlerType
  <2>. QED BY <2>1, <2>2, QuietStep
<1>2. CASE engine # NoPlan
  <2>1. engine \in Contents
    BY <1>2 DEF IInv, TInv, TypeOK, ServerType
  <2>2. engine' = engine /\ Save(engine) /\ UNCHANGED clock
    BY <1>2 DEF RestoreSave
  <2>. QED BY <2>1, <2>2, SavingStep
<1>. QED BY <1>1, <1>2

(* An edit is left to the save of its handler, or to a later one.          *)
LEMMA ApplyEditSaved ==
    ASSUME IInv, NEW s \in Sessions, ApplyEdit(s) \/ FailScheduler(s)
    PROVE  SavedInv'
<1>. USE DEF IInv
<1>1. UNCHANGED <<disk, clock>>
  BY DEF ApplyEdit, FailScheduler
<1>2. ClockBound' /\ IdsMatch'
  BY <1>1 DEF SavedInv, ClockBound, IdsMatch
<1>3. engine \in Contents /\ nextEdit \in Edits
  BY DEF ApplyEdit, FailScheduler, TInv, TypeOK, ServerType
<1>4. engine' # NoPlan
  BY <1>3, EditedType DEF ApplyEdit, FailScheduler
<1>5. CandidateFresh'
  BY <1>4 DEF CandidateFresh
<1>6. unsaved' \/ pc'[s] = "save"
  BY DEF ApplyEdit, FailScheduler, RespondThenGo, Go, TInv, TypeOK, HandlerType
<1>7. EngineLatest'
  BY <1>6 DEF EngineLatest
<1>. QED BY <1>2, <1>5, <1>7 DEF SavedInv

(* What is read for an empty engine is the latest version, and stays it    *)
(* as long as the engine is empty: only an active plan is ever saved.      *)
LEMMA ProbeSaved ==
    ASSUME IInv, NEW s \in Sessions, ProbeEngine(s) \/ ReadLastPlan(s)
    PROVE  SavedInv'
<1>. USE DEF IInv
<1>1. UNCHANGED <<server, unsaved>> /\ pc[s] # "save"
  BY DEF ProbeEngine, ReadLastPlan
<1>2. CASE ProbeEngine(s)
  <2>1. PICK label : Go(s, label, NoPlan)
    BY <1>2 DEF ProbeEngine
  <2>2. OnlyHandlerOf(s) /\ loc'[s] = NoPlan
    BY <2>1 DEF Go, OnlyHandlerOf, TInv, TypeOK, HandlerType
  <2>. QED BY <1>1, <2>2, QuietStep
<1>3. CASE ReadLastPlan(s)
  <2>. DEFINE p == lastPlan[UserOf[s]]
              seen == FilterVisiblePlans(db, UserOf[s], IsAdmin(s),
                                         {q \in Plans : Versions(q) # {}})
  <2>1. CASE p \in seen
    <3>1. p \in Plans
      BY <2>1 DEF FilterVisiblePlans
    <3>2. Go(s, "install", LatestIn(disk[p]))
      BY <1>3, <2>1, LatestIs DEF ReadLastPlan
    <3>. HIDE DEF p, seen
    <3>3. OnlyHandlerOf(s) /\ pc'[s] = "install" /\ loc'[s] = LatestIn(disk[p])
      BY <3>2 DEF Go, OnlyHandlerOf, TInv, TypeOK, HandlerType
    <3>4. CASE LatestIn(disk[p]) = NoPlan
      BY <1>1, <3>3, <3>4, QuietStep
    <3>5. CASE LatestIn(disk[p]) # NoPlan
      <4>1. loc'[s].id = p
        BY <3>1, <3>3, <3>5, LatestHasId DEF SavedInv
      <4>2. CandidateFresh'
        BY <1>1, <3>3, <4>1 DEF CandidateFresh, OnlyHandlerOf, SavedInv
      <4>3. ClockBound' /\ IdsMatch'
        BY <1>1 DEF SavedInv, ClockBound, IdsMatch
      <4>4. (\A r \in Sessions : pc'[r] # "save") => \A r \in Sessions : pc[r] # "save"
        BY <1>1, <3>3 DEF OnlyHandlerOf
      <4>5. EngineLatest'
        BY <1>1, <4>4 DEF SavedInv, EngineLatest
      <4>. QED BY <4>2, <4>3, <4>5 DEF SavedInv
    <3>. QED BY <3>4, <3>5
  <2>2. CASE p \notin seen
    <3>1. Go(s, "install", NoPlan)
      BY <1>3, <2>2 DEF ReadLastPlan
    <3>2. OnlyHandlerOf(s) /\ loc'[s] = NoPlan
      BY <3>1 DEF Go, OnlyHandlerOf, TInv, TypeOK, HandlerType
    <3>. QED BY <1>1, <3>2, QuietStep
  <2>. QED BY <2>1, <2>2
<1>. QED BY <1>2, <1>3

(* An empty engine is filled with what is still the latest version.        *)
LEMMA InstallIfEmptySaved ==
    ASSUME IInv, NEW s \in Sessions, InstallIfEmpty(s)
    PROVE  SavedInv'
<1>. USE DEF IInv
<1>1. /\ UNCHANGED <<disk, clock, unsaved>>
      /\ pc[s] = "install" /\ pc'[s] = "greet" /\ OnlyHandlerOf(s)
  BY Moved DEF InstallIfEmpty, Go, TInv, TypeOK, HandlerType
<1>2. CASE engine # NoPlan \/ loc[s] = NoPlan
  <2>1. UNCHANGED engine
    BY <1>2 DEF InstallIfEmpty
  <2>. QED BY <1>1, <2>1, QuietStep
<1>3. CASE engine = NoPlan /\ loc[s] # NoPlan
  <2>1. engine' = loc[s]
    BY <1>3 DEF InstallIfEmpty
  <2>2. ClockBound' /\ IdsMatch'
    BY <1>1 DEF SavedInv, ClockBound, IdsMatch
  <2>3. CandidateFresh'
    BY <1>3, <2>1 DEF CandidateFresh
  <2>4. SeenIn(disk[loc[s].id]) # {} => LatestIn(disk[loc[s].id]) = loc[s]
    BY <1>1, <1>3 DEF SavedInv, CandidateFresh
  <2>5. EngineLatest'
    BY <1>1, <2>1, <2>4 DEF EngineLatest
  <2>. QED BY <2>2, <2>3, <2>5 DEF SavedInv
<1>. QED BY <1>2, <1>3

(* Deleting the files of a plan leaves nothing to compare it with.         *)
LEMMA DeletePlanFilesSaved ==
    ASSUME IInv, NEW s \in Sessions, DeletePlanFiles(s)
    PROVE  SavedInv'
<1>. USE DEF IInv
<1>. DEFINE p == target[s].plan
<1>1. /\ UNCHANGED <<engine, clock, unsaved>> /\ pc[s] # "save"
      /\ OnlyHandlerOf(s) /\ pc'[s] \in {"idle", "none"}
  BY RespondType DEF DeletePlanFiles
<1>2. disk' = [disk EXCEPT ![p] = [c \in Seconds |-> Absent]]
  BY DEF DeletePlanFiles
<1>. HIDE DEF p
<1>3. \A q \in Plans : \/ disk'[q] = disk[q]
                       \/ disk'[q] = [c \in Seconds |-> Absent]
  BY <1>2 DEF TInv, TypeOK, ServerType
<1>4. \A q \in Plans : disk'[q] = disk[q] \/ SeenIn(disk'[q]) = {}
  BY <1>3 DEF SeenIn
<1>5. ClockBound'
  BY <1>1, <1>4 DEF SavedInv, ClockBound
<1>6. IdsMatch'
  BY <1>3, MarkersAssumption DEF SavedInv, IdsMatch
<1>7. CandidateFresh'
  <2>. SUFFICES ASSUME NEW r \in Sessions, pc'[r] = "install", loc'[r] # NoPlan,
                       engine' = NoPlan, SeenIn(disk'[loc'[r].id]) # {}
                PROVE  LatestIn(disk'[loc'[r].id]) = loc'[r]
    BY DEF CandidateFresh
  <2>1. pc[r] = "install" /\ loc'[r] = loc[r]
    BY <1>1 DEF OnlyHandlerOf
  <2>2. loc[r].id \in Plans
    BY <2>1 DEF TInv, TypeOK, HandlerType, Contents
  <2>3. disk'[loc[r].id] = disk[loc[r].id]
    BY <1>4, <2>1, <2>2
  <2>. QED BY <1>1, <2>1, <2>3 DEF SavedInv, CandidateFresh
<1>8. EngineLatest'
  <2>. SUFFICES ASSUME engine' # NoPlan, SeenIn(disk'[engine'.id]) # {}, ~unsaved',
                       \A r \in Sessions : pc'[r] # "save"
                PROVE  LatestIn(disk'[engine'.id]) = engine'
    BY DEF EngineLatest
  <2>1. engine.id \in Plans
    BY <1>1 DEF TInv, TypeOK, ServerType, Contents
  <2>2. disk'[engine.id] = disk[engine.id]
    BY <1>1, <1>4, <2>1
  <2>3. \A r \in Sessions : pc[r] # "save"
    BY <1>1 DEF OnlyHandlerOf
  <2>. QED BY <1>1, <2>2, <2>3 DEF SavedInv, EngineLatest
<1>. QED BY <1>5, <1>6, <1>7, <1>8 DEF SavedInv

(* Time passes: the versions stay behind the clock.                        *)
LEMMA TickSaved ==
    ASSUME IInv, Tick
    PROVE  SavedInv'
<1>. USE DEF IInv, SavedInv, Tick
<1>1. ClockBound'
  BY DEF ClockBound, SeenIn, Seconds, TInv, TypeOK, ServerType
<1>2. IdsMatch' /\ CandidateFresh' /\ EngineLatest'
  BY DEF IdsMatch, CandidateFresh, EngineLatest
<1>. QED BY <1>1, <1>2

(* A crash leaves at most a file that cannot be read, and no handler with  *)
(* a plan in hand.                                                         *)
LEMMA CrashSaved ==
    ASSUME IInv, Crash
    PROVE  SavedInv'
<1>. USE DEF IInv
<1>1. \A p \in Plans, c \in Seconds :
         \/ disk'[p][c] = disk[p][c]
         \/ disk'[p][c] = Torn /\ c = clock
  <2>1. CASE UNCHANGED disk
    BY <2>1
  <2>2. ASSUME NEW q, disk' = [disk EXCEPT ![q][clock] = Torn]
        PROVE  <1>1!:
    BY <2>2 DEF TInv, TypeOK, ServerType
  <2>. QED BY <2>1, <2>2 DEF Crash
<1>2. UNCHANGED clock /\ clock \in Nat
  BY DEF Crash, TInv, TypeOK, ServerType, Seconds
<1>3. ClockBound'
  BY <1>1, <1>2 DEF SavedInv, ClockBound, SeenIn
<1>4. IdsMatch'
  BY <1>1, MarkersAssumption DEF SavedInv, IdsMatch
<1>5. CandidateFresh' /\ EngineLatest'
  BY DEF Crash, CandidateFresh, EngineLatest
<1>. QED BY <1>3, <1>4, <1>5 DEF SavedInv

(* Every step keeps the invariant.                                         *)
LEMMA NextSaved ==
    ASSUME IInv, [Next]_vars
    PROVE  IInv'
<1>1. TInv'
  BY NextType DEF IInv
<1>2. ASSUME NEW s \in Sessions, Request(s) PROVE SavedInv'
  BY <1>2, SavingSaved, ReadingSaved, RestoreSaveSaved DEF Request
<1>3. ASSUME NEW s \in Sessions, Environment(s) PROVE SavedInv'
  BY <1>3, EnvironmentSaved
<1>4. ASSUME NEW s \in Sessions, Handle(s) PROVE SavedInv'
  BY <1>4, EnvironmentSaved, ProbeSaved, InstallIfEmptySaved, SendingSaved,
     SavingSaved, ReadingSaved, DeletePlanFilesSaved, ApplyEditSaved DEF Handle
<1>5. ASSUME UNCHANGED vars PROVE SavedInv'
  <2>1. UNCHANGED <<server, handler, unsaved>>
    BY <1>5
  <2>2. ClockBound' /\ IdsMatch'
    BY <2>1 DEF IInv, SavedInv, ClockBound, IdsMatch
  <2>3. CandidateFresh'
    BY <2>1 DEF IInv, SavedInv, CandidateFresh
  <2>4. EngineLatest'
    BY <2>1 DEF IInv, SavedInv, EngineLatest
  <2>. QED BY <2>2, <2>3, <2>4 DEF SavedInv
<1>6. SavedInv'
  <2>1. CASE Next
    BY <1>2, <1>3, <1>4, <2>1, TickSaved, CrashSaved DEF Next
  <2>. QED BY <1>5, <2>1
<1>. QED BY <1>1, <1>6 DEF IInv

(* As long as no edit is under way or was left behind, what is active is   *)
(* what a restart would read back from the directory of saved versions.    *)
THEOREM ActiveIsSaved == Spec => []EngineSaved
<1>1. Init => IInv
  BY InitType, InitSaved DEF IInv
<1>2. IInv => EngineSaved
  BY EngineLatestIsSaved DEF IInv, SavedInv
<1>. QED BY <1>1, <1>2, NextSaved, PTL DEF Spec

(* Only the handler of a session moves it past joining, and that handler   *)
(* leaves an active plan active.                                           *)
LEMMA JoiningStep ==
    ASSUME TInv, Next, NEW s \in Sessions,
           pc[s] \in Joining, pc'[s] # pc[s], engine # NoPlan, engine' # NoPlan
    PROVE  engine' = engine
<1>. USE DEF OnlyHandlerOf
<1>1. CASE Tick \/ Crash
  BY <1>1 DEF Tick, Crash
<1>2. ASSUME NEW r \in Sessions, Request(r) \/ Environment(r) \/ Handle(r), r # s
      PROVE  FALSE
  <2>. USE DEF TInv, TypeOK, HandlerType, Go, Rest, Stop, Respond, RespondThenGo
  <2>1. CASE Request(r)
    BY <1>2, <2>1, ZenonT(40) DEF Request, SavePlan, NewPlanInstall, LoadPlan, DeletePlan,
                      RestoreSave, CheckRole, MondayPull
  <2>2. CASE Environment(r)
    BY <1>2, <2>2 DEF Environment, Connect, Login, Disconnect, Logout, MondayError
  <2>3. CASE Handle(r)
    BY <1>2, <2>3 DEF Handle, Leave, ProbeEngine, ReadLastPlan, InstallIfEmpty,
         Greet, SendOwn, Broadcast, NewPlanPreference, NewPlanOrg, LoadPlanInstall,
         LoadPlanPreference, DeletePlanFiles, RestoreLoad, RestoreInstall,
         ApplyEdit, RejectEdit, FailScheduler, SaveEdit, ImportInstall,
         ImportClone, ImportSendOwn
  <2>. QED BY <1>2, <2>1, <2>2, <2>3
<1>3. CASE Request(s)
  BY <1>3 DEF Joining, Request, SavePlan, NewPlanInstall, LoadPlan, DeletePlan,
              RestoreSave, CheckRole, MondayPull
<1>4. CASE Environment(s)
  BY <1>4 DEF Joining, Environment, Connect, Login, Disconnect, Logout, MondayError
<1>5. CASE Handle(s)
  BY <1>5 DEF Joining, Handle, Leave, ProbeEngine, ReadLastPlan, InstallIfEmpty,
         Greet, SendOwn, Broadcast, NewPlanPreference, NewPlanOrg, LoadPlanInstall,
         LoadPlanPreference, DeletePlanFiles, RestoreLoad, RestoreInstall,
         ApplyEdit, RejectEdit, FailScheduler, SaveEdit, ImportInstall,
         ImportClone, ImportSendOwn
<1>. QED BY <1>1, <1>2, <1>3, <1>4, <1>5 DEF Next

(* A session that logs in never replaces a plan others work on: the engine *)
(* is looked at again under the lock that installs the plan it has read.   *)
THEOREM JoiningIsHarmless == Spec => JoiningReplacesNothing
<1>1. ASSUME TInv, [Next]_vars
      PROVE  [\A s \in Sessions :
                 pc[s] \in Joining /\ pc'[s] # pc[s] /\ engine # NoPlan /\ engine' # NoPlan
                 => engine' = engine]_vars
  BY <1>1, JoiningStep
<1>. QED BY <1>1, InitType, NextType, PTL DEF Spec, JoiningReplacesNothing
=============================================================================
