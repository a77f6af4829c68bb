----------------------- MODULE PlanServerHeard_proofs -----------------------
(***************************************************************************)
(* Every session that may see the active plan has been sent each of its    *)
(* edits once no handler is under way, for any number of sessions, users,  *)
(* plans, edits and seconds.  While handlers are under way, an edit of the *)
(* active plan that somebody has not heard of is one that a handler still  *)
(* owes everybody, or one that a session which is joining will find in its *)
(* first state; that is the invariant (EditsTold).  It needs three others: *)
(* a handler that broadcasts has told its own session (SentOwn), nobody    *)
(* but a site admin sees a new plan before its org is recorded (NewPlans), *)
(* and no edit is part of two plans (OneHome), so that to have heard of    *)
(* the edit is to have been allowed to see the plan it is in.              *)
(***************************************************************************)
EXTENDS PlanServerStore_proofs

USE DEF server, tables, handler, client, history, vars

(* A handler that will put the edit in the channels of all who may see it: *)
(* it has still to read the active plan, or has the edit in hand.          *)
Sending == {"loadPref", "newPref", "newOrg", "importOwn", "own", "broadcast"}
Owes(s, e) == \/ pc[s] \in {"save", "importClone"}
              \/ pc[s] \in Sending /\ e \in loc[s].edits

(* A session that will find the edit in its first state.                   *)
Waits(r, e) == \/ pc[r] \in {"probe", "autoload", "install"}
               \/ pc[r] = "greet" /\ loc[r] # NoPlan /\ e \in loc[r].edits

Reached(e) ==
    /\ planOrg[engine.id] # NoOrg
    /\ \A r \in Sessions : Registered(r) /\ Access(r, engine.id)
                           => e \in heard[r] \/ Waits(r, e)

EditsTold ==
    engine # NoPlan
    => \A e \in engine.edits :
          e \in hushed \/ (\E s \in Sessions : Owes(s, e)) \/ Reached(e)

SentOwn ==
    \A s \in Sessions :
       pc[s] = "broadcast" /\ conn[s] => loc[s].edits \subseteq heard[s]

Naming(s) == pc[s] \in {"newPref", "newOrg"}
NewPlans ==
    /\ \A p \in Plans \ born : planOrg[p] = NoOrg
    /\ \A s \in Sessions : Naming(s) => loc[s].id \in born /\ planOrg[loc[s].id] = NoOrg
    /\ \A s, t \in Sessions : Naming(s) /\ Naming(t) /\ loc[s].id = loc[t].id => s = t

AtHome(home, plan) == plan \in Contents => \A e \in plan.edits : home[e] = plan.id
Homed(home) ==
    /\ AtHome(home, engine)
    /\ \A s \in Sessions : AtHome(home, loc[s])
    /\ \A s \in Sessions : AtHome(home, job[s])
    /\ \A p \in Plans, c \in Seconds : AtHome(home, disk[p][c])
Homes == [Edits -> Plans \cup {NoPlan}]
OneHome == \E home \in Homes : Homed(home)

HeardInv == StoreInv /\ OneHome /\ NewPlans /\ SentOwn /\ EditsTold

-----------------------------------------------------------------------------
(* No edit is part of two plans.                                           *)

(* What is no plan has no edits.                                           *)
LEMMA NothingAtHome ==
    ASSUME NEW home PROVE \A x \in {NoPlan, Absent, Torn} : AtHome(home, x)
BY MarkersAssumption DEF AtHome

(* A version that is read is a file of the plan's directory, or nothing.   *)
LEMMA ReadAtHome ==
    ASSUME NEW home, Homed(home), NEW p \in Plans
    PROVE  /\ AtHome(home, LoadLatest(p))
           /\ \A c \in Seconds : AtHome(home, LoadVersion(p, c))
<1>1. \A c \in Seconds : AtHome(home, LoadVersion(p, c))
  BY NothingAtHome DEF LoadVersion, Homed
<1>2. CASE Versions(p) = {}
  BY <1>1, <1>2, NothingAtHome DEF LoadLatest
<1>3. CASE Versions(p) # {}
  <2>1. Max(Versions(p)) \in Seconds
    BY <1>3, MaxExists DEF Versions
  <2>. QED BY <1>1, <1>3, <2>1 DEF LoadLatest
<1>. QED BY <1>1, <1>2, <1>3

(* An edit that is still to be made may be given any home.                 *)
LEMMA NewHome ==
    ASSUME StoreInv, NEW home \in Homes, Homed(home),
           NEW p \in Plans, nextEdit \in Edits
    PROVE  /\ [home EXCEPT ![nextEdit] = p] \in Homes
           /\ Homed([home EXCEPT ![nextEdit] = p])
<1>. DEFINE new == [home EXCEPT ![nextEdit] = p]
<1>1. new \in Homes /\ \A e \in Edits \ {nextEdit} : new[e] = home[e]
  BY DEF Homes
<1>2. ASSUME NEW plan, Made(plan), AtHome(home, plan) PROVE AtHome(new, plan)
  <2>. SUFFICES ASSUME plan \in Contents, NEW e \in plan.edits PROVE new[e] = plan.id
    BY DEF AtHome
  <2>1. e \in Edits /\ home[e] = plan.id
    BY <1>2 DEF AtHome, Contents
  <2>2. e # nextEdit
    <3>1. e \in 1 .. nextEdit - 1 /\ nextEdit \in Int
      BY <1>2 DEF Made, Edits
    <3>. QED BY <3>1
  <2>. QED BY <1>1, <2>1, <2>2
<1>. HIDE DEF new
<1>3. Homed(new)
  BY <1>2 DEF Homed, StoreInv, EditsMade, HandlersMade, JobsMade, FilesMade
<1>. QED BY <1>1, <1>3 DEF new

(* What becomes of the plans in a step that makes no plan of its own: each *)
(* of them was there before, was read, or is the one that is active now.   *)
EngineFrom == \/ engine' \in {engine, NoPlan}
              \/ \E s \in Sessions : engine' = loc[s]
              \/ engine'.edits = {}
              \/ /\ nextEdit \in Edits /\ engine' \in Contents
                 /\ \E plan \in {engine} \cup {job[s] : s \in Sessions} :
                       /\ plan \in Contents /\ engine'.id = plan.id
                       /\ engine'.edits = plan.edits \cup {nextEdit}
LocFrom == \A r \in Sessions : \/ loc'[r] \in {loc[r], NoPlan, engine, engine'}
                               \/ \E p \in Plans : loc'[r] = LoadLatest(p)
                               \/ \E p \in Plans, c \in Seconds : loc'[r] = LoadVersion(p, c)
JobFrom == \A r \in Sessions : \/ job'[r] \in {job[r], NoPlan, engine}
                               \/ job'[r].edits = {}
DiskFrom == \A p \in Plans, c \in Seconds :
               disk'[p][c] \in {disk[p][c], engine', Absent, Torn}

(* No step that only passes plans on makes an edit part of two.            *)
LEMMA FromHome ==
    ASSUME StoreInv, OneHome, EngineFrom, LocFrom, JobFrom, DiskFrom
    PROVE  OneHome'
<1>1. PICK home \in Homes : Homed(home)
  BY DEF OneHome
<1>2. ASSUME NEW h \in Homes, Homed(h), AtHome(h, engine') PROVE OneHome'
  <2>1. ASSUME NEW r \in Sessions PROVE AtHome(h, loc'[r])
    BY <1>2, ReadAtHome, NothingAtHome DEF LocFrom, Homed
  <2>2. ASSUME NEW r \in Sessions PROVE AtHome(h, job'[r])
    <3>1. CASE job'[r].edits = {}
      BY <3>1 DEF AtHome
    <3>. QED BY <1>2, <3>1, NothingAtHome DEF JobFrom, Homed
  <2>3. ASSUME NEW p \in Plans, NEW c \in Seconds PROVE AtHome(h, disk'[p][c])
    BY <1>2, NothingAtHome DEF DiskFrom, Homed
  <2>4. Homed(h)'
    BY <1>2, <2>1, <2>2, <2>3 DEF Homed, AtHome
  <2>. QED BY <2>4 DEF OneHome
<1>3. CASE engine' \in {engine, NoPlan} \/ \E s \in Sessions : engine' = loc[s]
  BY <1>1, <1>2, <1>3, NothingAtHome DEF Homed
<1>4. CASE engine'.edits = {}
  BY <1>1, <1>2, <1>4 DEF AtHome
<1>5. ASSUME nextEdit \in Edits, engine' \in Contents,
             NEW plan \in {engine} \cup {job[s] : s \in Sessions},
             plan \in Contents, engine'.id = plan.id,
             engine'.edits = plan.edits \cup {nextEdit}
      PROVE  OneHome'
  <2>. DEFINE h == [home EXCEPT ![nextEdit] = plan.id]
  <2>1. plan.id \in Plans
    BY <1>5 DEF Contents
  <2>2. h \in Homes /\ Homed(h) /\ h[nextEdit] = plan.id
    BY <1>1, <1>5, <2>1, NewHome DEF Homes
  <2>. HIDE DEF h
  <2>3. AtHome(h, plan)
    BY <1>5, <2>2 DEF Homed
  <2>4. AtHome(h, engine')
    BY <1>5, <2>2, <2>3 DEF AtHome
  <2>. QED BY <1>2, <2>2, <2>4
<1>. QED BY <1>3, <1>4, <1>5 DEF EngineFrom

(* What a handler carries after a step.                                    *)
LEMMA LocsFrom ==
    ASSUME StoreInv, [Next]_vars
    PROVE  LocFrom
<1>1. TInv
  BY DEF StoreInv, IInv
<1>2. ASSUME NEW s \in Sessions, NEW label, NEW plan,
             Go(s, label, plan) \/ RespondThenGo(s, label, plan) \/ Rest(s)
                \/ Stop(s) \/ Respond(s),
             \/ plan \in {NoPlan, loc[s], engine, engine'}
             \/ \E p \in Plans : plan = LoadLatest(p)
             \/ \E p \in Plans, c \in Seconds : plan = LoadVersion(p, c)
      PROVE  LocFrom
  <2>1. OnlyHandlerOf(s) /\ loc'[s] \in {plan, NoPlan}
    BY <1>2, Carried DEF StoreInv
  <2>. QED BY <1>2, <2>1 DEF LocFrom, OnlyHandlerOf
<1>3. UNCHANGED loc \/ (\A r \in Sessions : loc'[r] = NoPlan) => LocFrom
  BY DEF LocFrom
<1>4. ASSUME NEW s \in Sessions, Request(s) PROVE LocFrom
  <2>1. CASE SavePlan(s)
    BY <1>2, <2>1 DEF SavePlan
  <2>2. ASSUME NEW p \in Plans, NEW org \in Orgs, NewPlanInstall(s, p, org)
        PROVE  LocFrom
    BY <1>1, <2>2 DEF NewPlanInstall, Stop, LocFrom, TInv, TypeOK, HandlerType
  <2>3. CASE \E p \in Plans : LoadPlan(s, p)
    BY <1>2, <2>3 DEF LoadPlan
  <2>4. CASE \E p \in Plans : DeletePlan(s, p)
    BY <1>3, <2>4 DEF DeletePlan
  <2>5. CASE \E p \in Plans, c \in Seconds : RestoreSave(s, p, c)
    BY <1>3, <2>5 DEF RestoreSave
  <2>6. CASE \E kind \in {"TaskEdit", "PlanEdit"} : CheckRole(s, kind)
    BY <1>2, <2>6 DEF CheckRole
  <2>7. CASE \E p \in Plans, reimport \in BOOLEAN : MondayPull(s, p, reimport)
    BY <1>2, <2>7 DEF MondayPull
  <2>. QED BY <1>4, <2>1, <2>2, <2>3, <2>4, <2>5, <2>6, <2>7 DEF Request
<1>5. ASSUME NEW s \in Sessions, Environment(s) \/ Leave(s) PROVE LocFrom
  BY <1>2, <1>3, <1>5 DEF Environment, Connect, Login, Disconnect, Logout, MondayError, Leave
<1>6. ASSUME NEW s \in Sessions, Handle(s) PROVE LocFrom
  <2>1. CASE ProbeEngine(s) \/ InstallIfEmpty(s) \/ Greet(s) \/ ImportClone(s)
    BY <1>2, <2>1 DEF ProbeEngine, InstallIfEmpty, Greet, ImportClone
  <2>2. CASE ReadLastPlan(s)
    <3>1. PICK plan : /\ Go(s, "install", plan)
                      /\ plan = NoPlan \/ \E p \in Plans : plan = LoadLatest(p)
      BY <2>2 DEF ReadLastPlan, FilterVisiblePlans
    <3>. QED BY <1>2, <3>1
  <2>3. CASE SendOwn(s) \/ Broadcast(s) \/ NewPlanPreference(s) \/ NewPlanOrg(s)
             \/ LoadPlanPreference(s) \/ ImportSendOwn(s)
    BY <1>2, <2>3 DEF SendOwn, Broadcast, NewPlanPreference, NewPlanOrg,
                      LoadPlanPreference, ImportSendOwn
  <2>4. CASE LoadPlanInstall(s) \/ DeletePlanFiles(s) \/ RestoreInstall(s)
    BY <1>2, <2>4 DEF LoadPlanInstall, DeletePlanFiles, RestoreInstall
  <2>5. CASE RestoreLoad(s)
    <3>1. target[s].plan \in Plans /\ target[s].second \in Seconds
      BY <1>1, <2>5 DEF RestoreLoad, TInv, TypeOK, HandlerType, Targets, Carrying
    <3>. QED BY <1>2, <2>5, <3>1 DEF RestoreLoad
  <2>6. CASE ApplyEdit(s) \/ RejectEdit(s) \/ FailScheduler(s)
    BY <1>2, <2>6 DEF ApplyEdit, RejectEdit, FailScheduler
  <2>7. CASE SaveEdit(s) \/ ImportInstall(s)
    BY <1>2, <2>7 DEF SaveEdit, ImportInstall
  <2>. QED BY <1>5, <1>6, <2>1, <2>2, <2>3, <2>4, <2>5, <2>6, <2>7 DEF Handle
<1>7. CASE Tick \/ UNCHANGED vars
  BY <1>3, <1>7 DEF Tick
<1>8. CASE Crash
  BY <1>3, <1>8 DEF Crash
<1>. QED BY <1>4, <1>5, <1>6, <1>7, <1>8 DEF Next

(* What the active plan becomes, what the imports work on, and what is in  *)
(* the files.                                                              *)
LEMMA RestFrom ==
    ASSUME StoreInv, [Next]_vars
    PROVE  EngineFrom /\ JobFrom /\ DiskFrom
<1>1. TypeOK
  BY DEF StoreInv, IInv, TInv
<1>2. UNCHANGED engine => EngineFrom
  BY DEF EngineFrom
<1>3. UNCHANGED job => JobFrom
  BY DEF JobFrom
<1>4. UNCHANGED disk \/ Save(engine') => DiskFrom
  <2>1. Save(engine') => \A p \in Plans, c \in Seconds : disk'[p][c] \in {disk[p][c], engine'}
    BY <1>1 DEF Save, TypeOK, ServerType
  <2>. QED BY <2>1 DEF DiskFrom
<1>5. ASSUME NEW s \in Sessions, Request(s) PROVE EngineFrom /\ JobFrom /\ DiskFrom
  <2>1. CASE SavePlan(s) \/ \E p \in Plans, c \in Seconds : RestoreSave(s, p, c)
    BY <1>2, <1>3, <1>4, <2>1 DEF SavePlan, RestoreSave, Save
  <2>2. ASSUME NEW p \in Plans, NEW org \in Orgs, NewPlanInstall(s, p, org)
        PROVE  EngineFrom /\ JobFrom /\ DiskFrom
    BY <1>3, <1>4, <2>2 DEF NewPlanInstall, Save, EngineFrom
  <2>3. CASE \E p \in Plans : LoadPlan(s, p) \/ DeletePlan(s, p)
    BY <1>2, <1>3, <1>4, <2>3 DEF LoadPlan, DeletePlan
  <2>4. CASE \E kind \in {"TaskEdit", "PlanEdit"} : CheckRole(s, kind)
    BY <1>2, <1>3, <1>4, <2>4 DEF CheckRole
  <2>5. ASSUME NEW p \in Plans, NEW reimport \in BOOLEAN, MondayPull(s, p, reimport)
        PROVE  EngineFrom /\ JobFrom /\ DiskFrom
    <3>1. UNCHANGED <<engine, disk>>
      BY <2>5 DEF MondayPull
    <3>2. \A r \in Sessions : job'[r] \in {job[r], NoPlan, engine, [engine EXCEPT !.edits = {}]}
      BY <1>1, <2>5 DEF MondayPull, TypeOK
    <3>3. engine \in Contents => [engine EXCEPT !.edits = {}].edits = {}
      BY DEF Contents
    <3>4. engine \notin Contents => \A r \in Sessions : job'[r] \in {job[r], NoPlan}
      BY <1>1, <2>5 DEF MondayPull, TypeOK, ServerType
    <3>5. JobFrom
      BY <3>2, <3>3, <3>4 DEF JobFrom
    <3>. QED BY <1>2, <1>4, <3>1, <3>5
  <2>. QED BY <1>5, <2>1, <2>2, <2>3, <2>4, <2>5 DEF Request
<1>6. ASSUME NEW s \in Sessions, Environment(s) \/ Leave(s)
      PROVE  EngineFrom /\ JobFrom /\ DiskFrom
  <2>1. \A r \in Sessions : job'[r] \in {job[r], NoPlan}
    BY <1>1, <1>6 DEF Environment, Connect, Login, Disconnect, Logout, MondayError, Leave, TypeOK
  <2>2. UNCHANGED <<engine, disk>>
    BY <1>6 DEF Environment, Connect, Login, Disconnect, Logout, MondayError, Leave
  <2>. QED BY <1>2, <1>4, <2>1, <2>2 DEF JobFrom
<1>7. ASSUME NEW s \in Sessions, Handle(s) PROVE EngineFrom /\ JobFrom /\ DiskFrom
  <2>1. CASE \/ ProbeEngine(s) \/ ReadLastPlan(s) \/ Greet(s) \/ SendOwn(s)
             \/ Broadcast(s) \/ NewPlanPreference(s) \/ NewPlanOrg(s)
             \/ LoadPlanPreference(s) \/ RestoreLoad(s) \/ RejectEdit(s)
             \/ ImportClone(s) \/ ImportSendOwn(s)
    <3>1. UNCHANGED <<engine, job, disk>>
      BY <2>1 DEF ProbeEngine, ReadLastPlan, Greet, SendOwn, Broadcast,
         NewPlanPreference, NewPlanOrg, LoadPlanPreference, RestoreLoad,
         RejectEdit, ImportClone, ImportSendOwn
    <3>. QED BY <1>2, <1>3, <1>4, <3>1
  <2>2. CASE InstallIfEmpty(s)
    BY <1>3, <1>4, <2>2 DEF InstallIfEmpty, EngineFrom
  <2>3. CASE LoadPlanInstall(s) \/ RestoreInstall(s)
    BY <1>3, <1>4, <2>3 DEF LoadPlanInstall, RestoreInstall, EngineFrom
  <2>4. CASE DeletePlanFiles(s)
    <3>1. UNCHANGED <<engine, job>>
      BY <2>4 DEF DeletePlanFiles
    <3>2. \A p \in Plans, c \in Seconds : disk'[p][c] \in {disk[p][c], Absent}
      BY <1>1, <2>4 DEF DeletePlanFiles, TypeOK, ServerType
    <3>. QED BY <1>2, <1>3, <3>1, <3>2 DEF DiskFrom
  <2>5. CASE ApplyEdit(s) \/ FailScheduler(s)
    <3>1. /\ engine \in Contents /\ nextEdit \in Edits /\ UNCHANGED <<job, disk>>
          /\ engine' = [engine EXCEPT !.edits = @ \cup {nextEdit}]
      BY <1>1, <2>5 DEF ApplyEdit, FailScheduler, TypeOK, ServerType
    <3>2. engine' \in Contents
      BY <3>1 DEF Contents
    <3>3. engine'.id = engine.id /\ engine'.edits = engine.edits \cup {nextEdit}
      BY <3>1 DEF Contents
    <3>4. EngineFrom
      BY <3>1, <3>2, <3>3 DEF EngineFrom
    <3>. QED BY <1>3, <1>4, <3>1, <3>4
  <2>6. CASE SaveEdit(s)
    BY <1>2, <1>3, <1>4, <2>6 DEF SaveEdit, Save
  <2>7. CASE ImportInstall(s)
    <3>1. /\ job[s] \in Contents /\ nextEdit \in Edits /\ Save(engine')
          /\ engine' = [job[s] EXCEPT !.edits = @ \cup {nextEdit}]
          /\ \A r \in Sessions : job'[r] \in {job[r], NoPlan}
      BY <1>1, <2>7 DEF ImportInstall, TypeOK
    <3>2. engine' \in Contents
      BY <3>1 DEF Contents
    <3>3. engine'.id = job[s].id /\ engine'.edits = job[s].edits \cup {nextEdit}
      BY <3>1 DEF Contents
    <3>4. EngineFrom
      BY <3>1, <3>2, <3>3 DEF EngineFrom
    <3>. QED BY <1>4, <3>1, <3>4 DEF JobFrom
  <2>. QED BY <1>6, <1>7, <2>1, <2>2, <2>3, <2>4, <2>5, <2>6, <2>7 DEF Handle
<1>8. CASE Tick \/ UNCHANGED vars
  BY <1>2, <1>3, <1>4, <1>8 DEF Tick
<1>9. CASE Crash
  <2>1. \A p \in Plans, c \in Seconds : disk'[p][c] \in {disk[p][c], Torn}
    <3>1. CASE UNCHANGED disk
      BY <3>1
    <3>2. ASSUME NEW s \in Sessions, NEW q \in BeingSaved(s),
                 disk' = [disk EXCEPT ![q][clock] = Torn]
          PROVE  \A p \in Plans, c \in Seconds : disk'[p][c] \in {disk[p][c], Torn}
      BY <1>1, <3>2 DEF TypeOK, ServerType
    <3>. QED BY <1>9, <3>1, <3>2 DEF Crash
  <2>. QED BY <1>9, <2>1 DEF Crash, EngineFrom, JobFrom, DiskFrom
<1>. QED BY <1>5, <1>6, <1>7, <1>8, <1>9 DEF Next

(* No edit is part of two plans, and none becomes so.                      *)
LEMMA NextHome ==
    ASSUME StoreInv, OneHome, [Next]_vars
    PROVE  OneHome'
BY LocsFrom, RestFrom, FromHome
-----------------------------------------------------------------------------
(* The edits of the active plan that somebody has not heard of.            *)

(* An edit that a session holds in a plan and that is in the active plan   *)
(* makes the two the same plan.                                            *)
LEMMA SamePlan ==
    ASSUME StoreInv, OneHome, NEW s \in Sessions, loc[s] # NoPlan,
           engine # NoPlan, NEW e, e \in loc[s].edits, e \in engine.edits
    PROVE  loc[s].id = engine.id
<1>1. loc[s] \in Contents /\ engine \in Contents
  BY DEF StoreInv, IInv, TInv, TypeOK, HandlerType, ServerType
<1>. QED BY <1>1 DEF OneHome, Homed, AtHome

(* Who has a channel after a step had it before, with what was put in it,  *)
(* unless it has just connected.                                           *)
HeardKept(s) ==
    \A r \in Sessions : conn'[r] => \/ conn[r] /\ heard[r] \subseteq heard'[r]
                                    \/ r = s /\ pc'[s] = "auth"

(* A step of a handler that adds to the active plan only what is left to a *)
(* later broadcast: it must not drop what it owes, nor rest before it has  *)
(* told its own session what that session waits for.                       *)
LEMMA ToldKept ==
    ASSUME HeardInv, NEW s \in Sessions, OnlyHandlerOf(s), HeardKept(s),
           UNCHANGED <<planOrg, perm>>, hushed \subseteq hushed',
           engine' # NoPlan => /\ engine # NoPlan /\ engine'.id = engine.id
                               /\ engine'.edits \subseteq engine.edits \cup hushed',
           pc[s] \in {"none", "auth"} => pc'[s] \in {"none", "auth", "probe"},
           engine # NoPlan
           => \A e \in engine.edits :
                 /\ Owes(s, e) => Owes(s, e)' \/ e \in hushed'
                 /\ Waits(s, e) /\ conn'[s] /\ Access(s, engine.id)
                    => Waits(s, e)' \/ e \in heard'[s]
    PROVE  EditsTold'
<1>. SUFFICES ASSUME engine' # NoPlan, NEW e \in engine'.edits, e \notin hushed'
              PROVE  (\E r \in Sessions : Owes(r, e)') \/ Reached(e)'
  BY DEF EditsTold
<1>1. engine # NoPlan /\ engine'.id = engine.id /\ e \in engine.edits /\ e \notin hushed
  OBVIOUS
<1>2. \A r \in Sessions \ {s} : Owes(r, e) = Owes(r, e)' /\ Waits(r, e) = Waits(r, e)'
  BY DEF OnlyHandlerOf, Owes, Waits
<1>3. CASE \E r \in Sessions : Owes(r, e)
  BY <1>1, <1>2, <1>3
<1>4. CASE Reached(e)
  <2>1. planOrg'[engine'.id] # NoOrg
    BY <1>1, <1>4 DEF Reached
  <2>2. ASSUME NEW r \in Sessions, Registered(r)', Access(r, engine.id)'
        PROVE  e \in heard'[r] \/ Waits(r, e)'
    <3>1. conn'[r] /\ pc'[r] \notin {"none", "auth"}
      BY <2>2 DEF Registered
    <3>2. conn[r] /\ heard[r] \subseteq heard'[r]
      BY <3>1 DEF HeardKept
    <3>3. Access(r, engine.id)
      BY <2>2 DEF Access, db
    <3>4. CASE r # s
      <4>1. Registered(r)
        BY <3>1, <3>2, <3>4 DEF Registered, OnlyHandlerOf
      <4>. QED BY <1>2, <1>4, <3>2, <3>3, <3>4, <4>1 DEF Reached
    <3>5. CASE r = s /\ pc[s] \in {"none", "auth"}
      BY <3>1, <3>5 DEF Waits
    <3>6. CASE r = s /\ pc[s] \notin {"none", "auth"}
      <4>1. e \in heard[s] \/ Waits(s, e)
        BY <1>4, <3>2, <3>3, <3>6 DEF Reached, Registered
      <4>. QED BY <1>1, <3>1, <3>2, <3>3, <3>6, <4>1
    <3>. QED BY <3>4, <3>5, <3>6
  <2>. QED BY <1>1, <2>1, <2>2 DEF Reached
<1>. QED BY <1>1, <1>3, <1>4 DEF HeardInv, EditsTold

Owing == {"save", "importClone"} \cup Sending

(* A handler that is in none of the steps in which it owes or waits.       *)
LEMMA Idler ==
    ASSUME NEW s \in Sessions, NEW e, pc[s] \notin Owing \cup Joining
    PROVE  ~Owes(s, e) /\ ~Waits(s, e)
BY DEF Owes, Waits, Owing, Joining

(* A handler that has read the active plan, or is to read it, owes it all. *)
LEMMA ToldAnew ==
    ASSUME NEW s \in Sessions,
           \/ pc'[s] \in {"save", "importClone"}
           \/ pc'[s] \in Sending /\ loc'[s] = engine'
           \/ engine' = NoPlan
           \/ engine'.edits \subseteq hushed'
    PROVE  EditsTold'
BY DEF EditsTold, Owes

(* The broadcast of a handler's own session came before the others'.       *)
LEMMA SentOwnKept ==
    ASSUME HeardInv, NEW s \in Sessions, OnlyHandlerOf(s), HeardKept(s),
           \/ pc'[s] # "broadcast" \/ ~conn'[s]
           \/ loc'[s].edits \subseteq heard'[s]
           \/ pc'[s] = pc[s] /\ loc'[s] = loc[s]
    PROVE  SentOwn'
<1>. SUFFICES ASSUME NEW r \in Sessions, pc'[r] = "broadcast", conn'[r]
              PROVE  loc'[r].edits \subseteq heard'[r]
  BY DEF SentOwn
<1>1. conn[r] /\ heard[r] \subseteq heard'[r]
  BY DEF HeardKept
<1>. QED BY <1>1 DEF OnlyHandlerOf, HeardInv, SentOwn

(* Plans that have no org yet.                                             *)
LEMMA NewPlansKept ==
    ASSUME HeardInv, NEW s \in Sessions, OnlyHandlerOf(s),
           UNCHANGED <<born, planOrg>>,
           Naming(s)' => Naming(s) /\ loc'[s] = loc[s]
    PROVE  NewPlans'
<1>1. \A r \in Sessions : Naming(r)' => Naming(r) /\ loc'[r] = loc[r]
  BY DEF OnlyHandlerOf, Naming
<1>. QED BY <1>1 DEF HeardInv, NewPlans

-----------------------------------------------------------------------------
(* Each step of a handler.                                                 *)
Heard == NewPlans /\ SentOwn /\ EditsTold

(* A handler that moves on, or comes to rest.                              *)
LEMMA MovedOn ==
    ASSUME HeardInv, NEW s \in Sessions, NEW label, NEW plan,
           Go(s, label, plan) \/ RespondThenGo(s, label, plan) \/ Rest(s)
              \/ Stop(s) \/ Respond(s)
    PROVE  /\ OnlyHandlerOf(s)
           /\ \/ pc'[s] = label /\ loc'[s] = plan
              \/ pc'[s] \in {"idle", "none"}
           /\ Go(s, label, plan) \/ (conn[s] /\ RespondThenGo(s, label, plan))
              => pc'[s] = label /\ loc'[s] = plan
           /\ RespondThenGo(s, label, plan) /\ pc'[s] = label
              => conn[s] \/ label = "none"
BY DEF Go, RespondThenGo, Rest, Stop, Respond, OnlyHandlerOf, HeardInv, StoreInv,
       IInv, TInv, TypeOK, HandlerType

(* A step in which the handler neither owes nor waits, before or after.    *)
LEMMA QuietHeard ==
    ASSUME HeardInv, NEW s \in Sessions, OnlyHandlerOf(s), HeardKept(s),
           UNCHANGED <<planOrg, perm, born>>, hushed \subseteq hushed',
           engine' # NoPlan => /\ engine # NoPlan /\ engine'.id = engine.id
                               /\ engine'.edits \subseteq engine.edits \cup hushed',
           pc[s] \in {"none", "auth"} => pc'[s] \in {"none", "auth", "probe"},
           pc[s] \notin Owing \cup Joining,
           pc'[s] \notin {"newPref", "newOrg", "broadcast"}
    PROVE  Heard'
<1>1. NewPlans'
  BY NewPlansKept DEF Naming
<1>2. SentOwn'
  BY SentOwnKept
<1>3. EditsTold'
  BY Idler, ToldKept
<1>. QED BY <1>1, <1>2, <1>3 DEF Heard

(* Connections come and go: what a handler was about to do it does.        *)
LEMMA EnvironmentHeard ==
    ASSUME HeardInv, NEW s \in Sessions, Environment(s) \/ Leave(s)
    PROVE  Heard'
<1>. USE DEF HeardInv, StoreInv, IInv, TInv, TypeOK, HandlerType, ClientType
<1>1. UNCHANGED <<engine, hushed, tables>>
  BY DEF Environment, Connect, Login, Disconnect, Logout, MondayError, Leave
<1>2. CASE Connect(s) \/ Login(s)
  <2>1. OnlyHandlerOf(s) /\ pc[s] \in {"none", "auth"} /\ pc'[s] \in {"auth", "probe"}
    BY <1>2 DEF Connect, Login, OnlyHandlerOf
  <2>2. HeardKept(s)
    BY <1>2 DEF Connect, Login, HeardKept
  <2>. QED BY <1>1, <2>1, <2>2, QuietHeard DEF Owing, Sending, Joining
<1>3. CASE Disconnect(s) \/ MondayError(s)
  <2>1. OnlyHandlerOf(s) /\ pc'[s] = pc[s] /\ loc'[s] = loc[s]
    BY <1>3 DEF Disconnect, MondayError, OnlyHandlerOf
  <2>2. HeardKept(s)
    BY <1>3 DEF Disconnect, MondayError, Close, HeardKept
  <2>3. \A e : Owes(s, e) => Owes(s, e)'
    BY <2>1 DEF Owes
  <2>4. \A e : Waits(s, e) => Waits(s, e)'
    BY <2>1 DEF Waits
  <2>5. EditsTold'
    BY <1>1, <2>1, <2>2, <2>3, <2>4, ToldKept
  <2>6. SentOwn'
    BY <2>1, <2>2, SentOwnKept
  <2>7. NewPlans'
    BY <1>1, <2>1, NewPlansKept DEF Naming
  <2>. QED BY <2>5, <2>6, <2>7 DEF Heard
<1>4. CASE Logout(s) \/ Leave(s)
  <2>1. pc[s] \in {"auth", "idle"} /\ pc'[s] = "none" /\ OnlyHandlerOf(s)
    BY <1>4 DEF Logout, Leave, Stop, OnlyHandlerOf
  <2>2. HeardKept(s)
    BY <1>4 DEF Logout, Leave, Close, HeardKept
  <2>. QED BY <1>1, <2>1, <2>2, QuietHeard DEF Owing, Sending, Joining
<1>. QED BY <1>2, <1>3, <1>4 DEF Environment

(* Requests that read, save, or are refused.                               *)
LEMMA ReadingHeard ==
    ASSUME HeardInv, NEW s \in Sessions,
           \/ SavePlan(s) \/ \E p \in Plans : LoadPlan(s, p)
           \/ \E p \in Plans, c \in Seconds : RestoreSave(s, p, c)
           \/ \E kind \in {"TaskEdit", "PlanEdit"} : CheckRole(s, kind)
           \/ \E p \in Plans, reimport \in BOOLEAN : MondayPull(s, p, reimport)
           \/ DeletePlanFiles(s) \/ RestoreLoad(s) \/ RejectEdit(s)
    PROVE  Heard'
<1>1. UNCHANGED <<engine, tables, conn, heard, hushed>>
  BY DEF SavePlan, LoadPlan, RestoreSave, CheckRole, MondayPull, DeletePlanFiles,
         RestoreLoad, RejectEdit
<1>2. pc[s] \in {"idle", "delFiles", "rsLoad", "apply"}
  BY DEF SavePlan, LoadPlan, RestoreSave, CheckRole, MondayPull, DeletePlanFiles,
         RestoreLoad, RejectEdit
<1>3. /\ OnlyHandlerOf(s)
      /\ pc'[s] \in {"idle", "none", "rsLoad", "loadInstall", "apply", "rsInstall"}
  <2>1. CASE SavePlan(s) \/ DeletePlanFiles(s) \/ RejectEdit(s)
    BY <2>1, MovedOn DEF SavePlan, DeletePlanFiles, RejectEdit
  <2>2. CASE \E p \in Plans : LoadPlan(s, p)
    BY <2>2, MovedOn DEF LoadPlan
  <2>3. CASE \E p \in Plans, c \in Seconds : RestoreSave(s, p, c)
    BY <2>3 DEF RestoreSave, OnlyHandlerOf, HeardInv, StoreInv, IInv, TInv, TypeOK, HandlerType
  <2>4. CASE \E kind \in {"TaskEdit", "PlanEdit"} : CheckRole(s, kind)
    BY <2>4, MovedOn DEF CheckRole
  <2>5. CASE \E p \in Plans, reimport \in BOOLEAN : MondayPull(s, p, reimport)
    BY <2>5, MovedOn DEF MondayPull
  <2>6. CASE RestoreLoad(s)
    BY <2>6, MovedOn DEF RestoreLoad
  <2>. QED BY <2>1, <2>2, <2>3, <2>4, <2>5, <2>6
<1>4. HeardKept(s)
  BY <1>1 DEF HeardKept
<1>. QED BY <1>1, <1>2, <1>3, <1>4, QuietHeard DEF Owing, Sending, Joining

(* Who loses the access to the plan by its deletion never heard of it, and *)
(* who gains it has the edits left to a later broadcast.                   *)
LEMMA DeletePlanHeard ==
    ASSUME HeardInv, NEW s \in Sessions, NEW p \in Plans, DeletePlan(s, p)
    PROVE  Heard'
<1>. USE DEF HeardInv, StoreInv, IInv, TInv, TypeOK, HandlerType, TablesType
<1>1. /\ UNCHANGED <<engine, planOrg, born, loc, conn, heard>>
      /\ perm' = [perm EXCEPT ![p] = [u \in Users |-> "Inherit"]]
      /\ pc[s] = "idle" /\ pc' = [pc EXCEPT ![s] = "delFiles"]
  BY DEF DeletePlan
<1>2. OnlyHandlerOf(s) /\ HeardKept(s) /\ pc'[s] = "delFiles"
  BY <1>1 DEF DeletePlan, OnlyHandlerOf, HeardKept
<1>3. NewPlans' /\ SentOwn'
  BY <1>1, <1>2, NewPlansKept, SentOwnKept DEF Naming
<1>4. EditsTold'
  <2>. SUFFICES ASSUME engine # NoPlan, NEW e \in engine.edits, e \notin hushed'
                PROVE  (\E r \in Sessions : Owes(r, e)') \/ Reached(e)'
    BY <1>1 DEF EditsTold
  <2>1. e \notin hushed /\ ~(engine.id = p /\ \E u \in Users : perm[p][u] = "NoAccess")
    BY DEF DeletePlan
  <2>2. \A r \in Sessions : Owes(r, e) => Owes(r, e)'
    BY <1>1, <1>2 DEF Owes, Sending, OnlyHandlerOf
  <2>3. \A r \in Sessions : /\ Waits(r, e) => Waits(r, e)'
                            /\ Registered(r)' => Registered(r)
    BY <1>1, <1>2 DEF Waits, Registered, OnlyHandlerOf
  <2>4. \A r \in Sessions : Access(r, engine.id)' => Access(r, engine.id)
    <3>1. engine.id \in Plans
      BY DEF ServerType, Contents
    <3>2. \A u \in Users : perm'[engine.id][u] # "NoAccess" => perm[engine.id][u] # "NoAccess"
      BY <1>1, <2>1, <3>1
    <3>3. \A r \in Sessions : UserOf[r] \in Users
      BY SessionsAssumption
    <3>. QED BY <1>1, <3>1, <3>2, <3>3 DEF Access, HasPlanAccess, db
  <2>. QED BY <1>1, <2>1, <2>2, <2>3, <2>4 DEF EditsTold, Reached
<1>. QED BY <1>3, <1>4 DEF Heard

(* The first state of a session that joins: what is active when it looks   *)
(* at the engine for the last time.                                        *)
LEMMA JoinHeard ==
    ASSUME HeardInv, NEW s \in Sessions, ProbeEngine(s) \/ ReadLastPlan(s)
    PROVE  Heard'
<1>1. /\ UNCHANGED <<engine, tables, conn, heard, hushed>>
      /\ pc[s] \in {"probe", "autoload"}
  BY DEF ProbeEngine, ReadLastPlan
<1>2. PICK label \in {"autoload", "install"} : \E plan : Go(s, label, plan)
  BY DEF ProbeEngine, ReadLastPlan
<1>3. OnlyHandlerOf(s) /\ pc'[s] = label
  BY <1>2, MovedOn
<1>4. HeardKept(s)
  BY <1>1 DEF HeardKept
<1>5. \A e : ~Owes(s, e) /\ Waits(s, e)'
  BY <1>1, <1>3 DEF Owes, Sending, Waits
<1>6. EditsTold'
  BY <1>1, <1>3, <1>4, <1>5, ToldKept
<1>7. NewPlans' /\ SentOwn'
  BY <1>1, <1>3, <1>4, NewPlansKept, SentOwnKept DEF Naming
<1>. QED BY <1>6, <1>7 DEF Heard

(* A session that finds a plan active greets with that plan; one that      *)
(* fills the engine does not tell the others.                              *)
LEMMA InstallHeard ==
    ASSUME HeardInv, NEW s \in Sessions, InstallIfEmpty(s)
    PROVE  Heard'
<1>1. /\ UNCHANGED <<tables, conn, heard>> /\ pc[s] = "install"
      /\ Go(s, "greet", engine')
      /\ engine' = IF engine = NoPlan THEN loc[s] ELSE engine
      /\ hushed' = IF engine' = engine THEN hushed ELSE hushed \cup loc[s].edits
  BY DEF InstallIfEmpty
<1>2. OnlyHandlerOf(s) /\ pc'[s] = "greet" /\ loc'[s] = engine'
  BY <1>1, MovedOn
<1>3. HeardKept(s)
  BY <1>1 DEF HeardKept
<1>4. NewPlans' /\ SentOwn'
  BY <1>1, <1>2, <1>3, NewPlansKept, SentOwnKept DEF Naming
<1>5. CASE engine = NoPlan
  <2>1. engine' = NoPlan \/ engine'.edits \subseteq hushed'
    BY <1>1, <1>5
  <2>2. EditsTold'
    BY <2>1, ToldAnew
  <2>. QED BY <1>4, <2>2 DEF Heard
<1>6. CASE engine # NoPlan
  <2>1. engine' = engine /\ hushed' = hushed
    BY <1>1, <1>6
  <2>2. \A e \in engine.edits : ~Owes(s, e) /\ Waits(s, e)'
    BY <1>1, <1>2, <1>6, <2>1 DEF Owes, Sending, Waits
  <2>3. EditsTold'
    BY <1>1, <1>2, <1>3, <2>1, <2>2, ToldKept
  <2>. QED BY <1>4, <2>3 DEF Heard
<1>. QED BY <1>5, <1>6

(* What the sessions R are told.                                           *)
LEMMA Delivered ==
    ASSUME HeardInv, NEW R, NEW plan, Deliver(R, plan)
    PROVE  /\ UNCHANGED conn
           /\ \A r \in Sessions : heard[r] \subseteq heard'[r]
           /\ \A r \in Sessions \cap R : plan.edits \subseteq heard'[r]
BY DEF Deliver

(* The first state is sent, if the session may still see the plan.         *)
LEMMA GreetHeard ==
    ASSUME HeardInv, NEW s \in Sessions, Greet(s)
    PROVE  Heard'
<1>1. /\ UNCHANGED <<engine, tables, conn, hushed>> /\ pc[s] = "greet"
      /\ Respond(s)
      /\ \A r \in Sessions : heard[r] \subseteq heard'[r]
  BY Delivered DEF Greet
<1>2. OnlyHandlerOf(s) /\ pc'[s] \in {"idle", "none"}
  BY <1>1, MovedOn DEF Respond, Rest, Stop
<1>3. HeardKept(s)
  BY <1>1 DEF HeardKept
<1>4. ASSUME engine # NoPlan, NEW e \in engine.edits, Waits(s, e), conn'[s],
             Access(s, engine.id)
      PROVE  e \in heard'[s]
  <2>1. loc[s] # NoPlan /\ e \in loc[s].edits
    BY <1>1, <1>4 DEF Waits
  <2>2. loc[s].id = engine.id
    BY <1>4, <2>1, SamePlan DEF HeardInv
  <2>3. Deliver({s}, loc[s])
    BY <1>1, <1>4, <2>1, <2>2 DEF Greet
  <2>. QED BY <2>1, <2>3, Delivered
<1>5. \A e : ~Owes(s, e)
  BY <1>1 DEF Owes, Sending
<1>6. EditsTold'
  BY <1>1, <1>2, <1>3, <1>4, <1>5, ToldKept
<1>7. NewPlans' /\ SentOwn'
  BY <1>1, <1>2, <1>3, NewPlansKept, SentOwnKept DEF Naming
<1>. QED BY <1>6, <1>7 DEF Heard

-----------------------------------------------------------------------------
(* Every edit of the active plan is owed by a handler that has just made   *)
(* it active, or that changed it and has still to save it.                 *)
LEMMA SwitchHeard ==
    ASSUME HeardInv, NEW s \in Sessions,
           LoadPlanInstall(s) \/ RestoreInstall(s) \/ ImportInstall(s)
              \/ SaveEdit(s) \/ ImportClone(s)
    PROVE  Heard'
<1>1. UNCHANGED <<tables, conn, heard>>
  BY DEF LoadPlanInstall, RestoreInstall, ImportInstall, SaveEdit, ImportClone
<1>2. /\ OnlyHandlerOf(s)
      /\ \/ pc'[s] = "importClone"
         \/ pc'[s] \in {"loadPref", "own", "importOwn"} /\ loc'[s] = engine'
         \/ pc'[s] \in {"idle", "none"} /\ engine'.edits \subseteq hushed'
  <2>1. CASE LoadPlanInstall(s)
    <3>1. /\ RespondThenGo(s, "loadPref", loc[s]) /\ engine' = loc[s]
          /\ conn[s] \/ engine'.edits \subseteq hushed'
      BY <2>1 DEF LoadPlanInstall
    <3>2. /\ OnlyHandlerOf(s)
          /\ (pc'[s] = "loadPref" /\ loc'[s] = loc[s]) \/ pc'[s] \in {"idle", "none"}
          /\ conn[s] => pc'[s] = "loadPref" /\ loc'[s] = loc[s]
      BY <3>1, MovedOn
    <3>. QED BY <3>1, <3>2
  <2>2. CASE RestoreInstall(s)
    BY <2>2, MovedOn DEF RestoreInstall
  <2>3. CASE ImportInstall(s)
    BY <2>3, MovedOn DEF ImportInstall
  <2>4. CASE SaveEdit(s)
    BY <2>4, MovedOn DEF SaveEdit
  <2>5. CASE ImportClone(s)
    BY <2>5, MovedOn DEF ImportClone
  <2>. QED BY <2>1, <2>2, <2>3, <2>4, <2>5
<1>3. HeardKept(s)
  BY <1>1 DEF HeardKept
<1>4. EditsTold'
  BY <1>2, ToldAnew DEF Sending
<1>5. NewPlans' /\ SentOwn'
  BY <1>1, <1>2, <1>3, NewPlansKept, SentOwnKept DEF Naming
<1>. QED BY <1>4, <1>5 DEF Heard

(* An edit is owed until it is saved, or its handler has given up.         *)
LEMMA EditHeard ==
    ASSUME HeardInv, NEW s \in Sessions, ApplyEdit(s) \/ FailScheduler(s)
    PROVE  Heard'
<1>1. /\ UNCHANGED <<tables, conn, heard>> /\ pc[s] = "apply" /\ engine # NoPlan
      /\ engine' = [engine EXCEPT !.edits = @ \cup {nextEdit}]
  BY DEF ApplyEdit, FailScheduler
<1>2. OnlyHandlerOf(s) /\ pc'[s] \in {"save", "idle", "none"}
  BY MovedOn DEF ApplyEdit, FailScheduler
<1>3. HeardKept(s)
  BY <1>1 DEF HeardKept
<1>4. engine \in Contents
  BY <1>1 DEF HeardInv, StoreInv, IInv, TInv, TypeOK, ServerType
<1>5. engine'.id = engine.id /\ engine'.edits = engine.edits \cup {nextEdit}
  BY <1>1, <1>4 DEF Contents
<1>6. CASE pc'[s] = "save"
  <2>1. EditsTold'
    BY <1>6, ToldAnew
  <2>2. NewPlans' /\ SentOwn'
    BY <1>1, <1>2, <1>3, NewPlansKept, SentOwnKept DEF Naming
  <2>. QED BY <2>1, <2>2 DEF Heard
<1>7. CASE pc'[s] # "save"
  <2>1. hushed' = hushed \cup {nextEdit}
    <3>1. CASE ApplyEdit(s)
      <4>1. RespondThenGo(s, "save", NoPlan)
        BY <3>1 DEF ApplyEdit
      <4>2. ~conn[s]
        BY <1>7, <4>1, MovedOn
      <4>. QED BY <3>1, <4>2 DEF ApplyEdit
    <3>. QED BY <3>1 DEF FailScheduler
  <2>. QED BY <1>1, <1>2, <1>3, <1>5, <1>7, <2>1, QuietHeard DEF Owing, Sending, Joining
<1>. QED BY <1>6, <1>7

-----------------------------------------------------------------------------
(* A new plan has no edits, and no org; its id is given to nobody else.    *)
LEMMA NewPlanInstallHeard ==
    ASSUME HeardInv, NEW s \in Sessions, NEW p \in Plans, NEW org \in Orgs,
           NewPlanInstall(s, p, org)
    PROVE  Heard'
<1>. USE DEF HeardInv, StoreInv, IInv, TInv, TypeOK, HandlerType, TablesType
<1>1. /\ UNCHANGED <<planOrg, perm, conn, heard, hushed>> /\ pc[s] = "idle"
      /\ p \notin born /\ born' = born \cup {p}
      /\ engine' = [id |-> p, edits |-> {}]
  BY DEF NewPlanInstall
<1>2. /\ OnlyHandlerOf(s)
      /\ (pc'[s] = "newPref" /\ loc'[s] = engine') \/ pc'[s] = "none"
  BY DEF NewPlanInstall, Stop, OnlyHandlerOf
<1>3. HeardKept(s)
  BY <1>1 DEF HeardKept
<1>4. EditsTold'
  BY <1>1, ToldAnew
<1>5. SentOwn'
  BY <1>2, <1>3, SentOwnKept
<1>6. NewPlans'
  <2>1. \A r \in Sessions \ {s} : Naming(r)' => Naming(r) /\ loc'[r] = loc[r]
    BY <1>2 DEF OnlyHandlerOf, Naming
  <2>2. \A r \in Sessions \ {s} : Naming(r)' => loc'[r].id \in born
    BY <2>1 DEF NewPlans
  <2>3. Naming(s)' => loc'[s].id = p
    BY <1>1, <1>2 DEF Naming
  <2>4. planOrg[p] = NoOrg
    BY <1>1 DEF NewPlans
  <2>5. \A r \in Sessions : Naming(r)' => loc'[r].id \in born' /\ planOrg'[loc'[r].id] = NoOrg
    BY <1>1, <2>1, <2>3, <2>4 DEF NewPlans
  <2>6. \A r, t \in Sessions : Naming(r)' /\ Naming(t)' /\ loc'[r].id = loc'[t].id => r = t
    BY <1>1, <2>1, <2>2, <2>3 DEF NewPlans
  <2>7. \A q \in Plans \ born' : planOrg'[q] = NoOrg
    BY <1>1 DEF NewPlans
  <2>. QED BY <2>5, <2>6, <2>7 DEF NewPlans
<1>. QED BY <1>4, <1>5, <1>6 DEF Heard

(* A handler on its way to the broadcast keeps what it has in hand.        *)
LEMMA OnTheWayHeard ==
    ASSUME HeardInv, NEW s \in Sessions,
           NewPlanPreference(s) \/ LoadPlanPreference(s)
    PROVE  Heard'
<1>1. /\ UNCHANGED <<engine, planOrg, perm, born, conn, heard, hushed>>
      /\ \/ pc[s] = "newPref" /\ Go(s, "newOrg", loc[s])
         \/ pc[s] = "loadPref" /\ Go(s, "own", loc[s])
  BY DEF NewPlanPreference, LoadPlanPreference
<1>2. /\ OnlyHandlerOf(s) /\ loc'[s] = loc[s]
      /\ \/ pc[s] = "newPref" /\ pc'[s] = "newOrg"
         \/ pc[s] = "loadPref" /\ pc'[s] = "own"
  BY <1>1, MovedOn
<1>3. HeardKept(s)
  BY <1>1 DEF HeardKept
<1>4. \A e : ~Waits(s, e) /\ (Owes(s, e) => Owes(s, e)')
  BY <1>2 DEF Owes, Waits, Sending
<1>5. EditsTold'
  BY <1>1, <1>2, <1>3, <1>4, ToldKept
<1>6. NewPlans' /\ SentOwn'
  BY <1>1, <1>2, <1>3, NewPlansKept, SentOwnKept DEF Naming
<1>. QED BY <1>5, <1>6 DEF Heard

(* The organisation's members may see the plan from here on: what it has   *)
(* become meanwhile was hushed, or somebody owes it.                       *)
LEMMA NewPlanOrgHeard ==
    ASSUME HeardInv, NEW s \in Sessions, NewPlanOrg(s)
    PROVE  Heard'
<1>. USE DEF HeardInv, StoreInv, IInv, TInv, TypeOK, HandlerType, TablesType
<1>1. /\ UNCHANGED <<engine, perm, born, conn, heard, hushed>> /\ pc[s] = "newOrg"
      /\ Go(s, "own", loc[s])
      /\ planOrg' = [planOrg EXCEPT ![loc[s].id] = target[s].org]
  BY DEF NewPlanOrg
<1>2. OnlyHandlerOf(s) /\ pc'[s] = "own" /\ loc'[s] = loc[s]
  BY <1>1, MovedOn
<1>3. HeardKept(s)
  BY <1>1 DEF HeardKept
<1>4. loc[s] \in Contents /\ loc[s].id \in Plans /\ loc[s].id \in born
      /\ planOrg[loc[s].id] = NoOrg
  BY <1>1, CarriedPlan DEF NewPlans, Naming, Contents
<1>5. \A p \in Plans \ {loc[s].id} : planOrg'[p] = planOrg[p]
  BY <1>1
<1>6. NewPlans'
  <2>1. \A r \in Sessions : Naming(r)' => r # s /\ Naming(r) /\ loc'[r] = loc[r]
    BY <1>2 DEF OnlyHandlerOf, Naming
  <2>2. \A r \in Sessions : Naming(r)' => loc[r].id # loc[s].id /\ loc[r].id \in Plans
    BY <1>1, <2>1 DEF NewPlans, Naming
  <2>. QED BY <1>1, <1>4, <1>5, <2>1, <2>2 DEF NewPlans
<1>7. SentOwn'
  BY <1>2, <1>3, SentOwnKept
<1>8. EditsTold'
  <2>. SUFFICES ASSUME engine # NoPlan, NEW e \in engine.edits, e \notin hushed'
                PROVE  (\E r \in Sessions : Owes(r, e)') \/ Reached(e)'
    BY <1>1 DEF EditsTold
  <2>1. engine.id \in Plans
    BY DEF ServerType, Contents
  <2>2. \A r \in Sessions : Owes(r, e) => Owes(r, e)'
    BY <1>1, <1>2 DEF Owes, Sending, OnlyHandlerOf
  <2>3. CASE \E r \in Sessions : Owes(r, e)
    BY <2>2, <2>3
  <2>4. CASE Reached(e)
    <3>1. engine.id # loc[s].id
      BY <1>4, <2>4 DEF Reached
    <3>2. planOrg'[engine.id] = planOrg[engine.id]
      BY <1>5, <2>1, <3>1
    <3>3. \A r \in Sessions : Access(r, engine.id)' = Access(r, engine.id)
      BY <1>1, <3>2 DEF Access, HasPlanAccess, db
    <3>4. \A r \in Sessions : /\ Waits(r, e) => Waits(r, e)'
                              /\ Registered(r)' => Registered(r)
      BY <1>1, <1>2 DEF Waits, Registered, OnlyHandlerOf
    <3>. QED BY <1>1, <2>4, <3>2, <3>3, <3>4 DEF Reached
  <2>. QED BY <1>1, <2>3, <2>4 DEF EditsTold
<1>. QED BY <1>6, <1>7, <1>8 DEF Heard

(* A handler sends its snapshot to its own session first; it gives up if   *)
(* that one is gone, but for an import.                                    *)
LEMMA SendOwnHeard ==
    ASSUME HeardInv, NEW s \in Sessions, SendOwn(s) \/ ImportSendOwn(s)
    PROVE  Heard'
<1>1. /\ UNCHANGED <<engine, tables>> /\ pc[s] \in {"own", "importOwn"}
      /\ IF conn[s] THEN Deliver({s}, loc[s]) ELSE UNCHANGED client
      /\ \/ Go(s, "broadcast", loc[s]) /\ hushed' = hushed
         \/ /\ RespondThenGo(s, "broadcast", loc[s])
            /\ hushed' = IF conn[s] THEN hushed ELSE hushed \cup loc[s].edits
  BY DEF SendOwn, ImportSendOwn
<1>2. /\ OnlyHandlerOf(s)
      /\ \/ pc'[s] = "broadcast" /\ loc'[s] = loc[s]
         \/ pc'[s] \in {"idle", "none"} /\ loc[s].edits \subseteq hushed'
  <2>1. CASE Go(s, "broadcast", loc[s])
    BY <2>1, MovedOn
  <2>2. CASE /\ RespondThenGo(s, "broadcast", loc[s])
             /\ hushed' = IF conn[s] THEN hushed ELSE hushed \cup loc[s].edits
    <3>1. conn[s] => pc'[s] = "broadcast" /\ loc'[s] = loc[s]
      BY <2>2, MovedOn
    <3>2. /\ OnlyHandlerOf(s)
          /\ (pc'[s] = "broadcast" /\ loc'[s] = loc[s]) \/ pc'[s] \in {"idle", "none"}
      BY <2>2, MovedOn
    <3>. QED BY <2>2, <3>1, <3>2
  <2>. QED BY <1>1, <2>1, <2>2
<1>3. /\ UNCHANGED conn
      /\ \A r \in Sessions : heard[r] \subseteq heard'[r]
      /\ conn[s] => loc[s].edits \subseteq heard'[s]
  BY <1>1, Delivered
<1>4. HeardKept(s)
  BY <1>3 DEF HeardKept
<1>5. SentOwn'
  BY <1>2, <1>3, <1>4, SentOwnKept
<1>6. \A e : ~Waits(s, e) /\ (Owes(s, e) => Owes(s, e)' \/ e \in hushed')
  BY <1>1, <1>2 DEF Owes, Waits, Sending
<1>7. hushed \subseteq hushed'
  BY <1>1
<1>8. EditsTold'
  BY <1>1, <1>2, <1>4, <1>6, <1>7, ToldKept
<1>9. NewPlans'
  BY <1>1, <1>2, NewPlansKept DEF Naming
<1>. QED BY <1>5, <1>8, <1>9 DEF Heard

(* A broadcast reaches all who may see the plan, but for its own session,  *)
(* which knows it.                                                         *)
LEMMA BroadcastHeard ==
    ASSUME HeardInv, NEW s \in Sessions, Broadcast(s)
    PROVE  Heard'
<1>. DEFINE plan == loc[s]
            R == {r \in Sessions \ {s} : Registered(r) /\ Access(r, plan.id)}
<1>1. /\ UNCHANGED <<engine, tables>> /\ pc[s] = "broadcast" /\ Rest(s)
      /\ Deliver(R, plan)
      /\ hushed' = IF planOrg[plan.id] = NoOrg THEN hushed \cup plan.edits
                                               ELSE hushed \ plan.edits
  BY DEF Broadcast
<1>2. OnlyHandlerOf(s) /\ pc'[s] = "idle"
  BY <1>1, MovedOn DEF Rest, HeardInv, StoreInv, IInv, TInv, TypeOK, HandlerType
<1>3. /\ UNCHANGED conn
      /\ \A r \in Sessions : heard[r] \subseteq heard'[r]
      /\ \A r \in R : plan.edits \subseteq heard'[r]
  BY <1>1, Delivered
<1>4. HeardKept(s)
  BY <1>3 DEF HeardKept
<1>5. NewPlans' /\ SentOwn'
  BY <1>1, <1>2, <1>4, NewPlansKept, SentOwnKept DEF Naming
<1>6. EditsTold'
  <2>. SUFFICES ASSUME engine # NoPlan, NEW e \in engine.edits, e \notin hushed'
                PROVE  (\E r \in Sessions : Owes(r, e)') \/ Reached(e)'
    BY <1>1 DEF EditsTold
  <2>1. \A r \in Sessions : /\ Registered(r)' => Registered(r)
                            /\ Access(r, engine.id)' = Access(r, engine.id)
                            /\ Waits(r, e) => Waits(r, e)'
    BY <1>1, <1>2, <1>3 DEF Registered, Access, db, Waits, OnlyHandlerOf
  <2>2. CASE e \in plan.edits
    <3>1. plan \in Contents
      BY <1>1, CarriedPlan DEF HeardInv, StoreInv, IInv
    <3>2. plan.id = engine.id
      BY <2>2, <3>1, NoPlanIsNoContents, SamePlan DEF HeardInv
    <3>3. planOrg'[engine'.id] # NoOrg
      BY <1>1, <2>2, <3>2
    <3>4. ASSUME NEW r \in Sessions, Registered(r)', Access(r, engine.id)'
          PROVE  e \in heard'[r]
      <4>1. CASE r = s
        <5>1. conn[s] /\ plan.edits \subseteq heard[s]
          BY <1>1, <1>3, <3>4, <4>1 DEF Registered, HeardInv, SentOwn
        <5>. QED BY <1>3, <2>2, <4>1, <5>1
      <4>2. CASE r # s
        <5>1. r \in R
          BY <2>1, <3>2, <3>4, <4>2
        <5>. QED BY <1>3, <2>2, <5>1
      <4>. QED BY <4>1, <4>2
    <3>. QED BY <1>1, <3>3, <3>4 DEF Reached
  <2>3. CASE e \notin plan.edits
    <3>1. e \notin hushed
      BY <1>1, <2>3
    <3>2. CASE \E r \in Sessions : Owes(r, e)
      <4>1. ~Owes(s, e)
        BY <1>1, <2>3 DEF Owes
      <4>. QED BY <1>2, <3>2, <4>1 DEF OnlyHandlerOf, Owes
    <3>3. CASE Reached(e)
      BY <1>1, <1>3, <2>1, <3>3 DEF Reached
    <3>. QED BY <3>1, <3>2, <3>3 DEF HeardInv, EditsTold
  <2>. QED BY <2>2, <2>3
<1>. QED BY <1>5, <1>6 DEF Heard

-----------------------------------------------------------------------------
(* Steps of no handler.                                                    *)
LEMMA RestHeard ==
    ASSUME HeardInv, Tick \/ Crash \/ UNCHANGED vars
    PROVE  Heard'
<1>1. CASE Tick \/ UNCHANGED vars
  <2>1. UNCHANGED <<engine, tables, pc, loc, conn, heard, hushed>>
    BY <1>1 DEF Tick
  <2>2. NewPlans' /\ SentOwn'
    BY <2>1 DEF HeardInv, NewPlans, Naming, SentOwn
  <2>3. EditsTold'
    BY <2>1 DEF HeardInv, EditsTold, Owes, Reached, Waits, Registered, Access, db
  <2>. QED BY <2>2, <2>3 DEF Heard
<1>2. CASE Crash
  <2>1. engine' = NoPlan /\ UNCHANGED tables /\ \A s \in Sessions : pc'[s] = "none"
    BY <1>2 DEF Crash
  <2>. QED BY <2>1 DEF Heard, EditsTold, SentOwn, NewPlans, Naming, HeardInv
<1>. QED BY <1>1, <1>2

(* The server starts with nobody to tell.                                  *)
LEMMA InitHeard == Init => HeardInv
<1>. SUFFICES ASSUME Init PROVE HeardInv
  OBVIOUS
<1>1. StoreInv
  BY InitStore
<1>2. NewPlans /\ SentOwn /\ EditsTold
  BY DEF Init, NewPlans, Naming, SentOwn, EditsTold
<1>3. OneHome
  <2>1. \A plan : plan \in Contents /\ plan.edits = {} => \A home : AtHome(home, plan)
    BY DEF AtHome
  <2>2. \A home : Homed(home)
    <3>1. ASSUME NEW p \in Plans, NEW c \in Seconds
          PROVE  disk[p][c] \in {[id |-> p, edits |-> {}], Absent}
      BY DEF Init
    <3>. QED BY <2>1, <3>1, NothingAtHome DEF Init, Homed, AtHome
  <2>3. [e \in Edits |-> NoPlan] \in Homes
    BY DEF Homes
  <2>. QED BY <2>2, <2>3 DEF OneHome
<1>. QED BY <1>1, <1>2, <1>3 DEF HeardInv

(* The invariant is inductive.                                             *)
LEMMA NextHeard ==
    ASSUME HeardInv, [Next]_vars
    PROVE  HeardInv'
<1>1. StoreInv' /\ OneHome'
  BY NextStore, NextHome DEF HeardInv
<1>2. ASSUME NEW s \in Sessions, Request(s) PROVE Heard'
  BY <1>2, ReadingHeard, NewPlanInstallHeard, DeletePlanHeard DEF Request
<1>3. ASSUME NEW s \in Sessions, Environment(s) PROVE Heard'
  BY <1>3, EnvironmentHeard
<1>4. ASSUME NEW s \in Sessions, Handle(s) PROVE Heard'
  BY <1>4, EnvironmentHeard, JoinHeard, InstallHeard, GreetHeard, SendOwnHeard,
     BroadcastHeard, OnTheWayHeard, NewPlanOrgHeard, SwitchHeard, ReadingHeard,
     EditHeard DEF Handle
<1>5. Heard'
  BY <1>2, <1>3, <1>4, RestHeard DEF Next
<1>. QED BY <1>1, <1>5 DEF HeardInv, Heard

(* At rest nobody owes and nobody waits.                                   *)
LEMMA QuietIsHeard ==
    ASSUME HeardInv PROVE EditsHeard
<1>. SUFFICES ASSUME Quiet, engine # NoPlan, NEW s \in Sessions, Registered(s),
                     Access(s, engine.id), NEW e \in engine.edits
              PROVE  e \in heard[s] \cup hushed
  BY DEF EditsHeard
<1>1. \A r \in Sessions : ~Owes(r, e) /\ ~Waits(r, e)
  BY Idler DEF Quiet, Resting, Owing, Sending, Joining
<1>. QED BY <1>1 DEF HeardInv, EditsTold, Reached

(* When no handler is under way, every session that may see the active     *)
(* plan has been sent each of its edits, but for those that were left to a *)
(* later broadcast: however handlers overtake each other between their     *)
(* snapshots and their sends, and whoever logs in, leaves, loads, deletes  *)
(* or restores meanwhile.                                                  *)
THEOREM EditsAreHeard == Spec => []EditsHeard
<1>1. HeardInv /\ [Next]_vars => HeardInv'
  BY NextHeard
<1>2. HeardInv => EditsHeard
  BY QuietIsHeard
<1>. QED BY <1>1, <1>2, InitHeard, PTL DEF Spec
=============================================================================
