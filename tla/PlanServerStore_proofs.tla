----------------------- MODULE PlanServerStore_proofs -----------------------
(***************************************************************************)
(* The plan server implements PlanStore, for any number of sessions,       *)
(* users, plans, edits and seconds.  Beyond the invariant that relates the *)
(* engine and the directories, this rests on EditsMade: no plan that is    *)
(* anywhere in the server contains an edit that is still to be made.       *)
(***************************************************************************)
EXTENDS PlanServerStore, PlanServer_proofs

USE DEF server, tables, handler, client, history, vars

Made(plan) == plan \in Contents => plan.edits \subseteq 1 .. nextEdit - 1

HandlersMade == \A s \in Sessions : Made(loc[s])
JobsMade     == \A s \in Sessions : Made(job[s])
FilesMade    == \A p \in Plans, c \in Seconds : Made(disk[p][c])
EditsMade    == Made(engine) /\ HandlersMade /\ JobsMade /\ FilesMade

StoreInv == IInv /\ EditsMade

-----------------------------------------------------------------------------
(* A handler's plan, and the plans of all the handlers, after its step.    *)
LEMMA HandlersKept ==
    ASSUME TInv, EditsMade, NEW s \in Sessions, OnlyHandlerOf(s),
           nextEdit' \in {nextEdit, nextEdit + 1}, Made(loc[s])'
    PROVE  HandlersMade'
<1>1. nextEdit \in Nat
  BY DEF TInv, TypeOK, HistoryType
<1>2. ASSUME NEW r \in Sessions PROVE Made(loc[r])'
  BY <1>1 DEF OnlyHandlerOf, EditsMade, HandlersMade, Made
<1>. QED BY <1>2 DEF HandlersMade

(* What is known stays known: the edits made so far only grow.             *)
LEMMA MadeKept ==
    ASSUME TInv, EditsMade, nextEdit' \in {nextEdit, nextEdit + 1}
    PROVE  /\ UNCHANGED engine => Made(engine)'
           /\ UNCHANGED loc => HandlersMade'
           /\ UNCHANGED job => JobsMade'
           /\ UNCHANGED disk => FilesMade'
<1>1. nextEdit \in Nat
  BY DEF TInv, TypeOK, HistoryType
<1>. USE <1>1 DEF EditsMade, Made
<1>2. UNCHANGED engine => Made(engine)'
  OBVIOUS
<1>3. UNCHANGED loc => HandlersMade'
  BY DEF HandlersMade
<1>4. UNCHANGED job => JobsMade'
  BY DEF JobsMade
<1>5. UNCHANGED disk => FilesMade'
  BY DEF FilesMade
<1>. QED BY <1>2, <1>3, <1>4, <1>5

(* A save writes a plan that is known.                                     *)
LEMMA SaveMade ==
    ASSUME TInv, EditsMade, NEW plan \in Contents, Save(plan),
           nextEdit' \in {nextEdit, nextEdit + 1},
           plan.edits \subseteq 1 .. nextEdit' - 1
    PROVE  FilesMade'
<1>1. nextEdit \in Nat
  BY DEF TInv, TypeOK, HistoryType
<1>2. ASSUME NEW p \in Plans, NEW c \in Seconds PROVE Made(disk[p][c])'
  <2>1. disk'[p][c] = disk[p][c] \/ disk'[p][c] = plan
    BY DEF Save, TInv, TypeOK, ServerType, Contents
  <2>. QED BY <1>1, <2>1 DEF EditsMade, FilesMade, Made
<1>. QED BY <1>2 DEF FilesMade

(* A version that is read is known.                                        *)
LEMMA LatestMade ==
    ASSUME TInv, EditsMade, NEW p \in Plans
    PROVE  Made(LoadLatest(p)) /\ \A c \in Seconds : Made(LoadVersion(p, c))
<1>1. ASSUME NEW c \in Seconds PROVE Made(LoadVersion(p, c))
  BY NoPlanIsNoContents DEF LoadVersion, EditsMade, FilesMade, Made
<1>2. CASE Versions(p) = {}
  BY <1>1, <1>2, NoPlanIsNoContents DEF LoadLatest, Made
<1>3. CASE Versions(p) # {}
  <2>1. Max(Versions(p)) \in Seconds
    BY <1>3, MaxExists DEF Versions
  <2>. QED BY <1>1, <1>3, <2>1 DEF LoadLatest
<1>. QED BY <1>1, <1>2, <1>3

-----------------------------------------------------------------------------
(* The latest saved states, through the directories alone.                 *)
LEMMA LatestMap ==
    /\ Latest = [p \in Plans |-> LatestIn(disk[p])]
    /\ Latest' = [p \in Plans |-> LatestIn(disk'[p])]
BY DEF Latest, LoadLatest, LoadVersion, Versions, LatestIn, SeenIn

(* A save makes the plan the latest of its directory, and no other one.    *)
LEMMA SavedLatest ==
    ASSUME IInv, NEW plan \in Contents, Save(plan)
    PROVE  Latest' = [Latest EXCEPT ![plan.id] = plan]
<1>. USE DEF IInv, TInv, TypeOK, ServerType
<1>1. plan.id \in Plans /\ clock \in Seconds
  BY DEF Contents
<1>2. /\ disk'[plan.id] = [disk[plan.id] EXCEPT ![clock] = plan]
      /\ \A p \in Plans \ {plan.id} : disk'[p] = disk[p]
  BY <1>1 DEF Save
<1>3. disk'[plan.id] \in [Seconds -> Contents \cup {Absent, Torn}]
      /\ disk'[plan.id][clock] = plan
  BY <1>1, <1>2
<1>4. \A c \in SeenIn(disk'[plan.id]) : c <= clock
  BY <1>1, <1>2 DEF SavedInv, ClockBound, SeenIn, Seconds
<1>5. LatestIn(disk'[plan.id]) = plan
  BY <1>1, <1>3, <1>4, LatestVersion
<1>. QED BY <1>1, <1>2, <1>5, LatestMap

(* A step that touches neither engine, directory nor edits is none of the  *)
(* store's.                                                                *)
LEMMA QuietStore ==
    ASSUME UNCHANGED <<engine, disk, nextEdit>>
    PROVE  UNCHANGED Store!vars
<1>1. Latest' = Latest
  BY LatestMap
<1>. QED BY <1>1 DEF Store!vars

-----------------------------------------------------------------------------
(* A handler that moves on carries what it was given, or nothing.          *)
LEMMA Carried ==
    ASSUME IInv, NEW s \in Sessions, NEW label, NEW plan,
           Go(s, label, plan) \/ RespondThenGo(s, label, plan) \/ Rest(s)
              \/ Stop(s) \/ Respond(s)
    PROVE  OnlyHandlerOf(s) /\ loc'[s] \in {plan, NoPlan}
BY DEF Go, RespondThenGo, Rest, Stop, Respond, OnlyHandlerOf, IInv, TInv,
       TypeOK, HandlerType

(* A handler step that only changes what the handler carries.              *)
LEMMA QuietMade ==
    ASSUME StoreInv, NEW s \in Sessions, NEW plan, Made(plan),
           UNCHANGED <<engine, disk, nextEdit>>, OnlyHandlerOf(s),
           loc'[s] \in {plan, NoPlan, loc[s]}, UNCHANGED job \/ JobsMade'
    PROVE  EditsMade'
<1>1. TInv /\ EditsMade
  BY DEF StoreInv, IInv
<1>2. Made(loc[s])'
  BY <1>1, NoPlanIsNoContents DEF EditsMade, HandlersMade, Made
<1>3. HandlersMade'
  BY <1>1, <1>2, HandlersKept
<1>. QED BY <1>1, <1>3, MadeKept DEF EditsMade

(* What the store may see of a step of the server.                         *)
StoreStep == Store!Next \/ UNCHANGED Store!vars

(* Sockets that open and close are none of the store's.                    *)
LEMMA EnvironmentStore ==
    ASSUME StoreInv, NEW s \in Sessions, Environment(s) \/ Leave(s)
    PROVE  EditsMade' /\ StoreStep
<1>1. UNCHANGED <<engine, disk, nextEdit>>
  BY DEF Environment, Connect, Login, Disconnect, Logout, MondayError, Leave
<1>2. OnlyHandlerOf(s) /\ loc'[s] \in {NoPlan, loc[s]}
  <2>1. CASE Connect(s) \/ Login(s) \/ Disconnect(s) \/ MondayError(s)
    BY <2>1 DEF Connect, Login, Disconnect, MondayError, OnlyHandlerOf, StoreInv,
                IInv, TInv, TypeOK, HandlerType
  <2>2. CASE Logout(s) \/ Leave(s)
    BY <2>2, Carried DEF Logout, Leave, StoreInv
  <2>. QED BY <2>1, <2>2 DEF Environment
<1>3. UNCHANGED job \/ JobsMade'
  <2>1. UNCHANGED job \/ job' = [job EXCEPT ![s] = NoPlan]
    BY DEF Environment, Connect, Login, Disconnect, Logout, MondayError, Leave
  <2>. QED BY <1>1, <2>1, NoPlanIsNoContents
           DEF StoreInv, IInv, TInv, TypeOK, EditsMade, JobsMade, Made
<1>4. Made(NoPlan)
  BY NoPlanIsNoContents DEF Made
<1>. QED BY <1>1, <1>2, <1>3, <1>4, QuietMade, QuietStore DEF StoreStep

(* The steps that read a plan, and those that send or record one.          *)
LEMMA ReadingStore ==
    ASSUME StoreInv, NEW s \in Sessions,
           \/ ProbeEngine(s) \/ ReadLastPlan(s) \/ RestoreLoad(s)
           \/ \E p \in Plans : LoadPlan(s, p)
    PROVE  EditsMade' /\ StoreStep
<1>1. UNCHANGED <<engine, disk, nextEdit, job>>
  BY DEF ProbeEngine, ReadLastPlan, RestoreLoad, LoadPlan
<1>. USE DEF StoreInv
<1>2. TInv /\ EditsMade /\ Made(NoPlan)
  BY NoPlanIsNoContents DEF IInv, Made
<1>3. \E plan : Made(plan) /\ OnlyHandlerOf(s) /\ loc'[s] \in {plan, NoPlan}
  <2>1. CASE ProbeEngine(s)
    BY <1>2, <2>1, Carried DEF ProbeEngine
  <2>2. CASE ReadLastPlan(s)
    <3>. DEFINE p == lastPlan[UserOf[s]]
                seen == FilterVisiblePlans(db, UserOf[s], IsAdmin(s),
                                           {q \in Plans : Versions(q) # {}})
    <3>1. CASE p \in seen
      <4>1. p \in Plans
        BY <3>1 DEF FilterVisiblePlans
      <4>2. Made(LoadLatest(p))
        BY <1>2, <4>1, LatestMade
      <4>3. Go(s, "install", LoadLatest(p))
        BY <2>2, <3>1 DEF ReadLastPlan
      <4>. HIDE DEF p, seen
      <4>. QED BY <4>2, <4>3, Carried
    <3>2. CASE p \notin seen
      <4>1. Go(s, "install", NoPlan)
        BY <2>2, <3>2 DEF ReadLastPlan
      <4>. QED BY <1>2, <4>1, Carried
    <3>. QED BY <3>1, <3>2
  <2>3. CASE RestoreLoad(s)
    <3>. DEFINE version == LoadVersion(target[s].plan, target[s].second)
    <3>1. target[s].plan \in Plans /\ target[s].second \in Seconds
      BY <1>2, <2>3 DEF RestoreLoad, TInv, TypeOK, HandlerType, Targets, Carrying
    <3>2. Made(version)
      BY <1>2, <3>1, LatestMade
    <3>3. Go(s, "rsInstall", version) \/ Rest(s)
      BY <2>3 DEF RestoreLoad
    <3>. HIDE DEF version
    <3>. QED BY <3>2, <3>3, Carried
  <2>4. ASSUME NEW p \in Plans, LoadPlan(s, p)
        PROVE  <1>3!:
    <3>1. Made(LoadLatest(p))
      BY <1>2, LatestMade
    <3>2. Go(s, "loadInstall", LoadLatest(p)) \/ Respond(s)
      BY <2>4 DEF LoadPlan
    <3>. QED BY <3>1, <3>2, Carried
  <2>. QED BY <2>1, <2>2, <2>3, <2>4
<1>. QED BY <1>1, <1>3, QuietMade, QuietStore DEF StoreStep

(* Nor is what a handler sends.                                            *)
LEMMA SendingStore ==
    ASSUME StoreInv, NEW s \in Sessions,
           \/ Greet(s) \/ SendOwn(s) \/ Broadcast(s) \/ NewPlanPreference(s)
           \/ NewPlanOrg(s) \/ LoadPlanPreference(s) \/ ImportClone(s)
           \/ ImportSendOwn(s) \/ RejectEdit(s)
           \/ \E p \in Plans : DeletePlan(s, p)
           \/ \E kind \in {"TaskEdit", "PlanEdit"} : CheckRole(s, kind)
    PROVE  EditsMade' /\ StoreStep
<1>1. UNCHANGED <<engine, disk, nextEdit, job>>
  BY DEF Greet, SendOwn, Broadcast, NewPlanPreference, NewPlanOrg,
         LoadPlanPreference, ImportClone, ImportSendOwn, RejectEdit, DeletePlan,
         CheckRole
<1>. USE DEF StoreInv
<1>2. Made(engine) /\ Made(NoPlan)
  BY NoPlanIsNoContents DEF EditsMade, Made
<1>3. OnlyHandlerOf(s) /\ loc'[s] \in {engine, NoPlan, loc[s]}
  <2>1. CASE Greet(s) \/ Broadcast(s) \/ RejectEdit(s)
    BY <2>1, Carried DEF Greet, Broadcast, RejectEdit
  <2>2. CASE SendOwn(s) \/ ImportSendOwn(s)
    BY <2>2, Carried DEF SendOwn, ImportSendOwn
  <2>3. CASE NewPlanPreference(s) \/ NewPlanOrg(s) \/ LoadPlanPreference(s)
    BY <2>3, Carried DEF NewPlanPreference, NewPlanOrg, LoadPlanPreference
  <2>4. CASE ImportClone(s)
    BY <2>4, Carried DEF ImportClone
  <2>5. CASE \E p \in Plans : DeletePlan(s, p)
    BY <2>5 DEF DeletePlan, OnlyHandlerOf, IInv, TInv, TypeOK, HandlerType
  <2>6. CASE \E kind \in {"TaskEdit", "PlanEdit"} : CheckRole(s, kind)
    BY <2>6, Carried DEF CheckRole
  <2>. QED BY <2>1, <2>2, <2>3, <2>4, <2>5, <2>6
<1>. QED BY <1>1, <1>2, <1>3, QuietMade, QuietStore DEF StoreStep

(* An import starts from a clone of the active plan, or an emptied one.    *)
LEMMA MondayPullStore ==
    ASSUME StoreInv, NEW s \in Sessions, NEW p \in Plans, NEW reimport \in BOOLEAN,
           MondayPull(s, p, reimport)
    PROVE  EditsMade' /\ StoreStep
<1>. USE DEF StoreInv
<1>1. UNCHANGED <<engine, disk, nextEdit>>
  BY DEF MondayPull
<1>2. TInv /\ Made(engine) /\ Made(NoPlan) /\ engine \in Contents \cup {NoPlan}
  BY NoPlanIsNoContents DEF IInv, TInv, TypeOK, ServerType, EditsMade, Made
<1>3. OnlyHandlerOf(s) /\ loc'[s] = NoPlan
  BY DEF MondayPull, Respond, Rest, Stop, OnlyHandlerOf, IInv, TInv, TypeOK, HandlerType
<1>4. PICK plan : Made(plan) /\ job' = [job EXCEPT ![s] = plan]
  <2>1. engine # NoPlan => Made([engine EXCEPT !.edits = {}])
    BY <1>2 DEF Made, Contents
  <2>. QED BY <1>2, <2>1 DEF MondayPull
<1>5. JobsMade'
  BY <1>1, <1>4 DEF IInv, TInv, TypeOK, EditsMade, JobsMade, Made
<1>. QED BY <1>1, <1>2, <1>3, <1>5, QuietMade, QuietStore DEF StoreStep

(* A step that saves the plan it leaves active.                            *)
LEMMA SavingMade ==
    ASSUME StoreInv, NEW s \in Sessions, NEW plan \in Contents,
           engine' = plan, Save(plan), OnlyHandlerOf(s),
           loc'[s] \in {plan, NoPlan, loc[s]},
           nextEdit' \in {nextEdit, nextEdit + 1},
           plan.edits \subseteq 1 .. nextEdit' - 1,
           UNCHANGED job \/ job' = [job EXCEPT ![s] = NoPlan]
    PROVE  EditsMade'
<1>. USE DEF StoreInv, IInv
<1>1. nextEdit \in Nat /\ TInv
  BY DEF TInv, TypeOK, HistoryType
<1>2. Made(engine)'
  BY DEF Made
<1>3. Made(loc[s])'
  BY <1>1, NoPlanIsNoContents DEF EditsMade, HandlersMade, Made
<1>4. HandlersMade'
  BY <1>1, <1>3, HandlersKept
<1>5. FilesMade'
  BY <1>1, SaveMade
<1>6. JobsMade'
  BY <1>1, NoPlanIsNoContents DEF TInv, TypeOK, EditsMade, JobsMade, Made
<1>. QED BY <1>2, <1>4, <1>5, <1>6 DEF EditsMade

(* The active plan is saved as it is.                                      *)
LEMMA SaveStore ==
    ASSUME StoreInv, NEW s \in Sessions,
           \/ SavePlan(s) \/ SaveEdit(s)
           \/ \E p \in Plans, c \in Seconds : RestoreSave(s, p, c)
    PROVE  EditsMade' /\ StoreStep
<1>. USE DEF StoreInv
<1>1. OnlyHandlerOf(s) /\ loc'[s] \in {engine, NoPlan, loc[s]}
  <2>1. CASE SavePlan(s)
    BY <2>1, Carried DEF SavePlan
  <2>2. CASE SaveEdit(s)
    BY <2>2, Carried DEF SaveEdit
  <2>3. CASE \E p \in Plans, c \in Seconds : RestoreSave(s, p, c)
    BY <2>3 DEF RestoreSave, OnlyHandlerOf, IInv, TInv, TypeOK, HandlerType
  <2>. QED BY <2>1, <2>2, <2>3
<1>2. engine' = engine /\ UNCHANGED <<nextEdit, job>>
  BY DEF SavePlan, SaveEdit, RestoreSave
<1>3. Made(engine) /\ Made(NoPlan)
  BY NoPlanIsNoContents DEF EditsMade, Made
<1>4. CASE engine = NoPlan
  <2>1. UNCHANGED disk
    BY <1>4 DEF SavePlan, SaveEdit, RestoreSave, IInv, TInv, Carrying
  <2>. QED BY <1>1, <1>2, <1>3, <2>1, QuietMade, QuietStore DEF StoreStep
<1>5. CASE engine # NoPlan
  <2>1. Save(engine) /\ engine \in Contents
    BY <1>5 DEF SavePlan, SaveEdit, RestoreSave, IInv, TInv, TypeOK, ServerType
  <2>2. engine.edits \subseteq 1 .. nextEdit' - 1
    BY <1>2, <1>3, <2>1 DEF Made
  <2>3. EditsMade'
    BY <1>1, <1>2, <2>1, <2>2, SavingMade
  <2>4. Latest' = [Latest EXCEPT ![engine.id] = engine]
    BY <2>1, SavedLatest
  <2>5. Store!Save
    BY <1>2, <1>5, <2>4 DEF Store!Save
  <2>. QED BY <2>3, <2>5 DEF StoreStep, Store!Next
<1>. QED BY <1>4, <1>5

(* Another plan is made active and saved in one step.                      *)
LEMMA SwitchStore ==
    ASSUME StoreInv, NEW s \in Sessions,
           \/ LoadPlanInstall(s) \/ RestoreInstall(s) \/ ImportInstall(s)
           \/ \E p \in Plans, org \in Orgs : NewPlanInstall(s, p, org)
    PROVE  EditsMade' /\ StoreStep
<1>. USE DEF StoreInv
<1>1. nextEdit \in Nat /\ 1 \notin 1 .. 0
  BY DEF IInv, TInv, TypeOK, HistoryType
<1>. DEFINE Installed(plan) ==
         /\ engine' = plan /\ Save(plan)
         /\ nextEdit' \in {nextEdit, nextEdit + 1}
         /\ plan.edits \subseteq 1 .. nextEdit' - 1
         /\ OnlyHandlerOf(s) /\ loc'[s] \in {plan, NoPlan, loc[s]}
         /\ UNCHANGED job \/ job' = [job EXCEPT ![s] = NoPlan]
<1>2. \E plan \in Contents : Installed(plan)
  <2>1. CASE LoadPlanInstall(s) \/ RestoreInstall(s)
    <3>1. loc[s] \in Contents
      BY <2>1, CarriedPlan DEF LoadPlanInstall, RestoreInstall, IInv
    <3>2. engine' = loc[s] /\ Save(loc[s]) /\ UNCHANGED <<nextEdit, job>>
      BY <2>1 DEF LoadPlanInstall, RestoreInstall
    <3>3. OnlyHandlerOf(s) /\ loc'[s] \in {loc[s], NoPlan}
      BY <2>1, Carried DEF LoadPlanInstall, RestoreInstall
    <3>4. loc[s].edits \subseteq 1 .. nextEdit' - 1
      BY <3>1, <3>2 DEF EditsMade, HandlersMade, Made
    <3>. QED BY <3>1, <3>2, <3>3, <3>4
  <2>2. CASE ImportInstall(s)
    <3>. DEFINE new == [job[s] EXCEPT !.edits = @ \cup {nextEdit}]
    <3>1. job[s] \in Contents
      BY <2>2 DEF ImportInstall, IInv, TInv, TypeOK
    <3>2. new \in Contents /\ new.edits = job[s].edits \cup {nextEdit}
      BY <2>2, <3>1 DEF ImportInstall, Contents
    <3>3. nextEdit' = nextEdit + 1
      BY <2>2 DEF ImportInstall
    <3>4. new.edits \subseteq 1 .. nextEdit' - 1
      <4>1. job[s].edits \subseteq 1 .. nextEdit - 1
        BY <3>1 DEF EditsMade, JobsMade, Made
      <4>2. nextEdit \in 1 .. nextEdit' - 1
        BY <3>3 DEF IInv, TInv, TypeOK, HistoryType
      <4>. HIDE DEF new
      <4>. QED BY <1>1, <3>2, <3>3, <4>1, <4>2
    <3>5. engine' = new /\ Save(new) /\ job' = [job EXCEPT ![s] = NoPlan]
      BY <2>2 DEF ImportInstall, Save
    <3>6. OnlyHandlerOf(s) /\ loc'[s] = NoPlan
      BY <2>2, Carried DEF ImportInstall
    <3>. HIDE DEF new
    <3>. QED BY <3>2, <3>3, <3>4, <3>5, <3>6
  <2>3. ASSUME NEW p \in Plans, NEW org \in Orgs, NewPlanInstall(s, p, org)
        PROVE  \E plan \in Contents : Installed(plan)
    <3>. DEFINE new == [id |-> p, edits |-> {}]
    <3>1. new \in Contents /\ new.edits = {}
      BY DEF Contents
    <3>2. engine' = new /\ Save(new) /\ UNCHANGED <<nextEdit, job>>
      BY <2>3 DEF NewPlanInstall, Save
    <3>3. OnlyHandlerOf(s) /\ loc'[s] \in {new, NoPlan}
      BY <2>3 DEF NewPlanInstall, Stop, OnlyHandlerOf, IInv, TInv, TypeOK, HandlerType
    <3>. HIDE DEF new
    <3>. QED BY <3>1, <3>2, <3>3
  <2>. QED BY <2>1, <2>2, <2>3
<1>3. PICK plan \in Contents : Installed(plan)
  BY <1>2
<1>4. EditsMade'
  BY <1>3, SavingMade
<1>5. Latest' = [Latest EXCEPT ![plan.id] = plan]
  BY <1>3, SavedLatest
<1>6. Store!Switch
  <2>1. (nextEdit - 1)' \in {nextEdit - 1, (nextEdit - 1) + 1}
    BY <1>1, <1>3
  <2>2. plan \in Store!Contents
    BY DEF Store!Contents, Contents
  <2>. QED BY <1>3, <1>5, <2>1, <2>2 DEF Store!Switch
<1>. QED BY <1>4, <1>6 DEF StoreStep, Store!Next

(* An edit, or a scheduler run that fails half way.                        *)
LEMMA EditStore ==
    ASSUME StoreInv, NEW s \in Sessions, ApplyEdit(s) \/ FailScheduler(s)
    PROVE  EditsMade' /\ StoreStep
<1>. USE DEF StoreInv
<1>1. /\ engine # NoPlan /\ engine \in Contents /\ nextEdit \in Nat \ {0}
      /\ engine' = [engine EXCEPT !.edits = @ \cup {nextEdit}]
      /\ nextEdit' = nextEdit + 1 /\ UNCHANGED <<disk, job>>
  BY DEF ApplyEdit, FailScheduler, IInv, TInv, TypeOK, ServerType, HistoryType
<1>2. OnlyHandlerOf(s) /\ loc'[s] = NoPlan
  BY Carried DEF ApplyEdit, FailScheduler
<1>3. TInv /\ EditsMade
  BY DEF IInv
<1>4. Made(engine)'
  <2>1. engine'.edits = engine.edits \cup {nextEdit}
    BY <1>1 DEF Contents
  <2>2. engine.edits \subseteq 1 .. nextEdit - 1
    BY <1>1 DEF EditsMade, Made
  <2>. QED BY <1>1, <2>1, <2>2 DEF Made
<1>5. HandlersMade'
  <2>1. Made(loc[s])'
    BY <1>2, NoPlanIsNoContents DEF Made
  <2>. QED BY <1>1, <1>2, <1>3, <2>1, HandlersKept
<1>6. EditsMade'
  BY <1>1, <1>3, <1>4, <1>5, MadeKept DEF EditsMade
<1>7. Latest' = Latest
  BY <1>1, LatestMap
<1>8. (nextEdit - 1)' = (nextEdit - 1) + 1 /\ (nextEdit - 1)' = nextEdit
  BY <1>1
<1>9. Store!Edit
  BY <1>1, <1>7, <1>8 DEF Store!Edit
<1>. QED BY <1>6, <1>9 DEF StoreStep, Store!Next

(* What fills an empty engine is the latest saved state of its plan, or    *)
(* the plan was deleted while it was read.                                 *)
LEMMA WakeStore ==
    ASSUME StoreInv, NEW s \in Sessions, InstallIfEmpty(s)
    PROVE  EditsMade' /\ StoreStep
<1>. USE DEF StoreInv
<1>1. /\ UNCHANGED <<disk, nextEdit, job>> /\ pc[s] = "install"
      /\ OnlyHandlerOf(s) /\ loc'[s] = engine'
      /\ engine' \in {engine, loc[s]} /\ (engine # NoPlan => engine' = engine)
  BY DEF InstallIfEmpty, Go, OnlyHandlerOf, IInv, TInv, TypeOK, HandlerType
<1>2. TInv /\ Made(engine) /\ Made(loc[s])
  BY DEF IInv, EditsMade, HandlersMade
<1>3. Made(engine)' /\ Made(loc[s])'
  BY <1>1, <1>2 DEF Made
<1>4. EditsMade'
  BY <1>1, <1>2, <1>3, HandlersKept, MadeKept DEF EditsMade
<1>5. Latest' = Latest
  BY <1>1, LatestMap
<1>6. CASE engine' = engine
  BY <1>1, <1>4, <1>6, QuietStore DEF StoreStep
<1>7. CASE engine' # engine
  <2>1. engine = NoPlan /\ engine' = loc[s] /\ loc[s] # NoPlan
    BY <1>1, <1>7
  <2>2. loc[s] \in Contents /\ loc[s].id \in Plans
    BY <2>1 DEF IInv, TInv, TypeOK, HandlerType, Contents
  <2>3. LatestIn(disk[loc[s].id]) \in {loc[s], NoPlan}
    BY <1>1, <2>1 DEF IInv, SavedInv, CandidateFresh, LatestIn
  <2>4. Latest[loc[s].id] \in {loc[s], NoPlan}
    BY <2>2, <2>3, LatestMap
  <2>5. Store!Wake
    BY <1>1, <1>5, <2>1, <2>2, <2>4 DEF Store!Wake, Store!Contents, Contents
  <2>. QED BY <1>4, <2>5 DEF StoreStep, Store!Next
<1>. QED BY <1>6, <1>7

(* The files of a plan go.                                                 *)
LEMMA DeleteStore ==
    ASSUME StoreInv, NEW s \in Sessions, DeletePlanFiles(s)
    PROVE  EditsMade' /\ StoreStep
<1>. USE DEF StoreInv
<1>. DEFINE p == target[s].plan
<1>1. TInv /\ UNCHANGED <<engine, nextEdit, job>>
  BY DEF DeletePlanFiles, IInv
<1>2. OnlyHandlerOf(s) /\ loc'[s] = NoPlan
  BY DEF DeletePlanFiles, Respond, Rest, Stop, OnlyHandlerOf, IInv, TInv, TypeOK, HandlerType
<1>3. p \in Plans
  BY DEF DeletePlanFiles, IInv, TInv, TypeOK, HandlerType, Targets, Carrying
<1>4. disk' = [disk EXCEPT ![p] = [c \in Seconds |-> Absent]]
  BY DEF DeletePlanFiles
<1>. HIDE DEF p
<1>5. /\ disk'[p] = [c \in Seconds |-> Absent]
      /\ \A q \in Plans \ {p} : disk'[q] = disk[q]
  BY <1>1, <1>3, <1>4 DEF TInv, TypeOK, ServerType
<1>6. EditsMade'
  <2>1. HandlersMade'
    <3>1. Made(loc[s])'
      BY <1>2, NoPlanIsNoContents DEF Made
    <3>. QED BY <1>1, <1>2, <3>1, HandlersKept
  <2>2. FilesMade'
    BY <1>1, <1>5, MarkersAssumption DEF EditsMade, FilesMade, Made
  <2>. QED BY <1>1, <2>1, <2>2, MadeKept DEF EditsMade
<1>7. LatestIn(disk'[p]) = NoPlan
  BY <1>5 DEF LatestIn, SeenIn
<1>8. Latest' = [Latest EXCEPT ![p] = NoPlan]
  BY <1>3, <1>5, <1>7, LatestMap
<1>9. Store!Delete
  BY <1>1, <1>3, <1>8 DEF Store!Delete
<1>. QED BY <1>6, <1>9 DEF StoreStep, Store!Next

(* Time passes unseen.                                                     *)
LEMMA TickStore ==
    ASSUME StoreInv, Tick
    PROVE  EditsMade' /\ StoreStep
<1>1. UNCHANGED <<engine, disk, nextEdit, loc, job>>
  BY DEF Tick
<1>. QED BY <1>1, MadeKept, QuietStore DEF StoreInv, IInv, EditsMade, StoreStep

(* A file torn in the second of the crash hides the older versions of its  *)
(* plan: it has the last name.                                             *)
LEMMA CrashStore ==
    ASSUME StoreInv, Crash
    PROVE  EditsMade' /\ StoreStep
<1>. USE DEF StoreInv
<1>1. TInv /\ UNCHANGED <<clock, nextEdit>> /\ clock \in Seconds
  BY DEF Crash, IInv, TInv, TypeOK, ServerType
<1>2. Made(engine)' /\ HandlersMade' /\ JobsMade'
  BY NoPlanIsNoContents DEF Crash, Made, HandlersMade, JobsMade
<1>3. CASE UNCHANGED disk
  <2>1. Latest' = Latest
    BY <1>3, LatestMap
  <2>2. Store!Crash
    BY <1>1, <2>1 DEF Crash, Store!Crash
  <2>. QED BY <1>1, <1>2, <1>3, <2>2, MadeKept DEF EditsMade, StoreStep, Store!Next
<1>4. ASSUME NEW s \in Sessions, NEW p \in BeingSaved(s),
             disk' = [disk EXCEPT ![p][clock] = Torn]
      PROVE  EditsMade' /\ StoreStep
  <2>1. p \in Plans
    BY <1>1, BeingSavedType
  <2>2. /\ disk'[p] = [disk[p] EXCEPT ![clock] = Torn]
        /\ \A q \in Plans \ {p} : disk'[q] = disk[q]
    BY <1>1, <1>4, <2>1 DEF TInv, TypeOK, ServerType
  <2>3. disk[p] \in [Seconds -> Contents \cup {Absent, Torn}]
    BY <1>1, <2>1 DEF TInv, TypeOK, ServerType
  <2>4. FilesMade'
    BY <1>1, <2>2, <2>3, MarkersAssumption DEF EditsMade, FilesMade, Made
  <2>5. LatestIn(disk'[p]) = NoPlan
    <3>1. disk'[p][clock] = Torn
      BY <1>1, <2>2, <2>3
    <3>2. clock \in SeenIn(disk'[p])
      BY <1>1, <3>1, TornAssumption DEF SeenIn
    <3>3. \A c \in SeenIn(disk'[p]) : c <= clock
      BY <1>1, <2>1, <2>2, <2>3 DEF IInv, SavedInv, ClockBound, SeenIn, Seconds
    <3>4. SeenIn(disk'[p]) \in SUBSET Int
      BY DEF SeenIn, Seconds
    <3>5. Max(SeenIn(disk'[p])) = clock
      BY <3>2, <3>3, <3>4, MaxIs
    <3>. QED BY <3>1, <3>2, <3>5 DEF LatestIn
  <2>6. Latest' = [Latest EXCEPT ![p] = NoPlan]
    BY <2>1, <2>2, <2>5, LatestMap
  <2>7. Store!Crash
    BY <1>1, <2>1, <2>6 DEF Crash, Store!Crash
  <2>. QED BY <1>2, <2>4, <2>7 DEF EditsMade, StoreStep, Store!Next
<1>. QED BY <1>3, <1>4 DEF Crash

-----------------------------------------------------------------------------
(* The server starts as the store does.                                    *)
LEMMA InitStore == Init => StoreInv /\ Store!Init
<1>. SUFFICES ASSUME Init PROVE StoreInv /\ Store!Init
  OBVIOUS
<1>1. IInv
  BY InitType, InitSaved DEF IInv
<1>2. ASSUME NEW p \in Plans, NEW c \in Seconds
      PROVE  disk[p][c] \in {[id |-> p, edits |-> {}], Absent}
  BY DEF Init
<1>3. EditsMade
  <2>1. FilesMade
    BY <1>2, MarkersAssumption DEF FilesMade, Made
  <2>2. Made(engine) /\ HandlersMade /\ JobsMade
    BY NoPlanIsNoContents DEF Init, Made, HandlersMade, JobsMade
  <2>. QED BY <2>1, <2>2 DEF EditsMade
<1>4. ASSUME NEW p \in Plans PROVE LatestIn(disk[p]) \in {NoPlan, [id |-> p, edits |-> {}]}
  <2>1. CASE SeenIn(disk[p]) = {}
    BY <2>1 DEF LatestIn
  <2>2. CASE SeenIn(disk[p]) # {}
    <3>1. Max(SeenIn(disk[p])) \in Seconds
      BY <2>2, MaxExists DEF SeenIn
    <3>. QED BY <1>2, <3>1 DEF LatestIn
  <2>. QED BY <2>1, <2>2
<1>5. \A p \in Plans : Latest[p] \in {NoPlan, [id |-> p, edits |-> {}]}
  BY <1>4, LatestMap
<1>6. Latest \in [Plans -> Contents \cup {NoPlan}]
  <2>1. \A p \in Plans : [id |-> p, edits |-> {}] \in Contents
    BY DEF Contents
  <2>2. \A p \in Plans : Latest[p] \in Contents \cup {NoPlan}
    BY <1>5, <2>1
  <2>3. Latest = [p \in Plans |-> Latest[p]]
    BY LatestMap
  <2>. QED BY <2>2, <2>3
<1>7. Store!Init
  BY <1>5, <1>6 DEF Init, Store!Init, Store!Contents, Store!Empty, Contents
<1>. QED BY <1>1, <1>3, <1>7 DEF StoreInv

(* Every step of the server is a step of the store, or none.               *)
LEMMA NextStore ==
    ASSUME StoreInv, [Next]_vars
    PROVE  StoreInv' /\ StoreStep
<1>1. IInv'
  BY NextSaved DEF StoreInv
<1>2. ASSUME NEW s \in Sessions, Request(s) PROVE EditsMade' /\ StoreStep
  BY <1>2, SaveStore, SwitchStore, ReadingStore, SendingStore, MondayPullStore DEF Request
<1>3. ASSUME NEW s \in Sessions, Environment(s) PROVE EditsMade' /\ StoreStep
  BY <1>3, EnvironmentStore
<1>4. ASSUME NEW s \in Sessions, Handle(s) PROVE EditsMade' /\ StoreStep
  BY <1>4, EnvironmentStore, ReadingStore, WakeStore, SendingStore, SwitchStore,
     DeleteStore, EditStore, SaveStore DEF Handle
<1>5. ASSUME UNCHANGED vars PROVE EditsMade' /\ StoreStep
  <2>1. UNCHANGED <<engine, disk, nextEdit, loc, job>>
    BY <1>5
  <2>. QED BY <2>1, MadeKept, QuietStore DEF StoreInv, IInv, EditsMade, StoreStep
<1>6. EditsMade' /\ StoreStep
  <2>1. CASE Next
    BY <1>2, <1>3, <1>4, <2>1, TickStore, CrashStore DEF Next
  <2>. QED BY <1>5, <2>1
<1>. QED BY <1>1, <1>6 DEF StoreInv

(* The plan server implements the store: whatever its handlers interleave, *)
(* every request acts on the active plan and its latest saved state in one *)
(* step, and only a crash leaves the server without an active plan.        *)
THEOREM ImplementsStore == Spec => StoreSpec
<1>1. StoreInv /\ [Next]_vars => StoreInv' /\ [Store!Next]_Store!vars
  BY NextStore DEF StoreStep
<1>. QED BY <1>1, InitStore, PTL DEF Spec, StoreSpec, Store!Spec
=============================================================================
