----------------------------- MODULE PlanServer -----------------------------
(***************************************************************************)
(* The collaborative plan server: one engine that holds the single active  *)
(* plan of the whole process, a directory of saved versions per plan, and  *)
(* one protocol handler per connection, each a thread of its own that      *)
(* takes the engine and storage mutexes several times per request.  An     *)
(* action is one critical section of a handler with the sends that follow  *)
(* it up to the next lock (a disconnection between the two commutes to     *)
(* before the critical section, which does not read conn).                 *)
(*                                                                         *)
(* A plan is its id and the set of edits it contains: every change made    *)
(* through a request has a number of its own, so that a lost, an undone    *)
(* and a late edit can be told apart.                                      *)
(***************************************************************************)
EXTENDS PlanAccess, Integers, FiniteSetsExt

CONSTANTS Sessions,      \* connection slots, each reused after it closes
          UserOf,        \* the user that logs in on a slot
          SiteAdmins,    \* users.is_admin
          Member,        \* org_members: [Users -> [Orgs -> role]]
          ActiveOrg,     \* sessions.active_org_id: [Users -> Orgs or NoOrg]
          InitialPlans,  \* plans already saved when the server starts
          InitialPerm,   \* what plan_permissions may be when the server starts
          InitialLast,   \* what user_prefs may be when the server starts
          Requests,      \* the kinds of request clients issue
          MaxEdits,      \* bound: edits made
          MaxClock,      \* bound: seconds that pass
          NoPlan,        \* None in the engine, NoPlanActive on the wire
          Absent, Torn   \* a version file that is not there, half written

ASSUME SessionsAssumption == UserOf \in [Sessions -> Users]
ASSUME RolesAssumption == /\ SiteAdmins \subseteq Users
                          /\ Member \in [Users -> [Orgs -> OrgRoles \cup {"None"}]]
                          /\ ActiveOrg \in [Users -> Orgs \cup {NoOrg}]
ASSUME PermAssumption == InitialPerm \subseteq [Plans -> [Users -> Permissions \cup {"Inherit"}]]
ASSUME PlansAssumption == InitialPlans \subseteq Plans /\ NoPlan \notin Plans
ASSUME LastPlanAssumption == InitialLast \subseteq [Users -> InitialPlans \cup {NoPlan}]
ASSUME BoundsAssumption == MaxEdits \in Nat /\ MaxClock \in Nat \ {0}

Edits    == 1 .. MaxEdits
Seconds  == 1 .. MaxClock
Contents == [id : Plans, edits : SUBSET Edits]

ASSUME MarkersAssumption == {NoPlan, Absent, Torn} \cap Contents = {}
ASSUME TornAssumption == Torn # Absent

VARIABLES
    engine,    \* Arc<Mutex<Option<PlanEngine>>>: the active plan
    disk,      \* disk[p][c]: the version of p saved in second c
    clock,     \* Local::now(), in whole seconds
    planOrg,   \* table plan_org
    perm,      \* table plan_permissions
    lastPlan,  \* user_prefs.last_plan_id
    born,      \* the plan ids given out by Plan::new
    conn,      \* conn[s]: the socket and its channels are there
    pc,        \* pc[s]: where the handler of s is
    loc,       \* loc[s]: the plan the handler of s carries
    target,    \* target[s]: the plan, version or org a request names
    job,       \* job[s]: the plan a Monday import of s works on
    told,      \* told[s]: the last plan state put in the channel of s
    heard,     \* heard[s]: the edits in all the plan states put there
    nextEdit,  \* the number of the next edit
    unsaved,   \* history: a change was left to the next save
    hushed     \* history: the edits left to a later broadcast

server  == <<engine, disk, clock>>
tables  == <<planOrg, perm, lastPlan, born>>
handler == <<pc, loc, target>>
client  == <<conn, told, heard>>
history == <<nextEdit, unsaved, hushed>>
vars    == <<server, tables, handler, client, history, job>>

Resting == {"none", "auth", "idle"}
Joining == {"probe", "autoload", "install", "greet"}
Working == {"loadInstall", "loadPref", "newPref", "newOrg", "delFiles",
            "rsLoad", "rsInstall", "apply", "save", "importClone",
            "importOwn", "own", "broadcast"}
NoTarget == [plan |-> NoPlan, second |-> 0, org |-> NoOrg]
Targets  == [plan : Plans \cup {NoPlan}, second : Seconds \cup {0},
             org : Orgs \cup {NoOrg}]

ServerType ==
    /\ engine \in Contents \cup {NoPlan}
    /\ disk \in [Plans -> [Seconds -> Contents \cup {Absent, Torn}]]
    /\ clock \in Seconds
TablesType ==
    /\ planOrg \in [Plans -> Orgs \cup {NoOrg}]
    /\ perm \in [Plans -> [Users -> Permissions \cup {"Inherit"}]]
    /\ lastPlan \in [Users -> Plans \cup {NoPlan}]
    /\ born \subseteq Plans
HandlerType ==
    /\ pc \in [Sessions -> Resting \cup Joining \cup Working]
    /\ loc \in [Sessions -> Contents \cup {NoPlan}]
    /\ target \in [Sessions -> Targets]
ClientType ==
    /\ conn \in [Sessions -> BOOLEAN]
    /\ told \in [Sessions -> Contents \cup {NoPlan}]
    /\ heard \in [Sessions -> SUBSET Edits]
HistoryType ==
    /\ nextEdit \in 1 .. MaxEdits + 1
    /\ unsaved \in BOOLEAN
    /\ hushed \subseteq Edits

TypeOK ==
    /\ ServerType /\ TablesType /\ HandlerType /\ ClientType /\ HistoryType
    /\ job \in [Sessions -> Contents \cup {NoPlan}]

-----------------------------------------------------------------------------
(* The authentication database as the policy operators take it.            *)
db == [planOrg |-> planOrg, member |-> Member, perm |-> perm]
IsAdmin(s) == UserOf[s] \in SiteAdmins
Role(s, p) == EffectivePlanRole(db, UserOf[s], IsAdmin(s), p)
Access(s, p) == HasPlanAccess(db, UserOf[s], IsAdmin(s), p)

(* LoadPlan takes only plans of the session's active org, if it has one.   *)
InActiveOrg(s, p) ==
    LET org == ActiveOrg[UserOf[s]] IN org = NoOrg \/ planOrg[p] = org

(* Storage: a version is named by the second it was saved in, a later save *)
(* in the same second overwrites it, and the last name is the latest.      *)
Versions(p) == {c \in Seconds : disk[p][c] # Absent}
(* Mutant of LoadVersion: a half-written file is taken for a plan.         *)
LoadVersionUndecoded(p, c) == IF disk[p][c] = Absent THEN NoPlan ELSE disk[p][c]

LoadVersion(p, c) ==
    IF disk[p][c] \in {Absent, Torn} THEN NoPlan ELSE disk[p][c]
LoadLatest(p) ==
    IF Versions(p) = {} THEN NoPlan ELSE LoadVersion(p, Max(Versions(p)))

(* Mutant of Save: a version that is there already is kept.                *)
SaveOncePerSecond(plan) ==
    disk' = [disk EXCEPT ![plan.id][clock] = IF @ = Absent THEN plan ELSE @]

Save(plan) == disk' = [disk EXCEPT ![plan.id][clock] = plan]

(* Mutant of Registered: the entry gets its user after the first state.    *)
RegisteredLate(s) == conn[s] /\ pc[s] \notin {"none", "auth"} \cup Joining

(* A session's entry in the registry: a placeholder until it has logged in,*)
(* then its user, until the connection closes.                             *)
Registered(s) == conn[s] /\ pc[s] \notin {"none", "auth"}

Go(s, label, plan) == /\ pc' = [pc EXCEPT ![s] = label]
                      /\ loc' = [loc EXCEPT ![s] = plan]
                      /\ UNCHANGED target
Rest(s) == /\ pc' = [pc EXCEPT ![s] = "idle"]
           /\ loc' = [loc EXCEPT ![s] = NoPlan]
           /\ target' = [target EXCEPT ![s] = NoTarget]
Stop(s) == /\ pc' = [pc EXCEPT ![s] = "none"]
           /\ loc' = [loc EXCEPT ![s] = NoPlan]
           /\ target' = [target EXCEPT ![s] = NoTarget]

(* A response: the handler returns when its channel is gone.               *)
Respond(s) == IF conn[s] THEN Rest(s) ELSE Stop(s)
RespondThenGo(s, label, plan) ==
    IF conn[s] THEN Go(s, label, plan) ELSE Stop(s)

(* A plan state put in the channels of the sessions R.                     *)
Deliver(R, plan) ==
    /\ told' = [r \in Sessions |-> IF r \in R THEN plan ELSE told[r]]
    /\ heard' = [r \in Sessions |->
                    IF r \in R THEN heard[r] \cup plan.edits ELSE heard[r]]
    /\ UNCHANGED conn
-----------------------------------------------------------------------------
(* Connections.                                                            *)
Connect(s) ==
    /\ ~conn[s] /\ pc[s] = "none"
    /\ conn' = [conn EXCEPT ![s] = TRUE]
    /\ pc' = [pc EXCEPT ![s] = "auth"]
    /\ job' = [job EXCEPT ![s] = NoPlan]
    /\ UNCHANGED <<server, tables, loc, target, told, heard, history>>

(* The login succeeds and the registry entry gets its user, before the     *)
(* first state is read.                                                    *)
Login(s) ==
    /\ pc[s] = "auth" /\ conn[s]
    /\ pc' = [pc EXCEPT ![s] = "probe"]
    /\ UNCHANGED <<server, tables, loc, target, client, history, job>>

(* The socket closes: the registry entry and the channels go with what is  *)
(* in them, the handler finds out at its next send or receive.             *)
Close(R) ==
    /\ conn' = [s \in Sessions |-> conn[s] /\ s \notin R]
    /\ told' = [s \in Sessions |-> IF s \in R THEN NoPlan ELSE told[s]]
    /\ heard' = [s \in Sessions |-> IF s \in R THEN {} ELSE heard[s]]

Disconnect(s) ==
    /\ conn[s]
    /\ Close({s})
    /\ UNCHANGED <<server, tables, handler, history, job>>

(* The handler leaves its loop on a closed channel or on Logout, after     *)
(* which the connection's main loop closes the socket.                     *)
Leave(s) ==
    /\ pc[s] \in {"auth", "idle"} /\ ~conn[s]
    /\ Stop(s)
    /\ UNCHANGED <<server, tables, client, history, job>>

Logout(s) ==
    /\ pc[s] = "idle" /\ conn[s]
    /\ Close({s})
    /\ Stop(s)
    /\ UNCHANGED <<server, tables, history, job>>

(* The first state: an empty engine is filled from the user's last plan,   *)
(* read without the engine lock.                                           *)
ProbeEngine(s) ==
    /\ pc[s] = "probe"
    /\ Go(s, IF engine = NoPlan THEN "autoload" ELSE "install", NoPlan)
    /\ UNCHANGED <<server, tables, client, history, job>>

ReadLastPlan(s) ==
    LET p == lastPlan[UserOf[s]] IN
    /\ pc[s] = "autoload"
    /\ Go(s, "install",
          IF p \in FilterVisiblePlans(db, UserOf[s], IsAdmin(s),
                                      {q \in Plans : Versions(q) # {}})
          THEN LoadLatest(p) ELSE NoPlan)
    /\ UNCHANGED <<server, tables, client, history, job>>

(* Mutant of InstallIfEmpty: the engine is not looked at again.            *)
InstallBlindly(s) ==
    /\ pc[s] = "install"
    /\ engine' = IF loc[s] # NoPlan THEN loc[s] ELSE engine
    /\ hushed' = IF engine' = engine THEN hushed ELSE hushed \cup loc[s].edits
    /\ Go(s, "greet", engine')
    /\ UNCHANGED <<disk, clock, tables, client, nextEdit, unsaved, job>>

InstallIfEmpty(s) ==
    /\ pc[s] = "install"
    /\ engine' = IF engine = NoPlan THEN loc[s] ELSE engine
    /\ hushed' = IF engine' = engine THEN hushed ELSE hushed \cup loc[s].edits
    /\ Go(s, "greet", engine')
    /\ UNCHANGED <<disk, clock, tables, client, nextEdit, unsaved, job>>

Greet(s) ==
    /\ pc[s] = "greet"
    /\ IF conn[s] /\ loc[s] # NoPlan /\ Access(s, loc[s].id)
       THEN Deliver({s}, loc[s])
       ELSE /\ told' = [told EXCEPT ![s] = IF conn[s] THEN NoPlan ELSE @]
            /\ UNCHANGED <<conn, heard>>
    /\ Respond(s)
    /\ UNCHANGED <<server, tables, history, job>>

-----------------------------------------------------------------------------
(* Mutant of SendOwn: only the session itself is told.                     *)
SendOwnOnly(s) ==
    /\ pc[s] = "own"
    /\ IF conn[s]
       THEN Deliver({s}, loc[s]) /\ UNCHANGED hushed
       ELSE hushed' = hushed \cup loc[s].edits /\ UNCHANGED client
    /\ Respond(s)
    /\ UNCHANGED <<server, tables, nextEdit, unsaved, job>>

(* The tail of every request that replaces or changes the active plan: the *)
(* snapshot goes to the session itself and then to the other ones.         *)
SendOwn(s) ==
    /\ pc[s] = "own"
    /\ IF conn[s]
       THEN Deliver({s}, loc[s]) /\ UNCHANGED hushed
       ELSE hushed' = hushed \cup loc[s].edits /\ UNCHANGED client
    /\ RespondThenGo(s, "broadcast", loc[s])
    /\ UNCHANGED <<server, tables, nextEdit, unsaved, job>>

(* Mutant of Broadcast: sessions in the middle of a request are passed by. *)
BroadcastToIdle(s) ==
    LET plan == loc[s] IN
    /\ pc[s] = "broadcast"
    /\ Deliver({r \in Sessions : pc[r] = "idle" /\ conn[r] /\ Access(r, plan.id)}, plan)
    /\ hushed' = IF planOrg[plan.id] = NoOrg THEN hushed \cup plan.edits
                                             ELSE hushed \ plan.edits
    /\ Rest(s)
    /\ UNCHANGED <<server, tables, nextEdit, unsaved, job>>

Broadcast(s) ==
    LET plan == loc[s] IN
    /\ pc[s] = "broadcast"
    /\ Deliver({r \in Sessions \ {s} : Registered(r) /\ Access(r, plan.id)}, plan)
    /\ hushed' = IF planOrg[plan.id] = NoOrg THEN hushed \cup plan.edits
                                             ELSE hushed \ plan.edits
    /\ Rest(s)
    /\ UNCHANGED <<server, tables, nextEdit, unsaved, job>>

(* SavePlan asks for no role.                                              *)
SavePlan(s) ==
    /\ "SavePlan" \in Requests /\ pc[s] = "idle" /\ engine # NoPlan
    /\ Save(engine)
    /\ unsaved' = FALSE
    /\ Respond(s)
    /\ UNCHANGED <<engine, clock, tables, client, nextEdit, hushed, job>>

(* NewPlan: the plan is active and saved before its org is recorded.       *)
NewPlanInstall(s, p, org) ==
    /\ "NewPlan" \in Requests /\ pc[s] = "idle" /\ p \notin born
    /\ IsAdmin(s) \/ IsOrgAdmin(db, UserOf[s], org)
    /\ born' = born \cup {p}
    /\ engine' = [id |-> p, edits |-> {}]
    /\ Save(engine')
    /\ unsaved' = FALSE
    /\ IF conn[s]
       THEN /\ pc' = [pc EXCEPT ![s] = "newPref"]
            /\ loc' = [loc EXCEPT ![s] = engine']
            /\ target' = [target EXCEPT ![s].org = org]
       ELSE Stop(s)
    /\ UNCHANGED <<clock, planOrg, perm, lastPlan, client, nextEdit, hushed, job>>

NewPlanPreference(s) ==
    /\ pc[s] = "newPref"
    /\ lastPlan' = [lastPlan EXCEPT ![UserOf[s]] = loc[s].id]
    /\ Go(s, "newOrg", loc[s])
    /\ UNCHANGED <<server, planOrg, perm, born, client, history, job>>

NewPlanOrg(s) ==
    /\ pc[s] = "newOrg"
    /\ planOrg' = [planOrg EXCEPT ![loc[s].id] = target[s].org]
    /\ Go(s, "own", loc[s])
    /\ UNCHANGED <<server, perm, lastPlan, born, client, history, job>>

(* LoadPlan: the latest version is read before the engine lock is taken,   *)
(* installed and saved under it.  A refusal or a failed read is answered   *)
(* with an error.                                                          *)
LoadPlan(s, p) ==
    /\ "LoadPlan" \in Requests /\ pc[s] = "idle"
    /\ IF Role(s, p) # "NoAccess" /\ InActiveOrg(s, p) /\ LoadLatest(p) # NoPlan
       THEN Go(s, "loadInstall", LoadLatest(p))
       ELSE Respond(s)
    /\ UNCHANGED <<server, tables, client, history, job>>

(* Mutant of LoadPlanInstall: what was just read is not saved again.       *)
LoadPlanInstallUnsaved(s) ==
    /\ pc[s] = "loadInstall"
    /\ engine' = loc[s]
    /\ unsaved' = FALSE
    /\ hushed' = IF conn[s] THEN hushed ELSE hushed \cup loc[s].edits
    /\ RespondThenGo(s, "loadPref", loc[s])
    /\ UNCHANGED <<disk, clock, tables, client, nextEdit, job>>

LoadPlanInstall(s) ==
    /\ pc[s] = "loadInstall"
    /\ engine' = loc[s]
    /\ Save(loc[s])
    /\ unsaved' = FALSE
    /\ hushed' = IF conn[s] THEN hushed ELSE hushed \cup loc[s].edits
    /\ RespondThenGo(s, "loadPref", loc[s])
    /\ UNCHANGED <<clock, tables, client, nextEdit, job>>

(* Mutant of LoadPlanPreference: the other sessions are not told.          *)
LoadPlanPreferenceQuietly(s) ==
    /\ pc[s] = "loadPref"
    /\ lastPlan' = [lastPlan EXCEPT ![UserOf[s]] = loc[s].id]
    /\ Rest(s)
    /\ UNCHANGED <<server, planOrg, perm, born, client, history, job>>

LoadPlanPreference(s) ==
    /\ pc[s] = "loadPref"
    /\ lastPlan' = [lastPlan EXCEPT ![UserOf[s]] = loc[s].id]
    /\ Go(s, "own", loc[s])
    /\ UNCHANGED <<server, planOrg, perm, born, client, history, job>>

(* DeletePlan: the per-plan permissions go, then the files.  The engine,   *)
(* the plan_org row and the users' last plans stay as they are; a member   *)
(* that was kept from the plan may see it from here on, and is not told.   *)
DeletePlan(s, p) ==
    /\ "DeletePlan" \in Requests /\ pc[s] = "idle" /\ Role(s, p) = "Admin"
    /\ perm' = [perm EXCEPT ![p] = [u \in Users |-> "Inherit"]]
    /\ pc' = [pc EXCEPT ![s] = "delFiles"]
    /\ target' = [target EXCEPT ![s].plan = p]
    /\ hushed' = IF /\ engine # NoPlan /\ engine.id = p
                    /\ \E u \in Users : perm[p][u] = "NoAccess"
                 THEN hushed \cup engine.edits ELSE hushed
    /\ UNCHANGED <<server, planOrg, lastPlan, born, loc, client, nextEdit,
                   unsaved, job>>

DeletePlanFiles(s) ==
    /\ pc[s] = "delFiles"
    /\ disk' = [disk EXCEPT ![target[s].plan] = [c \in Seconds |-> Absent]]
    /\ Respond(s)
    /\ UNCHANGED <<engine, clock, tables, client, history, job>>

(* RestorePlanVersion: the active plan is saved, the version is read, and  *)
(* the version is installed and saved, in three critical sections.         *)
RestoreSave(s, p, c) ==
    /\ "RestorePlanVersion" \in Requests /\ pc[s] = "idle" /\ IsAdmin(s)
    /\ IF engine = NoPlan
       THEN UNCHANGED <<disk, unsaved>>
       ELSE Save(engine) /\ unsaved' = FALSE
    /\ pc' = [pc EXCEPT ![s] = "rsLoad"]
    /\ target' = [target EXCEPT ![s].plan = p, ![s].second = c]
    /\ UNCHANGED <<engine, clock, tables, loc, client, nextEdit, hushed, job>>

RestoreLoad(s) ==
    LET version == LoadVersion(target[s].plan, target[s].second) IN
    /\ pc[s] = "rsLoad"
    /\ IF version # NoPlan THEN Go(s, "rsInstall", version) ELSE Rest(s)
    /\ UNCHANGED <<server, tables, client, history, job>>

(* Mutant of RestoreInstall: the restored version is not saved.            *)
RestoreInstallUnsaved(s) ==
    /\ pc[s] = "rsInstall"
    /\ engine' = loc[s]
    /\ unsaved' = FALSE
    /\ Go(s, "own", loc[s])
    /\ UNCHANGED <<disk, clock, tables, client, nextEdit, hushed, job>>

RestoreInstall(s) ==
    /\ pc[s] = "rsInstall"
    /\ engine' = loc[s]
    /\ Save(loc[s])
    /\ unsaved' = FALSE
    /\ Go(s, "own", loc[s])
    /\ UNCHANGED <<clock, tables, client, nextEdit, hushed, job>>

-----------------------------------------------------------------------------
(* Every other request: the role is checked against the plan active now,   *)
(* the change is applied to the plan active at the next lock, answered,    *)
(* and saved and snapshotted at a third.                                   *)
CheckRole(s, kind) ==
    LET role == Role(s, engine.id) IN
    /\ kind \in Requests \cap {"TaskEdit", "PlanEdit"} /\ pc[s] = "idle"
    /\ IF \/ engine = NoPlan
          \/ role = "Admin"
          \/ role = "User" /\ kind = "TaskEdit"
       THEN Go(s, "apply", NoPlan)
       ELSE Respond(s)
    /\ UNCHANGED <<server, tables, client, history, job>>

(* apply_request changes the plan and answers PlanUpdated.                 *)
ApplyEdit(s) ==
    /\ pc[s] = "apply" /\ engine # NoPlan /\ nextEdit \in Edits
    /\ engine' = [engine EXCEPT !.edits = @ \cup {nextEdit}]
    /\ nextEdit' = nextEdit + 1
    /\ unsaved' = (unsaved \/ ~conn[s])
    /\ hushed' = IF conn[s] THEN hushed ELSE hushed \cup {nextEdit}
    /\ RespondThenGo(s, "save", NoPlan)
    /\ UNCHANGED <<disk, clock, tables, client, job>>

(* apply_request answers an error and has put the plan back, or there is   *)
(* no active plan.                                                         *)
RejectEdit(s) ==
    /\ pc[s] = "apply"
    /\ Respond(s)
    /\ UNCHANGED <<server, tables, client, history, job>>

(* RunScheduler answers an error and leaves the plan half rescheduled.     *)
FailScheduler(s) ==
    /\ "RunScheduler" \in Requests
    /\ pc[s] = "apply" /\ engine # NoPlan /\ nextEdit \in Edits
    /\ engine' = [engine EXCEPT !.edits = @ \cup {nextEdit}]
    /\ nextEdit' = nextEdit + 1
    /\ unsaved' = TRUE
    /\ hushed' = hushed \cup {nextEdit}
    /\ Respond(s)
    /\ UNCHANGED <<disk, clock, tables, client, job>>

(* The engine is never emptied while the server runs, so a plan is there.  *)
SaveEdit(s) ==
    /\ pc[s] = "save"
    /\ Save(engine)
    /\ unsaved' = FALSE
    /\ Go(s, "own", engine)
    /\ UNCHANGED <<engine, clock, tables, client, nextEdit, hushed, job>>

-----------------------------------------------------------------------------
(* MondayPull and MondayFullReimport: a background thread works on a clone *)
(* of the active plan, emptied for a reimport, and the handler installs    *)
(* the result at the top of its loop, whatever is active by then.  Bound:  *)
(* a session has one import under way at a time.                           *)
MondayPull(s, p, reimport) ==
    /\ (IF reimport THEN "MondayFullReimport" ELSE "MondayPull") \in Requests
    /\ pc[s] = "idle" /\ Role(s, p) = "Admin"
    /\ job[s] = NoPlan
    /\ job' = [job EXCEPT ![s] = IF engine = NoPlan THEN NoPlan
                                 ELSE IF reimport THEN [engine EXCEPT !.edits = {}]
                                 ELSE engine]
    /\ Respond(s)
    /\ UNCHANGED <<server, tables, client, history>>

MondayError(s) ==
    /\ job[s] # NoPlan
    /\ job' = [job EXCEPT ![s] = NoPlan]
    /\ UNCHANGED <<server, tables, handler, client, history>>

ImportInstall(s) ==
    /\ pc[s] = "idle" /\ job[s] # NoPlan /\ nextEdit \in Edits
    /\ engine' = [job[s] EXCEPT !.edits = @ \cup {nextEdit}]
    /\ nextEdit' = nextEdit + 1
    /\ Save(engine')
    /\ unsaved' = FALSE
    /\ job' = [job EXCEPT ![s] = NoPlan]
    /\ Go(s, "importClone", NoPlan)
    /\ UNCHANGED <<clock, tables, client, hushed>>

ImportClone(s) ==
    /\ pc[s] = "importClone"
    /\ Go(s, "importOwn", engine)
    /\ UNCHANGED <<server, tables, client, history, job>>

(* Mutant of ImportSendOwn: a failed send ends the handler.                *)
ImportSendOwnOrStop(s) ==
    /\ pc[s] = "importOwn"
    /\ IF conn[s] THEN Deliver({s}, loc[s]) ELSE UNCHANGED client
    /\ RespondThenGo(s, "broadcast", loc[s])
    /\ UNCHANGED <<server, tables, history, job>>

(* Here a failed send does not end the handler.                            *)
ImportSendOwn(s) ==
    /\ pc[s] = "importOwn"
    /\ IF conn[s] THEN Deliver({s}, loc[s]) ELSE UNCHANGED client
    /\ Go(s, "broadcast", loc[s])
    /\ UNCHANGED <<server, tables, history, job>>
-----------------------------------------------------------------------------
Tick ==
    /\ clock < MaxClock
    /\ clock' = clock + 1
    /\ UNCHANGED <<engine, disk, tables, handler, client, history, job>>

(* The plans a save of s may be writing at this moment.                    *)
BeingSaved(s) ==
    CASE pc[s] = "save" -> {engine.id}
      [] pc[s] \in {"loadInstall", "rsInstall"} -> {loc[s].id}
      [] pc[s] = "idle" -> (IF engine = NoPlan THEN {} ELSE {engine.id})
                           \cup (IF job[s] = NoPlan THEN {} ELSE {job[s].id})
      [] OTHER -> {}

(* The process stops: what is in memory goes, and a file that was being    *)
(* written stays half written.                                             *)
Crash ==
    /\ "Crash" \in Requests
    /\ engine' = NoPlan
    /\ \/ UNCHANGED disk
       \/ \E s \in Sessions : \E p \in BeingSaved(s) :
             disk' = [disk EXCEPT ![p][clock] = Torn]
    /\ Close(Sessions)
    /\ pc' = [s \in Sessions |-> "none"]
    /\ loc' = [s \in Sessions |-> NoPlan]
    /\ target' = [s \in Sessions |-> NoTarget]
    /\ job' = [s \in Sessions |-> NoPlan]
    /\ unsaved' = FALSE
    /\ hushed' = {}
    /\ UNCHANGED <<clock, tables, nextEdit>>

-----------------------------------------------------------------------------
Init ==
    /\ engine = NoPlan
    /\ disk = [p \in Plans |-> [c \in Seconds |->
                  IF p \in InitialPlans /\ c = 1
                  THEN [id |-> p, edits |-> {}] ELSE Absent]]
    /\ clock = 1
    /\ planOrg \in [Plans -> Orgs \cup {NoOrg}]
    /\ \A p \in Plans : planOrg[p] # NoOrg <=> p \in InitialPlans
    /\ perm \in InitialPerm
    /\ lastPlan \in InitialLast
    /\ born = InitialPlans
    /\ conn = [s \in Sessions |-> FALSE]
    /\ pc = [s \in Sessions |-> "none"]
    /\ loc = [s \in Sessions |-> NoPlan]
    /\ target = [s \in Sessions |-> NoTarget]
    /\ job = [s \in Sessions |-> NoPlan]
    /\ told = [s \in Sessions |-> NoPlan]
    /\ heard = [s \in Sessions |-> {}]
    /\ nextEdit = 1
    /\ unsaved = FALSE
    /\ hushed = {}

(* What the client of s does, and what may happen to it.                   *)
Request(s) ==
    \/ SavePlan(s)
    \/ \E p \in Plans, org \in Orgs : NewPlanInstall(s, p, org)
    \/ \E p \in Plans : LoadPlan(s, p)
    \/ \E p \in Plans : DeletePlan(s, p)
    \/ \E p \in Plans, c \in Seconds : RestoreSave(s, p, c)
    \/ \E kind \in {"TaskEdit", "PlanEdit"} : CheckRole(s, kind)
    \/ \E p \in Plans, reimport \in BOOLEAN : MondayPull(s, p, reimport)

Environment(s) ==
    \/ Connect(s)
    \/ Login(s)
    \/ Disconnect(s)
    \/ Logout(s)
    \/ MondayError(s)

(* What the handler of s does by itself.                                   *)
Handle(s) ==
    \/ Leave(s)
    \/ ProbeEngine(s) \/ ReadLastPlan(s) \/ InstallIfEmpty(s) \/ Greet(s)
    \/ SendOwn(s) \/ Broadcast(s)
    \/ NewPlanPreference(s) \/ NewPlanOrg(s)
    \/ LoadPlanInstall(s) \/ LoadPlanPreference(s)
    \/ DeletePlanFiles(s)
    \/ RestoreLoad(s) \/ RestoreInstall(s)
    \/ ApplyEdit(s) \/ RejectEdit(s) \/ FailScheduler(s) \/ SaveEdit(s)
    \/ ImportInstall(s) \/ ImportClone(s) \/ ImportSendOwn(s)

Next ==
    \/ \E s \in Sessions : Request(s) \/ Environment(s) \/ Handle(s)
    \/ Tick
    \/ Crash

Spec == Init /\ [][Next]_vars

(* Every handler is a thread of its own that waits only for mutexes other  *)
(* handlers release, or for its client.                                    *)
FairSpec == Spec /\ \A s \in Sessions : WF_vars(Handle(s))

-----------------------------------------------------------------------------
Quiet == \A s \in Sessions : pc[s] \in Resting

(* What is active is what a restart would read back.  Every path that      *)
(* replaces the active plan saves it in the same critical section, and an  *)
(* edit is saved before its handler rests; only a client that leaves while *)
(* its edit is answered, and a scheduler that fails, leave a change to the *)
(* next save.  A plan whose files were deleted has nothing to read back.   *)
EngineSaved ==
    (/\ engine # NoPlan
     /\ Versions(engine.id) # {}
     /\ ~unsaved
     /\ \A s \in Sessions : pc[s] # "save")
    => LoadLatest(engine.id) = engine

(* When no handler is under way, every session that may see the active     *)
(* plan has been sent a state with each of its edits, whatever order the   *)
(* handlers took their snapshots and sent them in and however they raced   *)
(* with the session's own login.  The exceptions (hushed) are edits whose  *)
(* handler gave up on a lost client or a failed scheduler, edits brought   *)
(* in by an automatic load, a broadcast of a plan whose org is not         *)
(* recorded yet, and the deletion of the active plan's permissions, until  *)
(* a later broadcast has them.                                             *)
EditsHeard ==
    (Quiet /\ engine # NoPlan)
    => \A s \in Sessions :
          Registered(s) /\ Access(s, engine.id)
          => engine.edits \subseteq heard[s] \cup hushed

(* A session that joins never replaces a plan others already work on, even *)
(* when it found the engine empty and spent time reading a file since.     *)
JoiningReplacesNothing ==
    [][\A s \in Sessions :
          pc[s] \in Joining /\ pc'[s] # pc[s] /\ engine # NoPlan /\ engine' # NoPlan
          => engine' = engine]_vars

(* An edit of the active plan reaches every session that may see the plan, *)
(* unless the session or the plan goes away or the edit is dropped first.  *)
EditsReachEveryone ==
    \A s \in Sessions, e \in Edits :
       (engine # NoPlan /\ e \in engine.edits /\ Registered(s) /\ Access(s, engine.id))
       ~> \/ e \in heard[s]
          \/ engine = NoPlan \/ e \notin engine.edits
          \/ ~Registered(s) \/ ~Access(s, engine.id)
          \/ e \in hushed

-----------------------------------------------------------------------------
(* What the sources say and the code does not keep.                        *)

(* server.rs:130-134: every client converges to the same state.            *)
Converged ==
    (Quiet /\ engine # NoPlan /\ engine.edits # {} /\ engine.edits \cap hushed = {})
    => \A s \in Sessions :
          Registered(s) /\ Access(s, engine.id) => told[s] = engine

(* server.rs:130-131: mutations are serialised and applied in arrival      *)
(* order.  A load that leaves the active plan active takes its latest      *)
(* saved state, with every edit saved before it.                           *)
LoadKeepsSavedEdits ==
    [][\A s \in Sessions :
          pc[s] = "loadInstall" /\ pc'[s] = "loadPref" /\ engine # NoPlan
          => (engine.id = loc[s].id /\ LoadLatest(engine.id) = engine
              => engine' = engine)]_vars

(* The same sentence, of an import that was started before the edit.       *)
ImportKeepsSavedEdits ==
    [][\A s \in Sessions :
          pc[s] = "idle" /\ pc'[s] = "importClone" /\ engine # NoPlan
          => (engine.id = job[s].id => engine.edits \subseteq engine'.edits)]_vars

(* server.rs:1808: the current plan is saved as a new snapshot so the      *)
(* restore can be undone.                                                  *)
RestoreCanBeUndone ==
    [][\A s \in Sessions :
          pc[s] = "rsInstall" /\ pc'[s] = "own" /\ engine # NoPlan
          => \E c \in Seconds : disk'[engine.id][c] = engine]_vars

(* server.rs:49: plans must be in an org.                                  *)
PlansHaveAnOrg ==
    Quiet => \A p \in Plans : Versions(p) # {} => planOrg[p] # NoOrg

(* SettingsPage.tsx:154: deleting a plan cannot be undone.                 *)
DeletedStaysDeleted ==
    [][\A p \in born : Versions(p)' # {} => Versions(p) # {}]_vars
=============================================================================
