# A TLA+ model of Plinko

Plinko is a collaborative project planner: a Rust server keeps one active plan
in memory, saves it as JSON versions, and tells every connected browser of each
change.  This directory holds TLA+ modules that model its parts, TLC
configurations that check them on small instances, and theorems that TLAPS
proves for instances of any size.  All paths below are relative to `src/`.

## 1. The system

### Components

**Connections** (`plinko/src/ws_server.rs`).  `main.rs` accepts sockets and gives
each one a thread (`handle_ws_connection`) that owns a registry entry
(`RegistryGuard`), two channels and a second thread, the *handler*
(`server.rs handle_protocol`).  The registry maps a connection to its user and
to the channel its handler and all the others put messages in.  Hard: the socket
closes while the handler is in the middle of a request and only finds out at its
next send or receive.  Correct when a session is registered before it takes its
first snapshot, and never after it is gone.

**The protocol server** (`plinko/src/server.rs`).  State: one
`Arc<Mutex<Option<PlanEngine>>>` for the whole process, the storage and
authentication database behind a mutex each, and per handler what it carries
from one critical section to the next.  Operations: login and logout, the first
state with automatic loading of the user's last plan, save, new, load, delete
and restore of plans, edits, Monday imports and exports, the administration of
users and organisations, and the broadcast that ends most of them.  Hard: a
request is several critical sections, with file reads, responses to a client
that may be gone, and other handlers in between.  Correct when no edit is lost
or overwritten, when what is active is what a restart would read back, and when
everyone who may see the plan sees the same one.

**Version storage** (`plinko-shared/src/data/storage.rs`).  A directory per plan,
one file per save, named by the local second; the last name is the latest
version.  Hard: two saves in a second, a crash in the middle of `fs::write`, a
clock that goes back.

**Access policy** (`server.rs` 30-96, `auth.rs` 403-465).  Three functions decide
from the same tables what a user may do with a plan, which broadcasts a session
gets, and which plans it is shown.  Correct when they agree.

**Authentication database** (`plinko/src/auth.rs`).  SQLite tables of users,
session tokens, organisations, memberships, per-plan permissions and
preferences.  Hard: multi-statement updates that stop half way, foreign-key
cascades, and a session's copy of rows that change later.  Correct when a
deleted user has no way back in and no right outlives what granted it.

**Plan engine** (`plinko/src/engine.rs`, `plinko-shared/src/protocol.rs`).
Applies one request to the plan and puts the plan back when the result is not
valid.  Correct when a refused request changes nothing.

**Plan data** (`plinko-shared/src/data/plan.rs`, `task.rs`, `dependency.rs`).
Tasks, milestones, dependencies with lags, allocations.  Operations add and
delete nodes and edges, hand a deleted node's dependencies to its dependents,
drop redundant edges, and check cycles and connectivity.  Correct when no
sequence of accepted requests gives a cyclic or dangling graph and when
simplification keeps what is reachable.

**Task status and allocations** (`plan.rs` 391-531, `allocation.rs`).  Statuses
follow from dates, work done and the status of what a task depends on.

**Scheduler** (`plinko-shared/src/data/scheduler.rs`).  Places tasks on workers'
days, in dependency order, around fixed allocations, then compacts.  Correct
when no worker is booked beyond a day, nothing starts before what it depends on
ends, and compaction ends.

**Monday.com synchronisation** (`plinko/src/monday/`).  Imports items into a
clone of the plan on a background thread and pushes changes out; keeps the map
between items and tasks in a file of its own.  Hard: the plan changes while the
thread works, and the board holds less of a task than the plan does.

**Web client connection** (`plinko-web/src/hooks/usePlan.ts`).  One WebSocket,
a table of pending requests, a count of own edits whose plan state is still to
come.  Only the opening of a connection has a timeout, a request has none.  Hard:
events of an old socket after a new one is open, late answers, requests the server
drops.

Not protocol state, and not modelled: the pages and dialogs of the web
client (rendering of the last plan state), `static_server.rs`, `deploy/`, and
the HTTP details of `monday/client.rs`.

### How they interact

A browser's request goes from the socket loop into the handler's channel.  The
handler locks the engine, the storage or the database for one step at a time,
answers through its own channel, and after a change puts a snapshot in its own
channel (`SendOwn`) and in those of the registered sessions that may see the
plan (`Broadcast`).  An import's thread posts its result to the handler that
started it.  The registry and the database are both locked while a broadcast is
filtered.

## 2. The modules

| module | what it models |
| --- | --- |
| `PlanAccess` | the access policy, as operators on the rows of the database |
| `PlanServer` | the protocol server with the connections, the storage and the policy |
| `PlanStore` | what the server promises of its plans, without handlers: the abstract specification |
| `PlanServerStore` | the server's state seen as that of `PlanStore` |
| `PlanGraph` | the engine's requests on tasks, milestones, dependencies, users and tags |
| `Scheduler` | a run of the scheduler node by node, and the status of tasks between runs |
| `AuthDb` | the tables of `auth.db` and the connections that log in and administer them |
| `MondaySync` | pulls, pushes, previews and the configuration dialog around one plan |
| `PlanClient` | the hook `usePlan` in the browser, and the phases of the handler it talks to |
| `MCPlanServer`, `MCPlanGraph`, `MCScheduler`, `MCAuthDb`, `MCMondaySync`, `MCPlanClient` | the constants for TLC |
| `PlanServer_proofs` | type correctness of the server; what is active is saved; joining replaces nothing |
| `PlanServerStore_proofs` | the server implements `PlanStore` |
| `PlanServerHeard_proofs` | every edit is told to everyone who may see it |
| `PlanGraph_proofs` | types, no cycles, every slot staffed, and what simplification, patches and deletions do to the order, in any plan |
| `Scheduler_proofs` | types, the order of insertion, schedules that keep to the dependencies and the hours, and who changes a status |
| `AuthDb_proofs` | no dangling reference, no token older than its password, and the three decisions of the policy agree |
| `MondaySync_proofs` | types, maps one to one, nothing made twice, no cycles, and what a second import and a pull after a push may change |
| `PlanClient_proofs` | types, and no answer to the wrong request |

`PlanServer` and `AuthDb` extend `PlanAccess`; `MondaySync` takes what a graph is,
and the simplification of one, from an instance of `PlanGraph`.  The definitions
called "Mutant of ..." are plausible slips of the code; no specification uses
them, and each shows that one property would notice.

### PlanServer: state and actions

A plan is its id and the set of edits it contains.  Every change gets a number
of its own, so an edit that is lost, undone by a stale plan or told late can be
told apart; what an edit does to tasks is in `PlanGraph` and `Scheduler`.

| variable | in the code |
| --- | --- |
| `engine` | `SharedEngine`, the active plan |
| `disk[p][c]`, `clock` | the version files, named by the second |
| `planOrg`, `perm`, `lastPlan` | tables `plan_org`, `plan_permissions`, `user_prefs` |
| `born` | the ids `Plan::new` has given out |
| `conn` | the socket, the registry entry and the channels |
| `pc`, `loc`, `target` | where each handler is, the plan it carries, what its request names |
| `job` | the clone a Monday import works on |
| `told`, `heard` | the last plan state put in a session's channel, the edits of all of them |
| `nextEdit`, `unsaved`, `hushed` | history variables, for the properties only |

One action is one critical section of a handler, with the sends that follow it
up to its next lock.  A disconnection between the two is not lost by this: the
critical section does not read `conn`, so the disconnection can as well come
first, and the model has that order.

* Connection: `Connect`, `Login` (the registry entry gets its user before the
  first state is read), `Disconnect` at any moment, `Leave` (the handler finds
  its channel closed), `Logout`.
* First state: `ProbeEngine`, `ReadLastPlan`, `InstallIfEmpty`, `Greet`, four
  steps, because the engine lock is released around the read of the file.
* Requests: `SavePlan`; `NewPlanInstall`, `NewPlanPreference`, `NewPlanOrg`;
  `LoadPlan`, `LoadPlanInstall`, `LoadPlanPreference`; `DeletePlan`,
  `DeletePlanFiles`; `RestoreSave`, `RestoreLoad`, `RestoreInstall`; every other
  request on the plan is `CheckRole`, then `ApplyEdit`, `RejectEdit` or
  `FailScheduler`, then `SaveEdit`.  A send to a client that is gone ends the
  handler, wherever in the request that is (`Respond`, `RespondThenGo`), except
  after an import, where the code goes on.
* Imports: `MondayPull` (also the full reimport), `MondayError`,
  `ImportInstall`, `ImportClone`, `ImportSendOwn`.
* Snapshots: `SendOwn`, `Broadcast`.
* Environment: `Tick`, and `Crash`, which empties the memory and may leave the
  file some handler was writing half written (`Torn`).

### PlanStore: the abstract specification

`PlanStore` has three variables: `active`, `latest[p]` (what loading `p` would
give) and `made` (the number of edits).  Its steps are `Edit`, `Save`, `Switch`,
`Wake`, `Delete` and `Crash`.  `PlanServerStore` maps the engine to `active`,
`LoadLatest(p)` to `latest[p]`, and `nextEdit - 1` to `made`; files, seconds,
sessions and messages disappear.  `Switch` may go to any plan made of edits that
were made before: which one, the code does not promise (see the findings below).

### PlanGraph: state and actions

`plan` has the nodes, the dependencies, the slots of the tasks, the users with
their tags, and the scheduler's target.  An action is one `PlanRequest` as
`engine.rs` applies it: the change, the scheduler's verdict (`Schedulable`:
connected, known, staffed), and the plan as it was when `ApplyValidated` refuses.
`CreateTask`, `CreateMilestone`, `UpdateTask`, `UpdateMilestone`, `DeleteTask`,
`DeleteMilestone`, `CreateUser`, `UpdateUser`, `DeleteUser`, `DeleteTag` and
`UpdatePlanSettings` take their forms from constants, and a form may name what
another client has deleted since (`born`), as a browser's may.  `Panic` is the
engine's lock poisoned: nothing is answered after it.

`DependsOn` is reachability said without paths (a set that contains the node and
all it leads to), so that it can be proved about.  Left out: names, orders of
display, schedules, `ReplacePlan` (see section 5) and lags, which are in
`Scheduler`: that simplification drops a lag together with its edge does not show
here.

### Scheduler: state and actions

`Run` is the beginning of `compute_time_optimised_plan`: `Anchor` keeps what is
complete, on hold or dropped, and what is in progress is placed from its start.
`agenda` then holds the lists `Lists` makes (by date, then for the target, then
the rest); `InsertNode` takes the next node (`NextOf`), with `Wanted` and
`EarliestStart` for its first day and `FillStrict` or `FillRelaxed` for the hours.
`StartPass` and `CompactNode` are one pass of `compact_pass` and one node of it,
and `Commit` writes the allocations back.  Between runs come `StartTask`,
`CompleteTask`, `PauseTask`, `ResumeTask`, `DropTask`, `UpdateTask` (the form that
sets status and dates), `SetUserCalendarOverride`, `RunScheduler` and `NextDay`.

Where the code iterates over a hash map, the model takes every order.  Floats are
units all shares of a day come out even in, and `Horizon` stands for the ten years
of `MAX_FILL_DAYS`.  `propagate_to_dependents` is left out, and `NothingOvertaken`
is the reason why it may be: it would move something only if something had been
placed before what it waits for.

### AuthDb: state and actions

One variable per table (`users`, `admin`, `password`; `orgs`; `member`; `planOrg`;
`perm`; `reports`; `rows` for the session tokens), `session[c]` for what a
connection copied at login, and `doing[c]` for a handler between two holds of the
mutex.  `Login` and `Authenticate` are two steps each (the second reads the
memberships) and may need a third, `Backfill`; `VerifyMyPassword` and
`ChangeMyPassword` are two, with the slow hash between them; `AddOrgMember` and
`RemoveOrgMember` ask first and write in `SetMember`; `SetUserPlanPermission` is
`PermissionOrg`, `PermissionAdmin`, `PermissionMember`, `PermissionSet`.  All the
other requests are one.  Cascades, `SET NULL` and `RESTRICT` are as the schema
declares them; `Restart` ends all connections and keeps all tables.

Left out: `plan_visibility` (a table no decision about rights reads), names and
addresses with their uniqueness, and the requests that only read.

### MondaySync: state and actions

`plan`, `board` (the items), `config` (`monday.json`: the map and whether
subitems are imported), `form` (the browser dialog's copy of it) and `jobs`.
A pull or re-import is `MondayPull` or `MondayFullReimport`, which clones plan and
configuration, `Import`, which reads the board and makes nodes from it (`Linked`,
`Pulled`) and, one item after the other, their dependencies (`AddLinks`, `Wired`), and
`ImportDone` or `SessionGone`.  A push or preview is
`MondayPush` or `MondayPushPreview`, one `CreateItem` per node without an item, one
`UpdateItem` per pair, and `EndPush` or `EndPreview`; any call may `Fail`.
`BoardEdit` and `PlanEdit` are the users of both sides.

What a push writes is not what a pull makes of it, and the model keeps the two
conversions apart.  The workers of a task are its users, the total of its slots in
eighths of a day, and a member of `Splits`: how they share the total, in which slots,
with which tags.  An item has the persons (`Accounts`; those also in `Users` are
mapped) and a workload, which may be empty (`NoDays`, which counts as `DefaultDays`: a
day, or an hour for a board in hours).  `Wanted` is what a push wants of an item, the
mapped users and the total; `Differing` the fields it writes, which do not include a
name that differs in blanks only (`Trim`).  `Built` is what a pull makes of an item:
equal shares of the mapped persons, or one slot for anyone without tags.  It overwrites
the workers of a node that is mapped.  A node that is not is found by `Matches`:
names without blanks, the same users, totals less than half a day apart (`Close`),
tags and shares not looked at; it is left as it is but for its status, until the next
import finds it mapped.

Left out: dates and durations, lags (an import sets those of the dependencies it
names to none, `plan.rs` 252), context labels, the derived status of milestones, a user
with two slots in one task, and several accounts of one user.

### PlanClient: state and actions

`ws` is the variable all handlers of all sockets share, `wsRef` what the user's
actions go to; `pending`, `own` and `timer` are the refs of the hook.  `state`, `up`
and `down` are the sockets, `handler` the phase of `handle_protocol` at the other
end, `rows` the tokens it accepts.  User: `Reconnect`, `DoLogout`, `Login`,
`SendRequest`.  Browser: `Opens`, `CloseEvent`, `Timeout`, and one `Receive...` per
kind of message.  Server: `Handshake`, `Authentication`, `Greet`, `Serve`,
`SendOwnPlan`, `Broadcast`, `HandlerEnds`, `Revoke`.  Network: `Drop`.  The close
event comes any time after the close, also after a new socket is made.

A request is of one of four kinds, told apart by what the server does with it.  One
of them, `Unreadable`, does not parse: a form leaves the id of a user empty
(`WorkerEditor.tsx` 49, saved by `TaskFormModal.tsx`) or the start date
(`PlanSettingsModal.tsx` 46).  `Serve` logs and drops it (`server.rs` 467-473), and
`unread` remembers, for the properties, whose promise waits for no answer.

Left out: progress of imports, the timer of the notice, the content of plans.

### Abstractions and bounds

Of `PlanServer`:

* `InitialLast` gives the last plans users may start with: every run has a user
  that joins with one, `PlanServerPlans` and `PlanServerFair` also with a user
  that has none.
* `MaxEdits` and `MaxClock` bound the edits and the seconds; an edit, an import
  and a scheduler failure each take an edit number.  A session slot is reused
  after it closes, so reconnections are not bounded.
* A broadcast is one step, as it holds the registry lock throughout.
* A session has one import under way at a time.
* Sessions of one run belong to fixed users, memberships do not change, permissions
  only by `DeletePlan`, which resets those of its plan (their other changes are in
  `AuthDb`), and the organisation of a plan changes only through `NewPlan`.
* `InitialPerm` gives the permissions a server may start with: in `PlanServerPlans`
  the member may be barred from a plan or not, in the other runs everything is
  inherited.
* `Logout` and the closing of its socket are one step.
* The role check of `LoadPlan` is one step with the read of the file after it.
* The clock does not go back, a save does not fail while the process runs, and
  the first save of a new plan is not torn by a crash.
* `ReplacePlan` counts as an edit: the replacement keeps the id.

Of the others: `MaxRequests` (`AuthDb`, `Scheduler`, `PlanClient`), `MaxEdits`
(`MondaySync`), `MaxSockets`, `MaxLogins` and `MaxTrouble` (`PlanClient`), `Horizon`,
`LastDay` and `MaxPasses` (`Scheduler`; the code stops after 50 passes, the checked
plans end by themselves before 4).  `PlanGraph` has none: ids are given out once
and the sets of ids are finite.

## 3. What is checked

| run | instance | states | properties |
| --- | --- | --- | --- |
| `PlanServerPlans` | site admin and member, barred or not, two plans, one edit; create, load, delete, edit | 1 585 592 | `EngineSaved`, `EditsHeard`, `JoiningReplacesNothing`, `StoreSpec` |
| `PlanServerVersions` | site admin and member, one plan, two edits, two seconds; save, restore, import, reimport, failing scheduler, edit, crash | 441 713 | `TypeOK`, `EngineSaved`, `EditsHeard`, `StoreSpec` |
| `PlanServerFair` | org admin and member, edits and loads, fair handlers | 38 917 | `EditsReachEveryone` |
| `PlanGraph` | two tasks, a milestone, a user, a tag; every set of dependencies | 3 565 | `TypeOK`, `Acyclic`, `Staffed`, `OneByOneIsTheSame`, `DeletingKeepsTheOrder`, `PatchingOrdersAsAsked` |
| `AuthDbRequests` | three users, two organisations, two connections, two tokens; three requests of any of 15 kinds | 1 025 957 | `TypeOK`, `TokensKnowThePassword` |
| `SchedulerShapes` | one run on each of 122 plans of three tasks and two milestones | 2 001 | `NothingOvertaken`, `AllWorkPlanned`, `InOrder`, `NoOverbooking`, `EndsByItself` |
| `SchedulerRequests` | a task for two users and one after it; two requests on three days | 90 138 | `TypeOK`, `NoOverbooking`, `InOrder`, `OneStatusAtATime` |
| `MondaySyncOrderly` | two items, two tasks, a milestone; one job at a time, four edits; uneven shares, a user without an account, blanks, two workloads | 373 102 | `TypeOK`, `NoTwins`, `PushSettles`, `ImportsSettle`, `NoCycles` |
| `MondaySyncFree` | two items, two tasks; two jobs, previews, a dialog and failing calls | about 474 000 | `MapIsOneToOne` |
| `PlanClient` | two sockets, three requests, readable or not, one login, one trouble | 114 094 | `TypeOK`, `NoAnswerIsMistaken`, `EveryRequestSettles` |
| `PlanGraphUnknown` | `PlanGraph` without users | | violates `OnlyKnownNodes` |
| `PlanClientStale` | two sockets, no requests, no trouble | | violates `OldCloseIsHarmless` |

Deadlock is checked in the `PlanServer` runs, where one can always connect; the
other runs end when their requests, edits or ids are used up.

### The server

* **`EngineSaved`**: when no handler is between an edit and its save, the active
  plan equals the latest version of its directory.  The exceptions are named in
  the property: an edit whose client left while it was answered, and a scheduler
  that failed, leave the change to the next save (`unsaved`), and a plan whose
  files were deleted has nothing to compare with.
* **`EditsHeard`**: when no handler is under way, every session that may see the
  active plan has been sent a state with each of its edits.  It is about the
  race of a login with an edit (registration, snapshot and greeting are separate
  steps) and about two broadcasts out of order.  Edits that no handler has
  undertaken to tell (`hushed`) are excepted until a later broadcast has them.
  One of these exceptions was found by the proof: `DeletePlan` deletes the
  permissions of a plan that stays active, so a member who was barred from it may
  see it from then on and is told nothing.
* **`JoiningReplacesNothing`**: a session that found the engine empty and reads
  its last plan meanwhile does not replace a plan that became active since.
* **`StoreSpec`**: every step of every handler is one step of `PlanStore`, or
  none.  A critical section that installs a plan it does not save, or saves what
  it does not install, is no step of it.
* **`EditsReachEveryone`**: the liveness form of `EditsHeard`.

Two sessions are enough for every race between two handlers.  Two edits are what
it takes for two snapshots to overtake each other, two seconds for versions that
collide and versions that do not, two plans for every switch from one to another.

### The plan

* **`Acyclic`**: no set of nodes each of which waits for another of them.  Each
  edge is checked before it is added, against the graph as it is then; patches
  that remove and add, deletions that hand dependencies on, and simplification
  change that graph on the way.
* **`DeletingKeepsTheOrder`**: what waited for what, among the nodes that remain,
  is the same after a deletion.  **`PatchingOrdersAsAsked`**: after an accepted
  patch a node waits for what the form asked for, no less and no more.  Both
  are broken by a simplification that removes one edge too many.
* **`OneByOneIsTheSame`**: simplification removes edges node by node, in the
  order of a hash map; whatever the order, the result is the same.
* **`Staffed`**: every open slot has a user with its tags.  Only some of the
  requests are vetted for this; the others need not be.

Three nodes make every shape with a redundant edge, and the sets of dependencies
are all there are; one user with one tag has all the ways to lose the last who can
fill a slot.

### The schedule

* **`NoOverbooking`**: on a day on which the run plans work for a user, all tasks
  together take at most the hours the calendar gives.  (What was held on that day
  before may be more, if the calendar was cut since; then nothing is added.)  The hours left are deducted and put back
  by anchoring, insertion and every attempt of compaction.
* **`InOrder`**: nothing starts before what it waits for ends, lags included,
  but for what has begun already.
* **`AllWorkPlanned`**: the segments of a task add up to its work.
* **`NothingOvertaken`**: nothing is inserted before what it waits for.
* **`EndsByItself`**: a run ends because a pass moved nothing, not because 50
  passes are over.
* **`OneStatusAtATime`**: a run, a form or a request changes the status of the
  task it is about and of no other.

The 122 plans differ in the two ways to depend, in five kinds of dates, three
targets, both modes, derived and given durations, and two have a gap that only
compaction finds.

### Accounts

* **`TypeOK`** contains `References`: no row of any table refers to a row that is
  gone, although handlers write what they checked one hold of the mutex earlier.
* **`TokensKnowThePassword`**: a token that is accepted belongs to somebody who
  has shown the password of today, although a login, a reset by an administrator
  and a change of one's own may be half way at the same time.

Two connections and three requests make every pair of handlers meet with a third
request between them.

### Monday.com

* **`MapIsOneToOne`**: whatever threads, previews and dialogs overwrite each
  other's configuration with, no node has two items and no item two nodes.
* **`NoTwins`**: among the items and nodes made for each other, no side has two of
  the other.  This one holds for one job at a time only (`MondaySyncOrderly`).
* **`PushSettles`**: after a push that nobody disturbed and no change since, what a
  pull changes is exactly what the board cannot hold.  Names keep all but their
  blanks, statuses are the same, and the workers of a task whose item is of the level
  that imports read become `Evened`: the same total, evenly divided among the users
  with an account, or one slot without tags if there is none.  So unequal shares,
  required tags, several slots for anyone and users without an account are lost by a
  push and a pull that no one else touches, and this property says that nothing more
  is.  Of the dependencies only those go that others imply.  Such there may be:
  `delete_task` hands dependencies on and does not simplify (`plan.rs` 537), and an
  import does.
* **`ImportsSettle`**: an import is not idempotent (see `MondaySyncReimport` below),
  but imports come to rest.  The second of two keeps the map and every dependency;
  of the nodes it changes only those that the first found by a match and left as they
  were, and those only in blanks, in how the work is divided, and in totals less than
  half a day apart.  A third changes nothing.  It is asked of every state, not only
  after an import.
* **`NoCycles`**: users of the board may make it cyclic, or its dependencies and the
  plan's may be so together; what would close a cycle is refused, one dependency at a
  time.

`MondaySyncOrderly` checks these for one job at a time; the proofs below need no such
bound for any but `NoTwins`.  Its plinko users put in a task that two users share
unevenly, and one of a user without an account; its Monday users an item or a milestone
of the same two and a third person who is mapped to nobody, with a blank in its name and
no workload.  That counts as 8 eighths of a day where the first task has 10, so they
match without being equal.  Four edits are what it takes to put in two of these, change
one and delete one, or to make two items wait for each other.  With three items the
properties hold as well (517 529 states), and the theorems are for any number.

`MondaySyncFree` tells states apart without `made`, `undisturbed` and `settled`
(`VIEW WithoutHistory`): no action reads them and `MapIsOneToOne` does not mention
them.  `MondaySyncOrderly` leaves out of `made` what was made for items that are gone,
and of `undisturbed` the jobs that are no push (`VIEW WithoutGone`): the first never
come back, so `NoTwins` does not change, and only the end of a push reads the second.

### The browser

* **`NoAnswerIsMistaken`**: a promise is resolved with the answer of its own
  request.  Answers are matched by number only, on whatever socket they come, and
  those of an old socket may arrive when a new one has requests pending.
* **`EveryRequestSettles`**: each promise is resolved or rejected, whatever
  becomes of the connection, unless the server dropped its request unread.  Such a
  promise hangs on a healthy connection for as long as it lasts, and the form that
  waits for it with it; the second half of the property says that it is rejected once
  that ends.  The other exception is `Abandoned`: the stale close event of
  the finding below lets the browser have a second open socket, on which a request
  may wait while the user is told to be disconnected.

### Fairness

`PlanServer`'s `FairSpec` has weak fairness of each session's handler
(`Handle(s)`).  Each handler is an operating-system thread; inside a request it
waits only for mutexes that others hold for one step, and its sends go to
unbounded channels.  Nothing is assumed of clients, of the network, of the
clock, or of imports that are still querying.

`PlanClient`'s has weak fairness, for each socket, of delivering a message that has
arrived and the close event of one that is closed (the browser's event loop), and
of the handler thread at the other end.  Nothing is assumed of the user, of what
goes wrong, or of the timer of a connection.

### Where the code differs from what it says

Each of these takes a sentence of the repository as its one property, and the
trace shows how the code leaves it.  The first two are runs of the project; the
others are configurations next to them, each checked with
`tlc -config <name>.cfg <MC module>`.

| configuration | the sentence | what happens |
| --- | --- | --- |
| `PlanGraphUnknown` | "insert_task called with unknown TaskId" cannot happen (`scheduler.rs` 859) | the target waits for a deleted task: a panic under the engine's lock |
| `PlanClientStale` | "Only update global state if this is the currently active WebSocket" (`usePlan.ts` 272) | the close event of the old socket forgets the new one |
| `PlanClientUnnoticed` | "count it so we know it's our own" (`usePlan.ts`, on `PlanUpdated`) | an answer that no plan state follows is counted, and a change of somebody else goes unannounced |
| `PlanClientRetry` | "user must click the reconnect button" (`usePlan.ts`, on close) | the connection is lost on the login page, which has no such button |
| `Converged` | "every client converges to the same state" (`server.rs` 130-134) | a snapshot is taken under the engine lock and sent after it; an older one may be the last a session is sent |
| `LoadKeepsSavedEdits` | edits "are applied in arrival order" (same comment) | `LoadPlan` reads the file before the lock: an edit saved in between is dropped |
| `ImportKeepsSavedEdits` | the same | an import installs a plan built from a clone taken before the edit |
| `RestoreCanBeUndone` | "so the restore can be undone" (`server.rs` 1808) | snapshot and restored version fall in one second and share a file name |
| `PlansHaveAnOrg` | "Plans must be in an org" (`server.rs` 49) | the client leaves while `NewPlan` is answered, before the org is recorded |
| `DeletedStaysDeleted` | "This cannot be undone." (`SettingsPage.tsx` 154) | a deleted plan stays active, and the next edit saves it again |
| `PlanGraphConnected` | "so the milestone is always connected" (`engine.rs` 109) | a milestone whose only dependency was deleted meanwhile hangs in the air |
| `AuthDbOwnChange` | "requires correct old password" (`auth.rs` 356) | a reset falls between the check and the change, and is overwritten |
| `AuthDbOnlyAdmins` | "Only admins can call this" (`auth.rs` 311) | a demoted administrator stays one until the connection ends |
| `AuthDbConnected` | "Invalidate all sessions for this user" (`auth.rs` 351) | the rows go, the open connections stay |
| `SchedulerProgress` | a milestone is in progress with a task it waits for (`scheduler.rs` 1072) | compaction moves it and makes it not started |
| `SchedulerLate` | a record says that a date could not be kept (`allocation.rs` 120) | compaction discards an attempt and keeps its record |
| `SchedulerDropped` | "as if B had zero duration" (`scheduler.rs` 1933) | a task dropped before it was planned ended in 1970 |
| `SchedulerStarted` | "ordering does not affect start dates" (`scheduler.rs` 231) | of two tasks in progress with one worker the second is moved |
| `SchedulerHalfDays` | the span lets workers "stay within their daily hours" (`scheduler.rs` 913) | who works half days never has the share of a day: nothing is planned |
| `MondaySyncPreview` | "without executing anything" (`export.rs` 498) | a preview makes items and forgets them |
| `MondaySyncReimport` | the map is "for idempotent re-import" (`config.rs` 23, 82) | an import leaves a node it matched as it is (`import.rs` 177-188), the next one overwrites its workers and name (102-120) |
| `MondaySyncPersistent` | "Persistent mapping" (`config.rs` 23) | a dialog saves the map it opened with |
| `MondaySyncRooted` | nodes "always have a path to the plan root" (`import.rs` 217) | all links of an item are refused as cycles, and it gets none |

## 4. What is proved

The theorems hold for any sets of sessions, users, plans, nodes, organisations and
tokens and any bounds, from the assumptions stated in the modules they are about:
a user per session, roles and permissions among those of the schema, plans, nodes
and rows told apart from the markers for "none", founders among the users.  That
only finitely many ids are ever given out is nowhere assumed: where a proof counts,
it shows the set finite from `Spec`.

Of the server:

* `TypeCorrect` (`Spec => []TypeOK`).  Types alone are not inductive: `SaveEdit`
  writes whatever the engine holds, and a handler that would save an empty
  engine breaks the type of `disk`.  The invariant `TInv` adds `Carrying`: what
  each handler has in hand at each of its steps, and that an engine a handler
  means to save is not empty.  It is kept because only a crash empties the
  engine, and a crash ends every handler.
* `ActiveIsSaved` (`Spec => []EngineSaved`).  `SavedInv` adds three facts.
  `ClockBound`: no version is named later than now, so the save of this second
  is the latest version.  `IdsMatch`: a version has the id of its directory, so
  what was read from a directory is compared with the same directory.
  `CandidateFresh`: what a handler has read for an empty engine is still the
  latest version for as long as the engine is empty, because only an active plan
  is ever saved.  The proof has one lemma for the steps that save in the critical
  section in which they replace the plan (`SavingStep`), one for those that touch
  neither (`QuietStep`), and one each for the edit, the automatic load, the
  deletion, the clock and the crash.
* `JoiningIsHarmless` (`Spec => JoiningReplacesNothing`), from `TInv`.
* `ImplementsStore` (`Spec => StoreSpec`).  `StoreInv` adds `EditsMade` to the
  invariant above: no plan in the engine, in a handler's hands, in an import or in
  a file contains an edit that is still to be made, so a `Switch` goes to known
  edits only.  `ClockBound` gives that a save is what loading reads next
  (`SavedLatest`), and `CandidateFresh` that an automatic load brings back the
  latest state.  One lemma per step of the store (`EditStore`, `SaveStore`,
  `SwitchStore`, `WakeStore`, `DeleteStore`, `CrashStore`), and one for the
  handlers' steps that are none of the store's (`QuietStore`).
* `EditsAreHeard` (`Spec => []EditsHeard`).  At rest everyone has heard of every edit;
  on the way there `EditsTold` says who still owes it: an edit of the active plan
  that is not excepted (`hushed`) is in the hands of a handler that has yet to
  broadcast (`Owes`), or every registered session that may see the plan has heard of
  it or is joining with a first state that has it (`Reached`, `Waits`).  The three
  handlers' orders that could break it are where the other conjuncts come from.
  `SentOwn`: a handler told its own session before it tells the others, whom the
  broadcast leaves out.  `NewPlans`: until `NewPlan` has recorded the org of its plan,
  no other handler records it, so the handler that does so still owes its edits.
  `OneHome`: no edit is part of two plans; without it a session could have heard of
  an edit in a plan it may see, and the active plan be another.

Of the plan (`PlanGraph_proofs`), from one inductive invariant, `TypeOK /\ Acyclic
/\ Staffed`, where `TypeOK` contains that dependencies name only what was created
at some time (without it a new node could close a cycle) and that a deleted task
has no workers.  With it every property of the run `PlanGraph` is proved:

* `TypeCorrect` (`Spec => []TypeOK`), `NeverCyclic` (`Spec => []Acyclic`) and
  `AlwaysStaffed` (`Spec => []Staffed`).  Cycles are said without paths, so every
  lemma about an operation on graphs (`NewNodeIsAcyclic`, `SimplifyIsAcyclic`,
  and those for a patch and a deletion) picks, in the set it is given, the node
  that waits for nobody in it; no induction is needed.
* `DeletionKeepsTheOrder` (`Spec => DeletingKeepsTheOrder`) and `PatchOrdersAsAsked`
  (`Spec => PatchingOrdersAsAsked`).  Both rest on simplification keeping what
  depends on what in a graph without cycles: an edge is dropped for a longer way,
  and the longer way must not lose its edges to the same rule.  In a set closed
  under what is left, a least counterexample would be a node that waits for nobody
  among the counterexamples, and that is a contradiction.
* `OneNodeAtATime`: simplifying one node changes no answer of `DependsOn` and so does
  not change what simplification would do to any other; and
  `OrderOfSimplification` (`Spec => []OneByOneIsTheSame`): nodes simplified one by
  one, in any order, come to what the definition says of all at once.  The fold is
  unfolded to the equation that defines it; its closed form is shown to be the only
  solution by the least number of nodes at which one could differ.

Of the schedule (`Scheduler_proofs`), for any plan whose dependencies have no cycle
(`PlansAssumption`; that the engine's plans are such is `NeverCyclic`), any calendars,
and any number of requests:

* `TypeCorrect` (`Spec => []TypeOK`), `InsertedInOrder` (`Spec => []NothingOvertaken`),
  `SchedulesInOrder` (`Spec => []InOrder`), `NobodyIsOverbooked`
  (`Spec => []NoOverbooking`) and `StatusesAreKept` (`Spec => OneStatusAtATime`), from
  the inductive invariant `IInv`.
* `Ordered` is `InOrder` while the run is still going.  Inserting keeps it only if
  nothing goes in before what it waits for (`Ahead`), which is `NothingOvertaken`; that
  in turn is so because every pending list contains, with a node, all it leads to, or
  the lists before it do (`ListOK`, `AgendaOK`), and because the code's order within a
  list, by the length of the critical path, puts a node after what it depends on
  (`CritGrows`, `NextHasItsDeps`).  A pass keeps `Ordered` because it moves a node only
  to an earlier end (`EarlierKeepsOrder`): what comes after it is allowed no later than
  it was.
* `NoOverbooking` says nothing of the hours left, on which the code decides, so it is
  not inductive.  `Budget` is an account of both: on each day to come, what is left and
  what is booked are together what the calendar has, or what done and paused tasks hold
  if that is more.  Each way of filling (`FillStrict`, `FillSlot`, `FillRelaxed`, `Shared`) keeps its
  own account day by day and slot by slot (`Kept`): what is left and what it has planned
  are what there was, because a segment it adds is for a slot or a day it had none for;
  a run of days begun anew gives back all it took (`NoneDoneKeeps`).  The sums over
  tasks and segments follow (`InsertKeepsBudget`, `RemovalKeepsBudget`), and where work
  is planned at all some hours were left, so what is held was within the hours
  (`BudgetIsWithinHours`).
* `StatusKept`: while a run goes on, what is in its allocations has the status of the
  saved ones, and what is missing is not started or in progress and still in a list.
* Fillings of days, sums of hours and critical paths are recursive functions.  Each is
  unfolded once to the equation that defines it (`Recursion`, `SetRecursion`), with the
  least day or smallest set at which a solution would fail in place of an induction;
  what each day keeps is then kept by all (`AllAlong`).

Of the accounts (`AuthDb_proofs`):

* `TypeCorrect` (`Spec => []TypeOK`) and `NoTokenOutlivesItsPassword`
  (`Spec => []TokensKnowThePassword`).  Neither is inductive.  `Inv` adds `Fresh`
  (whatever is in a table had its id given out, so a new user has no old token),
  `Handlers` (what a handler carries when it is to write) and `Identified` (the row
  of a connection's token is of the user it logged in as, so the one row a change
  of password keeps is the right one).  There is one lemma per action; those that
  write no table share `TablesUntouched`.
* `BroadcastsFollowRoles` and `ListsFollowBroadcasts`: `has_plan_access`,
  `effective_plan_role` and `filter_visible_plans` agree for every state of the
  database, every user and every plan.

Of the synchronisation (`MondaySync_proofs`):

* `MapsAreOneToOne` (`Spec => []MapIsOneToOne`), for any number of threads, previews
  and dialogs and with failing calls.  Any of them may save the map it has, so
  `MapInv` says of every copy of every map (of the configuration, the dialogs, the
  threads) that it is one to one and knows only ids that were given out: a new id
  cannot then be in the copy to which a new pair is added, however old the copy.
* `NothingIsMadeTwice`: if there is one thread, no dialog, no preview and no call
  fails (`OneAtATime`, the instance of `MondaySyncOrderly`), `Spec => []NoTwins`.
  `TwinInv` says where the pairs that were made and are still alive on both sides are
  known: in the saved map when nothing is under way, else in the map the thread will
  save.  Each of the four conditions is needed; without it the code makes twins.
* `TypeCorrect` (`Spec => []TypeOK`) and `PlansAreAcyclic` (`Spec => []NoCycles`), for
  any number of threads, from `MapInv` and `DataInv`: the plan, and the copy every
  thread works on, is finite, typed and without cycles (`SoundPlan`).  The copies
  belong to it, as an import puts its own in the place of the plan.
* `ImportsSettleDown` (`Spec => []ImportsSettle`).  The dependencies of an
  import are a fold over its items in any order, and which are refused depends on that
  order, so the fold has no closed form.  It is unfolded to a chain of graphs, one item
  each (`FoldExists`, `OneItemAtATime`), and of its end two facts are used: everything
  asked for is there or would close a cycle (`LinksOfAll`), and a graph between the
  simplification of one and all that one implies simplifies to the same (`WiredAgain`,
  from the lemmas of `PlanGraph_proofs`).  A second import therefore adds only what is
  implied, in whatever order.  Of the nodes: what is pulled into a mapped node is a
  fixed point (`InTune`, `PulledIsInTune`, `NothingToPull`), and so is what is made for an
  item, while a node found by a match stands to its item as `Matches` has it until the
  second import tunes it (`MatchedIsRetouched`).  The second import finds no item new
  (`NoNewItems`), so it has one result (`OneResult`), and its own second one is itself.
* `PullAfterPushOnlyEvens` (`Spec => []PushSettles`).  `PushInv` follows a push over its
  calls: for as long as nobody else changed anything, each item that was created or
  updated says of its node what a push can say of it, blanks aside (`Tied`), and its
  dependencies are the items of the node's (`InStep`); when the push has ended
  undisturbed, all of them do (`Pushed`).  That writing only what differs
  comes to the same as writing everything is `WrittenAsWanted`.  What the pull builds
  from such an item is the node with its work evened (`PulledFromPushed`), and it asks
  for no dependency the plan has not (`AsksNothing`).  It was the attempt at this proof
  that showed what a deletion leaves, where the four edits of the run do not get, and
  that an item of the level imports do not read keeps the workers of its node (`Read`).

  All of it assumes that task and milestone ids differ and that neither is the start of
  the plan (`NodesAssumption`), that what an item without a workload or status gets is in
  `Days` and `Statuses`, that trimming a name twice is trimming it once
  (`DataAssumption`), and that the bounds are numbers
  (`BoundsAssumption`).

Of the browser (`PlanClient_proofs`):

* `TypeCorrect` (`Spec => []TypeOK`) and `AnswersFindTheirRequest`
  (`Spec => []NoAnswerIsMistaken`).  `OneAskPerId`: an id that is pending, in some
  socket's queue to the server or in some socket's queue back stands for one request
  only, and was given out; ids restart with no connection, which is why answers on
  old sockets are harmless.  That the count of own plan states stays within its type
  needs that it grows only when a promise is settled (`PromisesOK`: `own` and the
  pending promises together are at most the requests made).  What the server has
  dropped unread was asked for before (`Dropped`).

Only model-checked:

* The liveness properties, `EditsReachEveryone` and `EveryRequestSettles`: liveness
  under fairness is out of the prover's reach.
* Of `Scheduler`, `AllWorkPlanned` and `EndsByItself`.  They are not true of every
  instance: that all work is planned needs a `Horizon` far enough for the calendar and
  workers with full days (`SchedulerHalfDays`), and that the passes end before
  `MaxPasses` needs enough of them.
* The sentences of the findings, which do not hold.

## 5. Not modelled

* Web pages and dialogs, the static file server, the start-up and the deployment
  scripts: they show, serve or wire, and keep no state of the protocol.
* `monday/client.rs`: requests and parsing of an external service.  A call is a step
  of `MondaySync` that succeeds or fails.
* Schedules, names, descriptions and orders of display: no property here reads them.
* `ReplacePlan`, but as an edit of `PlanServer`.  It takes a whole plan from the client
  and checks nothing: the scheduler runs on it and its verdict is dropped
  (`engine.rs` 198-202).  `Acyclic` and `Staffed` are therefore said of plans that the
  other requests have made, and of a replacement only if it comes from such a plan.
* The lag of an edge that simplification drops (`plan.rs` 313-346), and the lags that an
  import resets: `PlanGraph` and `MondaySync` have no lags, and no source line says
  what should become of them.
* The socket loop that drains the channels, and the order of the locks.  Every
  path takes the engine's lock before the storage's, and the registry's before the
  database's, and no path the other way round; a step of the model is a whole
  critical section, so nesting does not show.
* A clock that goes back, and a disk that fails while the process goes on: versions
  are named by local time and errors of a save are dropped (`let _ =`), so the
  properties of `PlanServer` hold only without either.
* `user_links.json`, `config.json` and the preferences other than the last plan.

## 6. Next

A theorem for `AllWorkPlanned` under an assumption on the calendars and the `Horizon`
that makes it true.
