# A verification project for SigNoz

TLA+ models of the parts of SigNoz whose correctness depends on the order of
things. In the backend: the evaluation and delivery of alerts, the manager of
alert rules, the audit buffer and the service registry. In the frontend: the
session and its token rotation (with the tokenizer that serves it), the variables
of a dashboard and their fetching, the live tail of logs, and the query builder
with the URL. TLC checks them on small instances; TLAPS proves their safety
invariants for every value of the constants.

- `AlertRule`, `RuleManager`, `AuditorServer`, `Registry`, `DashboardVariables`,
  `VariableFetch`, `Session`, `LiveTail`, `QueryBuilder`: one component each.
- `AuditLog`: the abstract specification that `AuditorServer` implements.
- `DependencyGraph`: the graph algorithms of the dashboard variables, one round
  of a loop a step; `DashboardVariables` extends it.
- `MC*`: the instances for TLC; each `.cfg` is one run.
- `*Proofs`: the theorems of a component and their proofs; `VariablesProofs` has
  those of `DashboardVariables` and `VariableFetch` and of the two together.
- `PROJECT.json`: components, runs, the map from definitions to source lines,
  findings, hazards and theorems.

Check a run with `tlc -config AlertDelivery.cfg MCAlertRule`, the proofs with
`tlapm AlertRuleProofs.tla`.

## 1. The system

SigNoz is an observability platform: telemetry is stored in ClickHouse, a Go
backend (`pkg`, `ee`, `cmd`) answers queries, evaluates alert rules and notifies
people, and a React frontend shows it all. The backend is one process. It keeps
its configuration in an SQL store (SQLite or Postgres) and most of its running
state in memory.

| Component | State | Operations | Interacts with | What is hard |
|---|---|---|---|---|
| Alert rule (`rules/base_rule.go`, `threshold_rule.go`, `prom_rule.go`) | `Active`, `lastTimestampWithDatapoints`, `handledRestart` | `Eval`, `SendAlerts` | querier, state history, Alertmanager | states and clocks of an alert over many rounds, lost rounds, restarts |
| Rule state history (`rulestatehistory`) | last recorded state of each fingerprint | `RecordRuleStateHistory` | rules | reconciliation after a restart, lost writes |
| Rule manager (`rules/manager.go`) | `tasks`, `rules`, `mtx` | create, edit, patch, delete, `Start`, `Stop` | rule store, tasks, Alertmanager | concurrent requests, a database transaction with a side effect in memory |
| Rule task (`rules/rule_task.go`) | `done`, `terminated` | `Run`, `Eval`, `Stop`, `CopyState` | manager, rules | stopping a loop that is in the middle of an iteration |
| Rule store, SQL store | rows, transactions, a pool of connections | statements, `RunInTxCtx` | all of the above | locks, failing commits, the pool's limit |
| Auditor (`auditorserver/server.go`) | `queue`, `moreC`, `stopC`, `healthyC` | `Add`, flush, `Stop` | HTTP handlers, exporter | coalesced wake-ups, a full buffer, draining |
| Registry (`factory/registry.go`, `cmd/*/server.go`) | state and channels of each service, `startC`, `stopC` | `Start`, `Wait`, `Stop` | every service | start order, failures, shutdown |
| Alertmanager (`alertmanager/service.go`, `alertmanagerserver`) | servers by organization, silences, notification log, aggregation groups | `SyncServers`, `PutAlerts`, `SetConfig`, maintenance, dispatch | rules, SQL store | config changes under traffic, two maintenance loops on one row |
| OpAMP and agent configuration (`app/opamp`, `agentConf`) | agents, connections, config versions, coordinator callbacks | `OnMessage`, `StartNewVersion`, deploy, status reports | collectors, SQL store | reconnecting agents, late status reports |
| Querier, bucket cache (`querier`) | cached buckets of results | query range, missing ranges, merge | ClickHouse, cache | range arithmetic at the edges |
| Query progress tracker | subscriptions of a running query | subscribe, update, finish | websocket handlers | closing channels under writers |
| Tokenizer, sessions, users, authz, licensing | rows, caches, pollers | CRUD, poll, gc | SQL store, external services | mostly single statements |
| Query builders, parsers, schema, migrations | none | translation | ClickHouse, SQL | pure, string building |
| HTTP API | none of its own | decode, render | everything | outside a state model |
| Frontend: API client and session (`api/index.ts`, `api/utils.ts`) | token pair in `localStorage`, promises in flight | send, rotate, retry, `Logout` | tokenizer, every page and tab | overlapping refusals, lost answers, reloads, two tabs |
| Frontend: dashboard variables (`DashboardVariablesSelection`, `dashboardVariablesStore`) | variables, dependency data, the table of the settings page, requests under way | save, rename, delete, move, answers | variable fetching, panels | graph algorithms, cycles, a table that is ahead of the store |
| Frontend: variable fetching (`variableFetchStore.ts`, the inputs) | fetch state and cycle id of each variable, requests in flight | enqueue, cascade, success, failure, retry | react-query, time picker | cascades that overlap answers, wake-ups |
| Frontend: live tail (`EventSource.tsx`, `LiveLogs`) | connection, flags, batch and list of logs | open, error, pause, reconnect, flush | token rotation, query builder | effects that run on changes of flags, timers, continuations |
| Frontend: query builder (`QueryBuilder.tsx`, `NewWidget`) | current query, superset, staged query, URL and history | edits, run, panel type, save, Back | explorers, dashboards, panel editor | four copies of one query kept together by effects |
| Frontend: the rest | none that outlives a component | render | answers of the API | outside a state model |

What makes each correct, in a sentence: a rule's alerts, what Alertmanager was
told and what the history recorded agree; the tasks that run are those of the
stored, enabled rules; each audit event that was accepted leaves the buffer once;
a service runs after what it depends on and everything stops; a configuration
version ends up deployed or failed; a cached answer equals an uncached one; a
session outlives the rotation of its tokens; every variable of a dashboard gets
the options of the values selected now; the tail shows the logs of its filter,
over one connection, until it is paused; the query that runs is the query of the
URL.

The hazards, each at its line and with the properties that would catch it, are in
`PROJECT.json`. "components" there says of every part whether it is modelled.

## 2. The models

### AlertRule

One rule of the ruler. The identity of an alert is the hash of its labels, here
the series it belongs to, or the last time data was seen for a missing-data alert
(whose `lastSeen` label makes it a new alert each time). The values of a series
are abstracted to what the thresholds make of them (`Observation`). Time is a
number; an evaluation happens at a multiple of `Frequency` after the last one,
or one tick later if a tick was missed.

| Model | Code |
|---|---|
| `Eval` with `Result`, `Merged`, `Advance`, `Over`, `Items` | `ThresholdRule.Eval` / `PromRule.Eval` and `buildAndRunQuery` |
| `MissingData` | `HandleMissingDataAlert` |
| `Recorded` | `RecordRuleStateHistory` |
| `SendAlerts`, `NeedsSending`, `Sent`, `EndsAt` | `BaseRule.SendAlerts`, `Alert.NeedsSending`, `Manager.notifyFunc` |
| `EvalFails`, `SkipForMaintenance`, `OrgLookupFails` | the early returns of `RuleTask.Eval` and `SendAlerts` |
| `ServerSynced` | the organization's server appears (`SyncServers`); before that `PutAlerts` fails and `notifyFunc` ignores it |
| `Restart` | a new process: `NewBaseRule`, an empty Alertmanager, the history kept |

`told` is Alertmanager as the rule sees it: the `EndsAt` last received. `trusted`
says that the restart was handled and no history write was lost since; it is a
history variable that only `HistoryHonest` uses. `MaxQuiet` is the fault
assumption: the longest time without a complete round.

### RuleManager

The API requests are processes with a program counter (`req[r].pc`); their steps
are the database statements, the unlocked reads of `Manager.tasks`, the sections
under `Manager.mtx` and the waits for a task to stop. A task is known by the
instance that `prepareTaskFunc` made; its loop is a process too.

| Model | Code |
|---|---|
| `Begin`, `ReadRule`, `BeginTx`, `Update`, `Commit`, `CommitFails` | `CreateRule`, `EditRule`, `PatchRule`, `DeleteRule`, `sqlrulestore`, `RunInTxCtx` |
| `Check`, `AddTask`, `EditTask`, `DeleteTask`, `StopReturns` | `syncRuleStateWithTask`, `addTask`, `editTask`, `deleteTask` |
| `TickArrives`, `DoneSeen`, `Evaluate`, `Send` | `RuleTask.Run` and `Eval` |
| `Stop`, `StopTask`, `StopEnds` | `Server.Stop`, `Manager.Stop` |
| `Restart`, `Loadable` | a new process, `initiate` |

The row lock is Postgres's: the second writer of a row waits for the end of the
first transaction. Only a row that is there is locked (`RowFound`): an UPDATE or
a DELETE that finds no row changes nothing, is no error, and its callback runs
beside those of the others. SQLite locks the whole database, which allows fewer
interleavings. Where a callback also writes the organization's Alertmanager
configuration, that row is locked too; it is not modelled, as the order (rule,
configuration, mutex) is the same everywhere. Connections are counted, since an evaluation takes one while a
request may hold one and wait for the evaluation. `Begin` takes the definition
that the request carries; `Body` stands for all of it but `Disabled`. A patch
names `Disabled` only, and keeps the `Body` it read.

### AuditorServer and AuditLog

`AuditLog` is the promise: events are accepted or refused, accepted events leave
in order, some of them at a time, exported or lost, each once. `AuditorServer` is
the code: each section under `queueMtx` and each receive of the goroutine's
`select` is a step. The refinement mapping makes the pending events of the log
the batch under way followed by the queue. `early` remembers what was buffered
when `Stop` closed `stopC`.

### Registry

The goroutine and the watcher of each service, `Wait`, `Stop` and `runServer`
around them. A service is seen through its interface: it may become healthy, its
`Start` may fail at any time, and returns nil once stopped. `dependsOn` is a set;
the goroutine commits to one member after the other, which covers every order of
the slice. Setting the state of a service and closing `startReturnedC` is one
step, since no other goroutine can tell the two apart; so is receiving from
`Healthy()` and `setState`, since the random choice of the `select` reaches the
same states. `Interrupt` stands for a signal and for the cancelled context in
`Wait`. After the process has ended only `Gone` is left.

### DependencyGraph and DashboardVariables

`DependencyGraph` is `buildDependencyGraph` of `util.ts` with its helpers. A
query's text is the set of names it mentions. Each round of a loop is a step, so
that what the loops compute can be proved by an invariant of the steps:

| Phase | Steps | Code |
|---|---|---|
| `search` | `SearchRoot`, `SearchNeighbour`, `SearchFinds`, `SearchReturns`, `SearchEnds` | `detectCycle`; the calls under way, which are `recStack`, are the explicit `stack` |
| `seed`, `sort` | `Seed`, `Visit`, `SortEnds` | Kahn's algorithm, an iteration of the queue a `Visit` |
| `walk` | `Walk` | the descendants, collected from the end of the order |

`inDegree` counts the entries of `buildDependencies`. A list can hold two versions
of a variable, and then a name is listed once for each that mentions it.
`Arranged` gives the sequence of a set by positions, the order in which a loop or
a `Set` meets its members.

`DashboardVariables` is the settings page and the store over it.

| Model | Code |
|---|---|
| `variables`, `dependencyData`, `Store` | `dashboardVariablesStore`: the variables and, derived together with them, `buildDependencyData` |
| `table` | `variablesTableData`, the rows that the page shows and sends |
| `Add`, `Edit` with `handleSave`, `Checked` | `VariableItem`'s check, `onVariableSaveHandler` |
| `Delete`, `Move` | `handleDeleteConfirm`, `onDragEnd` |
| `Succeed`, `Fail` | the answers of `updateMutation`, in any order |
| `OpenAgain` | the dashboard opened again: the table is that of the store |

`handleSave` builds the graph of the store's variables and the new version, so
that an edited variable is in the list twice; what is sent is the table with the
new version in place of the old. The table shows a change before its answer, and
goes on showing it after a failure. `Patient` says that the user changes nothing
in such a state; `MaxRequests` bounds the requests under way. An edit may rename
the variable. `FreeName` leaves out a second variable with a name that is on its
way to the store, which the page would accept. A request that fails is taken not
to have been stored. The code checks an object's values, in an order that the
model takes to be that of the store; the verdict does not depend on it.
`PageInit` is every list of variables with every set of references, because
dashboards also come from JSON and from the API. No step of the page comes between
the steps of the graph: the browser runs one computation at a time.

### VariableFetch

| Model | Code |
|---|---|
| `states`, `fetched`, `EnqueueAll`, `Cascade`, `Completed`, `FailedFetch` | `variableFetchStore.ts`: `enqueueFetchOfAllVariables`, `enqueueDescendantsOfVariable`, `onVariableFetchComplete`, `onVariableFetchFailure` |
| `request`, `enabled`, `Render` | `useQuery` of `QueryVariableInput` and `DynamicVariableInput` |
| `RunEffect`, `TimeChange`, `Select` | `DashboardVariableSelection`: its effect, and `onValueUpdate` |
| `Receive`, `Reject`, `Retry` | `onSuccess`, `onError`, `handleRetry` |
| `EditQuery`, `Reopen` | a saved edit; the dashboard left and opened again |

A change of the store and the render it causes are one step: listeners run
synchronously and React renders external-store updates before the next task. The
cycle ids are part of the request's key and only ever change, so the model keeps
none: the step that bumps one drops the request in flight. Options are `fresh`
when they belong to the values and the time range of now. The dependency data is
a parameter (`Graphs`), three graphs in the instance; `StoreFeedsFetching` proves
that what the store derives is of the kind assumed. `Sound`
names the dashboards on which the code is meant to work: no cycles, and no query
that mentions a dynamic variable.

### Session

Tabs (`Clients`) over one `localStorage`, and the opaque tokenizer. A pair of
tokens is a number. Calls go through `interceptorsRequestResponse` (`Send`), the
server (`Serve`, `GetIdentity`), `interceptorRejected` (`Refused`,
`RefusedAgain`), a rotation that calls with one key share (`RotateToken`,
`RotationOk`, `RotationRefused`), and `Logout` (`DeleteToken`,
`LogoutAnswered`). The clock appears as two flags of a row: the rotation interval
has passed (`due`), the last rotation is within the rotation duration (`recent`).
Lost calls, lost answers, reloads, expiry and sign-in are bounded by `Budget`. A
call made by a page that is reloaded still reaches the server (`Gone`).

### LiveTail

`es.flags` are what handlers and promises have set, `shown` what React has
committed; `Render` is a commit followed by the three effects of
`LiveLogsContainer` in their order, each run only if its dependencies changed.
`onLiveButtonClick` reads the committed flags; timers, continuations after an
`await` and events of the connection come in between. The polyfill of
`EventSource` is external. One assumption about time (`RoundTrip`): a render
takes less time than a round trip to the server.

### QueryBuilder

| Model | Code |
|---|---|
| `current`, `superset`, `staged` | `currentQuery`, `supersetQuery`, `stagedQuery` |
| `history`, `pos`, `safeNavigate`, `isDefaultNavigation` | the browser's history, `useSafeNavigate` |
| `Effects` | the effects of the provider (`currentPathnameRef`, `initQueryBuilderData`) and of `useShareBuilderUrl` |
| `Edit` and the edits | `addNewBuilderQuery`, `cloneQuery`, `handleSetQueryData`, `removeQueryBuilderEntityByIndex` and their like, each on both queries |
| `HandleRunQuery`, `SelectView`, `ChangeExplorerTab`, `SetGraphHandler`, `OnEditHandler` | Stage & Run, saved views and tabs of an explorer (`handleExplorerTabChange`), panel types, the panel editor |
| `OnClickSaveHandler`, `SaveSucceeds`, `SaveFails` | the save of a panel: the request, `onSuccess`, `onError` |
| `widget`, `shown`, `saving`, `awaits` | the panel as stored, as the dashboard's page has it, as it is being saved; the editor that asked is still there |
| `Back`, `Forward`, `Reload`, `OpenPage` | the browser |

A builder query is its name, a filter (which every panel type has) and a group
(which the list panel has not): two fields tell apart what a change of the panel
type keeps. Formulas and PromQL queries are their names; ClickHouse queries are
handled as PromQL ones. A click or a popstate event finds the effects of the one
before it done, as React 18 flushes them with the commit of such an event.
The save of a panel is a request and an answer: between the two the user edits,
runs, leaves or reloads. Its success stores the panel and, if the editor that
asked for it has not been unmounted (react-query 3 calls a mutation's `onSuccess`
only then), leaves the editor for the dashboard; its failure changes nothing. A
dashboard opened before a late answer has the panel as it was (`shown`). One save
is under way at a time, which is a bound: the buttons of one editor wait for it,
those of an editor opened later need not. A tab of an explorer redirects with the
query on the screen, whether it was run or not, and always writes the key of the
view, an empty one too, so that the first tab replaces the entry; what it does to
the operators is left out.
`strayed` and `from` are history variables: `strayed` says that Back or Forward
was used inside the panel editor, `from` where the last Back started.

## 3. The runs

Every passing run checks that its properties hold in all reachable states of the
instance; for each of them `PROJECT.json` names a mutant, a plausible bug in the
mapped definition, under which TLC finds the property violated.

| Run | Shows | Bounds |
|---|---|---|
| `alerts` | `TypeOK`, `FiringStaysAlive`, `ResolvedIsReported`, `NoSilentDrop`, `HistoryHonest`, `NoDataStandsAlone` | one series, interval = resend delay as in the defaults, retention of three intervals, a grace period of two, six ticks: enough for fire, resolve, forget and fire again with lost rounds and a restart in between, and for a missing-data alert to replace a firing one and be replaced |
| `rules` | `TypeOK`, `NoStrayEvaluator`, `StoppedOnce`, `RequestsEnd` | one rule, two requests of any kind, all faults, shutdown and restart, one connection more than requests; a property of one rule needs two requests to race |
| `rules_edits` | `TasksMatchStore`, `ShownIsEvaluated` | three edits or deletes of one rule, two bodies, no faults, restarts: with two edits and a delete, an edit waits for a row that is gone when the lock is free |
| `auditor` | `StopDrains`, `Implements`, `EventsLeave`, `StopEnds` | four events, a buffer of three, batches of two: the buffer fills, batches are full and partial |
| `registry` | `StartsAfterDependencies`, `NoneWaitsForEver`, `ErrorEndsWait`, `StopEnds` | three services, five wirings: the repository's with names to ignore, a chain, a fan, cycles of two and three |
| `dashboards` | `OrderAndReachExact`, `CycleFoundExactly`, `NoFirstCycle` | every reference graph on up to three variables, in every order, with every choice of QUERY variables, and from each every save, rename, deletion and move, answered or failed, by a user who waits (`Patient`, one request): three nodes have self-loops, cycles of two and three, cycles with a variable before or behind them, chains, joins and forks, and an edited variable is in the checked list twice |
| `variables` | `NoLostWakeup`, `IdleIsFresh`, `AllSettle` | three QUERY variables in a diamond, in a join displayed against its order and apart, a dynamic and a custom one, one action of the user among all orders of answers, failures and default values; a default value of an answer cascades too, so two cascades overlap |
| `session` | `TypeOK`, `NeverTwoBehind`, `RefusedIsResolved` | one tab, two calls, a lost call, a reload, an end of the session and a sign-in: two calls are needed to share a rotation or to start two |
| `livetail` | `TypeOK`, `OneConnection`, `ListHolds`, `NoDeadEnd`, `LoadingEnds` | three errors, three logs, a list of two, two actions of the user: the list overflows, an error comes while a rotation for another is under way, and an edit or a pause comes in between |
| `querybuilder` | `TypeOK`, `NamesUnique`, `SupersetAgrees`, `StagedIsUrl`, `BackGoesBack`, `EffectsSettle` | two edits, four moves, three entries of history, two names, from an empty, a whole and an outdated link and from a dashboard: to open the editor, edit, save, open it again and go Back needs four moves, and three entries hold both visits with the dashboard between them |

The type invariants of `AuditorServer`, `Registry` and `VariableFetch` are proved
(section 4) and are in no run; the sequence bounds of the other modules
(`Len(logs) <= ListSize`, names within the limit, pairs within those issued) make
their type invariants more than a restatement.

`CHECK_DEADLOCK FALSE` is used where the model really stops: at `MaxTime`
(AlertRule), when all events were added and `Stop` returned (AuditorServer), and in
the frontend modules when the user's moves are used up and everything is at rest.
Symmetry (of requests, of the names of variables) is used in runs without liveness
only.

### Disagreements between the code and what is said of it

Two have a run, whose counterexample is the shortest way there:

| Run | What the code does |
|---|---|
| `rules_edit_races_delete` | an edit that races a delete starts a task for a rule that is gone (`DeletedHasNoTask`) |
| `session_previous_pair` | of two tabs that rotate the same pair the second is refused and logs the user out (`SessionSurvives`): the previous pair is refused during the rotation duration and accepted after it, the reverse of what `pkg/types/authtypes/token.go:166` and `pkg/tokenizer/config.go:49` say |

Each quotes the comments under "findings". The others are stated as properties
of the modules; each fails on the instance given, with the rest of the cfg as in
the module's passing run (for `RuleManager`, `rules`):

| Property | Instance | What the code does | What is said |
|---|---|---|---|
| `AlertRule!NoDataAfterGrace` | `AbsentFor = 0`, `StartTime = 3`, `MaxTime = 8` | `base_rule.go:619`: the no-data alert fires at an evaluation that has data | `prom_rule_test.go:1470` |
| `AlertRule!FiresOnlyOnTarget` | `AlertOnAbsent = FALSE`, `MaxQuiet = 2` | `base_rule.go:214`: a resolved alert within its retention fires again from the recovery band, without meeting the target | `threshold.go:62` |
| `RuleManager!DisabledHasNoTask` | `Req = {r1}`, `Ops = {"create"}`, `Faults = FALSE` | `manager.go:624`: a rule created disabled is given a task | `manager.go:897` |
| `RuleManager!TasksMatchStore` | `Req = {r1}`, `Ops = {"patch"}` | `manager.go:986`: after a failed write the task that is "restored" is the patched one | `manager.go:987`, `:896` |
| `RuleManager!PatchKeepsTheRest` | `Ops = {"patch", "edit"}`, `Body = {b1, b2}`, `Faults = FALSE` | `manager.go:945`: a patch writes the whole definition it read before, over a concurrent edit | `manager.go:923`, `:926` |
| `Registry!EndsStopped` | as `registry` | `cmd/community/server.go:140`: when one service fails, or the HTTP server does not close, the others are not stopped | `docs/contributing/go/service.md:125`, `:251` |
| `DashboardVariables!CycleNamed` | as `dashboards` | `util.ts:163`: the message about a cycle can name variables that are on none, and with a second cycle upstream `collectCyclePath` does not end | `util.ts:162`, `VariableItem.tsx:384` |
| `DashboardVariables!VerdictHolds` | `VariableNames = {a, b}`, `Patient = FALSE` | `DashboardVariableSettings/index.tsx:232`: the check reads the store's variables, the save sends the table's rows. After a failed save of a variable `a` that mentions `b`, a variable `b` that mentions `a` passes, and both are sent | `VariableItem.tsx:351`, `:384` |
| `VariableFetch!DynamicsUnlocked` | `Graphs <- CrossGraphs`, `Edits <- NoEdits`, `Query = {q1, q2}`, `Other = {}`, `MaxMoves = 0` | `variableFetchStore.ts:243`: a query that mentions a dynamic variable and the dynamic variables, which wait for all queries, wait for one another | `variableFetchStore.ts:239` |
| `LiveTail!RefreshReconnects` | `MaxErrors = 2`, `MaxLogs = 0` | `EventSource.tsx:93`: a second rotation sets flags to the values they have already, no effect runs and nothing reconnects | `EventSource.tsx:91` |

More behaviours that the models show, about which the repository says nothing:

- With an interval above `ResolvedRetention` (15 minutes) and one lost round the
  rule forgets a resolved alert before it could report it. `NoSilentDropHolds`
  therefore assumes `MaxQuiet <= ResolvedRetention`.
- The auditor's `moreC` holds one value and each receive flushes one batch, so a
  second full batch waits for the ticker or for another event, although the
  comment on `Server` says that a flush is triggered when `BatchSize` events
  accumulate.
- When a service's `Start` has failed and its `Healthy()` channel is closed, the
  watcher may choose the latter and overwrite `failed` by `running`.
- A service may fail for a dependency that became healthy and has returned since:
  both channels are closed and the `select` chooses at random.
- After a restart the state history closes alerts stored as firing or nodata; one
  stored as recovering is never closed (`module.go:127`; `HistoryHonest` leaves it
  out).
- An organization without rules ends the loop that loads rules (`manager.go:264`),
  so that those after it in the list get no tasks. `Loadable` models it; the runs
  have one organization.
- Two edits that read a rule before a delete of it commits find no row to lock, so
  their callbacks interleave: both choose `addTask`, and the one that fails has
  replaced `Manager.rules` (`manager.go:665`). The deleted rule then has a task, as
  in `rules_edit_races_delete`, and another instance in `Manager.rules`. The API
  shows neither (`GetRule` and `ListRuleStates` start from the stored rules) and a
  restart ends it; `TasksMatchStore` and `ShownIsEvaluated` are about stored rules.
- Of two patches of one rule that race, the second `addTask` fails after it has
  replaced `Manager.rules`: the API then shows the state of an instance that is
  never evaluated (`manager.go:665`; with `Ops = {"patch"}` `ShownIsEvaluated`
  fails).
- A commit that fails after its callback leaves the task with a definition that
  was rolled back (`bun.go:55`): `rules` has such commits, `rules_edits`, which
  compares tasks with the store, has none.
- An edit of a variable's query that keeps the order of the variables starts no
  fetch, and the old options stay (`DashboardVariableSelection.tsx:69`). The
  theorems assume `EditsReorder`, the run takes `OrderEdits`; with
  `Graphs <- RemovedGraphs`, `Edits <- AllEdits` and `Query = {q1, q2}`
  `IdleIsFresh` fails.
- Two deletions that break a cycle in different places, the second made before the
  first is answered, are each sent from the same table; the answer that comes last
  decides, and can bring back a cycle that the store no longer had (`Patient =
  FALSE`, `MaxRequests = 2`; `NoFirstCycle` fails).
- With two tabs the storage can fall two rotations behind the server: one tab
  stores the answer of its rotation after the other has rotated the session
  again, and the pair then stored is neither the current nor the previous one.
  With `Clients` of two tabs and five calls TLC finds `NeverTwoBehind` violated
  in 22 states; the run and the theorem are about one tab.
- `Logout` clears the storage when its request is answered, whatever it holds by
  then: a rotation answered later stores a pair again, and a second `Logout`
  clears the pair of a new sign-in.
- With an empty filter every edit of the query restarts the live tail, a paused
  one too; and a pause made while a rotation is awaited is undone by its
  continuation.
- `initQueryBuilderData` sets the current query and not the superset: after Back
  inside the panel editor the two have different queries, and a change of the
  panel type can put two queries of one name into the URL. `NamesUnique` and
  `SupersetAgrees` leave such behaviours out (`strayed`).
- A jump over several entries of history, between two editor entries of one id
  and different contents, leaves the query of the first staged: the model's Back
  and Forward move by one entry, where `StagedIsUrl` holds.
- Back to a link whose query lacks a part is sent forward again by the repair,
  which is a new entry (`BackGoesBack` leaves it out); choosing the first saved
  view replaces the entry of the query before.

### Fairness

- `RuleManager`: weak fairness of each request's and each loop's next step.
  Handlers and loops are goroutines, Go's mutex is starvation-free and the
  database grants a row lock that stays free. Requests need not be made, ticks
  are part of the loop's fairness. `RequestsEnd` needs a connection to spare:
  with `MaxOpenConns` no larger than the number of transactions TLC finds the
  requests waiting for an evaluation that waits for a connection. The default
  is 100 connections.
- `AuditorServer`: weak fairness of `Start` (the registry calls it), of the flush
  goroutine (its ticker ticks, an export ends because the client has a timeout and
  bounded retries), of `Stop`'s steps; strong fairness of the receive from
  `stopC`, because `select` chooses at random among the ready channels.
- `Registry`: weak fairness of the goroutines and of `runServer`. Only the
  services in `Prompt` are assumed to become healthy or fail: authz creates its
  store or fails, the auditor closes its channel first. The user service retries
  for ever and is not in it. No fairness of signals.
- `VariableFetch`: weak fairness of the effect and of each answer. React runs the
  effects of a commit; a request is answered or times out.
- `Session`: weak fairness of each call's steps, of rotations and of logouts: the
  server answers and the browser runs the callbacks. None of the user, the clock
  or the faults.
- `LiveTail`: weak fairness of commits, of the reconnection timer, of the
  rotation's answer, of the end of `Logout`, and of the connection, which opens,
  is refused or is dropped. `LoadingEnds` excepts the missed reconnection
  (`RefreshReconnects`).
- `QueryBuilder`: weak fairness of the effects alone.

## 4. The proofs

For every value of the constants that satisfies the named assumptions:

| Theorem | Statement |
|---|---|
| `AlertRuleProofs!TypeCorrect`, `Delivery` | types; the inductive invariant `DeliveryInv` |
| `FiringStaysAliveHolds`, `ResolvedIsReportedHolds` | an alert that keeps firing does not expire, a resolved one is reported |
| `NoSilentDropHolds` | with no hold duration and `MaxQuiet <= ResolvedRetention`, no alert is forgotten that Alertmanager holds to be firing |
| `HistoryHonestHolds`, `NoDataStandsAloneHolds` | the state history agrees with the rule over restarts unless a write was lost; while a missing-data alert fires nothing else does |
| `RuleManagerProofs!TypeCorrect`, `TaskSafety` | types and `TaskInv` |
| `NoStrayEvaluatorHolds`, `StoppedOnceHolds` | every running loop can be reached; no task is stopped twice |
| `ShownIsEvaluatedHolds` | without patches, a stored rule that the API shows is the one evaluated once the requests are done, for creates, edits and deletes that race, fail or are cut off |
| `TasksMatchStoreHolds` | with edits and deletes, no faults and one organization, the tasks of the stored rules are those of their definitions once the requests are done |
| `AuditorServerProofs!TypeCorrect`, `StopDrainsHolds` | bounds of the buffer; `Stop` drains |
| `ImplementsHolds` | `AuditorServer` implements `AuditLog` |
| `RegistryProofs!TypeCorrect`, `StartsAfterDependenciesHolds` | types; start order |
| `VariablesProofs!TypeCorrect`, `NoLostWakeupHolds`, `IdleIsFreshHolds` | for every set of variables and every dependency data: types; nobody waits for nothing; no stale options are the last word |
| `OrderAndReach`, `CycleFound` | for every list of variables and every sequence of changes, answers and failures: the order and the descendants that `buildDependencyGraph` computes are those of the references; Kahn's count and `detectCycle` each find a cycle exactly if there is one |
| `VerdictIsRight`, `FirstCycleRefused` | with a user who waits (`Patient`): a list that `handleSave` lets through has no cycle; no change brings the first cycle |
| `StoreFeedsFetching` | on the same variables (`SameVariables`): what `DashboardVariables` derives from a list without cycles and without a query that mentions a dynamic variable is `Sound` data of the type that `VariableFetch` assumes |
| `SessionProofs!TypeCorrect`, `NeverTwoBehindHolds` | for any number of tabs and calls: types, and no pair that was not issued; with one tab (`SingleTab`), the storage is never two rotations behind |
| `LiveTailProofs!TypeCorrect`, `OneConnectionHolds`, `ListHoldsAlways`, `NoDeadEndHolds` | for any filters, errors, logs and list size: types and the bound of the list; one connection; the list is of the filter and in order; a tail that plays can go on |
| `QueryBuilderProofs!TypeCorrect`, `NamesUniqueHolds`, `SupersetAgreesHolds`, `StagedIsUrlHolds`, `BackGoesBackHolds` | for every limit on queries, entries and moves: types and bounds; names; the two copies of the query; what runs is the URL's; Back goes back |

The assumptions are those of the modules: durations are naturals and the clock
starts after the resend delay and the grace period (Go's zero time is far in the
past); `BatchSize <= BufferSize`, both positive (`Validate`); the wirings are
functions from services to names; the kinds of variables are disjoint and the
dependency data is of its type. The theorems of `VariableFetch` assume
`EditsReorder` besides: an edit of a query changes the order (see section 3 for
one that does not). `None` is no request, rule or definition body
(`RequestAssumption`).

Five more theorems have hypotheses of their own, and TLC finds a counterexample when
one is dropped. `NeverTwoBehindHolds`: one tab (section 3). `VerdictIsRight` and
`FirstCycleRefused`: `Patient` (section 3). `ShownIsEvaluatedHolds`:
no patches, since `PatchRule` synchronises the task outside its transaction.
`TasksMatchStoreHolds`: edits and deletes, no faults and one organization; a create
of a disabled rule, a patch, a commit that fails after the task was replaced, and a
restart with an organization that has no rules each leave a task that does not
match (section 3). Both are about the rules that are stored: of a rule that is
deleted while edits are under way neither holds.

*Delivery.* `FiringStaysAlive` is not inductive: that an alert is still valid
follows from when it was last sent, which follows from when a round was last
complete. `AlertClocks` says how these relate for one alert: it was sent at most
`ResendDelay` before the last complete round, its `ValidUntil` is four deltas
after that, an unsent resolution is newer than the last complete round, and
Alertmanager has the `EndsAt` of the last send. Each action keeps that, alert by
alert.

*Tasks.* `NoStrayEvaluator` needs to know who may change `tasks`: a request that
waits for a task to stop holds the mutex (`Waits`), the instance it is going to
start has not been started (`Unstarted`), tasks are different started instances
(`Distinct`), and a stopped task that is still in `tasks` belongs to the holder
(`StoppedByHolder`). `StoppedOnce` is the last of these.

*State history.* `HistoryHonest` compares the alerts with their last recorded
states. `HistoryInv` adds that an alert is of missing data exactly if its identity
is that of a `lastSeen` label (`MissingInv`), because `Recorded` writes `nodata`
for one and `firing` for the other, and that a trusted history has been reconciled
since the restart. `NoDataStandsAlone` follows from what one evaluation returns: a
sample of missing data is the only sample.

*Row lock.* `LockInv` says what the lock of a rule's row protects. A request
that is between its statement and the end of the transaction holds the row, or
there is no row (`RowInv`, `HasRow`): what a statement did not find is never stored
again, because ids are given once and an edit of a missing row stores nothing
(`LostKept`). An id given to a create is that create's alone until it commits, as
the others that name it do not find the rule (`CreateInv`); `Manager.rules` and
`Manager.tasks` agree for a stored rule where no one holds the row, and where the holder is not
waiting in `editTask` for the old task to stop (`ShownInv`). A step in a
transaction is shown to leave the other requests and the other rules alone
(`Aside`) and to keep the agreement for its own (`Own`), which suffices
(`LockKept`). `MatchInv` adds what the task is compared with: the stored
definition until the holder has replaced the task, the definition about to be
committed after that.

*Draining.* `DrainInv`: the goroutine ends only in drain with no early event
buffered; it holds a batch only while it exports.

*Start order.* `LoopInv`: a waiting goroutine has seen healthy every dependency
it neither waits for nor has yet to reach, and channels stay closed.

*Wake-ups.* `NoLostWakeup` depends on more than the states. `IInv` adds that
custom variables are always idle (`OtherIdle`), that a waiting query has an
unsettled parent among the queries (`QueriesWake`), that a waiting dynamic
variable has a query that is not settled (`DynamicsWake`), and that no request in
flight has stale inputs, while an enabled input without a request shows options
of the current values and is not active (`RequestsCurrent`). The lemmas about
`Cascade`, `Completed` and `FailedFetch` say what each does to one variable;
`Sound` gives them that descendants are closed under children.

*Dependency graph.* The reference is `Reach`, the least set that holds a node's
children and is closed under children, so that induction over paths is an argument
about closed sets. What a loop computes is an invariant of its rounds.
`SearchInv`: the stack is a path; a node that was entered and left has only such
children, and no set of such nodes is `Looping` (every member has a parent in it).
When the search ends without an edge no set of nodes is looping, and a cycle is
one. `SortInv`: `degree` counts the entries from nodes that are not in the order
yet, a node is queued or ordered exactly if its count is zero, and parents come
first (`ParentsFirst`). When the queue is empty the nodes left over are looping,
and a minimal looping set holds a cycle: Kahn's count is exact. `WalkInv`: the
descendants of the nodes walked are exact, as their children come later in the
order and were walked before. `PageInv` adds what the graph is computed for
(`JobInv`), that lists under way have no cycle unless the store's had (`RequestsInv`),
and that the data belongs to the variables (`DataInv`). The check of both versions
is right because every reference of the list that is sent is one of the list
checked (`Within`): a cycle of the former is one of the latter.

*Rotation.* `NeverTwoBehind` is about the storage and the rows; that it stays
true depends on the rotations in flight. `ChainInv` views the pairs that a
session has had as a chain. The storage and each rotation of the open page have
the current or the previous pair of their chain (`StoredRecent`, `MineRecent`);
the page has one rotation of a chain in flight, with the pair it has stored
(`MineAlone`, which is what a second tab breaks); a rotation that a reloaded page
left behind has no newer pair and nobody receives its answer (`GoneOlder`,
`GoneUnheard`).

*Live tail.* The flags say what the connection does (`FlagsInv`); outside the view
there is no connection, timer or log (`ClosedInv`); the filter of the connection
and of every log listed or batched is the one committed last, if it parses
(`FilterInv`); the batch reversed, followed by the list, is in the order of
arrival (`OrderInv`); and a tail that plays without a connection, and without a
rotation to wait for, has an error to recover from (`RecoveryInv`). `OneConnection`,
`ListHolds` and `NoDeadEnd` each follow from some of these.

*Query builder.* `StagedIsUrl` compares ids, where the code compares ids. It holds
because neighbours in the history with the same page and id have the same query
(`HistoryInv`), so that a move by one entry that keeps the id keeps the query
(`StagedInv`). `SupersetAgrees` needs to know what the editor is about to show
while the effects are still to run (`EditorInv`, `PlaceInv`), and that queries
lack no part once repaired (`FilledInv`). The panels that are stored, shown and
being saved are copies of one another or of a query at rest (`Stored`), and the
editor that waits for a save is on the screen (`PlaceInv`), so that a late answer
navigates from nowhere else. That a new query gets a name that is
free, `NamesUnique`, rests on a counting lemma: fewer queries than names leave a
least name unused.

Only model-checked: the liveness properties (`RequestsEnd`, `EventsLeave`,
`StopEnds`, `NoneWaitsForEver`, `ErrorEndsWait`, `AllSettle`, `RefusedIsResolved`,
`LoadingEnds`, `EffectsSettle`), as fairness and ENABLED are out of the prover's
reach; that the loops of `buildDependencyGraph` end is among what is not proved.
Induction over data and RECURSIVE operators are out of reach as well. No module
declares one: loops are steps, `Reach` is a least closed set, and `Acyclic` is a
property of sets of services rather than a traversal.

## 5. Not modelled

- Arithmetic on floating-point values: thresholds, units, anomaly scores.
- Labels and templates. A rule whose label values contain the sample's value
  makes a new alert with each value; the model's alert identity is stable.
- ClickHouse and SQL text, parsers, the HTTP layer.
- Most of the frontend, which is most of the repository's lines: pages, charts,
  forms, tables of constants, generated API types and mock data. They transform
  answers into what is shown and keep no state that outlives a component, so a
  state model of them would have nothing to check. The map covers the stateful
  providers and stores instead, a small share of the TypeScript.
- In the frontend modules: two new variables of one name saved one after the
  other before the first is stored; the search text of dynamic variables and the cache time of their answers; the jwt
  tokenizer, the token cache and the limit of sessions per user, which is checked
  and applied in separate statements (`opaquetokenizer/provider.go:114`); units,
  expressions of formulas (one keeps naming a query that was removed, and means
  another once the name is given again), and the sanitising of `orderBy`; the
  time between logs (the debounce has no longest wait, so that logs arriving
  faster than it are batched and not shown).
- Edits that change a rule's identity of series, and `CopyState` between two
  definitions: AlertRule has one definition, RuleManager no alerts.
- Alertmanager beyond what a rule sees of it, OpAMP, the caches: see the plan.

## 6. Plan

Order: what decides whether people are notified first.

1. Done: `AlertRule`, `RuleManager`, `AuditorServer`/`AuditLog`, `Registry` with
   their runs and first theorems; `DependencyGraph`/`DashboardVariables`,
   `VariableFetch` with its theorems, `Session`, `LiveTail`, `QueryBuilder`.
2. Done: proofs of the safety invariants of `Session`, `LiveTail` and
   `QueryBuilder`, of `HistoryHonest`, `NoDataStandsAlone`, `ShownIsEvaluated` and
   `TasksMatchStore`, and of `DashboardVariables` with its graph algorithms, whose
   data is shown to fit `VariableFetch`. Open: what two tabs still
   guarantee (a refused pair costs at most the session, and a sign-in restores
   it), and an abstract specification of the tasks that `RuleManager` implements
   when there are no patches.
3. `AlertmanagerService`: `SyncServers`, `PutAlerts`, `SetConfig`, `Stop` (which
   reads the map of servers without the mutex, `service.go:164`); the two
   maintenance loops that read, change and write one row
   (`alertmanagerserver/server.go:147`).
4. `Dispatcher`: aggregation groups, timers, flush, the groups' limit, `Stop`
   before `Run` (`server.go:278`); an abstract specification of grouping.
5. `AgentConfig`: versions, deployment status, coordinator, reconnecting agents,
   late and duplicated status reports, subscribers removed without the lock
   (`agentConf/manager.go:88`); composes with the OpAMP server.
6. `BucketCache`: missing ranges and merging as functions against a reference
   definition over small ranges.
7. `RuleLifecycle`, composing `AlertRule` and `RuleManager`: `CopyState`, which
   leaves `lastTimestampWithDatapoints` behind (`rule_task.go:298`), so that an
   edit restarts the grace period of missing data.
8. `ProgressTracker`, and the recurrences of planned maintenance as functions.
