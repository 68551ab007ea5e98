# Alter Ego in TLA+

A verification project kept beside the Go code of Alter Ego. It holds TLA+ modules translated from the source, TLC
configurations that check them on small instances, and proofs for TLAPS. All source paths below are relative to `src/`.

Alter Ego is one Go process. People talk to it through Lark or a web console; it runs tasks for them on remote machines,
each task in a *thread* of a `codex app-server` it reaches over a websocket, and a language model decides which of codex'
questions it answers itself and which it puts to the user. Beside that it receives GitCode webhooks and mirrors issues
into a Feishu Bitable.

## 1. Inventory

| component | state it keeps | operations | talks to |
|---|---|---|---|
| Task service (`internal/orchestrator/service.go`) | none of its own: every handler holds copies of rows | StartTask, Reply, Stop, Complete, Reopen, Delete, DeleteTerminalTasks, HandleRuntimeEvent, TickOnce, ResumeActiveTasks | store, runner, decision engine, notifier |
| Task store (`store.go`) | SQLite: tasks, task_server_requests, task_events, task_questions | one statement per method, no transactions | task service |
| Supervisor policy, decision engine (`supervisor_policy.go`, `decision.go`) | none | ClassifySupervisorEvent, ApplySupervisorPolicy | the model |
| App-server runner (`appserver_runner.go`) | event channel (64), bridged threads | start, resume, input, answer, interrupt, clean up | manager, ssh |
| App-server manager, watchers (`codexappserver/manager.go`, `snapshot.go`) | machines, clients, watchers with a channel of 64, snapshots | ensureMachine, redial, watch, apply | RPC client |
| RPC client (`client.go`) | pending calls, next id, failure | call, respond, read loop | websocket |
| Machine scheduler (`scheduler.go`) | none | least loaded machine | task service |
| GitCode webhooks (`gitcode/store.go`, `handler.go`) | SQLite: webhook_deliveries | claim, complete, release, backfill at startup | issue synchronisation |
| Issue synchronisation (`issuesync/service.go`) | none: the rows are in Bitable | find, create or update an issue; merge pull requests | Bitable client |
| Bitable client (`bitable/client.go`) | access token, refresh in progress | single-flight refresh, REST calls | Feishu |
| Registry (`orchestrator/config.go`) | machines, repositories, workspaces, templates, read once at startup | LoadRegistry | task service, runner |
| Lark adapter (`lark/`) | seen message ids | deduplicate, admit, route messages and card presses, reply | agent, task service |
| Web backend (`web/`) | login states, stream subscribers; sessions are signed cookies | OAuth, pages, commands, publish a change, serve the event stream | task service |
| Chat agent (`agent/`) | bounded chat history per session | chat, /reset, the /task commands, card actions | model, task service |
| Web console frontend (`web/mission-control/`) | the dashboard on display | fetch, follow the stream, offer buttons | web backend |
| Installer, wiring | files, environment | startup | - |

What is hard, and therefore what the properties are about:

* **Lost updates.** `Service` has no lock and the store no transactions. Every handler reads a whole task row, makes
  remote calls that take seconds to minutes, and writes the *whole* row back. Operators' commands, the event loop and
  the tick interleave at every such point. A correct task keeps its question while it waits, never mixes two threads,
  stays stopped, completed or deleted, and is not answered twice.
* **Crashes.** The process can die between any two writes; `ResumeActiveTasks` rebuilds from what was written. Nothing
  may be answered twice, nothing forgotten.
* **Unreliable events.** Notifications sent while the websocket is down are lost; requests are replayed after
  `thread/resume`; an event can overtake the write that makes its thread known.
* **Partial failure.** The model, the app-server and ssh fail between two steps of a handler.
* **Locks and bounded channels** in the app-server manager, **claims** in the webhook store, **read-modify-write** on
  Bitable.
* **Shared connections and tokens.** Calls of many goroutines share one websocket whose read loop may die, or be closed,
  between any two of their steps; refreshes of the Bitable token share one request, which may fail.
* **Small stores with races of their own**: subscribers of the event stream, marks of seen messages, the conversation
  that overlapping questions append to, login states that expire, are pruned and can be used twice.
* **Many doors to one service.** Web, chat and cards each translate a request into calls of the task service; what they
  offer comes from a status that may have changed.
* **Configuration across restarts.** Tasks outlive the registry they were created under.

`PROJECT.json` lists every hazard at its line with the properties that would notice it.

## 2. Modules

| module | models |
|---|---|
| `SupervisorPolicy` | the routing of every decision the model can return, as operators |
| `TaskService` | the life of one task: rows, handlers, event loop, operators, codex, crashes |
| `MCTaskService` | its TLC instances |
| `TaskService_proofs` | type correctness, that the loop answers a request at most once, and what the row keeps while handlers write copies of it, for all constants |
| `TaskServiceTurns` | that only its own event makes the loop continue a turn again, for all constants |
| `Deliveries` | what the webhook delivery store promises: deliveries are open or done, one worker each |
| `DeliveryClaims` | the delivery store and its handler, statement by statement; implements `Deliveries` |
| `MCDeliveryClaims` | its TLC instances |
| `DeliveryClaims_proofs` | exclusion, the refinement, what is applied and what is lost, for all constants |
| `IssueSync` | `DeliveryClaims` with the attempt spelt out in calls to Bitable |
| `MCIssueSync` | its TLC instances |
| `IssueSync_proofs` | the composition is a delivery store; the rows of the Bitable, for all constants |
| `AppServerManager` | the manager, its clients, watchers and locks, and the runner's bridges, for one machine |
| `MCAppServerManager` | its TLC instances |
| `AppServerManager_proofs` | types, the order of events and the watchers after a reconnection, for all constants |
| `RpcClient` | one JSON-RPC client: pending calls, read loop, notification channel, Close |
| `TokenRefresh` | the access token the Bitable client shares among goroutines |
| `MCServiceClients` | the TLC instance of these two |
| `ServiceClients_proofs` | safety of both and their types, for all constants |
| `WebStream` | a change of a task on its way to an open dashboard |
| `FrontDoor` | requests by web, chat and card: who may change a task, what is called, what is answered |
| `LarkMessages` | deduplication of messages and the conversation of the chat agent |
| `WebLogin` | login states between the console and Lark's accounts service |
| `MCFrontEnds` | the TLC instance of these four |
| `FrontEnds_proofs` | safety of the four and their types, for all constants |
| `Registry` | LoadRegistry over the files operators edit |
| `TaskFleet` | all tasks together: placement, ticks, resuming, deleting all, restarts with another registry |
| `MCTaskFleet` | the TLC instance of these two |
| `TaskFleet_proofs` | safety of both, placement and types, for all files and constants |

`TaskService` sees the way of an event as one queue and a call to codex as one step. `AppServerManager` is what is
behind that queue and those calls, and shows when they keep what `TaskService` takes for granted. `RpcClient` is in turn
what `AppServerManager` uses as a connection. `TaskFleet` extends `Registry` and has all the tasks, with what
`TaskService` does to one of them as an outcome. `FrontDoor` has the service's answers as its callers see them.

`MCServiceClients`, `MCFrontEnds` and `MCTaskFleet` check components that share no state in one run. Their variable
`part` is chosen in the initial state and only the actions of that part are taken, so that the states of the parts add
up and do not multiply. Nothing is lost: parts without a common variable cannot influence each other.

### TaskService

The module follows ONE task; tasks share no row, and what they share (the loop, the runner) only delays them.

| TLA+ | code |
|---|---|
| `row` | the row of `tasks`; `question` is `AwaitingQuestion != nil`. Texts, machine and directory are left out |
| `request` | the status column of `task_server_requests` |
| `proc[p]` | a goroutine in a handler: where it is, its copy of the row, the request or turn it handles, the status it read |
| `watched`, `seen` | threads with a watcher that is bridged; the watchers' `requests` maps |
| `events` | `AppServerRunner.events` with the watchers' channels before it, as one queue |
| `thread`, `turn`, `asked` | the app-server: which threads are alive, the state of turns, the requests it waits for |
| `autoSent`, `turnSent` | history: answers sent by the loop, continuations of turns |

A handler is cut into actions at every SQL statement that writes and every remote call. Statements that only read and
follow each other with nothing between them are one step, and so is the receipt of an event with the read of its row.
`Begin`, `Goto` and `Return` move a goroutine between the labels of its handler; a label is named for what the handler
is about to do. Most handlers end in the same write, `Save`. An operator's command starts in `Commanded` and goes on in
`Continue`; the loop starts in `LoopReceives` or `LoopTicks` and goes on in `LoopHandlers`. `StartSteps` is shared: both
StartTask and the tick run `startPendingTask`.

The app-server is not in the repository. Its actions (`CodexSteps` and what they use) are modelled from how the code
uses it: a turn raises one request at a time and waits; the first response closes a request and is announced; an
interrupted turn clears its request and then completes; an open request is sent again to a client that has resumed the
thread; a turn takes input only while it is active, a thread has one active turn.

What is abstracted: audit rows, notifications, progress reports, wording. A failing SQL statement is not modelled
except for "no such row"; a failing remote or model call is (`Fault`). An answer that was sent but reported as failed is
not modelled.

### DeliveryClaims and IssueSync

| TLA+ | code |
|---|---|
| `rows` | `webhook_deliveries`: no row, a row without `processed_at` (claimed), a row with it (processed) |
| `pc`, `record` | the goroutine of a request in `processDelivery`, and its `DeliveryRecord` |
| `Conflict` | the primary key and the unique index of event uuids; it is not transitive |
| `applied`, `acked` | history: attempts that succeeded, deliveries answered with 200 |
| `table` | the rows of the Bitable; of a row's fields, the times of the events they were copied from; history: the event that created the row (`by`), how many merge requests have written it (`writes`) |
| `sync` | how far `ApplyIssueEvent` or `ApplyMergeRequestEvent` is: the issue, find or write, the row as it was read |
| `late` | writes Feishu has received from a caller that gave up |

A step is one SQL statement (the store has one connection) or one HTTP call. `Claim` and `ClaimConflicts` are the
INSERT of `TryClaim`, the three `Lookup` actions its SELECT: between the two another request may settle or release the
row. A statement that fails without effect ends the request (`Cancelled`); the four kinds in `Faults` leave something
behind: an INSERT that was carried out but reported as failed, a `CompleteClaim` that failed or only seemed to, a
`ReleaseClaim` that failed. `Restart` is the end of the process at any point followed by `DeliveryStore.init`, which
gives every row without a `processed_at` one.

`IssueSync` extends `DeliveryClaims` and conjoins its actions: `SyncSucceeds` is `AttemptSucceeds`, `SyncFails` is
`AttemptFails`, and everything else of a request leaves the table alone. Time is a number per event, so that events can
arrive out of order. Bitable and Feishu are outside the repository: a call finds some row with the issue's key (Bitable
promises no order), creates one, or updates the whole of the columns it is given.

### AppServerManager

| TLA+ | code |
|---|---|
| `mu` | who holds `Manager.mu`: a caller, a consumer, nobody |
| `machine`, `runtimes` | `Manager.machines` and the `machineRuntime`s, known by their first client; a client is a number, nil is 0 |
| `conn`, `inbox`, `notes`, `ended` | a websocket with the frames on it, `Client.notifications`, whether the read loop is over |
| `consumer` | the goroutine of `consumeNotifications`, one per client that was installed |
| `channel`, `bridge`, `bridged`, `runner` | `ThreadWatcher.events`, the goroutines and the map of `bridgeWatcher`, `AppServerRunner.events` |
| `caller` | a goroutine in a method of the runner: the step of its `Script`, where it is in that step, what it waits for |
| `sub`, `active`, `abandoned` | the app-server: which connection is subscribed to which thread, which threads work, the calls it has still to serve though nobody waits for them |
| `sent`, `got`, `lost` | history: how many events of a thread were sent, which the loop received last, which died with a connection |
| `forsaken` | history: the threads whose start or resume was given up by its caller |
| `raced`, `panicked` | history: two callers dialled at once and one client replaced another; a nil client was used |

The methods of the runner are sequences of the same few steps, so that they are data (`Script`) and the steps are the
actions. A call is sent, answered or refused, and returned: the actions of the caller, of `Serve` or `Refuse`, and of
`RouteResponse` or `ReadEnds`. A goroutine that holds the lock over several actions is in `mu`; one that takes it,
looks and releases it is one action that needs it free. What a goroutine has received and cannot pass on is left at the
head of the channel it came from, which makes each channel seem one shorter than it is. Events are numbered per thread.
An event is a server request, its resolution or `turn/completed`; everything else is a delta, which ends in a snapshot.
`Snapshot` is the tick's look at one, which needs the lock. No context in the program has a deadline, but that of a web
request ends when the browser leaves. `Cancel` is `Client.await` returning for that reason: the caller goes on as after an
error, a reply that is on its way finds no pending call, and a call that was not served yet is in `abandoned`, to be
served at any later time (`ServeAbandoned`). `MaxFaults` bounds cancellations together with refusals and failing dials.

### RpcClient and TokenRefresh

| TLA+ | code |
|---|---|
| `nextID`, `pending` | `Client.nextID`, `Client.pending`, under `Client.mu` |
| `slot`, `call` | the channel of a call, of capacity 1, and the goroutine in `Client.call` |
| `conn`, `inbox` | the websocket and the frames on their way to the client |
| `reader`, `closer`, `hand`, `reply` | the read loop, a goroutine in `Close`, the calls each has taken out of `pending`, the reply in hand |
| `notes` | how full `Client.notifications` is |
| `asked`, `open`, `extra` | the app-server: requests it received and has not answered, frames beside replies |
| `late` | history: calls registered after the read loop had given up |
| `token`, `fresh`, `refreshing`, `refreshDone` | the fields of the Bitable `Client`; a channel is a number, `closed` are those closed |
| `user`, `issued`, `lookups` | a goroutine in `tenantAccessToken`; how many tokens exist, how many calls began |

Critical sections, channel operations and network operations are one action each. Results are put into a call's channel
without the lock, after it was taken out of the map: that gap is where a reply, a failing read loop and `Close` could
meet. The app-server may repeat a reply, answer in any order, send notifications and frames that do not decode.

### WebStream, FrontDoor, LarkMessages, WebLogin

| TLA+ | code |
|---|---|
| `version`, `publisher` | the number of changes of the tasks; the `Publish` of each, with the channels it copied and has still to serve |
| `clients`, `queue`, `shut`, `streams` | `StreamBroker.clients`, the fill of each channel, which are closed, `nextID` |
| `page`, `refreshes`, `owed` | a browser's page: subscription, pause before a fetch, fetches in flight, version on display; history |
| `status`, `shown` | the task as the service has it; the page or card on display and the status it was built from |
| `request`, `calls`, `applied`, `answer`, `pressed` | the request being handled, the calls it has still to make, what they changed, what the user is told |
| `clock`, `seen` | time, `messageDeduper.seen` |
| `goroutine`, `session` | a delivery on its way through `Adapter` and the agent; the entries of the conversation |
| `handled`, `completed` | history: when a message was handled last, the turns since the conversation was empty |
| `nano`, `items` | time in nanoseconds, of which a state is made; `StateStore.items` |
| `visitor`, `cookie` | where a visitor is between the console and Lark; the account its session cookie names |
| `logins`, `accepted`, `issued`, `life` | bounds and history |

`FrontDoor` enumerates requests by what the handlers tell apart (path, method, session, first words of a command,
sender, chat, mention, action) and turns each into a sequence of calls of the service, made until one fails. `Accepts`
is the service's own check of the status. The status changes between a surface being built, a button being pressed and
the call. A reopened task whose thread codex has lost is a refusal that no status foretells: `CannotReopen`, with an
answer of its own, which `OfferIsAccepted` allows for a reopen alone. Conversations are bounded by `MaxMessages` as in
the code; time is a small clock, with time to live scaled to it.

### Registry and TaskFleet

| TLA+ | code |
|---|---|
| `files`, `edits` | the four directories of `configs/`, edited while the process runs |
| `registry` | what `LoadRegistry` returned to the running process, or that it did not start |
| `time` | the clock; `TextBefore` is the order of `created_at` as a text, `NewTaskID` the id it becomes |
| `rows`, `created` | the table of tasks by id: status, template, machine; history |
| `starting`, `loop`, `deleting` | the goroutine in StartTask, in Run (resuming, ticking), in DeleteTerminalTasks |
| `restarts`, `tried`, `resumed` | bound and history |

A document is a record of what the loader's checks tell apart. `Restart` replaces the registry by what one of a few sets
of files gives. What the runner and the store do to one task is an outcome (`TickOutcomes`, `StartOutcomes`): the row
that is left and whether the call failed, since a failure ends a tick.

## 3. Runs

| run | instance | shows |
|---|---|---|
| `task_operators` | 2 operators with all six commands, 1 thread, 1 turn, 1 request (1.1 million states, operators symmetric) | `TypeOK`; the request a row points to is on record (`PendingIsRecorded`); a task that waits holds its question (`WaitingHasQuestion`); a deleted task stays deleted |
| `task_continuation` | start, reply, stop and reopen, 1 thread, 3 turns, 1 restart (0.5 million) | a turn that was continued is taken up again only for its own event, which is then gone, and never by a reconciliation (`ContinuedAgainByItsEvent`) |
| `task_recovery` | start and reply, 2 threads, 3 turns, 1 failure, 1 restart (0.8 million) | the loop answers a request and continues a turn at most once (`AutoReplyAtMostOnce`, `TurnContinuedAtMostOnce`); a row never names the turn of another thread (`TurnIsOfThread`) |
| `task_liveness` | start, reply, complete and reopen, 1 thread, 2 turns, 1 restart, no failing call | a request codex waits for is attended to; a created task is started; neither is true when a call fails (below), so `MaxFaults` is 0 |
| `deliveries` | 3 requests at once, 3 colliding deliveries, a failure of any kind, 1 restart (30 thousand) | one request works on an event at a time; it is applied once, and once more per failure at most; only failures leave claims behind; only a restart answers 200 for what was not applied; the store implements `Deliveries`; every request is answered unless a failure left a claim in its way |
| `issue_overlapping` | 2 workers, an event under two ids and another of the same issue, 2 pull requests, one of them of two issues, 1 failing completion, 1 late write, 1 restart (2 million) | one event creates one row, a late create apart, while another event may create its own (`SecondRowIsLate`); a 200 means that the row is there until a restart (`AckedIssueHasRow`); `LastPRUpdatedAt` covers what the row shows even where updates are lost; a row loses a pull request, or its `LastPRUpdatedAt` goes back, only by a write of a merge request that another one has overtaken (`OnlyOvertakenTakes`) |
| `manager_reconnects` | 1 thread, an operator and the loop, 2 operations, 2 clients, 1 break, 1 failure or cancellation (1.1 million) | events arrive in order and once, or are lost with the connection (`EventsInOrder`); a redial subscribes to what is watched (`WatchersReattach`) |
| `manager_events` | 2 threads, one of them new, an operator and the loop, 2 operations, snapshots among them, 3 events, 1 refusal or cancellation, every channel of size 1 | `TypeOK`; events reach the loop and calls end, except in the three stalls that `Stalled` names |
| `service_clients` | 2 calls, 1 frame that is no reply, a channel of 1; 3 users of the token, 4 lookups | `RpcSafety`, `RpcLiveness`; `TokenSafety`, `LookupEnds` |
| `front_ends` | 1 browser, 2 changes, 2 streams, a channel of 1, 1 fetch of the user's own; every request of `FrontDoor`; 3 messages, one of them /reset, 2 goroutines; 2 visitors, 2 accounts, 3 logins | `StreamSafety`, `StreamLiveness`; `DoorSafety`; `MessagesSafety`; `LoginSafety` |
| `task_fleet` | every configuration two edits away from a good one; 2 tasks, 2 times, 1 restart, 4 deployments, one of which is refused (0.15 million states) | `RegistrySafety`; `FleetSafety`, `TasksAreServed` |

The properties of the last three runs are conjunctions of parts with a name and a comment each:

| property | parts |
|---|---|
| `RpcSafety` | `ResultsFit`: whoever takes a call out of the map owns its one result, so that nobody blocks on its channel; `OwnReply`: a call returns the reply to its own request |
| `RpcLiveness` | `CallsReturn`: a call that was sent returns, unless it was registered after the read loop had given up; `CloseEnds` |
| `TokenSafety` | `OneRefresh`: while `refreshing` is set there is exactly one refresher; `WakeUpNotLost`: no wake-up between unlock and wait; `TokenIsNotOlder` |
| `StreamSafety` | `ClientsAreOpen`: no closed channel is in the map; `QuietPageHasSeen`: dropped and merged events are never missed |
| `StreamLiveness` | `OfferedIsShown`: a change offered to a stream is displayed in the end; `PublishEnds`: a slow browser holds up nobody |
| `DoorSafety` | `ChangesAreAllowed`, `AnswerIsTrue`: "done" means exactly what was asked for; `OfferIsAccepted`: a button that is not stale is not refused; `PageOffersAll`: no status is a dead end |
| `MessagesSafety` | `NoTurnIsLost`, `AskedWholeTurns`: overlapping questions neither lose nor split turns; `HandledAgainIsLate`: a redelivery is handled only after the time to live |
| `LoginSafety` | `AcceptedOnce`: a state is good for one login; `RefusedForAReason`: and for that one it is good |
| `RegistrySafety` | `RegistryIsUsable`: what StartTask dereferences later is there; `OrderOfFilesIsFree`: no file hides another |
| `FleetSafety` | `OrphanIsOld`: only a restart makes a task the registry does not serve; `AllAreResumed` before the first tick; `DeleteAllIsComplete` |
| `TasksAreServed` | `PlacedOnLeastLoaded`; `TicksReachAll`: the ticks take every waiting task, unless an earlier one fails again and again |

Bounds. Two operators and the loop are the fewest that let a stale copy of each kind of goroutine meet one of another;
a second request or a third operator adds only copies that behave like these. Two threads are what a double start needs.
Three turns allow the first turn, its continuation and the one that a wrong second continuation would start. One
restart, placed anywhere, covers every window between two writes; a second one repeats it. `Bump` stops the history
counters at 2, which means "more than once". Deadlock is not checked: a task may be idle until an operator acts, and
bounds run out.

`ThreeDeliveries` is the smallest set in which two deliveries that do not collide both collide with a third; each
delivery can arrive more than once within `MaxRequests`. Three requests let one hold a claim, one be between INSERT and
SELECT, and one poll. That requests are finitely many matters to `RequestAnswered`: nothing makes a claim go to the
request that has polled longest, and an endless stream of others could starve it. `issue_overlapping` has the
two races of the table, two events that both create a row and two updates of which one is lost (below). Its events are
what they need: an event under two ids, another one of the same issue, and two merge requests, of which one is linked to
two issues and the other is the later one. A third worker would add nothing: one write is overtaken or it is not.

The channels of the manager hold 16, 64 and 64 in the code and 1 in the runs: a stall needs a full channel, not a long
one, and three notifications fill two channels and the hand of one goroutine. A second client is what a break, or a
second first dial, needs; with both used up the app-server is unreachable. `manager_events` has no breaks, because
with them a call can wait for ever for one more reason (below); `manager_reconnects` has one thread, since the order of
events is a matter of one thread, and the lock is shared with the other caller.

Two callers are what a reply, a failing read loop and `Close` can be given to the wrong one of; the third user of the
token is the one that wakes up to find a newcomer refreshing. Two streams are one that ends while an event is on its way
to it and the one that the page opens next. Of the three messages two fill the bound of the conversation and the third
resets it; a time to live of 1 with a clock up to 2 lets a mark be young, of age exactly, and too old. The same holds of
login states; two visitors and three logins in two or three nanoseconds share states and do not. Two edits make a bad
document, and make one that another one refers to go away. Two tasks and two machines are the smallest placement that
can be wrong, one task before another the smallest tick that can starve.

`TurnContinuedAtMostOnce` is claimed for one operator with start and reply only. With Stop added, or with a second
operator, three turns and a restart it fails: the restarted process continues the turn by reconciliation, a command that
read the row before writes it back and `LastCompletedTurnID` with it, and the completion that was on the queue all the
time continues the turn again. That is the same lost update as in `stopped_task_resumes`. What is true with every command
is `ContinuedAgainByItsEvent`; `task_continuation` has that second continuation.

One run must fail, since it states what the documentation says and the code does not do:

| run | what happens |
|---|---|
| `stopped_task_resumes` | the tick lists a running task, an operator stops it, the tick writes its copy back: running again, with its turn interrupted |

### Known behaviours without a run

The models have these behaviours too, except for the last two: `TaskFleet` handles one StartTask at a time and
`FrontDoor` has no texts. They were met while the properties above were being stated, and are why a
property is worded or an instance bounded as it is.

| where | what happens |
|---|---|
| Reply, `service.go:266` | the loop answers a request while the row still waits for the user (an earlier question): the operator's Reply answers the same request |
| Reply, `service.go:291` | Reply reads the row, answers, the loop handles `serverRequest/resolved` and clears the pointer, Reply writes its copy back: the pointer is there for good and later completions are ignored |
| StartTask, `service.go:100` | the tick starts a task whose StartTask is still preparing the workspace: two threads |
| HandleRuntimeEvent, `service.go:175` | a completion that arrives before StartTask has written the thread id finds no row and is dropped; nothing looks at it again |
| HandleRuntimeEvent, `service.go:736` | the model fails once on a request: it stays pending and no tick retries it |
| startPendingTask, `service.go:678` | an error other than a timeout leaves the task `starting` |
| startPendingTask, `service.go:678` | a start that ends in a timeout fails the task, though its thread may be running |
| newTaskID, `service.go:107` | two tasks created in one millisecond have one id: the second is refused |
| ListActiveTasks, `store.go:298` | `created_at` is compared as a text without trailing zeros: within a second the order of tasks is not that of their creation |
| TickOnce, `service.go:121` | the first task that fails ends the tick: a task that can never start keeps all later ones from being started |
| TickOnce, DeleteTask | after a restart with another registry a task whose template or machine is gone can be neither started nor deleted with its workspace |
| DeliveryStore.init, `gitcode/store.go:327` | the process ends during an attempt, startup marks the claim processed, and the redelivery is answered 200: the event is lost |
| processDelivery, `handler.go:140` | one `ReleaseClaim` fails, and every later delivery of the event polls without end |
| ApplyIssueEvent, `issuesync/service.go:35` | two different events of a new issue both find no row and both create one; `issue_overlapping` has it, and `SecondRowIsLate` counts the rows of each event |
| ApplyMergeRequestEvent, `issuesync/service.go:74` | two pull requests of an issue at once: the second writes back a copy without the first; `issue_overlapping` has it, and `OnlyOvertakenTakes` says that nothing else takes anything from a row |
| ApplyIssueEvent, `issuesync/service.go:48` | an event that failed is delivered again after a newer one and puts the older state back; with a pull request, `LastPRUpdatedAt` keeps the newer time |
| ApplyIssueEvent, `issuesync/service.go:42` | a create that was given up is carried out after the retry has looked for the row |
| ensureMachine, `manager.go:307` | two first callers dial at once; the watchers of the runtime that is replaced have no bridge (`raced`) |
| `manager.go:89`, `:355` | the client is nil when it is used after it was looked at: the process panics (`NilClient`, `StartConsumer`) |
| redialMachine, `manager.go:334` | a `thread/resume` that fails leaves the new client installed and without a consumer; later calls find it alive |
| watchTaskThread, `manager.go:157` | after a restart the loop resumes two threads; notifications of the first fill the channel before the reply for the second, for which the loop waits with the lock that the consumer needs. With the real sizes it takes 18 notifications |
| CleanupTaskThread, `manager.go:245` | `thread/archive` fails after `thread/unsubscribe`: the watcher stays registered for a thread nobody is subscribed to; until `forget` the same is true of every cleanup, which is why `WatchersReattach` is claimed without it |
| CleanupTaskThread, `manager.go:252` | a thread is archived and forgotten while an input that was sent before gives it a turn again: its events find no watcher and are dropped, which is why `EventsInOrder` is claimed without cleanup |
| Client.await, `client.go:267` | the caller of `thread/resume` gives up, the watcher is removed, and codex serves the call: the thread's events come and find no watcher; they are what `EventsInOrder` counts as given up (`GivenUp`) |
| Manager.StartTaskSession, `manager.go:103` | the caller of `turn/start` gives up: the thread works and is watched, but nothing bridges its watcher |
| bridgeWatcher, `appserver_runner.go:263` | the thread is marked as bridged before its watcher is known; an error leaves the mark and no bridge |
| Client.call, `client.go:189` | a call sent after `failAll` on a connection that still takes it is never answered (`late`) |
| StreamBroker, `stream.go:51`, `:70` | a browser leaves between the copy of the map and the send: `Publish` sends on a closed channel and panics |
| dashboard-shell.tsx | an older response arrives after a newer one: the page shows the older version until the next event |
| Adapter, `lark/adapter.go:130` | a message is marked as seen before it is handled: when handling fails, its redelivery is dropped |
| chat, /reset | a question that is being answered when the conversation is reset leaves its turn in the new one |
| StateStore, `web/lark_oauth.go:141` | two logins that start in the same nanosecond share a state; one of them is refused |
| SelectMachineForWorkspace, `service.go:77` | two StartTasks at once count the same tasks and choose the same machine |
| cards | an answer typed into an old card is given to the question the task waits for now |

### Fairness

`FairSpec` assumes weak fairness of each goroutine that is inside a handler, since the Go scheduler runs it, and strong
fairness of the loop's receipt of events and of its ticks: the `select` in `taskSubsystem.Run` chooses at random among
ready channels, so neither starves, though each is disabled while a handler runs. Nothing is assumed of operators
starting commands, of codex, or of calls failing.

For deliveries `Fairness` lets every request run (the Go scheduler) and every attempt return. The second is an assumption
about Feishu: `http.DefaultClient` has no timeout, so that an unanswered call holds its claim. Clients are not assumed
to cancel, which makes `RequestAnswered` the stronger.

For the manager `Fairness` lets a goroutine that waits for the lock or for room in a channel have its turn (Go's mutex
hands the lock to who has waited a millisecond, and a channel serves its senders in order), lets the loop receive when
it is at its `select`, and lets the app-server answer the calls it gets. Nothing is assumed of operators or events.

`RpcFairness` lets every goroutine in the client run, the consumer take notifications, and the app-server answer what it
received or the connection end. Nobody is made to cancel a call or to close the client. `TokenFairness` lets every
goroutine in `tenantAccessToken` run, which assumes that the token request returns or fails. `StreamFairness` lets
publishers and handlers run, timers fire and fetches end; nothing makes a browser connect, stay or take events, so that
`OfferedIsShown` says so itself. `FleetFairness` lets the ticker fire and the steps of a tick and of resuming end; tasks
are not made to progress.

## 4. Proofs

`TaskService_proofs!TypeCorrect` is `Spec => []TypeOK` for every set of operators and commands and every bound. Each
action has a lemma of its own; the inductive invariant is `TypeOK` itself, since `ProcState` types the copies of rows.

`AnsweredAtMostOnce`, in the same module, is `Spec => []AutoReplyAtMostOnce`. The property is not inductive. What makes it
true is `AnswerInv`: a request the loop has answered is past `pending`, or its row went with a deleted task
(`PastPending`); the one handler that is about to answer, or to write `pending` into a request's row, holds a request
that has not been answered; and once requests are deleted the task's row is. The argument rests on there being one
loop: only it answers automatically, marks a request before it answers, and writes a request's row, while operators only
move a request further on. A restart loses the handler, not the mark. `AnswerInv` was also checked by TLC on the
instances of `task_recovery` and `task_operators`.

The last part of that module has what the row keeps, though every handler writes back whole copies of different ages:
`WaitingIsAnswerable`, `PointersAreRecorded`, `TurnsAreOwn` and, as a step, `DeletedTasksStayDeleted`. The invariant
`RowsInv` says of the row *and of every copy* that its status and question agree and that its turn is of its thread, and
of a copy that it is of a task that was not deleted when it was read. It points to a request on record, except for the
copy of the handler that is about to record its own. Two facts about the rest of the system support it: a turn that was
never used has no thread and a turn keeps the thread it got (`UnusedAreBlank`), and the events on the queue name the
thread of their turn (`EventsInv`). A deleted task stays deleted because every write of a copy is an UPDATE.

`TaskServiceTurns!TurnsContinueAgainByTheirEvents` is `Spec => ContinuedAgainByItsEvent`, for every set of operators and
commands and every bound. A turn can reach the loop twice, by its event and by the reconciliation of a restart. What the
loop goes by is `LastCompletedTurnID`, in a row that any handler overwrites which read it before, so that the invariant,
`AgainInv`, says nothing of that field and rests on codex alone:

| part | says |
|---|---|
| `TurnsInOrder` | turns are used in their order, and only the last of a thread is active |
| `AnnouncedOnce` | a completion is on the queue once, of a turn that is done |
| `Continued` | a turn that was continued is done and not the last of its thread, so that no reconciliation finds it again |
| `Supervising` | the turn that is supervised is done, and the loop's copy of the row names it and its thread |
| `Counted` | a turn that was continued once is not on the queue and supervised at the same time; one that was continued again is neither |

That the loop continues no turn twice (`TurnContinuedAtMostOnce`) while one operator starts and replies is model-checked
only: a theorem would need that restriction as its hypothesis.

`DeliveryClaims_proofs!ExclusiveClaims` is `Spec => []ClaimExclusive`. It rests on `ClaimInv`: rows in the table do not
collide (the constraints of the table), a request that owns a claim has its row there, in progress or settled, and two
owners have rows that differ. `PromiseKept` is the refinement: given `ClaimInv`, each statement is a step of
`Deliveries` or a stutter. `Conflict` is not transitive, so that neither follows from looking at one event alone.
`AppliedOncePerFault` and `NothingLostWithoutRestart` need `AppliedInv`: an event has been applied as often as statements
have failed, and once more only while its claim is spent - settled, or about to be; a worker that reports success, and
a row that is processed, have been applied, the latter until a restart backfills the table. `ClaimsHaveOwners` is
`ClaimsAreOwned`, whose inductive form `UnownedInv` adds that the set is finite.

`IssueSync_proofs!SyncIsDelivery` projects the composition to `DeliveryClaims`, whose theorems hold of it therefore.
`LastAlwaysCovers` is `SyncSpec => []LastCoversPRs` with `CoverInv`: the copies that workers hold and late writes carry
are themselves covered, so that a write from a stale copy loses a pull request and not the inequality. `SyncIsTyped`
(`SyncTypeOK`, which no run checks beside it) adds that late writes are as many as were given up (`LateInv`).
`SecondRowsAreLate` is about any number of events of an issue at the same time: they may each create its row, and the
rows of one of them, its creates that are late and the one under way are together no more than one and the writes given
up (`DupInv`), since two deliveries of one event are never both being worked on (`ClaimInv`). `RowsLoseToOvertakenOnly`
is `OnlyOvertakenTakes` for any number of workers: a copy has counted at most as many writes as its row, and if as many,
no merge request has written the row since, so that it still shows what the copy does (`Follows`, `SeenInv`).
`AckedIssuesHaveRows`, with `RowInv` (what a worker has written or a delivery settled is shown in the table), is the one
with a hypothesis, `KindsAgree`: deliveries of one event are of one kind, which GitCode sends along with the event. The
property itself is stated until the first restart, whose backfill loses events.

`AppServerManager_proofs!ManagerIsTyped` is `Spec => []TypeOK`, with `TypeInv` as its invariant: besides the shape of
every frame, queue and goroutine it says that the lock is held by exactly the goroutine that is in a part of the code
that holds it (`LockHeld`), that a caller which waits has at most one reply under way, and to its own call
(`RepliesMatch`), that a client which is dialled or redialled belongs to one caller (`OwnedClients`), and that no event
has a number that was not sent (`Numbered`).

`EventsArriveInOrder` and `WatchersAreResumed` are `EventsInOrder` and `WatchersReattach`. Neither is inductive: that no
event is lost between two clients depends on who holds the lock, what that caller has still to do, and what a reply that
is under way says of the events behind it. `OrderParts` is the invariant, while nobody has dialled at once with another
caller and nothing has panicked, together with `GivenHarmless`, about what codex may still do for calls that were given
up: it serves them on the client in use or on a broken one, subscribes to no thread whose resume is pending for another
caller, and, where nobody watches the thread any more, the thread is among the `forsaken` ones, whose events the
property leaves out (`GivenUp`).

| part | says |
|---|---|
| `OneRuntime`, `OneClient` | one runtime and one client are in use; every other client was drained before it was replaced, and is subscribed to nothing |
| `ActiveWatched` | a thread that works in this process has a watcher; one that does not has sent nothing |
| `UnwatchedQuiet` | a thread of an earlier process that is not watched, and whose resume nobody gave up, is subscribed to nowhere and has nothing under way |
| `Ordered` | the events from the loop back to the wire - `runner`, the watcher's channel, `notes`, `inbox` - are those sent and neither received nor lost, in ascending order within each and from each to the next |
| `Attached` | what is watched is subscribed to on the client in use, or is the thread whose `thread/resume` the lock's holder waits for |
| `PendingApart` | that thread is in no other caller's hands as one that was already attached |
| `Fits` | of each caller: the runtime it works on and what it has done so far (`OnItsWay`), the client it calls (`Uses`), the threads it handles under the lock (`WorksOn`), and, in `watchTaskThread` and `redialMachine`, that the reply to `thread/resume` comes before any event of its thread (`Resumes`) and which threads are still to be resumed (`Redials`) |

TLC checked `TypeInv` and `OrderInv` on the instances of both manager runs, the second without `cleanup`, before they
were proved. The two theorems assume `"cleanup" \notin Ops`, which is the case in `manager_reconnects`: with
CleanupTaskThread both properties are false, and TLC shows how (section 3). Everything else the runner calls - `start`,
`attach`, `input`, `respond`, `snapshot` - is covered, with any number of callers, threads, clients, breaks and
cancellations.

`ServiceClients_proofs!TokenIsShared` is `TokenSpec => []TokenSafety`. `TokenInv` names the one refresher
(`OneRefresher`), says that the channels of refreshes are closed in their order (`ChannelsInOrder`), and bounds what
users hold by the token that is cached (`GotNewest`, `CacheIsNewest`). `RepliesAreOwn` is `RpcSpec => []RpcSafety`;
`RpcInv` follows a reply on its whole way: ids of calls differ, a request on the wire is that of its caller, and what is
in the inbox, in the hands of the read loop and in the slot of a call is the reply to that call. A pending call has an
empty slot, and whoever has taken it out of the map is the only one to fill it (`ResultsFit`). `ClientsAreSafe` is the
instance that is model-checked.

`FrontEnds_proofs` has one theorem for each of the four parts and `FrontEndsAreSafe` for their instance.

| theorem | inductive invariant |
|---|---|
| `LoginIsSafe` | `LoginInv`: a state that is in the store was issued more often than it was accepted; the state of a visitor is in the store, or expired, used, or of an earlier life |
| `StreamIsSafe` | `StreamInv`: a change that was published was made; pages have different streams; a change that was offered to a page is displayed, or an event is in its channel, its pause runs, or a fetch is on its way that has not read the table or has read the change (`OwedIsComing`) |
| `MessagesAreSafe` | `MessagesInv`: the session is the turns of what was completed and fits the bound; the mark of a message that was handled is there until its time to live is over (`MarkOf`) |
| `DoorIsSafe` | `DoorInv`: what the calls of a request have changed and what those ahead would change is what it asked for, one change at most, and it may; a button pressed in time has one call to make, which is still accepted |

`TaskFleet_proofs!RegistryIsSafe` is `RegistrySpec => []RegistrySafety`. That no file hides another is a lemma about
`LoadRegistry` for all files (`OrderIsFree`): the mirror image of an accepted configuration is accepted and gives the same
registry, since ids are unique. That a registry can be used (`LoadedIsUsable`) is what Validate and the bindings come to,
wherever the workspace of a template is from. `FleetIsSafe` is `FleetSpec => []FleetSafety` with `FleetInv`: a row of this
life is one the registry serves, for the registry does not change between the selection of a machine and the INSERT; the
loop has something left, among it every task to resume; a row that is still to be deleted is among those left. Serial
numbers make this last part true although ids are taken again. `TasksArePlaced` is `PlacedOnLeastLoaded`, the part of
`TasksAreServed` that is about steps. It needs to know what `SelectMachine` computes for lists of any length
(`SelectMachineIs`) and that `InOrder` goes through every task once (`InOrderListsAll`); as induction over data is out of
reach, both go by the least counterexample (`LeastNatural`, from the theorems on well-founded relations).
`RegistryAndFleetAreSafe` is the instance.

Assumptions of the proofs, all of which TLC evaluates on every run:

| about | assumptions |
|---|---|
| tasks | `LoopIsNoOperator`, `BoundsAreNaturals` |
| deliveries, issues | `NoRecordIsNone`, `FaultsAreKnown`, `DeliveryBounds`, `RecordsAreEvents`, `MaxLateIsNatural` |
| manager | `LoopIsNoCaller` (callers, clients and `NoOne` are told apart), `OldAreThreads`, `CapacitiesArePositive`, `ManagerBounds`, `OpsAreScripts` |
| clients | `TokenBounds`, `RpcBounds` |
| front ends | `LoginBounds`, `StreamBounds`, `MessageBounds` (the bound of a conversation is even and positive), `MentionIsBoolean` |
| registry, fleet | `EditsAreBounded`, `StartsWithFiles`, `TemplatesAreTyped` and `MachinesAreListed` (what a document is), `FleetBounds` (deployments are files, and the first ones are accepted: without them there is no process) |

Model-checked only:

* `TurnContinuedAtMostOnce` (above), and `OnlyOperatorsReopen`, which is false;
* liveness, which is out of the proof system's reach: `RequestAttended`, `RequestAnswered`, `EventsFlow`, `CallsEnd`,
  `RpcLiveness`, `LookupEnds`, `StreamLiveness`, `TicksReachAll` and the others of section 3.

No module declares a `RECURSIVE` operator, so that each can be proved about.

## 5. Not modelled

See `components` in `PROJECT.json` for each part and the reason. In short: the installer and ssh commands are
I/O; the ability context, prompts, decoding of events, the fields of a snapshot, cards, pages and messages are parsing
and wording; configurations read from environment variables are parsed once at startup; signing and expiry of the
session cookie are one comparison each.

## 6. Plan

Components 1 to 6 - the task service, deliveries and issues, the app-server manager, the clients, the front ends, the
registry and the fleet - are modelled and checked, and have their safety proved. What would come next is a step-by-step
refinement between `TaskService` and `TaskFleet`, whose `TickOutcomes` and `StartOutcomes` abstract it.
