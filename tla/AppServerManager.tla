--------------------------- MODULE AppServerManager ---------------------------
(***************************************************************************)
(* The way of codex' events to the task service, and of calls to codex:    *)
(* codexappserver/manager.go, snapshot.go, client.go and the bridges of    *)
(* orchestrator/appserver_runner.go.  One machine; machines share only     *)
(* Manager.mu.                                                             *)
(*                                                                         *)
(*   app-server -> inbox -> notes -> (consumer, with Manager.mu)           *)
(*              -> watcher -> (bridge) -> runner -> loop                   *)
(*                                                                         *)
(* A client's read loop routes replies and publishes notifications, in     *)
(* the order they arrive, on a channel that holds NotifyCap.  A consumer   *)
(* goroutine per dialled client takes the lock for each notification and   *)
(* puts it into the channel of its thread's watcher; a bridge goroutine    *)
(* per thread moves it on to the channel of the runner, and the loop of    *)
(* taskSubsystem.Run takes it from there.                                  *)
(*                                                                         *)
(* Goroutines that call codex run a script: a list of steps in which       *)
(* "ensure" is Manager.ensureMachine and a method's name is a call.  The   *)
(* message a goroutine has received and cannot pass on yet is left at the  *)
(* head of the channel it came from.  Definitions named Faulty... are      *)
(* plausible mistakes in the definition that follows them.                 *)
(***************************************************************************)
EXTENDS Naturals, Sequences

CONSTANTS
  Callers,         \* goroutines that call codex: commands of operators
  Loop,            \* and the loop of taskSubsystem.Run
  Threads,         \* codex threads
  Old,             \* those of an earlier process, known from the store
  Ops,             \* the operations that are called
  Kinds,           \* what codex sends: "event"s, for the loop, and "delta"s
  NoOne,           \* holds the lock when it is free
  NotifyCap,       \* capacity of Client.notifications
  WatcherCap,      \* capacity of ThreadWatcher.events
  RunnerCap,       \* capacity of AppServerRunner.events
  MaxClients,      \* bound on dials
  MaxOps,          \* bound on operations
  MaxNotes,        \* bound on notifications
  MaxBreaks,       \* bound on connections that break
  MaxFaults        \* bound on calls and dials that fail, and on calls given up

AllCallers == Callers \cup {Loop}
Clients == 1 .. MaxClients

ASSUME LoopIsNoCaller == /\ Loop \notin Callers
                         /\ NoOne \notin AllCallers \cup Clients
                         /\ AllCallers \cap Clients = {}
ASSUME OldAreThreads == Old \subseteq Threads
ASSUME CapacitiesArePositive == {NotifyCap, WatcherCap, RunnerCap} \subseteq Nat \ {0}
ASSUME ManagerBounds == {MaxClients, MaxOps, MaxNotes, MaxBreaks, MaxFaults} \subseteq Nat

VARIABLES
  mu,              \* Manager.mu: its holder
  machine,         \* Manager.machines: the runtime of the machine, 0 for none
  runtimes,        \* machineRuntime: its client, 0 for nil, and its watchers
  conn,            \* of a client: whether its connection is dialled, open, broken
  inbox,           \* frames the connection has delivered or will deliver
  notes,           \* Client.notifications
  ended,           \* clients whose read loop has ended
  consumer,        \* consumeNotifications: where it is, what it works on
  channel,         \* ThreadWatcher.events of each runtime's watchers
  bridged,         \* AppServerRunner.bridgedThreads
  bridge,          \* the runtime whose watcher a thread's bridge reads, 0 for none
  runner,          \* AppServerRunner.events
  caller,          \* the goroutines that call codex
  sub,             \* codex: the threads each connection is subscribed to
  active,          \* codex: threads with a turn
  abandoned,       \* codex: calls nobody waits for any more, to be served yet
  sent, got, lost, \* history: events of a thread sent, received by the loop, lost
  forsaken,        \* history: threads whose start or resume was given up
  raced,           \* history: a live client was replaced, or taken out of use
  panicked,        \* the process has died of a nil client
  ops, notified, breaks, faults

lock == <<mu, machine, runtimes>>
pipe == <<inbox, notes, channel, runner>>
goroutines == <<consumer, bridged, bridge, caller>>
codex == <<sub, active, sent, abandoned>>
history == <<got, lost, forsaken, raced, panicked>>
budget == <<ops, notified, breaks, faults>>
vars == <<lock, conn, ended, pipe, goroutines, codex, history, budget>>

-------------------------------------------------------------------------------
(* The operations of the runner, as the steps of the manager they call.    *)
(* HasSession resumes, StartInteractiveSession starts and watches; both    *)
(* then bridge.  (The second watch of StartInteractiveSession finds what   *)
(* the first has left.)  SendInteractiveInput steers a turn and starts one *)
(* when codex has none.  StopSession, which makes one call and does        *)
(* nothing with its outcome, is left out.                                  *)
Script ==
  [start   |-> <<"ensure", "thread/start", "ensure", "watch", "turn/start", "mark", "ensure", "bridge">>,
   attach  |-> <<"ensure", "resume", "mark", "ensure", "bridge">>,
   input   |-> <<"ensure", "turn/steer", "turn/start">>,
   respond |-> <<"ensure", "respond">>,
   snapshot |-> <<"snapshot">>,
   cleanup |-> <<"ensure", "thread/unsubscribe", "thread/archive", "forget">>]

ASSUME OpsAreScripts == Ops \subseteq DOMAIN Script

Methods == {"thread/start", "turn/start", "turn/steer", "thread/unsubscribe", "thread/archive"}

(* at is where a caller is within its step; home the runtime of its first  *)
(* ensure, whose client its calls use; runtime that of the latest.         *)
Idle == [op |-> "none", step |-> 0, at |-> "idle", thread |-> NoOne,
         about |-> NoOne,
         home |-> 0, runtime |-> 0, client |-> 0, todo |-> {}]

Step(p) == Script[caller[p].op][caller[p].step]
Runs(p) == ~panicked /\ caller[p].op # "none"
At(p, s, l) == Runs(p) /\ Step(p) = s /\ caller[p].at = l

Move(p, r) == caller' = [caller EXCEPT ![p] = r]
Goto(p, l) == caller' = [caller EXCEPT ![p].at = l]
Finish(p) == Move(p, Idle)

(* The next step of the script, from r.                                    *)
After(r) ==
  IF r.step = Len(Script[r.op]) THEN Idle
  ELSE [r EXCEPT !.step = @ + 1, !.at = "go", !.client = 0, !.about = NoOne]

Advance(p, r) == Move(p, After(r))

(* What a call's outcome makes of its caller: a caller that holds the lock *)
(* goes on there; an operation whose call fails ends; a turn that was      *)
(* steered is not started, nor is one when the connection fails.           *)
Returned(r, how) ==
  LET step == Script[r.op][r.step]
      good == IF step = "turn/steer" THEN "refused" ELSE "answered"
  IN IF step \in Methods THEN IF how = good THEN After(r) ELSE Idle
     ELSE [r EXCEPT !.at = IF step = "ensure" /\ how = "answered" THEN "resume_next" ELSE how]

Free == mu = NoOne
Client(r) == runtimes[r].client
Watchers(r) == runtimes[r].watchers

Fault == faults < MaxFaults /\ faults' = faults + 1

Init ==
  /\ mu = NoOne
  /\ machine = 0
  /\ runtimes = [r \in Clients |-> [client |-> 0, watchers |-> {}]]
  /\ conn = [c \in Clients |-> "unused"]
  /\ inbox = [c \in Clients |-> <<>>]
  /\ notes = [c \in Clients |-> <<>>]
  /\ ended = {}
  /\ consumer = [c \in Clients |-> [at |-> "off", runtime |-> 0, client |-> 0]]
  /\ channel = [r \in Clients |-> [t \in Threads |-> <<>>]]
  /\ bridged = {}
  /\ bridge = [t \in Threads |-> 0]
  /\ runner = <<>>
  /\ caller = [p \in AllCallers |-> Idle]
  /\ sub = [c \in Clients |-> {}]
  /\ active = Old
  /\ abandoned = {}
  /\ sent = [t \in Threads |-> 0]
  /\ got = [t \in Threads |-> 0]
  /\ lost = [t \in Threads |-> {}]
  /\ forsaken = {}
  /\ raced = FALSE
  /\ panicked = FALSE
  /\ ops = 0 /\ notified = 0 /\ breaks = 0 /\ faults = 0

-------------------------------------------------------------------------------
(* The task service calls the runner, for threads as it knows them.        *)
MayBegin(p, op, t) ==
  CASE op = "start" -> /\ t \notin Old \cup bridged \cup UNION {sub[c] : c \in Clients}
                       /\ \A q \in AllCallers : caller[q].thread # t
                       /\ \A a \in abandoned : a.about # t
    [] op = "snapshot" -> t \in Old \cup bridged
    [] op = "attach" -> t \in Old \cap active
    [] op = "cleanup" -> p # Loop /\ t \in bridged
    [] OTHER -> t \in active /\ (t \in Old \/ t \in bridged)

Begin(p, op, t) ==
  /\ ~panicked /\ caller[p].op = "none"
  /\ MayBegin(p, op, t)
  /\ ops < MaxOps
  /\ ops' = ops + 1
  /\ Move(p, [Idle EXCEPT !.op = op, !.step = 1, !.at = "go", !.thread = t])
  /\ UNCHANGED <<lock, conn, ended, pipe, consumer, bridged, bridge, codex, history, notified, breaks, faults>>

-------------------------------------------------------------------------------
(* ensureMachine.  It looks under the lock, dials without it, and installs *)
(* what it has dialled: a first client without the lock and without        *)
(* looking again.                                                          *)
InRuntime(p, r) ==
  [caller[p] EXCEPT !.runtime = r, !.home = IF caller[p].step = 1 THEN r ELSE @]

EnsureAlive(p) ==
  /\ At(p, "ensure", "go") /\ Free
  /\ machine # 0 /\ Client(machine) # 0
  /\ Advance(p, InRuntime(p, machine))
  /\ UNCHANGED <<lock, conn, ended, pipe, consumer, bridged, bridge, codex, history, budget>>

Dial(p) ==
  /\ At(p, "ensure", "go") /\ Free
  /\ machine # 0 => Client(machine) = 0
  /\ \E c \in Clients :
       /\ conn[c] = "unused" /\ \A d \in 1 .. c - 1 : conn[d] # "unused"
       /\ conn' = [conn EXCEPT ![c] = "open"]
       /\ Move(p, [caller[p] EXCEPT !.client = c,
                                    !.at = IF machine = 0 THEN "install" ELSE "reinstall"])
  /\ UNCHANGED <<lock, ended, pipe, consumer, bridged, bridge, codex, history, budget>>

(* With MaxClients used up, the app-server is unreachable for good.        *)
DialFails(p) ==
  /\ At(p, "ensure", "go") /\ Free
  /\ machine # 0 => Client(machine) = 0
  /\ Fault \/ ((\A c \in Clients : conn[c] # "unused") /\ UNCHANGED faults)
  /\ Finish(p)
  /\ UNCHANGED <<lock, conn, ended, pipe, consumer, bridged, bridge, codex, history, ops, notified, breaks>>

Consume(c, r) == consumer' = [consumer EXCEPT ![c] = [at |-> "start", runtime |-> r, client |-> 0]]

(* A new runtime is known by its first client.                             *)
Install(p) ==
  /\ At(p, "ensure", "install")
  /\ LET r == caller[p].client IN
       /\ machine' = r
       /\ runtimes' = [runtimes EXCEPT ![r] = [client |-> r, watchers |-> {}]]
       /\ Consume(r, r)
       /\ raced' = (raced \/ machine # 0)
       /\ Advance(p, InRuntime(p, r))
  /\ UNCHANGED <<mu, conn, ended, pipe, bridged, bridge, codex, got, lost, forsaken, panicked, budget>>

(* A new connection is used without resuming its threads.                  *)
FaultyReinstall(p) ==
  /\ At(p, "ensure", "reinstall") /\ Free
  /\ mu' = p
  /\ runtimes' = [runtimes EXCEPT ![machine].client = caller[p].client]
  /\ raced' = (raced \/ Client(machine) # 0)
  /\ Goto(p, "resume_next")
  /\ UNCHANGED <<machine, conn, ended, pipe, consumer, bridged, bridge, codex, got, lost, forsaken, panicked, budget>>

(* redialMachine keeps the lock while it resumes the threads one by one.   *)
Reinstall(p) ==
  /\ At(p, "ensure", "reinstall") /\ Free
  /\ mu' = p
  /\ runtimes' = [runtimes EXCEPT ![machine].client = caller[p].client]
  /\ raced' = (raced \/ Client(machine) # 0)
  /\ Move(p, [caller[p] EXCEPT !.at = "resume_next", !.todo = Watchers(machine)])
  /\ UNCHANGED <<machine, conn, ended, pipe, consumer, bridged, bridge, codex, got, lost, forsaken, panicked, budget>>

(* Client.call: the request is sent, or sending fails.  On a connection    *)
(* that has broken it may do either.                                       *)
Call(p, c, r) ==
  \/ Move(p, [r EXCEPT !.at = "sent", !.client = c])
  \/ conn[c] = "broken" /\ Move(p, Returned(r, "failed"))

ResumeNext(p) ==
  /\ At(p, "ensure", "resume_next")
  /\ \E t \in caller[p].todo :
       Call(p, caller[p].client, [caller[p] EXCEPT !.about = t, !.todo = @ \ {t}])
  /\ UNCHANGED <<lock, conn, ended, pipe, consumer, bridged, bridge, codex, history, budget>>

ResumeFails(p) ==
  /\ (At(p, "ensure", "failed") \/ At(p, "ensure", "refused"))
  /\ mu' = NoOne
  /\ Finish(p)
  /\ UNCHANGED <<machine, runtimes, conn, ended, pipe, consumer, bridged, bridge, codex, history, budget>>

ResumedAll(p) ==
  /\ At(p, "ensure", "resume_next") /\ caller[p].todo = {}
  /\ mu' = NoOne
  /\ Consume(caller[p].client, machine)
  /\ Advance(p, InRuntime(p, machine))
  /\ UNCHANGED <<machine, runtimes, conn, ended, pipe, bridged, bridge, codex, history, budget>>

Ensure(p) ==
  \/ EnsureAlive(p) \/ Dial(p) \/ DialFails(p) \/ Install(p) \/ Reinstall(p)
  \/ ResumeNext(p) \/ ResumeFails(p) \/ ResumedAll(p)

-------------------------------------------------------------------------------
(* Calls go through the client the runtime has when the call is made,      *)
(* which may have become nil since ensureMachine looked.                   *)
CallMethod(p) ==
  /\ Runs(p) /\ Step(p) \in Methods /\ caller[p].at = "go"
  /\ Client(caller[p].home) # 0
  /\ Call(p, Client(caller[p].home), [caller[p] EXCEPT !.about = caller[p].thread])
  /\ UNCHANGED <<lock, conn, ended, pipe, consumer, bridged, bridge, codex, history, budget>>

(* RespondToServerRequest sends, and waits for nothing.                    *)
Respond(p) ==
  /\ At(p, "respond", "go")
  /\ Client(caller[p].home) # 0
  /\ Finish(p)
  /\ UNCHANGED <<lock, conn, ended, pipe, consumer, bridged, bridge, codex, history, budget>>

SetWatchers(r, ws) == runtimes' = [runtimes EXCEPT ![r].watchers = ws]

(* watchTaskThread without resume.                                         *)
Watch(p) ==
  /\ At(p, "watch", "go") /\ Free
  /\ SetWatchers(caller[p].runtime, Watchers(caller[p].runtime) \cup {caller[p].thread})
  /\ Advance(p, caller[p])
  /\ UNCHANGED <<mu, machine, conn, ended, pipe, consumer, bridged, bridge, codex, history, budget>>

(* watchTaskThread with resume: a new watcher resumes with the lock held.  *)
ResumeWatched(p) ==
  /\ At(p, "resume", "go") /\ Free
  /\ caller[p].thread \in Watchers(caller[p].runtime)
  /\ Advance(p, caller[p])
  /\ UNCHANGED <<lock, conn, ended, pipe, consumer, bridged, bridge, codex, history, budget>>

(* The watcher is registered after thread/resume.                          *)
FaultyResume(p) ==
  LET r == caller[p].runtime IN
  /\ At(p, "resume", "go") /\ Free
  /\ caller[p].thread \notin Watchers(r) /\ Client(r) # 0
  /\ mu' = p
  /\ Call(p, Client(r), [caller[p] EXCEPT !.about = caller[p].thread])
  /\ UNCHANGED <<machine, runtimes, conn, ended, pipe, consumer, bridged, bridge, codex, history, budget>>

Resume(p) ==
  LET r == caller[p].runtime IN
  /\ At(p, "resume", "go") /\ Free
  /\ caller[p].thread \notin Watchers(r) /\ Client(r) # 0
  /\ mu' = p
  /\ SetWatchers(r, Watchers(r) \cup {caller[p].thread})
  /\ Call(p, Client(r), [caller[p] EXCEPT !.about = caller[p].thread])
  /\ UNCHANGED <<machine, conn, ended, pipe, consumer, bridged, bridge, codex, history, budget>>

(* The lock is not released when a thread has been resumed.                *)
FaultyResumeReturns(p) ==
  /\ At(p, "resume", "answered")
  /\ Advance(p, caller[p])
  /\ UNCHANGED <<lock, conn, ended, pipe, consumer, bridged, bridge, codex, history, budget>>

ResumeReturns(p) ==
  LET r == caller[p].runtime IN
  /\ \/ /\ At(p, "resume", "answered")
        /\ Advance(p, caller[p])
        /\ UNCHANGED runtimes
     \/ /\ At(p, "resume", "failed") \/ At(p, "resume", "refused")
        /\ SetWatchers(r, Watchers(r) \ {caller[p].thread})
        /\ Finish(p)
  /\ mu' = NoOne
  /\ UNCHANGED <<machine, conn, ended, pipe, consumer, bridged, bridge, codex, history, budget>>

(* bridgeWatcher marks the thread before it has its watcher.               *)
Mark(p) ==
  /\ At(p, "mark", "go")
  /\ IF caller[p].thread \in bridged THEN Finish(p) ELSE Advance(p, caller[p])
  /\ bridged' = bridged \cup {caller[p].thread}
  /\ UNCHANGED <<lock, conn, ended, pipe, consumer, bridge, codex, history, budget>>

StartBridge(p) ==
  LET r == caller[p].runtime IN
  /\ At(p, "bridge", "go") /\ Free
  /\ SetWatchers(r, Watchers(r) \cup {caller[p].thread})
  /\ bridge' = [bridge EXCEPT ![caller[p].thread] = r]
  /\ Advance(p, caller[p])
  /\ UNCHANGED <<mu, machine, conn, ended, pipe, consumer, bridged, codex, history, budget>>

(* The end of CleanupTaskThread.                                           *)
Forget(p) ==
  /\ At(p, "forget", "go") /\ Free
  /\ IF machine = caller[p].home
       THEN SetWatchers(machine, Watchers(machine) \ {caller[p].thread})
       ELSE UNCHANGED runtimes
  /\ Advance(p, caller[p])
  /\ UNCHANGED <<mu, machine, conn, ended, pipe, consumer, bridged, bridge, codex, history, budget>>

(* Manager.Snapshot looks the watcher up.                                  *)
Snapshot(p) ==
  /\ At(p, "snapshot", "go") /\ Free
  /\ Finish(p)
  /\ UNCHANGED <<lock, conn, ended, pipe, consumer, bridged, bridge, codex, history, budget>>

NilClient(p) ==
  /\ Runs(p) /\ caller[p].at = "go"
  /\ \/ Step(p) \in Methods \cup {"respond"} /\ Client(caller[p].home) = 0
     \/ /\ Step(p) = "resume" /\ Free
        /\ caller[p].thread \notin Watchers(caller[p].runtime) /\ Client(caller[p].runtime) = 0
  /\ panicked' = TRUE
  /\ UNCHANGED <<lock, conn, ended, pipe, goroutines, codex, got, lost, forsaken, raced, budget>>

Steps(p) ==
  \/ Ensure(p) \/ CallMethod(p) \/ Respond(p)
  \/ Watch(p) \/ ResumeWatched(p) \/ Resume(p) \/ ResumeReturns(p)
  \/ Mark(p) \/ StartBridge(p) \/ Forget(p) \/ Snapshot(p) \/ NilClient(p)

-------------------------------------------------------------------------------
(* Publishing without waiting for room.                                    *)
FaultyPublish(c) ==
  /\ ~panicked /\ inbox[c] # <<>> /\ Head(inbox[c]).kind # "reply"
  /\ notes' = [notes EXCEPT ![c] = Append(@, Head(inbox[c]))]
  /\ inbox' = [inbox EXCEPT ![c] = Tail(@)]
  /\ UNCHANGED <<lock, conn, ended, channel, runner, goroutines, codex, history, budget>>

(* Client.readLoop.                                                        *)
Publish(c) ==
  /\ ~panicked /\ inbox[c] # <<>> /\ Head(inbox[c]).kind # "reply"
  /\ Len(notes[c]) < NotifyCap
  /\ notes' = [notes EXCEPT ![c] = Append(@, Head(inbox[c]))]
  /\ inbox' = [inbox EXCEPT ![c] = Tail(@)]
  /\ UNCHANGED <<lock, conn, ended, channel, runner, goroutines, codex, history, budget>>

RouteResponse(c) ==
  /\ ~panicked /\ inbox[c] # <<>> /\ Head(inbox[c]).kind = "reply"
  /\ LET m == Head(inbox[c]) IN
       IF m.to = NoOne THEN UNCHANGED caller ELSE Move(m.to, Returned(caller[m.to], m.result))
  /\ inbox' = [inbox EXCEPT ![c] = Tail(@)]
  /\ UNCHANGED <<lock, conn, ended, notes, channel, runner, consumer, bridged, bridge, codex, history, budget>>

Waits(p) == caller[p].at \in {"sent", "replied"}

(* failAll: what was called later is not answered by anybody.              *)
ReadEnds(c) ==
  /\ ~panicked /\ conn[c] = "broken" /\ inbox[c] = <<>> /\ c \notin ended
  /\ ended' = ended \cup {c}
  /\ caller' = [p \in AllCallers |->
                  IF Waits(p) /\ caller[p].client = c THEN Returned(caller[p], "failed")
                  ELSE caller[p]]
  /\ UNCHANGED <<lock, conn, pipe, consumer, bridged, bridge, codex, history, budget>>

On(k, l) == ~panicked /\ consumer[k].at = l

(* Manager.consumeNotifications reads the client of its runtime once, when *)
(* the goroutine starts; it may be nil again by then.                      *)
StartConsumer(k) ==
  LET r == consumer[k].runtime IN
  /\ On(k, "start")
  /\ panicked' = (Client(r) = 0)
  /\ consumer' = [consumer EXCEPT ![k].at = "ready", ![k].client = Client(r)]
  /\ UNCHANGED <<lock, conn, ended, pipe, bridged, bridge, caller, codex, got, lost, forsaken, raced, budget>>

Message(k) == Head(notes[consumer[k].client])
Taken(k) == notes' = [notes EXCEPT ![consumer[k].client] = Tail(@)]
ForWatcher(k) == Message(k).kind = "event" /\ Message(k).thread \in Watchers(consumer[k].runtime)
Room(k) == Len(channel[consumer[k].runtime][Message(k).thread]) < WatcherCap

Passed(k) ==
  channel' = [channel EXCEPT ![consumer[k].runtime][Message(k).thread] = Append(@, Message(k))]

(* ThreadWatcher.apply of every watcher, with the lock held.               *)
Apply(k) ==
  /\ On(k, "ready") /\ Free
  /\ notes[consumer[k].client] # <<>>
  /\ IF ForWatcher(k) THEN Room(k) /\ Passed(k) ELSE UNCHANGED channel
  /\ Taken(k)
  /\ UNCHANGED <<lock, conn, ended, inbox, runner, goroutines, codex, history, budget>>

(* The watcher's channel is full: the consumer waits with the lock.        *)
ApplyBlocks(k) ==
  /\ On(k, "ready") /\ Free
  /\ notes[consumer[k].client] # <<>> /\ ForWatcher(k) /\ ~Room(k)
  /\ mu' = k
  /\ consumer' = [consumer EXCEPT ![k].at = "blocked"]
  /\ UNCHANGED <<machine, runtimes, conn, ended, pipe, bridged, bridge, caller, codex, history, budget>>

(* The lock is not released after a wait for room.                         *)
FaultyApplyUnblocks(k) ==
  /\ On(k, "blocked") /\ Room(k)
  /\ Passed(k) /\ Taken(k)
  /\ consumer' = [consumer EXCEPT ![k].at = "ready"]
  /\ UNCHANGED <<lock, conn, ended, inbox, runner, bridged, bridge, caller, codex, history, budget>>

ApplyUnblocks(k) ==
  /\ On(k, "blocked") /\ Room(k)
  /\ Passed(k) /\ Taken(k)
  /\ mu' = NoOne
  /\ consumer' = [consumer EXCEPT ![k].at = "ready"]
  /\ UNCHANGED <<machine, runtimes, conn, ended, inbox, runner, bridged, bridge, caller, codex, history, budget>>

(* markRuntimeDisconnected compares the runtime, not the client.           *)
EndConsumer(k) ==
  LET r == consumer[k].runtime IN
  /\ On(k, "ready") /\ Free
  /\ consumer[k].client \in ended /\ notes[consumer[k].client] = <<>>
  /\ IF machine = r THEN runtimes' = [runtimes EXCEPT ![r].client = 0] ELSE UNCHANGED runtimes
  /\ raced' = (raced \/ (machine = r /\ Client(r) # consumer[k].client))
  /\ consumer' = [consumer EXCEPT ![k].at = "off"]
  /\ UNCHANGED <<mu, machine, conn, ended, pipe, bridged, bridge, caller, codex, got, lost, forsaken, panicked, budget>>

(* The goroutine of bridgeWatcher.                                         *)
BridgeEvent(t) ==
  /\ ~panicked /\ bridge[t] # 0
  /\ channel[bridge[t]][t] # <<>> /\ Len(runner) < RunnerCap
  /\ runner' = Append(runner, Head(channel[bridge[t]][t]))
  /\ channel' = [channel EXCEPT ![bridge[t]][t] = Tail(@)]
  /\ UNCHANGED <<lock, conn, ended, inbox, notes, goroutines, codex, history, budget>>

(* The loop takes an event when it is at its select.                       *)
Receive ==
  /\ ~panicked /\ caller[Loop].op = "none"
  /\ runner # <<>>
  /\ got' = [got EXCEPT ![Head(runner).thread] = Head(runner).n]
  /\ runner' = Tail(runner)
  /\ UNCHANGED <<lock, conn, ended, inbox, notes, channel, goroutines, codex, lost, forsaken, raced, panicked, budget>>

Moves ==
  \/ \E c \in Clients : \/ Publish(c) \/ RouteResponse(c) \/ ReadEnds(c)
                        \/ StartConsumer(c)
                        \/ Apply(c) \/ ApplyBlocks(c) \/ ApplyUnblocks(c) \/ EndConsumer(c)
  \/ \E t \in Threads : BridgeEvent(t)
  \/ Receive

-------------------------------------------------------------------------------
(* Client.await when the context of its caller is done, as that of a web   *)
(* request is when the browser leaves: the reply will find no pending call *)
(* any more, but what has been sent has been sent.                         *)
Disowned(s, p) ==
  [i \in DOMAIN s |-> IF s[i].kind = "reply" /\ s[i].to = p THEN [s[i] EXCEPT !.to = NoOne] ELSE s[i]]

Cancel(p) ==
  /\ Runs(p) /\ Waits(p)
  /\ Fault
  /\ LET r == caller[p] IN
       /\ inbox' = [inbox EXCEPT ![r.client] = Disowned(@, p)]
       /\ abandoned' = IF r.at = "replied" THEN abandoned
                       ELSE abandoned \cup {[client |-> r.client, step |-> Step(p), about |-> r.about]}
       /\ forsaken' = IF r.op \in {"start", "attach"} /\ Step(p) \in {"turn/start", "resume"}
                         THEN forsaken \cup {r.thread} ELSE forsaken
       /\ Move(p, Returned(r, "failed"))
  /\ UNCHANGED <<lock, conn, ended, notes, channel, runner, consumer, bridged, bridge, sub, active, sent,
                 got, lost, raced, panicked, ops, notified, breaks>>

-------------------------------------------------------------------------------
(* The app-server.                                                         *)
ReplyFor(p, result) == [kind |-> "reply", to |-> p, result |-> result]

Reply(p, result) ==
  /\ Waits(p) /\ caller[p].at = "sent" /\ conn[caller[p].client] = "open"
  /\ inbox' = [inbox EXCEPT ![caller[p].client] = Append(@, ReplyFor(p, result))]
  /\ Goto(p, "replied")
  /\ UNCHANGED <<lock, conn, ended, notes, channel, runner, consumer, bridged, bridge, sent, abandoned, history,
                 ops, notified, breaks>>

(* What a call made in a step does; redialling calls thread/resume too.    *)
Does(step, c, t) ==
  /\ sub' = CASE step \in {"thread/start", "resume", "ensure"} -> [sub EXCEPT ![c] = @ \cup {t}]
              [] step = "thread/unsubscribe" -> [sub EXCEPT ![c] = @ \ {t}]
              [] OTHER -> sub
  /\ active' = CASE step = "turn/start" -> active \cup {t}
                 [] step = "thread/archive" -> active \ {t}
                 [] OTHER -> active

Serve(p) ==
  /\ Reply(p, "answered")
  /\ Does(Step(p), caller[p].client, caller[p].about)
  /\ UNCHANGED faults

ServeAbandoned(a) ==
  /\ conn[a.client] = "open"
  /\ abandoned' = abandoned \ {a}
  /\ inbox' = [inbox EXCEPT ![a.client] = Append(@, ReplyFor(NoOne, "answered"))]
  /\ Does(a.step, a.client, a.about)
  /\ UNCHANGED <<lock, conn, ended, notes, channel, runner, goroutines, sent, history, budget>>

Refuse(p) ==
  /\ Reply(p, "refused")
  /\ Fault
  /\ UNCHANGED <<sub, active>>

Notify(t, m) ==
  /\ t \in active
  /\ m.kind \in Kinds /\ notified < MaxNotes
  /\ notified' = notified + 1
  /\ \E c \in Clients : conn[c] = "open" /\ t \in sub[c]
  /\ inbox' = [c \in Clients |-> IF conn[c] = "open" /\ t \in sub[c] THEN Append(inbox[c], m) ELSE inbox[c]]
  /\ UNCHANGED <<lock, conn, ended, notes, channel, runner, goroutines, sub, active, abandoned, history, ops, breaks, faults>>

(* A server request, its resolution or turn/completed.                     *)
Event(t) ==
  /\ sent' = [sent EXCEPT ![t] = @ + 1]
  /\ Notify(t, [kind |-> "event", thread |-> t, n |-> sent'[t]])

(* Any other notification: it changes snapshots only.                      *)
Delta(t) ==
  /\ Notify(t, [kind |-> "delta", thread |-> t])
  /\ UNCHANGED sent

(* The events of a thread in a queue, by their numbers.                    *)
IsEvent(m, t) == m.kind = "event" /\ m.thread = t
EventsOf(s, t) == {s[i].n : i \in {j \in DOMAIN s : IsEvent(s[j], t)}}

(* The connection breaks, and what has not arrived does not.               *)
Break(c) ==
  /\ conn[c] = "open" /\ breaks < MaxBreaks
  /\ breaks' = breaks + 1
  /\ conn' = [conn EXCEPT ![c] = "broken"]
  /\ \E n \in 0 .. Len(inbox[c]) :
       /\ inbox' = [inbox EXCEPT ![c] = SubSeq(@, 1, n)]
       /\ lost' = [t \in Threads |->
                     lost[t] \cup EventsOf(SubSeq(inbox[c], n + 1, Len(inbox[c])), t)]
  /\ UNCHANGED <<lock, ended, notes, channel, runner, goroutines, codex, got, forsaken, raced, panicked, ops, notified, faults>>

CodexSteps ==
  \/ \E p \in AllCallers : Serve(p) \/ Refuse(p)
  \/ \E a \in abandoned : ServeAbandoned(a)
  \/ \E t \in Threads : Event(t) \/ Delta(t)
  \/ \E c \in Clients : Break(c)

-------------------------------------------------------------------------------
Next ==
  \/ \E p \in AllCallers : \/ \E op \in Ops, t \in Threads : Begin(p, op, t)
                           \/ Steps(p)
  \/ \E p \in Callers : Cancel(p)
  \/ Moves
  \/ CodexSteps

Spec == Init /\ [][Next]_vars

(* The Go scheduler runs every goroutine that can go on, and a goroutine   *)
(* that waits for the lock, for room in a channel or at a select gets its  *)
(* turn.  The app-server answers while its connection lasts.               *)
Fairness ==
  /\ \A p \in AllCallers : SF_vars(Steps(p)) /\ WF_vars(Serve(p))
  /\ \A c \in Clients :
       /\ WF_vars(Publish(c) \/ RouteResponse(c) \/ ReadEnds(c))
       /\ SF_vars(StartConsumer(c) \/ Apply(c) \/ ApplyBlocks(c) \/ ApplyUnblocks(c) \/ EndConsumer(c))
  /\ \A t \in Threads : SF_vars(BridgeEvent(t))
  /\ SF_vars(Receive)

FairSpec == Spec /\ Fairness

-------------------------------------------------------------------------------
(* Every part of the state has its type, what the loop has received was    *)
(* sent, and no channel holds more than make gave it room for              *)
(* (client.go:50, snapshot.go:57, appserver_runner.go:46).                 *)
TypeOK ==
  /\ mu \in AllCallers \cup Clients \cup {NoOne}
  /\ machine \in {0} \cup Clients
  /\ runtimes \in [Clients -> [client : {0} \cup Clients, watchers : SUBSET Threads]]
  /\ conn \in [Clients -> {"unused", "open", "broken"}]
  /\ ended \subseteq Clients
  /\ bridged \subseteq Threads
  /\ bridge \in [Threads -> {0} \cup Clients]
  /\ sub \in [Clients -> SUBSET Threads]
  /\ active \cup forsaken \subseteq Threads
  /\ \A t \in Threads : got[t] <= sent[t]
  /\ \A c \in Clients : /\ Len(notes[c]) <= NotifyCap
                        /\ \A t \in Threads : Len(channel[c][t]) <= WatcherCap
  /\ Len(runner) <= RunnerCap

(* The queues an event of a thread passes, the one next to the loop first. *)
Queues == 0 .. 2 * MaxClients + 1

Queue(q, t) ==
  CASE q = 0 -> runner
    [] q = 1 -> channel[machine][t]
    [] q > 1 /\ q % 2 = 0 -> notes[q \div 2]
    [] OTHER -> inbox[q \div 2]

InOrder(s, t) ==
  \A i, j \in DOMAIN s : i < j /\ IsEvent(s[i], t) /\ IsEvent(s[j], t) => s[i].n < s[j].n

Below(m, n) == \A a \in m, b \in n : a < b

(* Threads codex may send events of although nobody watches them.          *)
GivenUp == Old \cap forsaken

(* An event that codex has sent for a thread that works has been received  *)
(* by the loop, was lost with a connection, or is under way, in the order  *)
(* it was sent and once: a watcher is registered before codex sends it     *)
(* anything (manager.go:152-163), redialling keeps the runtime with its    *)
(* watchers, whose channels the bridges read, and a client is replaced     *)
(* when its notifications have been drained.  It does not hold when two    *)
(* callers have dialled at once (raced): the watchers of the runtime that  *)
(* is replaced have no bridge any more; nor of a thread whose resume was   *)
(* given up, which codex may have resumed all the same.                    *)
EventsInOrder ==
  ~panicked /\ ~raced /\ machine # 0 =>
    \A t \in active \ GivenUp :
      /\ UNION {EventsOf(Queue(q, t), t) : q \in Queues} = (got[t] + 1 .. sent[t]) \ lost[t]
      /\ \A q \in Queues : InOrder(Queue(q, t), t)
      /\ \A p, q \in Queues : p < q => Below(EventsOf(Queue(p, t), t), EventsOf(Queue(q, t), t))

(* After a reconnection every thread of an earlier process that is watched *)
(* is subscribed to on the new connection, once the lock is free and its   *)
(* notifications are consumed (redialMachine).  A redial that fails half   *)
(* way has no consumer; a thread that is just being started can be watched *)
(* on a connection that does not know it.                                  *)
WatchersReattach ==
  LET c == Client(machine) IN
  /\ ~panicked /\ ~raced /\ machine # 0 /\ Free
  /\ c # 0 /\ conn[c] = "open" /\ consumer[c].at # "off"
  => Watchers(machine) \cap Old \subseteq sub[c]

WantsLock(p) ==
  Runs(p) /\ caller[p].at = "go" /\ Step(p) \in {"ensure", "watch", "resume", "bridge", "forget", "snapshot"}

(* The reply is behind more notifications than the channel holds.          *)
ReplyIsStuck(p) ==
  /\ Waits(p)
  /\ LET c == caller[p].client IN
       /\ Len(notes[c]) = NotifyCap
       /\ inbox[c] # <<>> /\ Head(inbox[c]).kind # "reply"

(* The consumer waits for a bridge that has not been started, or for one   *)
(* that waits for the loop, which waits for the lock or for such a reply.  *)
ConsumerIsStuck(k) ==
  /\ consumer[k].at = "blocked" /\ ~Room(k)
  /\ \/ bridge[Message(k).thread] = 0
     \/ Len(runner) = RunnerCap /\ (WantsLock(Loop) \/ ReplyIsStuck(Loop))

(* The ways in which the manager stops for good while its connection       *)
(* lasts: the lock is held by who waits for those who wait for the lock.   *)
Stalled ==
  \/ mu \in AllCallers /\ ReplyIsStuck(mu)
  \/ mu \in Clients /\ ConsumerIsStuck(mu)

(* While connections last, the loop receives every event of a thread that  *)
(* works, except where the manager is stalled in one of the three ways     *)
(* that Stalled names, and of a thread whose start or resume was given up  *)
(* before its bridge was started: there are no other ways.                 *)
EventsFlow ==
  \A t \in Threads : sent[t] > got[t] ~> got[t] = sent[t] \/ Stalled \/ raced \/ t \notin active \ forsaken

(* And every operation of an operator or of the loop ends, though the      *)
(* program sets no call a deadline (client.go:243-271): its context may    *)
(* be done, but need not ever be.                                          *)
CallsEnd == \A p \in AllCallers : caller[p].op # "none" ~> caller[p].op = "none" \/ Stalled

==============================================================================
