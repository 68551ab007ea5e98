------------------------------ MODULE TaskService ------------------------------
(***************************************************************************)
(* The task service of internal/orchestrator with the parts of the codex   *)
(* app-server it drives, for the life of ONE task.                         *)
(*                                                                         *)
(* Service has no lock.  Every handler reads the whole task row into a     *)
(* local TaskRun, talks to the app-server and to the decision model, and   *)
(* then writes the whole row back (store.UpdateTask).  Two kinds of        *)
(* goroutine run handlers: the loop of taskSubsystem.Run, which handles    *)
(* one runtime event or one tick at a time, and the operator commands of   *)
(* Lark and the web console.  A handler is cut at every access to shared   *)
(* state (a SQL statement, a call to the app-server); what it remembers    *)
(* between two cuts is proc[p], so a stale copy of the row is a value of   *)
(* proc[p].row that no longer equals row.  Reads that follow each other    *)
(* with no write and no remote call between them are one step.             *)
(*                                                                         *)
(* The system may stop: a task can be idle until an operator acts, and a   *)
(* bound can be used up.  Definitions whose name starts with Faulty are    *)
(* plausible mistakes in the definition that follows them: nothing uses    *)
(* them, they show which properties notice the mistake.                    *)
(*                                                                         *)
(* Threads, turns and requests are numbered in the order they come into    *)
(* being; 0 is the empty string.                                           *)
(***************************************************************************)
EXTENDS Integers, Sequences, SupervisorPolicy

CONSTANTS
  Operators,    \* goroutines that run operator commands
  Loop,         \* the goroutine of taskSubsystem.Run
  Commands,     \* the operator commands that are issued
  MaxThreads,   \* bound: codex threads ever started
  MaxTurns,     \* bound: codex turns ever started
  MaxRequests,  \* bound: server requests ever raised
  MaxFaults,    \* bound: remote calls, model calls and notifications that fail
  MaxCrashes    \* bound: restarts of the alter-ego process

ASSUME LoopIsNoOperator == Loop \notin Operators
ASSUME BoundsAreNaturals ==
  /\ MaxThreads \in Nat /\ MaxTurns \in Nat /\ MaxRequests \in Nat
  /\ MaxFaults \in Nat /\ MaxCrashes \in Nat

VARIABLES
  row,        \* the task's row in the tasks table
  request,    \* request id -> status in the task_server_requests table
  proc,       \* goroutine -> the handler it runs and what that remembers
  watched,    \* threads with a ThreadWatcher bridged to the event channel
  seen,       \* ThreadWatcher.requests: asked, and not yet seen resolved
  events,     \* the RuntimeEvents the loop has not received yet
  thread,     \* app-server: thread id -> unused, live or gone
  turn,       \* app-server: turn id -> its state and its thread
  asked,      \* app-server: request id -> unused, open or closed, and its turn
  autoSent,   \* history: replies the loop sent to a request (2 = more than one)
  turnSent,   \* history: replies the loop sent to a completed turn (2 = more than one)
  faults, crashes

store  == <<row, request>>
link   == <<watched, seen, events>>
codex  == <<thread, turn, asked>>
sent   == <<autoSent, turnSent>>
budget == <<faults, crashes>>
vars   == <<row, request, proc, watched, seen, events, thread, turn, asked,
            autoSent, turnSent, faults, crashes>>

-------------------------------------------------------------------------------
(* Types *)

Procs    == Operators \cup {Loop}
Threads  == 1 .. MaxThreads
Turns    == 1 .. MaxTurns
Requests == 1 .. MaxRequests

TaskStatus == {"pending", "starting", "running", "waiting_user_input", "recovering",
               "completed", "failed", "stopped"}
Terminal   == {"completed", "failed", "stopped"}
Stoppable  == {"running", "waiting_user_input"}
Reopenable == {"completed", "stopped"}

(* "none" before the row is inserted, "deleted" after it is removed.       *)
TaskRun == [status   : TaskStatus \cup {"none", "deleted"},
            thread   : Threads \cup {0},
            turn     : Turns \cup {0},     \* ActiveTurnID
            lastTurn : Turns \cup {0},     \* LastCompletedTurnID
            pending  : Requests \cup {0},  \* PendingRequestID
            question : BOOLEAN]            \* AwaitingQuestion # nil

NoTask == [status |-> "none", thread |-> 0, turn |-> 0, lastTurn |-> 0,
           pending |-> 0, question |-> FALSE]

RequestStatus == {"absent", "pending", "replying", "replied", "resolved"}
Open          == {"pending", "replying"}

Event == [kind : {"request", "resolved"}, thread : Threads, id : Requests]
         \cup [kind : {"turn_completed"}, thread : Threads, id : Turns]

(* The app-server's turns and the requests they raise.                     *)
Turn == [state  : {"unused", "active", "interrupted", "completed", "aborted"},
         thread : Threads \cup {0}]
Ask  == [state : {"unused", "open", "closed"}, turn : Turns \cup {0}]

Labels ==
  {"idle", "save",
   "start_save", "start_session",
   "reply_mark", "reply_respond", "reply_replied", "reply_input",
   "stop_interrupt", "complete_interrupt", "complete_resolve",
   "reopen_attach", "reopen_touch", "reopen_input", "reopen_resolve",
   "delete_cleanup", "delete_row", "delete_requests",
   "resolved_mark", "request_upsert", "request_save", "request_read",
   "request_decide", "auto_mark", "auto_respond", "auto_save", "auto_replied",
   "turn_decide", "turn_input",
   "progress_waiting", "recover_attach",
   "resume", "resume_attach", "resume_save", "reconcile", "reconcile_save"}

(* What a goroutine remembers between two accesses to shared state.        *)
ProcState == [pc     : Labels,
              row    : TaskRun,               \* its copy of the task row
              req    : Requests \cup {0},     \* the request it handles
              turn   : Turns \cup {0},        \* the completed turn it handles
              status : RequestStatus]         \* the request status it has read

Idle == [pc |-> "idle", row |-> NoTask, req |-> 0, turn |-> 0, status |-> "absent"]
-------------------------------------------------------------------------------
(* Goroutines *)

At(p, label) == proc[p].pc = label

Begin(p, label, r) ==
  proc' = [proc EXCEPT ![p] = [Idle EXCEPT !.pc = label, !.row = r]]
BeginFor(p, label, r, id, st) ==
  proc' = [proc EXCEPT ![p] = [Idle EXCEPT !.pc = label, !.row = r, !.req = id, !.status = st]]
Goto(p, label) == proc' = [proc EXCEPT ![p].pc = label]
GotoWith(p, label, r) == proc' = [proc EXCEPT ![p].pc = label, ![p].row = r]
Return(p) == proc' = [proc EXCEPT ![p] = Idle]

Fault == faults < MaxFaults /\ faults' = faults + 1

(* The handler gives up: it returns the error, and its caller logs it.     *)
Fails(p) == Fault /\ Return(p)

(* Store *)

RowExists == row.status \notin {"none", "deleted"}

(* Mistake: INSERT OR REPLACE.                                             *)
FaultyUpdateTask(r) == row' = r
(* UpdateTask: UPDATE ... WHERE task_id, of every column.                  *)
UpdateTask(r) == row' = IF RowExists THEN r ELSE row

(* updateTaskServerRequestStatus: UPDATE ... WHERE request_id, whatever    *)
(* the status was.                                                         *)
MarkRequest(id, st) ==
  request' = IF request[id] = "absent" THEN request ELSE [request EXCEPT ![id] = st]

(* Write the local copy and go on; no row means sql.ErrNoRows.             *)
SaveThen(p, from, to) ==
  /\ At(p, from)
  /\ UpdateTask(proc[p].row)
  /\ IF RowExists THEN Goto(p, to) ELSE Return(p)
  /\ UNCHANGED <<request, link, codex, sent, budget>>

(* The write most handlers end with.                                       *)
Save(p) ==
  /\ At(p, "save")
  /\ UpdateTask(proc[p].row)
  /\ Return(p)
  /\ UNCHANGED <<request, link, codex, sent, budget>>

AskUser(r) == [r EXCEPT !.status = "waiting_user_input", !.question = TRUE]
Resume(r)  == [r EXCEPT !.status = "running"]

-------------------------------------------------------------------------------
(* The codex app-server and the websocket to it *)

ActiveTurns(th) == {t \in Turns : turn[t].state = "active" /\ turn[t].thread = th}
OpenRequests(t) == {r \in Requests : asked[r].state = "open" /\ asked[r].turn = t}
UnusedThreads   == {th \in Threads : thread[th] = "unused"}
UnusedTurns     == {t \in Turns : turn[t].state = "unused"}
UnusedRequests  == {r \in Requests : asked[r].state = "unused"}
First(S) == {i \in S : \A j \in S : i <= j}    \* the first of S, if any

Live(th) == th \in Threads /\ thread[th] = "live"

(* ThreadWatcher.apply and the bridge: a notification of a watched thread  *)
(* becomes a RuntimeEvent; serverRequest/resolved only if this watcher has *)
(* seen the request.                                                       *)
Notify(e) ==
  IF e.thread \notin watched \/ (e.kind = "resolved" /\ e.id \notin seen)
  THEN UNCHANGED <<events, seen>>
  ELSE /\ events' = Append(events, e)
       /\ seen' = CASE e.kind = "request"  -> seen \cup {e.id}
                    [] e.kind = "resolved" -> seen \ {e.id}
                    [] OTHER               -> seen

(* A notification can be sent while the websocket is down: it is not sent  *)
(* again after the redial.                                                 *)
Announce(e) ==
  \/ Notify(e) /\ UNCHANGED faults
  \/ Fault /\ UNCHANGED <<events, seen>>

(* The running turn asks the client something and waits.                   *)
RaiseRequest(t) ==
  /\ turn[t].state = "active" /\ OpenRequests(t) = {}
  /\ \E r \in First(UnusedRequests) :
       /\ asked' = [asked EXCEPT ![r] = [state |-> "open", turn |-> t]]
       /\ Announce([kind |-> "request", thread |-> turn[t].thread, id |-> r])
  /\ UNCHANGED <<store, proc, watched, thread, turn, sent, crashes>>

(* turn/completed, of a turn that ran to its end or was interrupted.       *)
CompleteTurn(t) ==
  /\ turn[t].state \in {"active", "interrupted"} /\ OpenRequests(t) = {}
  /\ turn' = [turn EXCEPT ![t].state = IF @ = "active" THEN "completed" ELSE "aborted"]
  /\ Announce([kind |-> "turn_completed", thread |-> turn[t].thread, id |-> t])
  /\ UNCHANGED <<store, proc, watched, thread, asked, sent, crashes>>

(* The request of an interrupted turn is cleared.                          *)
ClearRequest(r) ==
  /\ asked[r].state = "open" /\ turn[asked[r].turn].state = "interrupted"
  /\ asked' = [asked EXCEPT ![r].state = "closed"]
  /\ Announce([kind |-> "resolved", thread |-> turn[asked[r].turn].thread, id |-> r])
  /\ UNCHANGED <<store, proc, watched, thread, turn, sent, crashes>>

(* An open request is sent again to a client that resumed the thread.      *)
ReplayRequest(r) ==
  /\ asked[r].state = "open" /\ r \notin seen
  /\ turn[asked[r].turn].thread \in watched
  /\ Notify([kind |-> "request", thread |-> turn[asked[r].turn].thread, id |-> r])
  /\ UNCHANGED <<store, proc, watched, codex, sent, budget>>

CloseThread(th) ==
  /\ thread' = [thread EXCEPT ![th] = "gone"]
  /\ turn' = [t \in Turns |-> IF turn[t].thread = th
                              THEN [turn[t] EXCEPT !.state = "aborted"] ELSE turn[t]]

(* The app-server loses a thread (its host was reset).                     *)
LoseThread(th) ==
  /\ thread[th] = "live"
  /\ Fault
  /\ CloseThread(th)
  /\ UNCHANGED <<store, proc, link, asked, sent, crashes>>

-------------------------------------------------------------------------------
(* Calls of the runner *)

(* RespondToServerRequest returns when the response is on the wire.  Codex *)
(* takes the first response to an open request and announces that it is    *)
(* resolved; it ignores any other.                                         *)
Respond(r) ==
  IF asked[r].state = "open"
  THEN /\ asked' = [asked EXCEPT ![r].state = "closed"]
       /\ Notify([kind |-> "resolved", thread |-> turn[asked[r].turn].thread, id |-> r])
  ELSE UNCHANGED <<asked, events, seen>>

Bump(count) == IF count < 2 THEN count + 1 ELSE count

(* SendTaskInput: steer the turn the row names, or start a turn when codex *)
(* has none active.  ReachableTurns is what a call can return: empty when  *)
(* codex refuses (the thread is gone, another turn is active, or the bound *)
(* on turns is reached).                                                   *)
ReachableTurns(r) ==
  IF ~Live(r.thread) THEN {}
  ELSE IF ActiveTurns(r.thread) # {} THEN ActiveTurns(r.thread) \cap {r.turn}
  ELSE First(UnusedTurns)

StartTurn(t, th) == turn' = [turn EXCEPT ![t] = [state |-> "active", thread |-> th]]

(* Send input for the goroutine's copy of the row; on success go on with r *)
(* and the turn that took the input, on an error return.                   *)
SendInput(p, to, r) ==
  \/ \E t \in ReachableTurns(proc[p].row) :
       /\ StartTurn(t, proc[p].row.thread)
       /\ GotoWith(p, to, [r EXCEPT !.turn = t])
       /\ UNCHANGED faults
  \/ ReachableTurns(proc[p].row) = {} /\ Return(p) /\ UNCHANGED <<turn, faults>>
  \/ Fails(p) /\ UNCHANGED turn

(* HasSession: an attached thread needs no call, any other is resumed and  *)
(* gets a new watcher.                                                     *)
CanAttach(th) == th \in watched \/ Live(th)
Attach(th)    == watched' = watched \cup {th}

-------------------------------------------------------------------------------
(* Starting a task: StartTask on an operator's goroutine, and every tick   *)
(* that finds the row pending or starting.                                 *)

StartTask(o) ==
  /\ "start" \in Commands /\ At(o, "idle") /\ row.status = "none"
  /\ row' = [NoTask EXCEPT !.status = "pending"]
  /\ Begin(o, "start_save", [NoTask EXCEPT !.status = "starting"])
  /\ UNCHANGED <<request, link, codex, sent, budget>>

(* Mistake: a tick starts pending tasks only.                              *)
FaultyTickStart ==
  /\ At(Loop, "idle") /\ row.status = "pending"
  /\ Begin(Loop, "start_save", [row EXCEPT !.status = "starting"])
  /\ UNCHANGED <<store, link, codex, sent, budget>>

TickStart ==
  /\ At(Loop, "idle") /\ row.status \in {"pending", "starting"}
  /\ Begin(Loop, "start_save", [row EXCEPT !.status = "starting"])
  /\ UNCHANGED <<store, link, codex, sent, budget>>

StartSave(p) == SaveThen(p, "start_save", "start_session")

(* StartInteractiveSession: thread/start, watch, turn/start.               *)
StartSession(p) ==
  /\ At(p, "start_session")
  /\ \E th \in First(UnusedThreads), t \in First(UnusedTurns) :
       /\ thread' = [thread EXCEPT ![th] = "live"]
       /\ StartTurn(t, th)
       /\ Attach(th)
       /\ GotoWith(p, "save", [Resume(proc[p].row) EXCEPT !.thread = th, !.turn = t])
  /\ UNCHANGED <<store, seen, events, asked, sent, budget>>

(* turn/start failed: the thread exists and nobody knows it.               *)
StartSessionHalfway(p) ==
  /\ At(p, "start_session")
  /\ \E th \in First(UnusedThreads) : thread' = [thread EXCEPT ![th] = "live"]
  /\ Fails(p)
  /\ UNCHANGED <<store, link, turn, asked, sent, crashes>>

(* Any error but a timeout leaves the row starting.  The bounds on threads *)
(* and turns count as such an error.                                       *)
StartSessionFails(p) ==
  /\ At(p, "start_session")
  /\ \/ (UnusedThreads = {} \/ UnusedTurns = {}) /\ Return(p) /\ UNCHANGED faults
     \/ Fails(p)
  /\ UNCHANGED <<store, link, codex, sent, crashes>>

StartSessionTimeout(p) ==
  /\ At(p, "start_session")
  /\ Fault
  /\ GotoWith(p, "save", [proc[p].row EXCEPT !.status = "failed"])
  /\ UNCHANGED <<store, link, codex, sent, crashes>>

StartSteps(p) ==
  \/ StartSave(p)
  \/ StartSession(p)
  \/ StartSessionHalfway(p)
  \/ StartSessionFails(p)
  \/ StartSessionTimeout(p)

-------------------------------------------------------------------------------
(* Operator commands *)

(* Reply: to the request the row points to, else into the thread.          *)
Reply(o) ==
  /\ "reply" \in Commands /\ At(o, "idle") /\ row.status = "waiting_user_input"
  /\ LET answered == [Resume(row) EXCEPT !.question = FALSE] IN
       CASE row.pending = 0                   -> Begin(o, "reply_input", answered)
         [] row.pending # 0 /\ request[row.pending] = "absent"
                                              -> Begin(o, "save", answered)
         [] OTHER -> BeginFor(o, "reply_mark", answered, row.pending, "absent")
  /\ UNCHANGED <<store, link, codex, sent, budget>>

ReplyMark(o) ==
  /\ At(o, "reply_mark")
  /\ MarkRequest(proc[o].req, "replying")
  /\ Goto(o, "reply_respond")
  /\ UNCHANGED <<row, link, codex, sent, budget>>

ReplyRespond(o) ==
  /\ At(o, "reply_respond")
  /\ Respond(proc[o].req)
  /\ Goto(o, "reply_replied")
  /\ UNCHANGED <<store, watched, thread, turn, sent, budget>>

ReplyRespondFails(o) ==
  /\ At(o, "reply_respond") /\ Fails(o)
  /\ UNCHANGED <<store, link, codex, sent, crashes>>

ReplyReplied(o) ==
  /\ At(o, "reply_replied")
  /\ MarkRequest(proc[o].req, "replied")
  /\ Goto(o, "save")
  /\ UNCHANGED <<row, link, codex, sent, budget>>

ReplyInput(o) ==
  /\ At(o, "reply_input")
  /\ SendInput(o, "save", proc[o].row)
  /\ UNCHANGED <<store, link, thread, asked, sent, crashes>>

(* StopSession interrupts the turn the row names; "no active turn" counts  *)
(* as success.  Without a thread and a turn to name it is an error, which  *)
(* Stop returns and Complete passes over.                                  *)
CanInterrupt(r) == r.thread # 0 /\ r.turn # 0

Interrupt(t) ==
  turn' = IF t \in Turns /\ turn[t].state = "active"
          THEN [turn EXCEPT ![t].state = "interrupted"] ELSE turn

Stop(o) ==
  /\ "stop" \in Commands /\ At(o, "idle") /\ row.status \in Stoppable
  /\ Begin(o, "stop_interrupt", [row EXCEPT !.status = "stopped"])
  /\ UNCHANGED <<store, link, codex, sent, budget>>

StopInterrupt(o) ==
  /\ At(o, "stop_interrupt")
  /\ IF CanInterrupt(proc[o].row)
     THEN \/ Interrupt(proc[o].row.turn) /\ Goto(o, "save") /\ UNCHANGED faults
          \/ Fails(o) /\ UNCHANGED turn
     ELSE Return(o) /\ UNCHANGED <<turn, faults>>
  /\ UNCHANGED <<store, link, thread, asked, sent, crashes>>

Complete(o) ==
  /\ "complete" \in Commands /\ At(o, "idle") /\ row.status = "waiting_user_input"
  /\ BeginFor(o, "complete_interrupt",
              [row EXCEPT !.status = "completed", !.question = FALSE, !.pending = 0],
              row.pending, "absent")
  /\ UNCHANGED <<store, link, codex, sent, budget>>

(* Complete goes on when the interrupt fails.                              *)
CompleteInterrupt(o) ==
  /\ At(o, "complete_interrupt")
  /\ \/ Interrupt(proc[o].row.turn) /\ UNCHANGED faults
     \/ Fault /\ UNCHANGED turn
  /\ Goto(o, IF proc[o].req = 0 THEN "save" ELSE "complete_resolve")
  /\ UNCHANGED <<store, link, thread, asked, sent, crashes>>

CompleteResolve(o) ==
  /\ At(o, "complete_resolve")
  /\ MarkRequest(proc[o].req, "resolved")
  /\ Goto(o, "save")
  /\ UNCHANGED <<row, link, codex, sent, budget>>

(* Reopen: resume the thread, write the row back, send the requirement.    *)
Reopen(o) ==
  /\ "reopen" \in Commands /\ At(o, "idle") /\ row.status \in Reopenable
  /\ BeginFor(o, "reopen_attach", row, row.pending, "absent")
  /\ UNCHANGED <<store, link, codex, sent, budget>>

ReopenAttach(o) ==
  /\ At(o, "reopen_attach")
  /\ \/ CanAttach(proc[o].row.thread) /\ Attach(proc[o].row.thread)
        /\ Goto(o, "reopen_touch") /\ UNCHANGED faults
     \/ ~CanAttach(proc[o].row.thread) /\ Return(o) /\ UNCHANGED <<watched, faults>>
     \/ Fails(o) /\ UNCHANGED watched
  /\ UNCHANGED <<store, seen, events, codex, sent, crashes>>

ReopenTouch(o) == SaveThen(o, "reopen_touch", "reopen_input")

ReopenInput(o) ==
  /\ At(o, "reopen_input")
  /\ SendInput(o, IF proc[o].req = 0 THEN "save" ELSE "reopen_resolve",
               [Resume(proc[o].row) EXCEPT !.question = FALSE, !.pending = 0])
  /\ UNCHANGED <<store, link, thread, asked, sent, crashes>>

ReopenResolve(o) ==
  /\ At(o, "reopen_resolve")
  /\ MarkRequest(proc[o].req, "resolved")
  /\ Goto(o, "save")
  /\ UNCHANGED <<row, link, codex, sent, budget>>

(* Delete: unsubscribe and archive the thread, then the task's rows, the   *)
(* task's own row first.                                                   *)
Delete(o) ==
  /\ "delete" \in Commands /\ At(o, "idle") /\ row.status \in Terminal
  /\ Begin(o, "delete_cleanup", row)
  /\ UNCHANGED <<store, link, codex, sent, budget>>

DeleteCleanup(o) ==
  /\ At(o, "delete_cleanup")
  /\ LET th == proc[o].row.thread IN
       \/ /\ Live(th) /\ CloseThread(th) /\ watched' = watched \ {th}
          /\ Goto(o, "delete_row") /\ UNCHANGED faults
       \/ /\ ~Live(th)
          /\ Goto(o, "delete_row") /\ UNCHANGED <<thread, turn, watched, faults>>
       \/ Fails(o) /\ UNCHANGED <<thread, turn, watched>>
  /\ UNCHANGED <<store, seen, events, asked, sent, crashes>>

DeleteRow(o) ==
  /\ At(o, "delete_row")
  /\ IF RowExists
     THEN row' = [NoTask EXCEPT !.status = "deleted"] /\ Goto(o, "delete_requests")
     ELSE Return(o) /\ UNCHANGED row
  /\ UNCHANGED <<request, link, codex, sent, budget>>

DeleteRequests(o) ==
  /\ At(o, "delete_requests")
  /\ request' = [r \in Requests |-> "absent"]
  /\ Return(o)
  /\ UNCHANGED <<row, link, codex, sent, budget>>

Commanded(o) ==
  \/ StartTask(o) \/ Reply(o) \/ Stop(o) \/ Complete(o) \/ Reopen(o) \/ Delete(o)

Continue(o) ==
  \/ ReplyMark(o) \/ ReplyRespond(o) \/ ReplyRespondFails(o)
  \/ ReplyReplied(o) \/ ReplyInput(o)
  \/ StopInterrupt(o)
  \/ CompleteInterrupt(o) \/ CompleteResolve(o)
  \/ ReopenAttach(o) \/ ReopenTouch(o) \/ ReopenInput(o) \/ ReopenResolve(o)
  \/ DeleteCleanup(o) \/ DeleteRow(o) \/ DeleteRequests(o)

-------------------------------------------------------------------------------
(* HandleRuntimeEvent.  Receiving the event and GetTaskByThread are one    *)
(* step: the row is the one read when the handler starts.                  *)

Receive == At(Loop, "idle") /\ events # <<>> /\ events' = Tail(events)

(* Mistake: the task is not looked up by its thread.                       *)
FaultyOfTask(e) == RowExists
OfTask(e) == RowExists /\ row.thread = e.thread

(* No task has this thread: sql.ErrNoRows, the event is dropped.           *)
IgnoreUnknownThread ==
  /\ Receive /\ ~OfTask(Head(events))
  /\ UNCHANGED <<store, proc, watched, seen, codex, sent, budget>>

ReceiveResolved ==
  /\ Receive /\ OfTask(Head(events)) /\ Head(events).kind = "resolved"
  /\ BeginFor(Loop, "resolved_mark", row, Head(events).id, "absent")
  /\ UNCHANGED <<store, watched, seen, codex, sent, budget>>

(* Mistake: the question is answered and the task goes on waiting.         *)
FaultyClearPending(r) == [r EXCEPT !.pending = 0, !.question = FALSE]

ClearPending(r) ==
  IF r.status = "waiting_user_input"
  THEN [Resume(r) EXCEPT !.pending = 0, !.question = FALSE]
  ELSE [r EXCEPT !.pending = 0]

ResolvedMark ==
  /\ At(Loop, "resolved_mark")
  /\ MarkRequest(proc[Loop].req, "resolved")
  /\ IF proc[Loop].row.pending = proc[Loop].req
     THEN GotoWith(Loop, "save", ClearPending(proc[Loop].row))
     ELSE Return(Loop)
  /\ UNCHANGED <<row, link, codex, sent, budget>>

(* The request's row is looked up too; a closed request is not handled.    *)
IgnoreClosedRequest ==
  /\ Receive /\ OfTask(Head(events)) /\ Head(events).kind = "request"
  /\ request[Head(events).id] \in {"replied", "resolved"}
  /\ UNCHANGED <<store, proc, watched, seen, codex, sent, budget>>

(* Mistake: the pointer is written before the request is recorded.         *)
FaultyReceiveRequest ==
  /\ Receive /\ OfTask(Head(events)) /\ Head(events).kind = "request"
  /\ request[Head(events).id] \in {"absent", "pending", "replying"}
  /\ BeginFor(Loop, "request_save", [row EXCEPT !.pending = Head(events).id],
              Head(events).id, "pending")
  /\ UNCHANGED <<store, watched, seen, codex, sent, budget>>

ReceiveRequest ==
  /\ Receive /\ OfTask(Head(events)) /\ Head(events).kind = "request"
  /\ LET id == Head(events).id
         st == request[id]
     IN /\ st \in {"absent", "pending", "replying"}
        /\ BeginFor(Loop, "request_upsert", [row EXCEPT !.pending = id], id,
                    IF st = "absent" THEN "pending" ELSE st)
  /\ UNCHANGED <<store, watched, seen, codex, sent, budget>>

(* Mistake: a status no other query knows.                                 *)
FaultyRequestUpsert ==
  /\ At(Loop, "request_upsert")
  /\ request' = [request EXCEPT ![proc[Loop].req] = "received"]
  /\ Goto(Loop, "request_save")
  /\ UNCHANGED <<row, link, codex, sent, budget>>

(* INSERT ... ON CONFLICT DO UPDATE, with the status read before.          *)
RequestUpsert ==
  /\ At(Loop, "request_upsert")
  /\ request' = [request EXCEPT ![proc[Loop].req] = proc[Loop].status]
  /\ Goto(Loop, "request_save")
  /\ UNCHANGED <<row, link, codex, sent, budget>>

RequestSave == SaveThen(Loop, "request_save", "request_read")

(* handlePendingRequest reads the task and the request again, and asks the *)
(* model.                                                                  *)
RequestRead ==
  /\ At(Loop, "request_read")
  /\ IF RowExists /\ request[proc[Loop].req] = "pending"
     THEN GotoWith(Loop, "request_decide", row)
     ELSE Return(Loop)
  /\ UNCHANGED <<store, link, codex, sent, budget>>

Verdicts == {RequestVerdict(proc[Loop].row.pending = proc[Loop].req, d) : d \in NormalDecisions}

RequestApproved ==
  /\ At(Loop, "request_decide") /\ "reply" \in Verdicts
  /\ Goto(Loop, "auto_mark")
  /\ UNCHANGED <<store, link, codex, sent, budget>>

RequestEscalated ==
  /\ At(Loop, "request_decide") /\ "escalate" \in Verdicts
  /\ GotoWith(Loop, "save", AskUser(proc[Loop].row))
  /\ UNCHANGED <<store, link, codex, sent, budget>>

(* The model failed, or answered with no JSON: the request stays pending.  *)
RequestUndecided ==
  /\ At(Loop, "request_decide") /\ Fails(Loop)
  /\ UNCHANGED <<store, link, codex, sent, crashes>>

(* Mistake: the request is answered without being marked first.            *)
FaultyAutoMark ==
  /\ At(Loop, "auto_mark")
  /\ Goto(Loop, "auto_respond")
  /\ UNCHANGED <<store, link, codex, sent, budget>>

AutoMark ==
  /\ At(Loop, "auto_mark")
  /\ MarkRequest(proc[Loop].req, "replying")
  /\ IF request[proc[Loop].req] = "absent" THEN Return(Loop) ELSE Goto(Loop, "auto_respond")
  /\ UNCHANGED <<row, link, codex, sent, budget>>

AutoRespond ==
  /\ At(Loop, "auto_respond")
  /\ Respond(proc[Loop].req)
  /\ autoSent' = [autoSent EXCEPT ![proc[Loop].req] = Bump(@)]
  /\ GotoWith(Loop, "auto_save", Resume(proc[Loop].row))
  /\ UNCHANGED <<store, watched, thread, turn, turnSent, budget>>

AutoRespondFails ==
  /\ At(Loop, "auto_respond") /\ Fails(Loop)
  /\ UNCHANGED <<store, link, codex, sent, crashes>>

AutoSave == SaveThen(Loop, "auto_save", "auto_replied")

AutoReplied ==
  /\ At(Loop, "auto_replied")
  /\ MarkRequest(proc[Loop].req, "replied")
  /\ Return(Loop)
  /\ UNCHANGED <<row, link, codex, sent, budget>>

(* Mistake: LastCompletedTurnID is not looked at.                          *)
FaultyNotSupervised(r, t) == r.pending # 0

(* handleTurnCompleted: a turn that was handled, or that completes while   *)
(* the row points to a request, is dropped.                                *)
NotSupervised(r, t) == r.lastTurn = t \/ r.pending # 0

IgnoreTurnCompleted ==
  /\ Receive /\ OfTask(Head(events)) /\ Head(events).kind = "turn_completed"
  /\ NotSupervised(row, Head(events).id)
  /\ UNCHANGED <<store, proc, watched, seen, codex, sent, budget>>

Supervise(r, t) ==
  proc' = [proc EXCEPT ![Loop] = [Idle EXCEPT !.pc = "turn_decide", !.turn = t,
                                              !.row = [r EXCEPT !.turn = t]]]

ReceiveTurnCompleted ==
  /\ Receive /\ OfTask(Head(events)) /\ Head(events).kind = "turn_completed"
  /\ ~NotSupervised(row, Head(events).id)
  /\ Supervise(row, Head(events).id)
  /\ UNCHANGED <<store, watched, seen, codex, sent, budget>>

Handled(r) == [r EXCEPT !.lastTurn = proc[Loop].turn]

(* applyTurnDecision *)
TurnDecided ==
  /\ At(Loop, "turn_decide")
  /\ \E verdict \in {TurnVerdict(d) : d \in NormalDecisions} :
       CASE verdict = "reply"    -> Goto(Loop, "turn_input")
         [] verdict = "escalate" -> GotoWith(Loop, "save", AskUser(Handled(proc[Loop].row)))
         [] verdict = "record"   -> GotoWith(Loop, "save", Handled(proc[Loop].row))
  /\ UNCHANGED <<store, link, codex, sent, budget>>

TurnUndecided ==
  /\ At(Loop, "turn_decide") /\ Fails(Loop)
  /\ UNCHANGED <<store, link, codex, sent, crashes>>

TurnInput ==
  /\ At(Loop, "turn_input")
  /\ SendInput(Loop, "save", Handled(Resume(proc[Loop].row)))
  /\ turnSent' = IF proc'[Loop].pc = "save"
                 THEN [turnSent EXCEPT ![proc[Loop].turn] = Bump(@)] ELSE turnSent
  /\ UNCHANGED <<store, link, thread, asked, autoSent, crashes>>

-------------------------------------------------------------------------------
(* Mistake: the tick does not ask whether codex waits.                     *)
FaultyTickProgress ==
  /\ At(Loop, "idle") /\ row.status = "running"
  /\ IF row.thread \notin watched
     THEN Begin(Loop, "save", [row EXCEPT !.status = "recovering"])
     ELSE Begin(Loop, "save", row)
  /\ UNCHANGED <<store, link, codex, sent, budget>>

(* TickOnce.  The tick writes back the row it has listed; one that finds   *)
(* codex waiting for an event it has missed asks the user.                 *)

TickProgress ==
  /\ At(Loop, "idle") /\ row.status = "running"
  /\ CASE row.thread \notin watched ->
            Begin(Loop, "save", [row EXCEPT !.status = "recovering"])
       [] row.thread \in watched /\ row.pending = 0
            /\ \E t \in ActiveTurns(row.thread) : OpenRequests(t) # {} ->
            Begin(Loop, "progress_waiting", row)
       [] OTHER -> Begin(Loop, "save", row)
  /\ UNCHANGED <<store, link, codex, sent, budget>>

ProgressWaiting ==
  /\ At(Loop, "progress_waiting")
  /\ UpdateTask(proc[Loop].row)
  /\ IF RowExists THEN GotoWith(Loop, "save", AskUser(proc[Loop].row)) ELSE Return(Loop)
  /\ UNCHANGED <<request, link, codex, sent, budget>>

TickRecover ==
  /\ At(Loop, "idle") /\ row.status = "recovering"
  /\ Begin(Loop, "recover_attach", row)
  /\ UNCHANGED <<store, link, codex, sent, budget>>

(* Any error of thread/resume reads as a missing thread: the task fails.   *)
(* An error of bridgeWatcher does not, and the next tick tries again.      *)
RecoverAttach ==
  /\ At(Loop, "recover_attach")
  /\ \/ /\ CanAttach(proc[Loop].row.thread) /\ Attach(proc[Loop].row.thread)
        /\ GotoWith(Loop, "save", Resume(proc[Loop].row)) /\ UNCHANGED faults
     \/ /\ (~CanAttach(proc[Loop].row.thread) /\ UNCHANGED faults) \/ Fault
        /\ GotoWith(Loop, "save", [proc[Loop].row EXCEPT !.status = "failed"])
        /\ UNCHANGED watched
     \/ Fails(Loop) /\ UNCHANGED watched
  /\ UNCHANGED <<store, seen, events, codex, sent, crashes>>

-------------------------------------------------------------------------------
(* ResumeActiveTasks, which the loop runs before it receives anything, and *)
(* the crash that leads to it.                                             *)

ResumeRead ==
  /\ At(Loop, "resume")
  /\ IF RowExists /\ row.status \notin Terminal
     THEN GotoWith(Loop, IF row.thread # 0 /\ row.status \notin {"pending", "starting"}
                         THEN "resume_attach" ELSE "reconcile", row)
     ELSE Return(Loop)
  /\ UNCHANGED <<store, link, codex, sent, budget>>

ResumeAttach ==
  /\ At(Loop, "resume_attach")
  /\ LET r == proc[Loop].row IN
       \/ /\ CanAttach(r.thread) /\ Attach(r.thread) /\ UNCHANGED faults
          /\ GotoWith(Loop, "resume_save",
                      IF r.status = "recovering" THEN Resume(r) ELSE r)
       \/ ~CanAttach(r.thread) /\ Return(Loop) /\ UNCHANGED <<watched, faults>>
       \/ Fails(Loop) /\ UNCHANGED watched
  /\ UNCHANGED <<store, seen, events, codex, sent, crashes>>

ResumeSave == SaveThen(Loop, "resume_save", "reconcile")

OpenRows == {r \in Requests : request[r] \in Open}

(* reconcilePersistedRequest: a pending request is handled again, one that *)
(* was being answered is put to the user.                                  *)
ReconcileRequest(r, id, st) ==
  CASE st = "pending"  -> BeginFor(Loop, "request_read", r, id, st)
    [] st = "replying" -> GotoWith(Loop, "save", AskUser(r))
    [] OTHER           -> Return(Loop)

(* Mistake: any turn of the thread is taken for the last one.              *)
FaultyIsLastTurn(t, th) == turn[t].thread = th

(* The last turn of the thread, as thread/resume reported it.              *)
IsLastTurn(t, th) ==
  turn[t].thread = th /\ \A u \in Turns : turn[u].thread = th => u <= t

(* reconcileCompletedTurnAfterResume *)
ReconcileTurn(r) ==
  LET missed == {t \in Turns : /\ r.thread \in watched /\ r.status # "waiting_user_input"
                               /\ IsLastTurn(t, r.thread) /\ turn[t].state = "completed"
                               /\ ~NotSupervised(r, t)}
  IN  IF missed = {} THEN Return(Loop) ELSE \E t \in missed : Supervise(r, t)

Reconcile ==
  /\ At(Loop, "reconcile")
  /\ LET r == proc[Loop].row IN
       CASE r.status = "waiting_user_input" /\ r.question -> Return(Loop)
         [] /\ ~(r.status = "waiting_user_input" /\ r.question)
            /\ r.pending # 0 /\ request[r.pending] # "absent" ->
              ReconcileRequest(r, r.pending, request[r.pending])
         [] OTHER ->
              IF OpenRows = {} THEN ReconcileTurn(r)
              ELSE \E id \in First(OpenRows) :
                     BeginFor(Loop, "reconcile_save", [r EXCEPT !.pending = id], id, request[id])
  /\ UNCHANGED <<store, link, codex, sent, budget>>

ReconcileSave ==
  /\ At(Loop, "reconcile_save")
  /\ UpdateTask(proc[Loop].row)
  /\ IF RowExists
     THEN ReconcileRequest(proc[Loop].row, proc[Loop].req, proc[Loop].status)
     ELSE Return(Loop)
  /\ UNCHANGED <<request, link, codex, sent, budget>>

(* The process dies and starts again: the database and codex survive.      *)
Crash ==
  /\ crashes < MaxCrashes /\ crashes' = crashes + 1
  /\ proc' = [p \in Procs |-> IF p = Loop THEN [Idle EXCEPT !.pc = "resume"] ELSE Idle]
  /\ watched' = {} /\ seen' = {} /\ events' = <<>>
  /\ UNCHANGED <<store, codex, sent, faults>>

LoopHandlers ==
  \/ ResolvedMark
  \/ RequestUpsert \/ RequestSave \/ RequestRead
  \/ RequestApproved \/ RequestEscalated \/ RequestUndecided
  \/ AutoMark \/ AutoRespond \/ AutoRespondFails \/ AutoSave \/ AutoReplied
  \/ TurnDecided \/ TurnUndecided \/ TurnInput
  \/ ProgressWaiting \/ RecoverAttach
  \/ ResumeRead \/ ResumeAttach \/ ResumeSave \/ Reconcile \/ ReconcileSave

LoopReceives ==
  \/ IgnoreUnknownThread
  \/ ReceiveResolved
  \/ IgnoreClosedRequest \/ ReceiveRequest
  \/ IgnoreTurnCompleted \/ ReceiveTurnCompleted

LoopTicks == TickStart \/ TickProgress \/ TickRecover

CodexSteps ==
  \/ \E t \in Turns : RaiseRequest(t) \/ CompleteTurn(t)
  \/ \E r \in Requests : ClearRequest(r) \/ ReplayRequest(r)
  \/ \E th \in Threads : LoseThread(th)

Init ==
  /\ row = NoTask
  /\ request = [r \in Requests |-> "absent"]
  /\ proc = [p \in Procs |-> IF p = Loop THEN [Idle EXCEPT !.pc = "resume"] ELSE Idle]
  /\ watched = {} /\ seen = {} /\ events = <<>>
  /\ thread = [th \in Threads |-> "unused"]
  /\ turn = [t \in Turns |-> [state |-> "unused", thread |-> 0]]
  /\ asked = [r \in Requests |-> [state |-> "unused", turn |-> 0]]
  /\ autoSent = [r \in Requests |-> 0]
  /\ turnSent = [t \in Turns |-> 0]
  /\ faults = 0 /\ crashes = 0

Next ==
  \/ \E o \in Operators : Commanded(o) \/ Continue(o)
  \/ \E p \in Procs : StartSteps(p) \/ Save(p)
  \/ LoopHandlers
  \/ LoopReceives
  \/ LoopTicks
  \/ CodexSteps
  \/ Crash

Spec == Init /\ [][Next]_vars

(* The goroutines are scheduled, and the select of taskSubsystem.Run picks *)
(* among its ready channels at random: neither the ticker nor the events   *)
(* starve.  Nobody promises that operators issue commands, that codex      *)
(* finishes a turn, or that a remote call fails or succeeds.               *)
Fairness ==
  /\ WF_vars(LoopHandlers \/ StartSteps(Loop) \/ Save(Loop))
  /\ \A o \in Operators : WF_vars(Continue(o) \/ StartSteps(o) \/ Save(o))
  /\ SF_vars(LoopReceives)
  /\ SF_vars(LoopTicks)

FairSpec == Spec /\ Fairness

-------------------------------------------------------------------------------
(* Properties *)

TypeOK ==
  /\ row \in TaskRun
  /\ request \in [Requests -> RequestStatus]
  /\ proc \in [Procs -> ProcState]
  /\ watched \subseteq Threads
  /\ seen \subseteq Requests
  /\ events \in Seq(Event)
  /\ thread \in [Threads -> {"unused", "live", "gone"}]
  /\ turn \in [Turns -> Turn]
  /\ asked \in [Requests -> Ask]
  /\ autoSent \in [Requests -> 0 .. 2]
  /\ turnSent \in [Turns -> 0 .. 2]
  /\ faults \in 0 .. MaxFaults
  /\ crashes \in 0 .. MaxCrashes

(* A task that waits for the user holds the question it asked, whatever    *)
(* stale copies were written over its row: a card with no question cannot  *)
(* be answered.                                                            *)
WaitingHasQuestion == row.status = "waiting_user_input" => row.question

(* The turn a row names is a turn of the thread it names, whatever copies  *)
(* are written over each other and however many threads were started:      *)
(* input and interrupts never go to the turn of another thread.            *)
TurnIsOfThread ==
  IF row.thread = 0 THEN row.turn = 0
  ELSE row.turn # 0 /\ turn[row.turn].thread = row.thread

(* The request a row points to is on record, so that a restart between any *)
(* two steps finds it: the request is written before the pointer, and a    *)
(* deleted task loses its row before its requests.                         *)
PendingIsRecorded == row.pending # 0 => request[row.pending] # "absent"

(* The loop answers a request at most once, over crashes, restarts,        *)
(* repeated notifications and stale writes.                                *)
AutoReplyAtMostOnce == \A r \in Requests : autoSent[r] <= 1

(* Why, in a form each step keeps: a request the loop has answered is past *)
(* "pending" until the deletion of its task forgets it, and the handler    *)
(* that is about to answer, or to write "pending", holds one that is not   *)
(* answered.                                                               *)
PastPending(r) ==
  request[r] # "pending" /\ (request[r] = "absent" => row.status = "deleted")
Handling == {"request_upsert", "request_save", "request_read", "request_decide",
             "auto_mark", "auto_respond", "reconcile_save"}
AnswerInv ==
  /\ \A r \in Requests : autoSent[r] <= 1 /\ (autoSent[r] > 0 => PastPending(r))
  /\ \A o \in Operators : At(o, "delete_requests") => row.status = "deleted"
  /\ proc[Loop].pc \in Handling => proc[Loop].req \in Requests
  /\ At(Loop, "request_upsert")
       => /\ proc[Loop].status # "absent"
          /\ proc[Loop].status = "pending" => autoSent[proc[Loop].req] = 0
  /\ proc[Loop].pc \in {"request_decide", "auto_mark", "auto_respond"}
       => autoSent[proc[Loop].req] = 0
  /\ At(Loop, "auto_respond") => PastPending(proc[Loop].req)

(* The loop continues a completed turn at most once, though the turn can   *)
(* be reported by its event and again by the reconciliation of a restart.  *)
(* This holds while one operator starts the task and replies.  A Stop, or  *)
(* a second operator, can write back a copy of the row that is older than  *)
(* LastCompletedTurnID: see ContinuedAgainByItsEvent.                      *)
TurnContinuedAtMostOnce == \A t \in Turns : turnSent[t] <= 1

(* Whatever operators do, and whatever stale copies they write: a turn the *)
(* loop has continued is taken up again only for the event that reports    *)
(* it, which is then gone.  The reconciliation of a restart never takes it *)
(* up a second time, and nothing a third time.                             *)
Reported(t) ==
  \E i \in DOMAIN events : events[i].kind = "turn_completed" /\ events[i].id = t

TakenUp(t) == proc[Loop].turn = t /\ At(Loop, "turn_decide")

ContinuedAgainByItsEvent ==
  [][\A t \in Turns : ~TakenUp(t) /\ TakenUp(t)' =>
       turnSent[t] = 0 \/ (turnSent[t] = 1 /\ Reported(t) /\ ~Reported(t)')]_vars

(* A handler that still holds a copy of a deleted task's row does not      *)
(* bring the task back.                                                    *)
DeletedStaysDeleted == [][row.status = "deleted" => row'.status = "deleted"]_vars

(* A request codex waits for is answered, or the user is asked, or the     *)
(* task is over: the event, or the tick when the event was missed, gets to *)
(* it.                                                                     *)
Waits(r) ==
  /\ r \in UNION {OpenRequests(t) : t \in ActiveTurns(row.thread)}
  /\ row.status \notin {"waiting_user_input", "deleted"} \cup Terminal
RequestAttended == \A r \in Requests : Waits(r) ~> ~Waits(r)

(* A task that was created is started, also when the process dies while it *)
(* starts it: the next tick starts it again, as long as the bounds let it. *)
Startable ==
  row.status \in {"pending", "starting"} /\ UnusedThreads # {} /\ UnusedTurns # {}
TaskIsStarted == Startable ~> ~Startable

-------------------------------------------------------------------------------
(* What the documentation says and the code does not do. *)

(* The loop never takes a stopped or completed task back: only an operator *)
(* reopens one (README, state diagram).                                    *)
OnlyOperatorsReopen ==
  [][row.status \in Reopenable /\ row'.status # row.status => proc'[Loop] = proc[Loop]]_vars
===============================================================================
