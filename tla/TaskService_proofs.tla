-------------------------- MODULE TaskService_proofs --------------------------
(***************************************************************************)
(* Proofs about TaskService, for every set of operators, every set of      *)
(* commands and every bound.                                               *)
(***************************************************************************)
EXTENDS TaskService, TLAPS

-------------------------------------------------------------------------------
(* What the helpers of the model keep typed. *)

LEMMA LoopIsProc == Loop \in Procs
  BY DEF Procs

LEMMA OperatorIsProc == \A o \in Operators : o \in Procs /\ o # Loop
  BY LoopIsNoOperator DEF Procs

LEMMA NoTaskType == NoTask \in TaskRun
  BY DEF NoTask, TaskRun, TaskStatus

LEMMA IdleType == Idle \in ProcState
  BY NoTaskType DEF Idle, ProcState, Labels, RequestStatus

LEMMA BeginType ==
  ASSUME proc \in [Procs -> ProcState], NEW p \in Procs, NEW l \in Labels,
         NEW r \in TaskRun, Begin(p, l, r)
  PROVE  proc' \in [Procs -> ProcState]
  BY IdleType DEF Begin, ProcState

LEMMA BeginForType ==
  ASSUME proc \in [Procs -> ProcState], NEW p \in Procs, NEW l \in Labels,
         NEW r \in TaskRun, NEW id \in Requests \cup {0}, NEW st \in RequestStatus,
         BeginFor(p, l, r, id, st)
  PROVE  proc' \in [Procs -> ProcState]
  BY IdleType DEF BeginFor, ProcState

LEMMA GotoType ==
  ASSUME proc \in [Procs -> ProcState], NEW p \in Procs, NEW l \in Labels, Goto(p, l)
  PROVE  proc' \in [Procs -> ProcState]
  BY DEF Goto, ProcState

LEMMA GotoWithType ==
  ASSUME proc \in [Procs -> ProcState], NEW p \in Procs, NEW l \in Labels,
         NEW r \in TaskRun, GotoWith(p, l, r)
  PROVE  proc' \in [Procs -> ProcState]
  BY DEF GotoWith, ProcState

LEMMA ReturnType ==
  ASSUME proc \in [Procs -> ProcState], NEW p \in Procs, Return(p)
  PROVE  proc' \in [Procs -> ProcState]
  BY IdleType DEF Return

LEMMA ProcRowType ==
  ASSUME proc \in [Procs -> ProcState], NEW p \in Procs
  PROVE  /\ proc[p].row \in TaskRun
         /\ proc[p].req \in Requests \cup {0}
         /\ proc[p].turn \in Turns \cup {0}
         /\ proc[p].status \in RequestStatus
         /\ proc[p].pc \in Labels
  BY DEF ProcState

LEMMA RowEditType ==
  ASSUME NEW r \in TaskRun
  PROVE  /\ AskUser(r) \in TaskRun
         /\ Resume(r) \in TaskRun
         /\ ClearPending(r) \in TaskRun
         /\ \A st \in TaskStatus : [r EXCEPT !.status = st] \in TaskRun
         /\ \A id \in Requests \cup {0} : [r EXCEPT !.pending = id] \in TaskRun
         /\ \A t \in Turns \cup {0} : [r EXCEPT !.turn = t] \in TaskRun
         /\ \A t \in Turns \cup {0} : [r EXCEPT !.lastTurn = t] \in TaskRun
         /\ [r EXCEPT !.question = FALSE] \in TaskRun
         /\ \A th \in Threads, t \in Turns : [r EXCEPT !.thread = th, !.turn = t] \in TaskRun
  BY ZenonT(120) DEF AskUser, Resume, ClearPending, TaskRun, TaskStatus

LEMMA RowFieldType ==
  ASSUME NEW r \in TaskRun
  PROVE  r.pending \in Requests \cup {0} /\ r.turn \in Turns \cup {0}
  BY DEF TaskRun

LEMMA UpdateTaskType ==
  ASSUME row \in TaskRun, NEW r \in TaskRun, UpdateTask(r)
  PROVE  row' \in TaskRun
  BY DEF UpdateTask

LEMMA MarkRequestType ==
  ASSUME request \in [Requests -> RequestStatus], NEW id, NEW st \in RequestStatus,
         MarkRequest(id, st)
  PROVE  request' \in [Requests -> RequestStatus]
  BY DEF MarkRequest

LEMMA FaultType ==
  ASSUME faults \in 0 .. MaxFaults, Fault
  PROVE  faults' \in 0 .. MaxFaults
  BY BoundsAreNaturals DEF Fault

LEMMA AppendType ==
  ASSUME NEW S, NEW s \in Seq(S), NEW e \in S
  PROVE  Append(s, e) \in Seq(S)
  OBVIOUS

LEMMA NotifyType ==
  ASSUME events \in Seq(Event), seen \subseteq Requests, NEW e \in Event, Notify(e)
  PROVE  events' \in Seq(Event) /\ seen' \subseteq Requests
<1>1. Append(events, e) \in Seq(Event)
  BY AppendType
<1>2. e.kind = "request" => e.id \in Requests
  BY DEF Event
<1>3. CASE UNCHANGED <<events, seen>>
  BY <1>3
<1>4. CASE /\ events' = Append(events, e)
           /\ seen' = CASE e.kind = "request"  -> seen \cup {e.id}
                        [] e.kind = "resolved" -> seen \ {e.id}
                        [] OTHER               -> seen
  BY <1>1, <1>2, <1>4
<1> QED
  BY <1>3, <1>4 DEF Notify

LEMMA AnnounceType ==
  ASSUME events \in Seq(Event), seen \subseteq Requests, faults \in 0 .. MaxFaults,
         NEW e \in Event, Announce(e)
  PROVE  events' \in Seq(Event) /\ seen' \subseteq Requests /\ faults' \in 0 .. MaxFaults
  BY NotifyType, FaultType DEF Announce

LEMMA BumpType == \A n \in 0 .. 2 : Bump(n) \in 0 .. 2
  BY DEF Bump

LEMMA RespondType ==
  ASSUME TypeOK, NEW id \in Requests \cup {0}, Respond(id)
  PROVE  /\ asked' \in [Requests -> Ask]
         /\ events' \in Seq(Event) /\ seen' \subseteq Requests
<1> DEFINE e == [kind |-> "resolved", thread |-> turn[asked[id].turn].thread, id |-> id]
<1>1. asked' \in [Requests -> Ask]
  BY DEF TypeOK, Respond, Ask
<1>2. Notify(e) \/ UNCHANGED <<events, seen>>
  BY DEF Respond
<1>3. CASE e.thread \in watched /\ e.id \in seen /\ Notify(e)
  <2>1. e \in Event
    BY <1>3 DEF TypeOK, Event, Ask
  <2> HIDE DEF e
  <2> QED
    BY <1>1, <1>3, <2>1, NotifyType DEF TypeOK
<1>4. CASE ~(e.thread \in watched /\ e.id \in seen) /\ Notify(e)
  BY <1>1, <1>4 DEF TypeOK, Notify
<1> QED
  BY <1>1, <1>2, <1>3, <1>4 DEF TypeOK

LEMMA InterruptType ==
  ASSUME TypeOK, NEW t, Interrupt(t)
  PROVE  turn' \in [Turns -> Turn]
  BY ZenonT(120) DEF TypeOK, Interrupt, Turn

LEMMA AbortType == \A x \in Turn : [x EXCEPT !.state = "aborted"] \in Turn
  BY DEF Turn

LEMMA CloseThreadType ==
  ASSUME TypeOK, NEW th, CloseThread(th)
  PROVE  /\ thread' \in [Threads -> {"unused", "live", "gone"}]
         /\ turn' \in [Turns -> Turn]
<1>1. \A t \in Turns :
        [turn[t] EXCEPT !.state = "aborted"] \in Turn
  BY AbortType DEF TypeOK
<1>2. thread' \in [Threads -> {"unused", "live", "gone"}]
  BY DEF TypeOK, CloseThread
<1>3. \A t \in Turns :
        (IF turn[t].thread = th THEN [turn[t] EXCEPT !.state = "aborted"] ELSE turn[t])
          \in Turn
  BY <1>1 DEF TypeOK
<1> QED
  BY <1>2, <1>3 DEF CloseThread

LEMMA AttachType ==
  ASSUME TypeOK, NEW th, CanAttach(th), Attach(th)
  PROVE  watched' \subseteq Threads
  BY DEF TypeOK, CanAttach, Attach, Live

LEMMA SendInputType ==
  ASSUME TypeOK, NEW p \in Procs, NEW l \in Labels, NEW r \in TaskRun, SendInput(p, l, r)
  PROVE  /\ turn' \in [Turns -> Turn]
         /\ proc' \in [Procs -> ProcState]
         /\ faults' \in 0 .. MaxFaults
<1>1. CASE \E t \in ReachableTurns(proc[p].row) :
             /\ StartTurn(t, proc[p].row.thread)
             /\ GotoWith(p, l, [r EXCEPT !.turn = t])
             /\ UNCHANGED faults
  <2>1. PICK t \in Turns :
          /\ StartTurn(t, proc[p].row.thread)
          /\ GotoWith(p, l, [r EXCEPT !.turn = t])
          /\ UNCHANGED faults
    BY <1>1 DEF ReachableTurns, ActiveTurns, UnusedTurns, First
  <2>2. [r EXCEPT !.turn = t] \in TaskRun
    BY RowEditType
  <2>3. proc[p].row.thread \in Threads \cup {0}
    BY ProcRowType DEF TypeOK, TaskRun
  <2> QED
    BY <2>1, <2>2, <2>3, GotoWithType DEF TypeOK, StartTurn, Turn
<1>2. CASE Return(p) /\ UNCHANGED <<turn, faults>>
  BY <1>2, ReturnType DEF TypeOK
<1>3. CASE Fails(p) /\ UNCHANGED turn
  BY <1>3, ReturnType, FaultType DEF TypeOK, Fails
<1> QED
  BY <1>1, <1>2, <1>3 DEF SendInput

LEMMA AnnounceRequestType ==
  ASSUME TypeOK, NEW k \in {"request", "resolved"}, NEW th, NEW r \in Requests,
         Announce([kind |-> k, thread |-> th, id |-> r])
  PROVE  events' \in Seq(Event) /\ seen' \subseteq Requests /\ faults' \in 0 .. MaxFaults
<1>1. CASE th \in watched
  <2>1. [kind |-> k, thread |-> th, id |-> r] \in Event
    BY <1>1 DEF TypeOK, Event
  <2> QED
    BY <2>1, AnnounceType DEF TypeOK
<1>2. CASE th \notin watched
  BY <1>2, FaultType DEF TypeOK, Announce, Notify
<1> QED
  BY <1>1, <1>2

LEMMA AnnounceTurnType ==
  ASSUME TypeOK, NEW th, NEW t \in Turns,
         Announce([kind |-> "turn_completed", thread |-> th, id |-> t])
  PROVE  events' \in Seq(Event) /\ seen' \subseteq Requests /\ faults' \in 0 .. MaxFaults
<1>1. CASE th \in watched
  <2>1. [kind |-> "turn_completed", thread |-> th, id |-> t] \in Event
    BY <1>1 DEF TypeOK, Event
  <2> QED
    BY <2>1, AnnounceType DEF TypeOK
<1>2. CASE th \notin watched
  BY <1>2, FaultType DEF TypeOK, Announce, Notify
<1> QED
  BY <1>1, <1>2

LEMMA StartStepsType ==
  ASSUME TypeOK, NEW p \in Procs, StartSteps(p) \/ Save(p)
  PROVE  TypeOK'
<1>1. CASE StartSave(p)
  BY <1>1, ProcRowType, UpdateTaskType, GotoType, ReturnType
  DEF TypeOK, store, link, codex, sent, budget, StartSave, SaveThen, Labels
<1>2. CASE StartSession(p)
  <2>1. PICK th \in Threads, t \in Turns :
          /\ thread' = [thread EXCEPT ![th] = "live"]
          /\ StartTurn(t, th)
          /\ Attach(th)
          /\ GotoWith(p, "save", [Resume(proc[p].row) EXCEPT !.thread = th, !.turn = t])
    BY <1>2 DEF StartSession, First, UnusedThreads, UnusedTurns
  <2>2. [Resume(proc[p].row) EXCEPT !.thread = th, !.turn = t] \in TaskRun
    BY ProcRowType, RowEditType DEF TypeOK
  <2>3. proc' \in [Procs -> ProcState]
    BY <2>1, <2>2, GotoWithType DEF TypeOK, Labels
  <2> QED
    BY <1>2, <2>1, <2>3
    DEF TypeOK, StartSession, StartTurn, Turn, Attach, store, sent, budget
<1>3. CASE StartSessionHalfway(p)
  BY <1>3, ReturnType, FaultType
  DEF TypeOK, store, link, codex, sent, budget, StartSessionHalfway, Fails
<1>4. CASE StartSessionFails(p)
  BY <1>4, ReturnType, FaultType
  DEF TypeOK, store, link, codex, sent, budget, StartSessionFails, Fails
<1>5. CASE StartSessionTimeout(p)
  BY <1>5, ProcRowType, RowEditType, GotoWithType, FaultType
  DEF TypeOK, store, link, codex, sent, budget, StartSessionTimeout, Labels, TaskStatus
<1>6. CASE Save(p)
  BY <1>6, ProcRowType, UpdateTaskType, ReturnType
  DEF TypeOK, store, link, codex, sent, budget, Save
<1> QED
  BY <1>1, <1>2, <1>3, <1>4, <1>5, <1>6 DEF StartSteps

LEMMA CommandedType ==
  ASSUME TypeOK, NEW o \in Operators, Commanded(o)
  PROVE  TypeOK'
<1>1. CASE StartTask(o)
  BY <1>1, OperatorIsProc, NoTaskType, RowEditType, BeginType
  DEF TypeOK, store, link, codex, sent, budget, StartTask, TaskStatus, Labels
<1>2. CASE Reply(o)
  BY <1>2, OperatorIsProc, RowFieldType, RowEditType, BeginType, BeginForType
  DEF TypeOK, store, link, codex, sent, budget, Reply, RequestStatus, Labels
<1>3. CASE Stop(o)
  BY <1>3, OperatorIsProc, RowEditType, BeginType
  DEF TypeOK, store, link, codex, sent, budget, Stop, TaskStatus, Labels
<1>4. CASE Complete(o)
  <2>1. [row EXCEPT !.status = "completed", !.question = FALSE, !.pending = 0] \in TaskRun
    BY DEF TypeOK, TaskRun, TaskStatus
  <2>2. row.pending \in Requests \cup {0}
    BY RowFieldType DEF TypeOK
  <2>3. proc' \in [Procs -> ProcState]
    BY <1>4, <2>1, <2>2, OperatorIsProc, BeginForType DEF TypeOK, Complete, RequestStatus, Labels
  <2> QED
    BY <1>4, <2>3 DEF TypeOK, Complete, store, link, codex, sent, budget
<1>5. CASE Reopen(o)
  BY <1>5, OperatorIsProc, RowFieldType, BeginForType
  DEF TypeOK, store, link, codex, sent, budget, Reopen, RequestStatus, Labels
<1>6. CASE Delete(o)
  BY <1>6, OperatorIsProc, BeginType
  DEF TypeOK, store, link, codex, sent, budget, Delete, Labels
<1> QED
  BY <1>1, <1>2, <1>3, <1>4, <1>5, <1>6 DEF Commanded

LEMMA ContinueType ==
  ASSUME TypeOK, NEW o \in Operators, Continue(o)
  PROVE  TypeOK'
<1>1. CASE ReplyMark(o)
  BY <1>1, OperatorIsProc, MarkRequestType, GotoType
  DEF TypeOK, store, link, codex, sent, budget, ReplyMark, RequestStatus, Labels
<1>2. CASE ReplyRespond(o)
  <2>1. proc[o].req \in Requests \cup {0} /\ o \in Procs
    BY OperatorIsProc, ProcRowType DEF TypeOK
  <2>2. proc' \in [Procs -> ProcState]
    BY <1>2, <2>1, GotoType DEF TypeOK, ReplyRespond, Labels
  <2>3. /\ asked' \in [Requests -> Ask]
        /\ events' \in Seq(Event) /\ seen' \subseteq Requests
    BY <1>2, <2>1, RespondType DEF ReplyRespond
  <2> QED
    BY <1>2, <2>2, <2>3 DEF TypeOK, ReplyRespond, store, sent, budget
<1>3. CASE ReplyRespondFails(o)
  BY <1>3, OperatorIsProc, ReturnType, FaultType
  DEF TypeOK, store, link, codex, sent, budget, ReplyRespondFails, Fails
<1>4. CASE ReplyReplied(o)
  BY <1>4, OperatorIsProc, MarkRequestType, GotoType
  DEF TypeOK, store, link, codex, sent, budget, ReplyReplied, RequestStatus, Labels
<1>5. CASE ReplyInput(o)
  BY <1>5, OperatorIsProc, ProcRowType, SendInputType
  DEF TypeOK, store, link, codex, sent, budget, ReplyInput, Labels
<1>6. CASE StopInterrupt(o)
  BY <1>6, OperatorIsProc, InterruptType, GotoType, ReturnType, FaultType
  DEF TypeOK, store, link, codex, sent, budget, StopInterrupt, Fails, Labels
<1>7. CASE CompleteInterrupt(o)
  BY <1>7, OperatorIsProc, InterruptType, GotoType, FaultType
  DEF TypeOK, store, link, codex, sent, budget, CompleteInterrupt, Labels
<1>8. CASE CompleteResolve(o)
  BY <1>8, OperatorIsProc, MarkRequestType, GotoType
  DEF TypeOK, store, link, codex, sent, budget, CompleteResolve, RequestStatus, Labels
<1>9. CASE ReopenAttach(o)
  BY <1>9, OperatorIsProc, ProcRowType, AttachType, GotoType, ReturnType, FaultType
  DEF TypeOK, store, link, codex, sent, budget, ReopenAttach, Fails, Labels
<1>10. CASE ReopenTouch(o)
  BY <1>10, OperatorIsProc, ProcRowType, UpdateTaskType, GotoType, ReturnType
  DEF TypeOK, store, link, codex, sent, budget, ReopenTouch, SaveThen, Labels
<1>11. CASE ReopenInput(o)
  <2>1. [Resume(proc[o].row) EXCEPT !.question = FALSE, !.pending = 0] \in TaskRun
    BY OperatorIsProc, ProcRowType, RowEditType DEF TypeOK, TaskRun
  <2> QED
    BY <1>11, <2>1, OperatorIsProc, SendInputType
    DEF TypeOK, ReopenInput, Labels, store, link, sent
<1>12. CASE ReopenResolve(o)
  BY <1>12, OperatorIsProc, MarkRequestType, GotoType
  DEF TypeOK, store, link, codex, sent, budget, ReopenResolve, RequestStatus, Labels
<1>13. CASE DeleteCleanup(o)
  BY <1>13, OperatorIsProc, CloseThreadType, GotoType, ReturnType, FaultType
  DEF TypeOK, store, link, codex, sent, budget, DeleteCleanup, Fails, Live, Labels
<1>14. CASE DeleteRow(o)
  BY SMTT(60), <1>14, OperatorIsProc, NoTaskType, GotoType, ReturnType
  DEF TypeOK, store, link, codex, sent, budget, DeleteRow, TaskRun, Labels
<1>15. CASE DeleteRequests(o)
  BY <1>15, OperatorIsProc, ReturnType
  DEF TypeOK, store, link, codex, sent, budget, DeleteRequests, RequestStatus
<1> QED
  BY <1>1, <1>2, <1>3, <1>4, <1>5, <1>6, <1>7, <1>8, <1>9, <1>10, <1>11, <1>12, <1>13, <1>14, <1>15 DEF Continue

LEMMA ReconcileRequestType ==
  ASSUME TypeOK, NEW r \in TaskRun, NEW id \in Requests \cup {0}, NEW st,
         ReconcileRequest(r, id, st)
  PROVE  proc' \in [Procs -> ProcState]
<1>1. CASE st = "pending" /\ BeginFor(Loop, "request_read", r, id, st)
  BY <1>1, LoopIsProc, BeginForType DEF TypeOK, Labels, RequestStatus
<1>2. CASE GotoWith(Loop, "save", AskUser(r))
  BY <1>2, LoopIsProc, RowEditType, GotoWithType DEF TypeOK, Labels
<1>3. CASE Return(Loop)
  BY <1>3, LoopIsProc, ReturnType DEF TypeOK
<1> QED
  BY <1>1, <1>2, <1>3 DEF ReconcileRequest

LEMMA SuperviseType ==
  ASSUME TypeOK, NEW r \in TaskRun, NEW t \in Turns, Supervise(r, t)
  PROVE  proc' \in [Procs -> ProcState]
<1>1. [r EXCEPT !.turn = t] \in TaskRun
  BY RowEditType
<1>2. [Idle EXCEPT !.pc = "turn_decide", !.turn = t, !.row = [r EXCEPT !.turn = t]] \in ProcState
  BY <1>1, IdleType DEF ProcState, Labels
<1> QED
  BY <1>2 DEF TypeOK, Supervise

LEMMA ReconcileTurnType ==
  ASSUME TypeOK, NEW r \in TaskRun, ReconcileTurn(r)
  PROVE  proc' \in [Procs -> ProcState]
<1>1. CASE Return(Loop)
  BY <1>1, LoopIsProc, ReturnType DEF TypeOK
<1>2. CASE \E t \in Turns : Supervise(r, t)
  BY <1>2, SuperviseType
<1> QED
  BY <1>1, <1>2 DEF ReconcileTurn

LEMMA ReconcileType ==
  ASSUME TypeOK, Reconcile
  PROVE  proc' \in [Procs -> ProcState]
<1>1. PICK r \in TaskRun : r = proc[Loop].row
  BY LoopIsProc, ProcRowType DEF TypeOK
<1>2. r.pending \in Requests \cup {0}
  BY RowFieldType
<1>3. \/ Return(Loop)
      \/ ReconcileRequest(r, r.pending, request[r.pending])
      \/ ReconcileTurn(r)
      \/ \E id \in First(OpenRows) :
           BeginFor(Loop, "reconcile_save", [r EXCEPT !.pending = id], id, request[id])
  BY <1>1 DEF Reconcile
<1>4. CASE \E id \in First(OpenRows) :
             BeginFor(Loop, "reconcile_save", [r EXCEPT !.pending = id], id, request[id])
  <2>1. PICK id \in Requests :
          BeginFor(Loop, "reconcile_save", [r EXCEPT !.pending = id], id, request[id])
    BY <1>4 DEF First, OpenRows
  <2>2. [r EXCEPT !.pending = id] \in TaskRun /\ request[id] \in RequestStatus
    BY RowEditType DEF TypeOK
  <2> QED
    BY <2>1, <2>2, LoopIsProc, BeginForType DEF TypeOK, Labels
<1> QED
  BY <1>2, <1>3, <1>4, LoopIsProc, ReturnType, ReconcileRequestType, ReconcileTurnType
  DEF TypeOK

LEMMA LoopHandlersType ==
  ASSUME TypeOK, LoopHandlers
  PROVE  TypeOK'
<1>1. CASE ResolvedMark
  BY <1>1, LoopIsProc, ProcRowType, RowEditType, MarkRequestType, GotoWithType, ReturnType
  DEF TypeOK, store, link, codex, sent, budget, ResolvedMark, RequestStatus, Labels
<1>2. CASE RequestUpsert
  BY <1>2, LoopIsProc, ProcRowType, GotoType
  DEF TypeOK, store, link, codex, sent, budget, RequestUpsert, Labels
<1>3. CASE RequestSave
  BY <1>3, LoopIsProc, ProcRowType, UpdateTaskType, GotoType, ReturnType
  DEF TypeOK, store, link, codex, sent, budget, RequestSave, SaveThen, Labels
<1>4. CASE RequestRead
  BY <1>4, LoopIsProc, GotoWithType, ReturnType
  DEF TypeOK, store, link, codex, sent, budget, RequestRead, Labels
<1>5. CASE RequestApproved
  BY <1>5, LoopIsProc, GotoType
  DEF TypeOK, store, link, codex, sent, budget, RequestApproved, Labels
<1>6. CASE RequestEscalated
  BY <1>6, LoopIsProc, ProcRowType, RowEditType, GotoWithType
  DEF TypeOK, store, link, codex, sent, budget, RequestEscalated, Labels
<1>7. CASE RequestUndecided
  BY <1>7, LoopIsProc, ReturnType, FaultType
  DEF TypeOK, store, link, codex, sent, budget, RequestUndecided, Fails
<1>8. CASE AutoMark
  BY <1>8, LoopIsProc, MarkRequestType, GotoType, ReturnType
  DEF TypeOK, store, link, codex, sent, budget, AutoMark, RequestStatus, Labels
<1>9. CASE AutoRespond
  <2>1. proc[Loop].req \in Requests \cup {0} /\ Resume(proc[Loop].row) \in TaskRun
    BY LoopIsProc, ProcRowType, RowEditType DEF TypeOK
  <2>2. proc' \in [Procs -> ProcState]
    BY <1>9, <2>1, LoopIsProc, GotoWithType DEF TypeOK, AutoRespond, Labels
  <2>3. autoSent' \in [Requests -> 0 .. 2]
    BY <1>9, BumpType DEF TypeOK, AutoRespond
  <2>4. asked' \in [Requests -> Ask] /\ events' \in Seq(Event) /\ seen' \subseteq Requests
    BY <1>9, <2>1, RespondType DEF AutoRespond
  <2> QED
    BY <1>9, <2>2, <2>3, <2>4 DEF TypeOK, AutoRespond, store, budget
<1>10. CASE AutoRespondFails
  BY <1>10, LoopIsProc, ReturnType, FaultType
  DEF TypeOK, store, link, codex, sent, budget, AutoRespondFails, Fails
<1>11. CASE AutoSave
  BY <1>11, LoopIsProc, ProcRowType, UpdateTaskType, GotoType, ReturnType
  DEF TypeOK, store, link, codex, sent, budget, AutoSave, SaveThen, Labels
<1>12. CASE AutoReplied
  BY <1>12, LoopIsProc, MarkRequestType, ReturnType
  DEF TypeOK, store, link, codex, sent, budget, AutoReplied, RequestStatus
<1>13. CASE TurnDecided
  <2>1. Handled(proc[Loop].row) \in TaskRun /\ AskUser(Handled(proc[Loop].row)) \in TaskRun
    BY LoopIsProc, ProcRowType, RowEditType DEF TypeOK, Handled
  <2>2. \/ Goto(Loop, "turn_input")
        \/ GotoWith(Loop, "save", AskUser(Handled(proc[Loop].row)))
        \/ GotoWith(Loop, "save", Handled(proc[Loop].row))
    BY <1>13 DEF TurnDecided, TurnVerdict
  <2>3. proc' \in [Procs -> ProcState]
    BY <2>1, <2>2, LoopIsProc, GotoType, GotoWithType DEF TypeOK, Labels
  <2> QED
    BY <1>13, <2>3 DEF TypeOK, TurnDecided, store, link, codex, sent, budget
<1>14. CASE TurnUndecided
  BY <1>14, LoopIsProc, ReturnType, FaultType
  DEF TypeOK, store, link, codex, sent, budget, TurnUndecided, Fails
<1>15. CASE TurnInput
  <2>1. Handled(Resume(proc[Loop].row)) \in TaskRun
    BY LoopIsProc, ProcRowType, RowEditType DEF TypeOK, Handled
  <2>2. turn' \in [Turns -> Turn] /\ proc' \in [Procs -> ProcState] /\ faults' \in 0 .. MaxFaults
    BY <1>15, <2>1, LoopIsProc, SendInputType DEF TurnInput, Labels
  <2>3. turnSent' \in [Turns -> 0 .. 2]
    BY <1>15, BumpType DEF TypeOK, TurnInput
  <2> QED
    BY <1>15, <2>2, <2>3 DEF TypeOK, TurnInput, store, link
<1>16. CASE ProgressWaiting
  BY <1>16, LoopIsProc, ProcRowType, RowEditType, UpdateTaskType, GotoWithType, ReturnType
  DEF TypeOK, store, link, codex, sent, budget, ProgressWaiting, Labels
<1>17. CASE RecoverAttach
  BY <1>17, LoopIsProc, ProcRowType, RowEditType, AttachType, GotoWithType, ReturnType, FaultType
  DEF TypeOK, store, link, codex, sent, budget, RecoverAttach, Fails, TaskStatus, Labels
<1>18. CASE ResumeRead
  BY <1>18, LoopIsProc, GotoWithType, ReturnType
  DEF TypeOK, store, link, codex, sent, budget, ResumeRead, Labels
<1>19. CASE ResumeAttach
  BY <1>19, LoopIsProc, ProcRowType, RowEditType, AttachType, GotoWithType, ReturnType, FaultType
  DEF TypeOK, store, link, codex, sent, budget, ResumeAttach, Fails, Labels
<1>20. CASE ResumeSave
  BY <1>20, LoopIsProc, ProcRowType, UpdateTaskType, GotoType, ReturnType
  DEF TypeOK, store, link, codex, sent, budget, ResumeSave, SaveThen, Labels
<1>21. CASE Reconcile
  BY <1>21, ReconcileType DEF TypeOK, Reconcile, store, link, codex, sent, budget
<1>22. CASE ReconcileSave
  <2>1. /\ proc[Loop].row \in TaskRun
        /\ proc[Loop].req \in Requests \cup {0}
    BY LoopIsProc, ProcRowType DEF TypeOK
  <2>2. row' \in TaskRun
    BY <1>22, <2>1, UpdateTaskType DEF TypeOK, ReconcileSave
  <2>3. proc' \in [Procs -> ProcState]
    BY <1>22, <2>1, LoopIsProc, ReconcileRequestType, ReturnType DEF TypeOK, ReconcileSave
  <2> QED
    BY <1>22, <2>2, <2>3 DEF TypeOK, ReconcileSave, link, codex, sent, budget
<1> QED
  BY <1>1, <1>2, <1>3, <1>4, <1>5, <1>6, <1>7, <1>8, <1>9, <1>10, <1>11, <1>12, <1>13, <1>14, <1>15, <1>16, <1>17, <1>18, <1>19, <1>20, <1>21, <1>22 DEF LoopHandlers

LEMMA TailType ==
  ASSUME NEW S, NEW s \in Seq(S), s # <<>>
  PROVE  Tail(s) \in Seq(S) /\ Head(s) \in S
  OBVIOUS

LEMMA ReceiveType ==
  ASSUME TypeOK, Receive
  PROVE  /\ events' \in Seq(Event)
         /\ Head(events).kind \in {"request", "resolved"} => Head(events).id \in Requests
         /\ Head(events).kind = "turn_completed" => Head(events).id \in Turns
<1>1. events' \in Seq(Event) /\ Head(events) \in Event
  BY TailType DEF TypeOK, Receive
<1> QED
  BY <1>1 DEF Event

LEMMA LoopReceivesType ==
  ASSUME TypeOK, LoopReceives
  PROVE  TypeOK'
<1>1. CASE IgnoreUnknownThread
  BY <1>1, ReceiveType
  DEF TypeOK, store, link, codex, sent, budget, IgnoreUnknownThread
<1>2. CASE ReceiveResolved
  BY <1>2, ReceiveType, LoopIsProc, BeginForType
  DEF TypeOK, store, link, codex, sent, budget, ReceiveResolved, RequestStatus, Labels
<1>3. CASE IgnoreClosedRequest
  BY <1>3, ReceiveType
  DEF TypeOK, store, link, codex, sent, budget, IgnoreClosedRequest
<1>4. CASE ReceiveRequest
  <2>1. PICK id \in Requests, st \in RequestStatus :
          BeginFor(Loop, "request_upsert", [row EXCEPT !.pending = id], id, st)
    BY <1>4, ReceiveType DEF ReceiveRequest, RequestStatus
  <2>2. [row EXCEPT !.pending = id] \in TaskRun
    BY RowEditType DEF TypeOK
  <2>3. proc' \in [Procs -> ProcState]
    BY <2>1, <2>2, LoopIsProc, BeginForType DEF TypeOK, Labels
  <2> QED
    BY <1>4, <2>3, ReceiveType DEF TypeOK, ReceiveRequest, store, codex, sent, budget
<1>5. CASE IgnoreTurnCompleted
  BY <1>5, ReceiveType
  DEF TypeOK, store, link, codex, sent, budget, IgnoreTurnCompleted
<1>6. CASE ReceiveTurnCompleted
  BY <1>6, ReceiveType, SuperviseType
  DEF TypeOK, store, link, codex, sent, budget, ReceiveTurnCompleted
<1> QED
  BY <1>1, <1>2, <1>3, <1>4, <1>5, <1>6 DEF LoopReceives

LEMMA LoopTicksType ==
  ASSUME TypeOK, LoopTicks
  PROVE  TypeOK'
<1>1. CASE TickStart
  BY <1>1, LoopIsProc, RowEditType, BeginType
  DEF TypeOK, store, link, codex, sent, budget, TickStart, TaskStatus, Labels
<1>2. CASE TickProgress
  BY <1>2, LoopIsProc, RowEditType, BeginType
  DEF TypeOK, store, link, codex, sent, budget, TickProgress, TaskStatus, Labels
<1>3. CASE TickRecover
  BY <1>3, LoopIsProc, BeginType
  DEF TypeOK, store, link, codex, sent, budget, TickRecover, Labels
<1> QED
  BY <1>1, <1>2, <1>3 DEF LoopTicks

LEMMA CodexStepsType ==
  ASSUME TypeOK, CodexSteps
  PROVE  TypeOK'
<1>1. CASE \E t \in Turns : RaiseRequest(t)
  <2>1. PICK t \in Turns : RaiseRequest(t)
    BY <1>1
  <2>2. PICK r \in Requests :
          /\ asked' = [asked EXCEPT ![r] = [state |-> "open", turn |-> t]]
          /\ Announce([kind |-> "request", thread |-> turn[t].thread, id |-> r])
    BY <2>1 DEF RaiseRequest, First, UnusedRequests
  <2>3. asked' \in [Requests -> Ask]
    BY <2>2 DEF TypeOK, Ask
  <2>4. /\ events' \in Seq(Event) /\ seen' \subseteq Requests
        /\ faults' \in 0 .. MaxFaults
    BY <2>2, AnnounceRequestType
  <2> QED
    BY <2>1, <2>3, <2>4 DEF TypeOK, RaiseRequest, store, sent
<1>2. CASE \E t \in Turns : CompleteTurn(t)
  <2>1. PICK t \in Turns : CompleteTurn(t)
    BY <1>2
  <2>2. turn' \in [Turns -> Turn]
    BY <2>1 DEF TypeOK, CompleteTurn, Turn
  <2>3. /\ events' \in Seq(Event) /\ seen' \subseteq Requests
        /\ faults' \in 0 .. MaxFaults
    BY <2>1, AnnounceTurnType DEF CompleteTurn
  <2> QED
    BY <2>1, <2>2, <2>3 DEF TypeOK, CompleteTurn, store, sent
<1>3. CASE \E r \in Requests : ClearRequest(r)
  <2>1. PICK r \in Requests : ClearRequest(r)
    BY <1>3
  <2>2. asked' \in [Requests -> Ask]
    BY SMTT(60), <2>1 DEF TypeOK, ClearRequest, Ask
  <2>3. /\ events' \in Seq(Event) /\ seen' \subseteq Requests
        /\ faults' \in 0 .. MaxFaults
    BY <2>1, AnnounceRequestType DEF ClearRequest
  <2> QED
    BY <2>1, <2>2, <2>3 DEF TypeOK, ClearRequest, store, sent
<1>4. CASE \E r \in Requests : ReplayRequest(r)
  <2>1. PICK r \in Requests : ReplayRequest(r)
    BY <1>4
  <2>2. [kind |-> "request", thread |-> turn[asked[r].turn].thread, id |-> r] \in Event
    BY <2>1 DEF TypeOK, ReplayRequest, Event
  <2>3. events' \in Seq(Event) /\ seen' \subseteq Requests
    BY <2>1, <2>2, NotifyType DEF TypeOK, ReplayRequest
  <2> QED
    BY <2>1, <2>3 DEF TypeOK, ReplayRequest, store, codex, sent, budget
<1>5. CASE \E th \in Threads : LoseThread(th)
  BY <1>5, CloseThreadType, FaultType DEF TypeOK, LoseThread, store, link, sent
<1> QED
  BY <1>1, <1>2, <1>3, <1>4, <1>5 DEF CodexSteps

-------------------------------------------------------------------------------
(* Every state is typed: each goroutine's copy of the row is a task row,   *)
(* and every event, request and turn it handles is one there is.           *)
THEOREM TypeCorrect == Spec => []TypeOK
<1>1. Init => TypeOK
  <2> SUFFICES ASSUME Init PROVE TypeOK
    OBVIOUS
  <2>1. proc \in [Procs -> ProcState]
    BY IdleType DEF Init, ProcState, Labels
  <2>2. row \in TaskRun /\ events \in Seq(Event)
    BY NoTaskType DEF Init
  <2> QED
    BY <2>1, <2>2, BoundsAreNaturals DEF Init, TypeOK, RequestStatus, Turn, Ask
<1>2. TypeOK /\ [Next]_vars => TypeOK'
  <2> SUFFICES ASSUME TypeOK, [Next]_vars PROVE TypeOK'
    OBVIOUS
  <2>1. CASE \E o \in Operators : Commanded(o) \/ Continue(o)
    BY <2>1, CommandedType, ContinueType
  <2>2. CASE \E p \in Procs : StartSteps(p) \/ Save(p)
    BY <2>2, StartStepsType
  <2>3. CASE LoopHandlers
    BY <2>3, LoopHandlersType
  <2>4. CASE LoopReceives
    BY <2>4, LoopReceivesType
  <2>5. CASE LoopTicks
    BY <2>5, LoopTicksType
  <2>6. CASE CodexSteps
    BY <2>6, CodexStepsType
  <2>7. CASE Crash
    <3>1. proc' \in [Procs -> ProcState]
      BY <2>7, IdleType DEF Crash, ProcState, Labels
    <3>2. crashes' \in 0 .. MaxCrashes
      BY <2>7, BoundsAreNaturals DEF TypeOK, Crash
    <3>3. events' \in Seq(Event)
      BY <2>7 DEF Crash
    <3> QED
      BY <2>7, <3>1, <3>2, <3>3 DEF TypeOK, Crash, store, codex, sent
  <2>8. CASE UNCHANGED vars
    BY <2>8 DEF TypeOK, vars
  <2> QED
    BY <2>1, <2>2, <2>3, <2>4, <2>5, <2>6, <2>7, <2>8 DEF Next
<1> QED
  BY <1>1, <1>2, PTL DEF Spec

-------------------------------------------------------------------------------
(* The loop answers a request at most once: the proof that AnswerInv is    *)
(* inductive.  Most steps move one goroutine to a label where it handles   *)
(* no request, and take no request back to "pending": StepFrame covers     *)
(* them.  The steps that handle a request are taken one by one.            *)

(* One goroutine moves to label l.                                         *)
Moves(p, l) == proc'[p].pc = l /\ \A q \in Procs \ {p} : proc'[q] = proc[q]

(* No request goes back to "pending" or is forgotten, no deleted task      *)
(* comes back, and the loop answers nothing.                               *)
Keeps ==
  /\ autoSent' = autoSent
  /\ row.status = "deleted" => row'.status = "deleted"
  /\ \A r \in Requests : /\ request'[r] = "pending" => request[r] = "pending"
                         /\ request'[r] = "absent" => request[r] = "absent"

LEMMA StepFrame ==
  ASSUME TypeOK, AnswerInv, Keeps, NEW p \in Procs, NEW l \in Labels \ Handling, Moves(p, l),
         l = "delete_requests" => row'.status = "deleted"
  PROVE  AnswerInv'
<1>1. \A r \in Requests : PastPending(r) => PastPending(r)'
  BY DEF Keeps, PastPending
<1>2. \A o \in Operators : proc'[o].pc = "delete_requests" => row'.status = "deleted"
  BY OperatorIsProc DEF Moves, Keeps, AnswerInv, At
<1>3. CASE p = Loop
  BY <1>1, <1>2, <1>3 DEF Moves, Keeps, AnswerInv, At, Handling
<1>4. CASE p # Loop
  <2>1. proc'[Loop] = proc[Loop]
    BY <1>4, LoopIsProc DEF Moves
  <2> QED
    BY <1>1, <1>2, <2>1 DEF Keeps, AnswerInv, At, Handling
<1> QED
  BY <1>3, <1>4

LEMMA QuietFrame ==
  ASSUME AnswerInv, UNCHANGED <<row, request, proc, autoSent>>
  PROVE  AnswerInv'
  BY DEF AnswerInv, PastPending, At

-------------------------------------------------------------------------------
(* What the helpers of the model move and keep. *)

LEMMA MovesLemma ==
  ASSUME TypeOK, NEW p \in Procs, NEW l \in Labels
  PROVE  /\ \A r : Begin(p, l, r) => Moves(p, l)
         /\ \A r, id, st : BeginFor(p, l, r, id, st) => Moves(p, l)
         /\ Goto(p, l) => Moves(p, l)
         /\ \A r : GotoWith(p, l, r) => Moves(p, l)
         /\ Return(p) => Moves(p, "idle")
<1>1. Return(p) => Moves(p, "idle")
  BY DEF TypeOK, Return, Moves, Idle
<1>2. \A r : Begin(p, l, r) => Moves(p, l)
  BY DEF TypeOK, Begin, Moves, Idle
<1>3. \A r, id, st : BeginFor(p, l, r, id, st) => Moves(p, l)
  BY DEF TypeOK, BeginFor, Moves, Idle
<1>4. Goto(p, l) => Moves(p, l)
  BY DEF TypeOK, Goto, Moves, ProcState
<1>5. \A r : GotoWith(p, l, r) => Moves(p, l)
  BY DEF TypeOK, GotoWith, Moves, ProcState
<1> QED
  BY <1>1, <1>2, <1>3, <1>4, <1>5

LEMMA SendInputMoves ==
  ASSUME TypeOK, NEW p \in Procs, NEW l \in Labels, NEW r, SendInput(p, l, r)
  PROVE  Moves(p, l) \/ Moves(p, "idle")
  BY MovesLemma DEF SendInput, Fails

LEMMA SaveKeeps ==
  ASSUME NEW r, UpdateTask(r), UNCHANGED <<request, autoSent>>
  PROVE  Keeps
  BY DEF UpdateTask, RowExists, Keeps

LEMMA MarkKeeps ==
  ASSUME TypeOK, NEW id, NEW st \in {"replying", "replied", "resolved"},
         MarkRequest(id, st), UNCHANGED <<row, autoSent>>
  PROVE  Keeps
  BY DEF TypeOK, MarkRequest, Keeps

LEMMA NothingKeeps ==
  ASSUME UNCHANGED <<row, request, autoSent>>
  PROVE  Keeps
  BY DEF Keeps

LEMMA StartStepsAnswer ==
  ASSUME TypeOK, AnswerInv, NEW p \in Procs, StartSteps(p) \/ Save(p)
  PROVE  AnswerInv'
<1>1. CASE StartSave(p)
  BY <1>1, MovesLemma, StepFrame, SaveKeeps
  DEF StartSave, SaveThen, Labels, Handling, store, sent
<1>2. CASE StartSession(p)
  BY <1>2, MovesLemma, StepFrame, NothingKeeps
  DEF StartSession, Labels, Handling, store, sent
<1>3. CASE StartSessionHalfway(p)
  BY <1>3, MovesLemma, StepFrame, NothingKeeps
  DEF StartSessionHalfway, Fails, Labels, Handling, store, sent
<1>4. CASE StartSessionFails(p)
  BY <1>4, MovesLemma, StepFrame, NothingKeeps
  DEF StartSessionFails, Fails, Labels, Handling, store, sent
<1>5. CASE StartSessionTimeout(p)
  BY <1>5, MovesLemma, StepFrame, NothingKeeps
  DEF StartSessionTimeout, Labels, Handling, store, sent
<1>6. CASE Save(p)
  BY <1>6, MovesLemma, StepFrame, SaveKeeps
  DEF Save, Labels, Handling, store, sent
<1> QED
  BY <1>1, <1>2, <1>3, <1>4, <1>5, <1>6
  DEF StartSteps

LEMMA CommandedAnswer ==
  ASSUME TypeOK, AnswerInv, NEW o \in Operators, Commanded(o)
  PROVE  AnswerInv'
<1>1. CASE StartTask(o)
  <2>1. Keeps
    BY <1>1 DEF StartTask, Keeps, sent
  <2> QED
    BY <1>1, <2>1, OperatorIsProc, MovesLemma, StepFrame DEF StartTask, Labels, Handling
<1>2. CASE Reply(o)
  BY <1>2, OperatorIsProc, MovesLemma, StepFrame, NothingKeeps
  DEF Reply, Labels, Handling, store, sent
<1>3. CASE Stop(o)
  BY <1>3, OperatorIsProc, MovesLemma, StepFrame, NothingKeeps
  DEF Stop, Labels, Handling, store, sent
<1>4. CASE Complete(o)
  BY <1>4, OperatorIsProc, MovesLemma, StepFrame, NothingKeeps
  DEF Complete, Labels, Handling, store, sent
<1>5. CASE Reopen(o)
  BY <1>5, OperatorIsProc, MovesLemma, StepFrame, NothingKeeps
  DEF Reopen, Labels, Handling, store, sent
<1>6. CASE Delete(o)
  BY <1>6, OperatorIsProc, MovesLemma, StepFrame, NothingKeeps
  DEF Delete, Labels, Handling, store, sent
<1> QED
  BY <1>1, <1>2, <1>3, <1>4, <1>5, <1>6
  DEF Commanded

LEMMA ContinueAnswer ==
  ASSUME TypeOK, AnswerInv, NEW o \in Operators, Continue(o)
  PROVE  AnswerInv'
<1>1. CASE ReplyMark(o)
  BY <1>1, OperatorIsProc, MovesLemma, StepFrame, MarkKeeps
  DEF ReplyMark, Labels, Handling, store, sent
<1>2. CASE ReplyRespond(o)
  BY <1>2, OperatorIsProc, MovesLemma, StepFrame, NothingKeeps
  DEF ReplyRespond, Labels, Handling, store, sent
<1>3. CASE ReplyRespondFails(o)
  BY <1>3, OperatorIsProc, MovesLemma, StepFrame, NothingKeeps
  DEF ReplyRespondFails, Fails, Labels, Handling, store, sent
<1>4. CASE ReplyReplied(o)
  BY <1>4, OperatorIsProc, MovesLemma, StepFrame, MarkKeeps
  DEF ReplyReplied, Labels, Handling, store, sent
<1>5. CASE ReplyInput(o)
  BY <1>5, OperatorIsProc, SendInputMoves, StepFrame, NothingKeeps
  DEF ReplyInput, Labels, Handling, store, sent
<1>6. CASE StopInterrupt(o)
  BY <1>6, OperatorIsProc, MovesLemma, StepFrame, NothingKeeps
  DEF StopInterrupt, Fails, Labels, Handling, store, sent
<1>7. CASE CompleteInterrupt(o)
  BY <1>7, OperatorIsProc, MovesLemma, StepFrame, NothingKeeps
  DEF CompleteInterrupt, Labels, Handling, store, sent
<1>8. CASE CompleteResolve(o)
  BY <1>8, OperatorIsProc, MovesLemma, StepFrame, MarkKeeps
  DEF CompleteResolve, Labels, Handling, store, sent
<1>9. CASE ReopenAttach(o)
  BY <1>9, OperatorIsProc, MovesLemma, StepFrame, NothingKeeps
  DEF ReopenAttach, Fails, Labels, Handling, store, sent
<1>10. CASE ReopenTouch(o)
  BY <1>10, OperatorIsProc, MovesLemma, StepFrame, SaveKeeps
  DEF ReopenTouch, SaveThen, Labels, Handling, store, sent
<1>11. CASE ReopenInput(o)
  <2>1. Keeps
    BY <1>11, NothingKeeps DEF ReopenInput, store, sent
  <2>2. \E l \in {"save", "reopen_resolve", "idle"} : Moves(o, l)
    BY <1>11, OperatorIsProc, SendInputMoves DEF ReopenInput, Labels
  <2> QED
    BY <2>1, <2>2, OperatorIsProc, StepFrame DEF Labels, Handling
<1>12. CASE ReopenResolve(o)
  BY <1>12, OperatorIsProc, MovesLemma, StepFrame, MarkKeeps
  DEF ReopenResolve, Labels, Handling, store, sent
<1>13. CASE DeleteCleanup(o)
  BY <1>13, OperatorIsProc, MovesLemma, StepFrame, NothingKeeps
  DEF DeleteCleanup, Fails, Labels, Handling, store, sent
<1>14. CASE DeleteRow(o)
  <2>1. Keeps
    BY <1>14 DEF DeleteRow, RowExists, Keeps, NoTask, sent
  <2>2. CASE RowExists
    BY <1>14, <2>1, <2>2, OperatorIsProc, MovesLemma, StepFrame
    DEF DeleteRow, NoTask, Labels, Handling
  <2>3. CASE ~RowExists
    BY <1>14, <2>1, <2>3, OperatorIsProc, MovesLemma, StepFrame DEF DeleteRow, Labels, Handling
  <2> QED
    BY <2>2, <2>3
<1>15. CASE DeleteRequests(o)
  <2>1. row.status = "deleted" /\ row' = row /\ autoSent' = autoSent
    BY <1>15 DEF DeleteRequests, AnswerInv, sent
  <2>2. \A r \in Requests : request'[r] = "absent"
    BY <1>15 DEF DeleteRequests
  <2>3. Moves(o, "idle") /\ proc'[Loop] = proc[Loop]
    BY <1>15, OperatorIsProc, LoopIsProc, MovesLemma DEF DeleteRequests, Moves, Labels
  <2>4. \A q \in Operators : proc'[q].pc = "delete_requests" => row'.status = "deleted"
    BY <2>1
  <2> QED
    BY <2>1, <2>2, <2>3, <2>4 DEF AnswerInv, PastPending, At, Handling
<1> QED
  BY <1>1, <1>2, <1>3, <1>4, <1>5, <1>6, <1>7, <1>8, <1>9, <1>10, <1>11, <1>12,
     <1>13, <1>14, <1>15
  DEF Continue

-------------------------------------------------------------------------------
(* The loop goes on with the request it handles.                           *)
LEMMA HandlerFrame ==
  ASSUME TypeOK, AnswerInv, Keeps, proc[Loop].req \in Requests,
         NEW l \in {"request_read", "request_decide", "auto_mark", "auto_respond"},
         Goto(Loop, l) \/ \E r : GotoWith(Loop, l, r),
         l # "request_read" => autoSent[proc[Loop].req] = 0,
         l = "auto_respond" => request'[proc[Loop].req] \notin {"pending", "absent"}
  PROVE  AnswerInv'
<1>1. proc'[Loop].pc = l /\ proc'[Loop].req = proc[Loop].req
  BY LoopIsProc DEF TypeOK, ProcState, Goto, GotoWith
<1>2. \A o \in Operators : proc'[o] = proc[o]
  BY OperatorIsProc, LoopIsProc DEF TypeOK, Goto, GotoWith
<1>3. \A r \in Requests : PastPending(r) => PastPending(r)'
  BY DEF Keeps, PastPending
<1> QED
  BY <1>1, <1>2, <1>3 DEF Keeps, AnswerInv, At, PastPending

(* The loop takes up a request that is on record.                          *)
LEMMA BeginForFrame ==
  ASSUME TypeOK, AnswerInv, Keeps, NEW id \in Requests, NEW r, NEW st,
         NEW l \in {"request_read", "request_upsert", "reconcile_save"},
         BeginFor(Loop, l, r, id, st),
         l = "request_upsert" => st # "absent" /\ (st = "pending" => autoSent[id] = 0)
  PROVE  AnswerInv'
<1>1. proc'[Loop].pc = l /\ proc'[Loop].req = id /\ proc'[Loop].status = st
  BY LoopIsProc DEF TypeOK, BeginFor, Idle
<1>2. \A o \in Operators : proc'[o] = proc[o]
  BY OperatorIsProc, LoopIsProc DEF TypeOK, BeginFor
<1>3. \A q \in Requests : PastPending(q) => PastPending(q)'
  BY DEF Keeps, PastPending
<1> QED
  BY <1>1, <1>2, <1>3 DEF Keeps, AnswerInv, At, Handling

LEMMA ReconcileRequestAnswer ==
  ASSUME TypeOK, AnswerInv, Keeps, NEW r, NEW id \in Requests, NEW st,
         ReconcileRequest(r, id, st)
  PROVE  AnswerInv'
<1>1. CASE BeginFor(Loop, "request_read", r, id, st)
  BY <1>1, BeginForFrame
<1>2. CASE GotoWith(Loop, "save", AskUser(r)) \/ Return(Loop)
  BY <1>2, LoopIsProc, MovesLemma, StepFrame DEF Labels, Handling
<1> QED
  BY <1>1, <1>2 DEF ReconcileRequest

LEMMA SuperviseMoves ==
  ASSUME TypeOK, NEW r, NEW t, Supervise(r, t)
  PROVE  Moves(Loop, "turn_decide")
  BY LoopIsProc DEF TypeOK, Supervise, Moves, Idle

LEMMA LoopHandlersAnswer ==
  ASSUME TypeOK, AnswerInv, LoopHandlers
  PROVE  AnswerInv'
<1>1. CASE ResolvedMark
  BY <1>1, LoopIsProc, MovesLemma, StepFrame, MarkKeeps
  DEF ResolvedMark, Labels, Handling, store, sent
<1>2. CASE RequestUpsert
  <2>1. PICK id \in Requests : id = proc[Loop].req
    BY <1>2 DEF RequestUpsert, AnswerInv, At, Handling
  <2>2. /\ autoSent' = autoSent /\ row' = row
        /\ request' = [request EXCEPT ![id] = proc[Loop].status]
    BY <1>2, <2>1 DEF RequestUpsert, sent
  <2>3. autoSent[id] > 0 => proc[Loop].status \notin {"pending", "absent"}
    BY <1>2, <2>1 DEF RequestUpsert, AnswerInv
  <2>4. \A r \in Requests : autoSent'[r] > 0 => PastPending(r)'
    BY <2>2, <2>3 DEF TypeOK, AnswerInv, PastPending
  <2>5. proc'[Loop].pc = "request_save" /\ proc'[Loop].req = id
    BY <1>2, <2>1, LoopIsProc DEF TypeOK, ProcState, RequestUpsert, Goto
  <2>6. \A o \in Operators : proc'[o] = proc[o]
    BY <1>2, OperatorIsProc, LoopIsProc DEF TypeOK, RequestUpsert, Goto
  <2> QED
    BY <2>2, <2>4, <2>5, <2>6 DEF AnswerInv, At, Handling
<1>3. CASE RequestSave
  <2>1. Keeps
    BY <1>3, SaveKeeps DEF RequestSave, SaveThen, sent
  <2>2. CASE Return(Loop)
    BY <2>1, <2>2, LoopIsProc, MovesLemma, StepFrame DEF Labels, Handling
  <2>3. CASE Goto(Loop, "request_read")
    <3>1. proc[Loop].req \in Requests
      BY <1>3 DEF RequestSave, SaveThen, AnswerInv, At, Handling
    <3> QED
      BY <2>1, <2>3, <3>1, HandlerFrame
  <2> QED
    BY <1>3, <2>2, <2>3 DEF RequestSave, SaveThen
<1>4. CASE RequestRead
  <2>1. Keeps
    BY <1>4, NothingKeeps DEF RequestRead, store, sent
  <2>2. CASE Return(Loop)
    BY <2>1, <2>2, LoopIsProc, MovesLemma, StepFrame DEF Labels, Handling
  <2>3. CASE GotoWith(Loop, "request_decide", row) /\ request[proc[Loop].req] = "pending"
    <3>1. proc[Loop].req \in Requests
      BY <1>4 DEF RequestRead, AnswerInv, At, Handling
    <3>2. autoSent[proc[Loop].req] = 0
      BY <2>3, <3>1 DEF TypeOK, AnswerInv, PastPending
    <3> QED
      BY <2>1, <2>3, <3>1, <3>2, HandlerFrame
  <2> QED
    BY <1>4, <2>2, <2>3 DEF RequestRead
<1>5. CASE RequestApproved
  <2>1. Keeps
    BY <1>5, NothingKeeps DEF RequestApproved, store, sent
  <2>2. proc[Loop].req \in Requests /\ autoSent[proc[Loop].req] = 0
    BY <1>5 DEF RequestApproved, AnswerInv, At, Handling
  <2> QED
    BY <1>5, <2>1, <2>2, HandlerFrame DEF RequestApproved
<1>6. CASE RequestEscalated
  BY <1>6, LoopIsProc, MovesLemma, StepFrame, NothingKeeps
  DEF RequestEscalated, Labels, Handling, store, sent
<1>7. CASE RequestUndecided
  BY <1>7, LoopIsProc, MovesLemma, StepFrame, NothingKeeps
  DEF RequestUndecided, Fails, Labels, Handling, store, sent
<1>8. CASE AutoMark
  <2>1. Keeps
    BY <1>8, MarkKeeps DEF AutoMark, link, sent
  <2>2. CASE Return(Loop)
    BY <2>1, <2>2, LoopIsProc, MovesLemma, StepFrame DEF Labels, Handling
  <2>3. CASE request[proc[Loop].req] # "absent" /\ Goto(Loop, "auto_respond")
    <3>1. PICK id \in Requests : id = proc[Loop].req /\ autoSent[id] = 0
      BY <1>8 DEF AutoMark, AnswerInv, At, Handling
    <3>2. request'[id] = "replying"
      BY <1>8, <2>3, <3>1 DEF TypeOK, AutoMark, MarkRequest
    <3> QED
      BY <2>1, <2>3, <3>1, <3>2, HandlerFrame
  <2> QED
    BY <1>8, <2>2, <2>3 DEF AutoMark
<1>9. CASE AutoRespond
  <2>1. PICK id \in Requests :
          /\ id = proc[Loop].req /\ autoSent[id] = 0 /\ PastPending(id)
          /\ autoSent' = [autoSent EXCEPT ![id] = Bump(autoSent[id])]
    BY <1>9 DEF AutoRespond, AnswerInv, At, Handling
  <2>2. autoSent'[id] = 1 /\ \A r \in Requests \ {id} : autoSent'[r] = autoSent[r]
    BY <2>1 DEF TypeOK, Bump
  <2>3. UNCHANGED <<row, request>>
    BY <1>9 DEF AutoRespond, store
  <2>4. Moves(Loop, "auto_save")
    BY <1>9, LoopIsProc, MovesLemma DEF AutoRespond, Labels
  <2>5. \A o \in Operators : proc'[o] = proc[o]
    BY <2>4, OperatorIsProc DEF Moves
  <2> QED
    BY <2>1, <2>2, <2>3, <2>4, <2>5 DEF AnswerInv, PastPending, Moves, At, Handling
<1>10. CASE AutoRespondFails
  BY <1>10, LoopIsProc, MovesLemma, StepFrame, NothingKeeps
  DEF AutoRespondFails, Fails, Labels, Handling, store, sent
<1>11. CASE AutoSave
  BY <1>11, LoopIsProc, MovesLemma, StepFrame, SaveKeeps
  DEF AutoSave, SaveThen, Labels, Handling, store, sent
<1>12. CASE AutoReplied
  BY <1>12, LoopIsProc, MovesLemma, StepFrame, MarkKeeps
  DEF AutoReplied, Labels, Handling, store, sent
<1>13. CASE TurnDecided
  <2>1. Keeps
    BY <1>13, NothingKeeps DEF TurnDecided, store, sent
  <2>2. Moves(Loop, "turn_input") \/ Moves(Loop, "save")
    BY <1>13, LoopIsProc, MovesLemma DEF TurnDecided, TurnVerdict, Labels
  <2> QED
    BY <2>1, <2>2, LoopIsProc, StepFrame DEF Labels, Handling
<1>14. CASE TurnUndecided
  BY <1>14, LoopIsProc, MovesLemma, StepFrame, NothingKeeps
  DEF TurnUndecided, Fails, Labels, Handling, store, sent
<1>15. CASE TurnInput
  <2>1. Keeps
    BY <1>15, NothingKeeps DEF TurnInput, store
  <2>2. Moves(Loop, "save") \/ Moves(Loop, "idle")
    BY <1>15, LoopIsProc, SendInputMoves DEF TurnInput, Labels
  <2> QED
    BY <2>1, <2>2, LoopIsProc, StepFrame DEF Labels, Handling
<1>16. CASE ProgressWaiting
  BY <1>16, LoopIsProc, MovesLemma, StepFrame, SaveKeeps
  DEF ProgressWaiting, Labels, Handling, store, sent
<1>17. CASE RecoverAttach
  BY <1>17, LoopIsProc, MovesLemma, StepFrame, NothingKeeps
  DEF RecoverAttach, Fails, Labels, Handling, store, sent
<1>18. CASE ResumeRead
  BY <1>18, LoopIsProc, MovesLemma, StepFrame, NothingKeeps
  DEF ResumeRead, Labels, Handling, store, sent
<1>19. CASE ResumeAttach
  BY <1>19, LoopIsProc, MovesLemma, StepFrame, NothingKeeps
  DEF ResumeAttach, Fails, Labels, Handling, store, sent
<1>20. CASE ResumeSave
  BY <1>20, LoopIsProc, MovesLemma, StepFrame, SaveKeeps
  DEF ResumeSave, SaveThen, Labels, Handling, store, sent
<1>21. CASE Reconcile
  <2>1. Keeps
    BY <1>21, NothingKeeps DEF Reconcile, store, sent
  <2>2. PICK r \in TaskRun : r = proc[Loop].row
    BY LoopIsProc, ProcRowType DEF TypeOK
  <2>3. \/ Return(Loop)
        \/ r.pending # 0 /\ ReconcileRequest(r, r.pending, request[r.pending])
        \/ ReconcileTurn(r)
        \/ \E id \in First(OpenRows) :
             BeginFor(Loop, "reconcile_save", [r EXCEPT !.pending = id], id, request[id])
    BY <1>21, <2>2 DEF Reconcile
  <2>4. CASE Return(Loop)
    BY <2>1, <2>4, LoopIsProc, MovesLemma, StepFrame DEF Labels, Handling
  <2>5. CASE r.pending # 0 /\ ReconcileRequest(r, r.pending, request[r.pending])
    <3>1. r.pending \in Requests
      BY <2>5, RowFieldType
    <3> QED
      BY <2>1, <2>5, <3>1, ReconcileRequestAnswer
  <2>6. CASE ReconcileTurn(r)
    <3>1. Moves(Loop, "idle") \/ Moves(Loop, "turn_decide")
      BY <2>6, LoopIsProc, MovesLemma, SuperviseMoves DEF ReconcileTurn, Labels
    <3> QED
      BY <2>1, <3>1, LoopIsProc, StepFrame DEF Labels, Handling
  <2>7. CASE \E id \in First(OpenRows) :
               BeginFor(Loop, "reconcile_save", [r EXCEPT !.pending = id], id, request[id])
    <3>1. PICK id \in Requests :
            BeginFor(Loop, "reconcile_save", [r EXCEPT !.pending = id], id, request[id])
      BY <2>7 DEF First, OpenRows
    <3> QED
      BY <2>1, <3>1, BeginForFrame
  <2> QED
    BY <2>3, <2>4, <2>5, <2>6, <2>7
<1>22. CASE ReconcileSave
  <2>1. Keeps
    BY <1>22, SaveKeeps DEF ReconcileSave, sent
  <2>2. CASE Return(Loop)
    BY <2>1, <2>2, LoopIsProc, MovesLemma, StepFrame DEF Labels, Handling
  <2>3. CASE ReconcileRequest(proc[Loop].row, proc[Loop].req, proc[Loop].status)
    <3>1. proc[Loop].req \in Requests
      BY <1>22 DEF ReconcileSave, AnswerInv, At, Handling
    <3> QED
      BY <2>1, <2>3, <3>1, ReconcileRequestAnswer
  <2> QED
    BY <1>22, <2>2, <2>3 DEF ReconcileSave
<1> QED
  BY <1>1, <1>2, <1>3, <1>4, <1>5, <1>6, <1>7, <1>8, <1>9, <1>10, <1>11, <1>12,
     <1>13, <1>14, <1>15, <1>16, <1>17, <1>18, <1>19, <1>20, <1>21, <1>22
  DEF LoopHandlers

LEMMA LoopReceivesAnswer ==
  ASSUME TypeOK, AnswerInv, LoopReceives
  PROVE  AnswerInv'
<1>1. CASE IgnoreUnknownThread
  BY <1>1, QuietFrame
  DEF IgnoreUnknownThread, store, sent
<1>2. CASE ReceiveResolved
  <2>1. Keeps /\ Moves(Loop, "resolved_mark")
    BY <1>2, NothingKeeps, LoopIsProc, MovesLemma DEF ReceiveResolved, Labels, store, sent
  <2> QED
    BY <2>1, LoopIsProc, StepFrame DEF Labels, Handling
<1>3. CASE IgnoreClosedRequest
  BY <1>3, QuietFrame
  DEF IgnoreClosedRequest, store, sent
<1>4. CASE ReceiveRequest
  <2>1. Keeps /\ row.status # "deleted"
    BY <1>4, NothingKeeps DEF ReceiveRequest, OfTask, RowExists, store, sent
  <2>2. PICK id \in Requests, st \in RequestStatus :
          /\ request[id] \in {"absent", "pending", "replying"}
          /\ st = (IF request[id] = "absent" THEN "pending" ELSE request[id])
          /\ BeginFor(Loop, "request_upsert", [row EXCEPT !.pending = id], id, st)
    BY <1>4, ReceiveType DEF ReceiveRequest, RequestStatus
  <2>3. st # "absent" /\ (st = "pending" => autoSent[id] = 0)
    BY <2>1, <2>2 DEF TypeOK, AnswerInv, PastPending
  <2> QED
    BY <2>1, <2>2, <2>3, BeginForFrame
<1>5. CASE IgnoreTurnCompleted
  BY <1>5, QuietFrame
  DEF IgnoreTurnCompleted, store, sent
<1>6. CASE ReceiveTurnCompleted
  <2>1. Keeps /\ Moves(Loop, "turn_decide")
    BY <1>6, NothingKeeps, SuperviseMoves DEF ReceiveTurnCompleted, store, sent
  <2> QED
    BY <2>1, LoopIsProc, StepFrame DEF Labels, Handling
<1> QED
  BY <1>1, <1>2, <1>3, <1>4, <1>5, <1>6
  DEF LoopReceives

LEMMA LoopTicksAnswer ==
  ASSUME TypeOK, AnswerInv, LoopTicks
  PROVE  AnswerInv'
<1>1. CASE TickStart
  BY <1>1, LoopIsProc, MovesLemma, StepFrame, NothingKeeps
  DEF TickStart, Labels, Handling, store, sent
<1>2. CASE TickProgress
  BY <1>2, LoopIsProc, MovesLemma, StepFrame, NothingKeeps
  DEF TickProgress, Labels, Handling, store, sent
<1>3. CASE TickRecover
  BY <1>3, LoopIsProc, MovesLemma, StepFrame, NothingKeeps
  DEF TickRecover, Labels, Handling, store, sent
<1> QED
  BY <1>1, <1>2, <1>3
  DEF LoopTicks

LEMMA CodexStepsAnswer ==
  ASSUME AnswerInv, CodexSteps
  PROVE  AnswerInv'
  BY QuietFrame
  DEF CodexSteps, RaiseRequest, CompleteTurn, ClearRequest, ReplayRequest, LoseThread, store, sent

LEMMA CrashAnswer ==
  ASSUME TypeOK, AnswerInv, Crash
  PROVE  AnswerInv'
<1>1. UNCHANGED <<row, request, autoSent>>
  BY DEF Crash, store, sent
<1>2. proc'[Loop].pc = "resume" /\ \A o \in Operators : proc'[o].pc = "idle"
  BY LoopIsProc, OperatorIsProc DEF Crash, Idle
<1> QED
  BY <1>1, <1>2 DEF AnswerInv, PastPending, At, Handling

-------------------------------------------------------------------------------
LEMMA AnswerInvariant == Spec => []AnswerInv
<1>1. Init => AnswerInv
  <2> SUFFICES ASSUME Init PROVE AnswerInv
    OBVIOUS
  <2>1. proc[Loop].pc = "resume" /\ \A o \in Operators : proc[o].pc = "idle"
    BY LoopIsProc, OperatorIsProc DEF Init, Idle
  <2>2. \A r \in Requests : autoSent[r] = 0
    BY DEF Init
  <2> QED
    BY <2>1, <2>2 DEF AnswerInv, At, Handling
<1>2. TypeOK /\ AnswerInv /\ [Next]_vars => AnswerInv'
  <2> SUFFICES ASSUME TypeOK, AnswerInv, [Next]_vars PROVE AnswerInv'
    OBVIOUS
  <2>1. CASE \E o \in Operators : Commanded(o) \/ Continue(o)
    BY <2>1, CommandedAnswer, ContinueAnswer
  <2>2. CASE \E p \in Procs : StartSteps(p) \/ Save(p)
    BY <2>2, StartStepsAnswer
  <2>3. CASE LoopHandlers
    BY <2>3, LoopHandlersAnswer
  <2>4. CASE LoopReceives
    BY <2>4, LoopReceivesAnswer
  <2>5. CASE LoopTicks
    BY <2>5, LoopTicksAnswer
  <2>6. CASE CodexSteps
    BY <2>6, CodexStepsAnswer
  <2>7. CASE Crash
    BY <2>7, CrashAnswer
  <2>8. CASE UNCHANGED vars
    BY <2>8, QuietFrame DEF vars
  <2> QED
    BY <2>1, <2>2, <2>3, <2>4, <2>5, <2>6, <2>7, <2>8 DEF Next
<1> QED
  BY <1>1, <1>2, TypeCorrect, PTL DEF Spec

(* The loop answers a request at most once, over restarts, repeated        *)
(* notifications and stale writes of any number of operators.              *)
THEOREM AnsweredAtMostOnce == Spec => []AutoReplyAtMostOnce
<1>1. AnswerInv => AutoReplyAtMostOnce
  BY DEF AnswerInv, AutoReplyAtMostOnce
<1> QED
  BY <1>1, AnswerInvariant, PTL

-------------------------------------------------------------------------------
(* What holds of the task's row although every handler writes back the     *)
(* whole row it read some time ago: each copy a goroutine holds satisfies  *)
(* what the row must satisfy, and each handler edits its copy so that this *)
(* stays true.  A write of any copy at any time is then harmless.          *)

(* A row that waits for the user has its question.                         *)
Asked(r) == r.status = "waiting_user_input" => r.question

(* A row names a turn of the thread it names.                              *)
OwnTurn(r) ==
  IF r.thread = 0 THEN r.turn = 0 ELSE r.turn # 0 /\ turn[r.turn].thread = r.thread

(* A row points to a request on record.                                    *)
Recorded(r) == r.pending # 0 => request[r.pending] # "absent"

(* A turn gets its thread when it starts, and an event names the thread of *)
(* its turn.                                                               *)
UnusedAreBlank == \A t \in Turns : turn[t].state = "unused" => turn[t].thread = 0
EventsInv ==
  \A i \in 1 .. Len(events) :
    events[i].kind = "turn_completed" => turn[events[i].id].thread = events[i].thread

(* The row and its copies are asked and own their turn.  While the task    *)
(* exists they point to requests on record, but for the copy of the        *)
(* handler that is about to record its request.                            *)
RowsInv ==
  /\ Asked(row) /\ OwnTurn(row)
  /\ \A p \in Procs : Asked(proc[p].row) /\ OwnTurn(proc[p].row)
  /\ \A p \in Procs : proc[p].row.status # "deleted"
  /\ row.status = "deleted" => row.pending = 0
  /\ row.status # "deleted" => Recorded(row)
  /\ row.status # "deleted" =>
       \A p \in Procs : ~At(p, "request_upsert") => Recorded(proc[p].row)
  /\ At(Loop, "request_upsert") => proc[Loop].row.pending = proc[Loop].req
  /\ \A o \in Operators : ~At(o, "request_upsert")

-------------------------------------------------------------------------------
(* A turn keeps its thread. *)

TurnsStay == \A t \in Turns : turn[t].thread # 0 => turn'[t].thread = turn[t].thread

LEMMA NamesAreNotEmpty == 0 \notin Threads /\ 0 \notin Turns /\ 0 \notin Requests
  BY DEF Threads, Turns, Requests

LEMMA StartTurnStays ==
  ASSUME TypeOK, UnusedAreBlank, NEW t \in Turns, NEW th \in Threads, StartTurn(t, th),
         turn[t].state = "unused" \/ turn[t].thread = th
  PROVE  UnusedAreBlank' /\ TurnsStay /\ turn'[t].thread = th
  BY DEF TypeOK, Turn, UnusedAreBlank, TurnsStay, StartTurn

LEMMA InterruptStays ==
  ASSUME TypeOK, UnusedAreBlank, NEW t, Interrupt(t)
  PROVE  UnusedAreBlank' /\ TurnsStay
  BY DEF TypeOK, Turn, UnusedAreBlank, TurnsStay, Interrupt

LEMMA CloseThreadStays ==
  ASSUME TypeOK, UnusedAreBlank, NEW th, CloseThread(th)
  PROVE  UnusedAreBlank' /\ TurnsStay
  BY DEF TypeOK, Turn, UnusedAreBlank, TurnsStay, CloseThread

LEMMA SameTurnsStay ==
  ASSUME UnusedAreBlank, turn' = turn
  PROVE  UnusedAreBlank' /\ TurnsStay
  BY DEF UnusedAreBlank, TurnsStay

-------------------------------------------------------------------------------
(* A goroutine goes to label l and holds the row s. *)

Steps(p, l, s) ==
  proc'[p].pc = l /\ proc'[p].row = s /\ \A q \in Procs \ {p} : proc'[q] = proc[q]

LEMMA StepsLemma ==
  ASSUME TypeOK, NEW p \in Procs, NEW l \in Labels
  PROVE  /\ \A r : Begin(p, l, r) => Steps(p, l, r)
         /\ \A r, id, st : BeginFor(p, l, r, id, st) => Steps(p, l, r)
         /\ Goto(p, l) => Steps(p, l, proc[p].row)
         /\ \A r : GotoWith(p, l, r) => Steps(p, l, r)
         /\ Return(p) => Steps(p, "idle", NoTask)
<1>1. Return(p) => Steps(p, "idle", NoTask)
  BY DEF TypeOK, Return, Steps, Idle
<1>2. \A r : Begin(p, l, r) => Steps(p, l, r)
  BY DEF TypeOK, Begin, Steps, Idle
<1>3. \A r, id, st : BeginFor(p, l, r, id, st) => Steps(p, l, r)
  BY DEF TypeOK, BeginFor, Steps, Idle
<1>4. Goto(p, l) => Steps(p, l, proc[p].row)
  BY DEF TypeOK, Goto, Steps, ProcState
<1>5. \A r : GotoWith(p, l, r) => Steps(p, l, r)
  BY DEF TypeOK, GotoWith, Steps, ProcState
<1> QED
  BY <1>1, <1>2, <1>3, <1>4, <1>5

(* OwnTurn in the next state, of a row of this one.                        *)
OwnsNext(s) ==
  IF s.thread = 0 THEN s.turn = 0 ELSE s.turn # 0 /\ turn'[s.turn].thread = s.thread

(* s is what a handler makes of the copy r.                                *)
Edit(r, s) ==
  /\ (s.thread = r.thread /\ s.turn = r.turn) \/ OwnsNext(s)
  /\ Asked(r) => Asked(s)
  /\ s.pending \in {0, r.pending}
  /\ s.status = "deleted" => r.status = "deleted"

LEMMA EditLemma ==
  ASSUME NEW r \in TaskRun
  PROVE  /\ Edit(r, r) /\ Edit(r, AskUser(r)) /\ Edit(r, Resume(r)) /\ Edit(r, ClearPending(r))
         /\ \A st \in TaskStatus \ {"waiting_user_input"} : Edit(r, [r EXCEPT !.status = st])
         /\ \A st \in TaskStatus \ {"waiting_user_input"} :
              Edit(r, [r EXCEPT !.status = st, !.question = FALSE, !.pending = 0])
         /\ Edit(r, [Resume(r) EXCEPT !.question = FALSE])
         /\ Edit(r, [Resume(r) EXCEPT !.question = FALSE, !.pending = 0])
         /\ Edit(r, Handled(r)) /\ Edit(r, AskUser(Handled(r))) /\ Edit(r, Handled(Resume(r)))
  BY DEF TaskRun, TaskStatus, Edit, Asked, AskUser, Resume, ClearPending, Handled

(* The requests on record stay on record.                                  *)
RequestsStay == \A r \in Requests : request'[r] = "absent" => request[r] = "absent"

(* The frame of almost every step: one goroutine goes on with an edited    *)
(* copy, or starts with one of the row, and the row is as it was or that   *)
(* goroutine's copy.                                                       *)
LEMMA RowFrame ==
  ASSUME TypeOK, RowsInv, TurnsStay, RequestsStay,
         NEW p \in Procs, NEW l \in Labels \ {"request_upsert"}, NEW s \in TaskRun,
         Steps(p, l, s),
         ~At(p, "request_upsert"),
         s = NoTask \/ (RowExists /\ Edit(row, s)) \/ Edit(proc[p].row, s),
         row' = row \/ (RowExists /\ row' = proc[p].row)
  PROVE  RowsInv'
<1>1. \A r \in TaskRun : OwnTurn(r) => OwnsNext(r)
  BY DEF TypeOK, TurnsStay, OwnTurn, OwnsNext, TaskRun
<1>2. \A r \in TaskRun : Recorded(r) => Recorded(r)'
  BY DEF RequestsStay, Recorded, TaskRun
<1>3. row \in TaskRun /\ row' \in TaskRun /\ \A q \in Procs : proc[q].row \in TaskRun
  BY ProcRowType DEF TypeOK
<1>4. Asked(row') /\ OwnsNext(row')
  BY <1>1, <1>3 DEF RowsInv
<1>5. Asked(s) /\ OwnsNext(s) /\ s.status # "deleted"
  BY <1>1, <1>3 DEF RowsInv, RowExists, NoTask, Edit, Asked, OwnsNext
<1>6. row'.status = "deleted" <=> row.status = "deleted"
  BY DEF RowsInv, RowExists
<1>7. row.status # "deleted" => (request'[s.pending] = "absent" => s.pending = 0)
  BY <1>3 DEF RowsInv, RowExists, RequestsStay, Recorded, TaskRun, NoTask, Edit
<1>8. row.status # "deleted" => (request'[row'.pending] = "absent" => row'.pending = 0)
  BY <1>3 DEF RowsInv, RowExists, RequestsStay, Recorded, TaskRun
<1>9. \A q \in Procs \ {p} : Asked(proc[q].row) /\ OwnsNext(proc[q].row)
                             /\ proc[q].row.status # "deleted"
  BY <1>1, <1>3 DEF RowsInv
<1>10. row.status # "deleted" =>
         \A q \in Procs \ {p} : proc[q].pc # "request_upsert" =>
           (request'[proc[q].row.pending] = "absent" => proc[q].row.pending = 0)
  BY <1>3 DEF RowsInv, RequestsStay, Recorded, TaskRun, At
<1>11. Asked(row)' /\ OwnTurn(row)'
  BY <1>4 DEF Asked, OwnTurn, OwnsNext
<1>12. proc'[p].row = s /\ proc'[p].pc = l /\ \A q \in Procs \ {p} : proc'[q] = proc[q]
  BY DEF Steps
<1>13. ASSUME NEW q \in Procs
       PROVE  /\ Asked(proc[q].row)' /\ OwnTurn(proc[q].row)'
              /\ proc'[q].row.status # "deleted"
              /\ row.status # "deleted" /\ ~At(q, "request_upsert")' => Recorded(proc[q].row)'
  <2>1. CASE q = p
    BY <1>5, <1>7, <1>12, <2>1 DEF Asked, OwnTurn, OwnsNext, Recorded
  <2>2. CASE q # p
    BY <1>9, <1>10, <1>12, <2>2 DEF Asked, OwnTurn, OwnsNext, Recorded, At
  <2> QED
    BY <2>1, <2>2
<1>14. (row.status = "deleted" => row.pending = 0)'
  BY <1>6 DEF RowsInv, RowExists
<1>15. (row.status # "deleted" => Recorded(row))'
  BY <1>6, <1>8 DEF Recorded
<1>16. (At(Loop, "request_upsert") => proc[Loop].row.pending = proc[Loop].req)'
  BY <1>12, LoopIsProc DEF RowsInv, At
<1>17. (\A o \in Operators : ~At(o, "request_upsert"))'
  BY <1>12, OperatorIsProc DEF RowsInv, At
<1> QED
  BY <1>6, <1>11, <1>13, <1>14, <1>15, <1>16, <1>17 DEF RowsInv

(* Steps that touch neither the row nor a copy.                            *)
LEMMA RowQuiet ==
  ASSUME TypeOK, RowsInv, TurnsStay, UNCHANGED <<row, request, proc>>
  PROVE  RowsInv'
<1>1. \A r \in TaskRun : OwnTurn(r) => OwnsNext(r)
  BY DEF TypeOK, TurnsStay, OwnTurn, OwnsNext, TaskRun
<1>2. row \in TaskRun /\ \A q \in Procs : proc[q].row \in TaskRun
  BY ProcRowType DEF TypeOK
<1>3. OwnTurn(row)' /\ \A q \in Procs : OwnTurn(proc[q].row)'
  BY <1>1, <1>2 DEF RowsInv, OwnTurn, OwnsNext
<1> QED
  BY <1>3 DEF RowsInv, Asked, Recorded, At

LEMMA MarkStays ==
  ASSUME NEW id, NEW st \in {"replying", "replied", "resolved"}, TypeOK, MarkRequest(id, st)
  PROVE  RequestsStay
  BY DEF TypeOK, MarkRequest, RequestsStay

LEMMA SameRequestsStay ==
  ASSUME request' = request
  PROVE  RequestsStay
  BY DEF RequestsStay

-------------------------------------------------------------------------------
(* No step moves a turn to another thread. *)

LEMMA SendInputStays ==
  ASSUME TypeOK, UnusedAreBlank, NEW p \in Procs, NEW l \in Labels, NEW r \in TaskRun,
         r.thread = proc[p].row.thread, SendInput(p, l, r)
  PROVE  /\ UnusedAreBlank' /\ TurnsStay
         /\ \/ \E t \in Turns : /\ Steps(p, l, [r EXCEPT !.turn = t])
                                /\ OwnsNext([r EXCEPT !.turn = t])
            \/ Steps(p, "idle", NoTask)
<1>1. CASE \E t \in ReachableTurns(proc[p].row) :
             /\ StartTurn(t, proc[p].row.thread)
             /\ GotoWith(p, l, [r EXCEPT !.turn = t])
             /\ UNCHANGED faults
  <2>1. PICK t \in ReachableTurns(proc[p].row) :
          StartTurn(t, proc[p].row.thread) /\ GotoWith(p, l, [r EXCEPT !.turn = t])
    BY <1>1
  <2>2. /\ t \in Turns /\ r.thread \in Threads
        /\ turn[t].state = "unused" \/ turn[t].thread = r.thread
    BY <2>1 DEF ReachableTurns, Live, ActiveTurns, UnusedTurns, First
  <2>3. UnusedAreBlank' /\ TurnsStay /\ turn'[t].thread = r.thread
    BY <2>1, <2>2, StartTurnStays
  <2>4. Steps(p, l, [r EXCEPT !.turn = t])
    BY <2>1, StepsLemma
  <2>5. OwnsNext([r EXCEPT !.turn = t])
    BY <2>2, <2>3, NamesAreNotEmpty DEF OwnsNext, TaskRun
  <2> QED
    BY <2>2, <2>3, <2>4, <2>5
<1>2. CASE Return(p) /\ UNCHANGED <<turn, faults>>
  BY <1>2, StepsLemma, SameTurnsStay
<1>3. CASE Fails(p) /\ UNCHANGED turn
  BY <1>3, StepsLemma, SameTurnsStay DEF Fails
<1> QED
  BY <1>1, <1>2, <1>3 DEF SendInput

LEMMA StartSessionStays ==
  ASSUME TypeOK, UnusedAreBlank, NEW p \in Procs, StartSession(p)
  PROVE  /\ UnusedAreBlank' /\ TurnsStay
         /\ \E s \in TaskRun : /\ Steps(p, "save", s) /\ OwnsNext(s)
                              /\ s.pending = proc[p].row.pending /\ s.status = "running"
<1>1. PICK th \in Threads, t \in UnusedTurns :
        /\ t \in Turns /\ StartTurn(t, th)
        /\ GotoWith(p, "save", [Resume(proc[p].row) EXCEPT !.thread = th, !.turn = t])
  BY DEF StartSession, First, UnusedThreads, UnusedTurns
<1>2. UnusedAreBlank' /\ TurnsStay /\ turn'[t].thread = th
  BY <1>1, StartTurnStays DEF UnusedTurns
<1> DEFINE s == [Resume(proc[p].row) EXCEPT !.thread = th, !.turn = t]
<1>3. proc[p].row \in TaskRun
  BY ProcRowType DEF TypeOK
<1>4. s \in TaskRun
  BY <1>1, <1>3, RowEditType
<1>5. Steps(p, "save", s)
  BY <1>1, StepsLemma DEF Labels
<1>6. OwnsNext(s) /\ s.pending = proc[p].row.pending /\ s.status = "running"
  BY <1>1, <1>2, <1>3, NamesAreNotEmpty DEF OwnsNext, TaskRun, Resume
<1> QED
  BY <1>2, <1>4, <1>5, <1>6

LEMMA TurnsStep ==
  ASSUME TypeOK, UnusedAreBlank, [Next]_vars
  PROVE  UnusedAreBlank' /\ TurnsStay
<1>1. ASSUME NEW o \in Operators, Commanded(o)
      PROVE  turn' = turn
  BY <1>1 DEF Commanded, StartTask, Reply, Stop, Complete, Reopen, Delete, codex
<1>2. ASSUME NEW o \in Operators, Continue(o)
      PROVE  UnusedAreBlank' /\ TurnsStay
  <2>1. o \in Procs /\ proc[o].row \in TaskRun
    BY OperatorIsProc, ProcRowType DEF TypeOK
  <2>2. CASE ReplyInput(o)
    BY <2>1, <2>2, SendInputStays DEF ReplyInput, Labels
  <2>3. CASE ReopenInput(o)
    <3> DEFINE r == [Resume(proc[o].row) EXCEPT !.question = FALSE, !.pending = 0]
    <3>1. r \in TaskRun /\ r.thread = proc[o].row.thread
      BY <2>1 DEF TaskRun, Resume, TaskStatus
    <3> QED
      BY <2>1, <2>3, <3>1, SendInputStays DEF ReopenInput, Labels
  <2>4. CASE StopInterrupt(o) \/ CompleteInterrupt(o)
    BY <2>4, InterruptStays, SameTurnsStay DEF StopInterrupt, CompleteInterrupt
  <2>5. CASE DeleteCleanup(o)
    BY <2>5, CloseThreadStays, SameTurnsStay DEF DeleteCleanup, Live
  <2>6. CASE turn' = turn
    BY <2>6, SameTurnsStay
  <2> QED
    BY <1>2, <2>2, <2>3, <2>4, <2>5, <2>6
    DEF Continue, ReplyMark, ReplyRespond, ReplyRespondFails, ReplyReplied, CompleteResolve,
        ReopenAttach, ReopenTouch, SaveThen, ReopenResolve, DeleteRow, DeleteRequests, codex
<1>3. ASSUME NEW p \in Procs, StartSteps(p) \/ Save(p)
      PROVE  UnusedAreBlank' /\ TurnsStay
  BY <1>3, StartSessionStays, SameTurnsStay
  DEF StartSteps, StartSave, SaveThen, StartSessionHalfway, StartSessionFails,
      StartSessionTimeout, Save, codex
<1>4. CASE LoopHandlers
  <2>1. CASE TurnInput
    <3> DEFINE r == Handled(Resume(proc[Loop].row))
    <3>1. r \in TaskRun /\ r.thread = proc[Loop].row.thread
      BY LoopIsProc, ProcRowType DEF TypeOK, TaskRun, Resume, Handled, TaskStatus
    <3> HIDE DEF r
    <3> QED
      BY <2>1, <3>1, LoopIsProc, SendInputStays DEF TurnInput, Labels, r
  <2>2. CASE turn' = turn
    BY <2>2, SameTurnsStay
  <2> QED
    BY <1>4, <2>1, <2>2
    DEF LoopHandlers, ResolvedMark, RequestUpsert, RequestSave, RequestRead, RequestApproved,
        RequestEscalated, RequestUndecided, AutoMark, AutoRespond, AutoRespondFails, AutoSave,
        AutoReplied, TurnDecided, TurnUndecided, ProgressWaiting, RecoverAttach, ResumeRead,
        ResumeAttach, ResumeSave, Reconcile, ReconcileSave, SaveThen, codex
<1>5. CASE LoopReceives \/ LoopTicks \/ Crash
  BY <1>5, SameTurnsStay
  DEF LoopReceives, IgnoreUnknownThread, ReceiveResolved, IgnoreClosedRequest, ReceiveRequest,
      IgnoreTurnCompleted, ReceiveTurnCompleted, LoopTicks, TickStart, TickProgress,
      TickRecover, Crash, codex
<1>6. CASE CodexSteps
  <2>1. ASSUME NEW t \in Turns, CompleteTurn(t)
        PROVE  UnusedAreBlank' /\ TurnsStay
    BY <2>1 DEF CompleteTurn, TypeOK, Turn, UnusedAreBlank, TurnsStay
  <2> QED
    BY <1>6, <2>1, CloseThreadStays, SameTurnsStay
    DEF CodexSteps, RaiseRequest, ClearRequest, ReplayRequest, LoseThread, codex
<1>7. CASE UNCHANGED vars
  BY <1>7, SameTurnsStay DEF vars
<1> QED
  BY <1>1, <1>2, <1>3, <1>4, <1>5, <1>6, <1>7, SameTurnsStay DEF Next

-------------------------------------------------------------------------------
(* An event names the thread of its turn. *)

LEMMA EventsFrame ==
  ASSUME TypeOK, EventsInv, TurnsStay,
         \/ events' = events \/ events' = <<>>
         \/ events # <<>> /\ events' = Tail(events)
         \/ \E e \in Event :
              /\ events' = Append(events, e)
              /\ e.kind = "turn_completed" => turn'[e.id].thread = e.thread
  PROVE  EventsInv'
<1>1. \A i \in 1 .. Len(events) :
        /\ events[i].thread \in Threads
        /\ events[i].kind = "turn_completed" => events[i].id \in Turns
  BY DEF TypeOK, Event
<1>2. \A i \in 1 .. Len(events) :
        events[i].kind = "turn_completed" => turn'[events[i].id].thread = events[i].thread
  BY <1>1, NamesAreNotEmpty DEF EventsInv, TurnsStay
<1>3. events \in Seq(Event)
  BY DEF TypeOK
<1>4. CASE events' = events \/ events' = <<>>
  BY <1>2, <1>4 DEF EventsInv
<1>5. CASE events # <<>> /\ events' = Tail(events)
  <2>1. \A i \in 1 .. Len(events') : i + 1 \in 1 .. Len(events) /\ events'[i] = events[i + 1]
    BY <1>3, <1>5
  <2> QED
    BY <1>2, <2>1 DEF EventsInv
<1>6. CASE \E e \in Event :
             /\ events' = Append(events, e)
             /\ e.kind = "turn_completed" => turn'[e.id].thread = e.thread
  <2>1. PICK e \in Event :
          /\ events' = Append(events, e)
          /\ e.kind = "turn_completed" => turn'[e.id].thread = e.thread
    BY <1>6
  <2>2. \A i \in 1 .. Len(events') :
          (i \in 1 .. Len(events) /\ events'[i] = events[i]) \/ events'[i] = e
    BY <1>3, <2>1
  <2> QED
    BY <1>2, <2>1, <2>2 DEF EventsInv
<1> QED
  BY <1>4, <1>5, <1>6

LEMMA NotifyEvents ==
  ASSUME TypeOK, EventsInv, TurnsStay, NEW e, Notify(e),
         e.thread \in Threads => e \in Event,
         e.kind = "turn_completed" => turn'[e.id].thread = e.thread
  PROVE  EventsInv'
<1>1. CASE UNCHANGED <<events, seen>>
  BY <1>1, EventsFrame
<1>2. CASE e.thread \in watched /\ events' = Append(events, e)
  <2>1. e \in Event
    BY <1>2 DEF TypeOK
  <2> QED
    BY <1>2, <2>1, EventsFrame
<1> QED
  BY <1>1, <1>2 DEF Notify

LEMMA AnnounceEvents ==
  ASSUME TypeOK, EventsInv, TurnsStay, NEW e, Announce(e),
         e.thread \in Threads => e \in Event,
         e.kind = "turn_completed" => turn'[e.id].thread = e.thread
  PROVE  EventsInv'
  BY NotifyEvents, EventsFrame DEF Announce

LEMMA RequestEvents ==
  ASSUME TypeOK, EventsInv, TurnsStay, NEW k \in {"request", "resolved"}, NEW th,
         NEW r \in Requests,
         Announce([kind |-> k, thread |-> th, id |-> r])
           \/ Notify([kind |-> k, thread |-> th, id |-> r])
  PROVE  EventsInv'
<1> DEFINE e == [kind |-> k, thread |-> th, id |-> r]
<1>1. e.thread \in Threads => e \in Event
  BY DEF Event
<1>2. e.kind # "turn_completed"
  OBVIOUS
<1>3. Announce(e) \/ Notify(e)
  OBVIOUS
<1> HIDE DEF e
<1> QED
  BY <1>1, <1>2, <1>3, AnnounceEvents, NotifyEvents

LEMMA RespondEvents ==
  ASSUME TypeOK, EventsInv, TurnsStay, NEW r \in Requests \cup {0}, Respond(r)
  PROVE  EventsInv'
<1> DEFINE e == [kind |-> "resolved", thread |-> turn[asked[r].turn].thread, id |-> r]
<1>1. CASE UNCHANGED <<asked, events, seen>>
  BY <1>1, EventsFrame
<1>2. CASE Notify(e)
  <2>1. CASE r \in Requests
    <3>1. e.thread \in Threads => e \in Event
      BY <2>1 DEF Event
    <3> QED
      BY <1>2, <3>1, NotifyEvents
  <2>2. CASE r \notin Requests
    <3>1. r \notin seen
      BY <2>2 DEF TypeOK
    <3> QED
      BY <1>2, <3>1, EventsFrame DEF Notify
  <2> QED
    BY <2>1, <2>2
<1> QED
  BY <1>1, <1>2 DEF Respond

LEMMA CodexStepsEvents ==
  ASSUME TypeOK, EventsInv, TurnsStay, CodexSteps
  PROVE  EventsInv'
<1>1. ASSUME NEW t \in Turns, RaiseRequest(t)
      PROVE  EventsInv'
  <2>1. PICK r \in Requests : Announce([kind |-> "request", thread |-> turn[t].thread, id |-> r])
    BY <1>1 DEF RaiseRequest, First, UnusedRequests
  <2> QED
    BY <2>1, RequestEvents
<1>2. ASSUME NEW t \in Turns, CompleteTurn(t)
      PROVE  EventsInv'
  <2> DEFINE e == [kind |-> "turn_completed", thread |-> turn[t].thread, id |-> t]
  <2>1. Announce(e)
    BY <1>2 DEF CompleteTurn
  <2>2. e.thread \in Threads => e \in Event
    BY DEF Event
  <2>3. turn'[e.id].thread = e.thread
    BY <1>2 DEF CompleteTurn, TypeOK, Turn
  <2> HIDE DEF e
  <2> QED
    BY <2>1, <2>2, <2>3, AnnounceEvents
<1>3. ASSUME NEW r \in Requests, ClearRequest(r)
      PROVE  EventsInv'
  BY <1>3, RequestEvents DEF ClearRequest
<1>4. ASSUME NEW r \in Requests, ReplayRequest(r)
      PROVE  EventsInv'
  BY <1>4, RequestEvents DEF ReplayRequest
<1>5. ASSUME NEW th \in Threads, LoseThread(th)
      PROVE  EventsInv'
  BY <1>5, EventsFrame DEF LoseThread, link
<1> QED
  BY <1>1, <1>2, <1>3, <1>4, <1>5 DEF CodexSteps

LEMMA EventsStep ==
  ASSUME TypeOK, EventsInv, TurnsStay, [Next]_vars
  PROVE  EventsInv'
<1>1. ASSUME NEW o \in Operators, Commanded(o)
      PROVE  EventsInv'
  BY <1>1, EventsFrame DEF Commanded, StartTask, Reply, Stop, Complete, Reopen, Delete, link
<1>2. ASSUME NEW o \in Operators, Continue(o)
      PROVE  EventsInv'
  <2>1. CASE ReplyRespond(o)
    BY <2>1, OperatorIsProc, ProcRowType, RespondEvents DEF ReplyRespond, TypeOK
  <2>2. CASE UNCHANGED events
    BY <2>2, EventsFrame
  <2> QED
    BY <1>2, <2>1, <2>2
    DEF Continue, ReplyMark, ReplyRespondFails, ReplyReplied, ReplyInput, StopInterrupt,
        CompleteInterrupt, CompleteResolve, ReopenAttach, ReopenTouch, SaveThen, ReopenInput,
        ReopenResolve, DeleteCleanup, DeleteRow, DeleteRequests, link
<1>3. ASSUME NEW p \in Procs, StartSteps(p) \/ Save(p)
      PROVE  EventsInv'
  BY <1>3, EventsFrame
  DEF StartSteps, StartSave, SaveThen, StartSession, StartSessionHalfway, StartSessionFails,
      StartSessionTimeout, Save, link
<1>4. CASE LoopHandlers
  <2>1. CASE AutoRespond
    BY <2>1, LoopIsProc, ProcRowType, RespondEvents DEF AutoRespond, TypeOK
  <2>2. CASE UNCHANGED events
    BY <2>2, EventsFrame
  <2> QED
    BY <1>4, <2>1, <2>2
    DEF LoopHandlers, ResolvedMark, RequestUpsert, RequestSave, RequestRead, RequestApproved,
        RequestEscalated, RequestUndecided, AutoMark, AutoRespondFails, AutoSave,
        AutoReplied, TurnDecided, TurnUndecided, TurnInput, ProgressWaiting, RecoverAttach,
        ResumeRead, ResumeAttach, ResumeSave, Reconcile, ReconcileSave, SaveThen, link
<1>5. CASE LoopReceives
  BY <1>5, EventsFrame
  DEF LoopReceives, IgnoreUnknownThread, ReceiveResolved, IgnoreClosedRequest, ReceiveRequest,
      IgnoreTurnCompleted, ReceiveTurnCompleted, Receive
<1>6. CASE LoopTicks \/ Crash
  BY <1>6, EventsFrame DEF LoopTicks, TickStart, TickProgress, TickRecover, Crash, link
<1>7. CASE CodexSteps
  BY <1>7, CodexStepsEvents
<1>8. CASE UNCHANGED vars
  BY <1>8, EventsFrame DEF vars
<1> QED
  BY <1>1, <1>2, <1>3, <1>4, <1>5, <1>6, <1>7, <1>8 DEF Next

-------------------------------------------------------------------------------
(* The steps of the handlers. *)

(* A goroutine ends its handler, or goes on with the copy it has.          *)
LEMMA GoesOn ==
  ASSUME TypeOK, RowsInv, TurnsStay, RequestsStay,
         NEW p \in Procs, NEW l \in Labels \ {"request_upsert"},
         Return(p) \/ Goto(p, l),
         ~At(p, "request_upsert"),
         row' = row \/ UpdateTask(proc[p].row)
  PROVE  RowsInv'
<1>1. proc[p].row \in TaskRun /\ NoTask \in TaskRun /\ Edit(proc[p].row, proc[p].row)
  BY ProcRowType, NoTaskType, EditLemma DEF TypeOK
<1>2. row' = row \/ (RowExists /\ row' = proc[p].row)
  BY DEF UpdateTask
<1>3. CASE Return(p)
  <2>1. Steps(p, "idle", NoTask)
    BY <1>3, StepsLemma DEF Labels
  <2> QED
    BY <1>1, <1>2, <2>1, RowFrame DEF Labels
<1>4. CASE Goto(p, l)
  <2>1. Steps(p, l, proc[p].row)
    BY <1>4, StepsLemma
  <2> QED
    BY <1>1, <1>2, <2>1, RowFrame
<1> QED
  BY <1>3, <1>4

(* A goroutine goes on with an edited copy.                                *)
LEMMA GoesOnWith ==
  ASSUME TypeOK, RowsInv, TurnsStay, RequestsStay,
         NEW p \in Procs, NEW l \in Labels \ {"request_upsert"}, NEW s \in TaskRun,
         GotoWith(p, l, s), Edit(proc[p].row, s) \/ (RowExists /\ Edit(row, s)),
         ~At(p, "request_upsert"),
         row' = row \/ UpdateTask(proc[p].row)
  PROVE  RowsInv'
<1>1. row' = row \/ (RowExists /\ row' = proc[p].row)
  BY DEF UpdateTask
<1>2. Steps(p, l, s)
  BY StepsLemma
<1> QED
  BY <1>1, <1>2, RowFrame

(* A goroutine starts a handler with an edited copy of the row.            *)
LEMMA Begins ==
  ASSUME TypeOK, RowsInv, TurnsStay, RequestsStay,
         NEW p \in Procs, NEW l \in Labels \ {"request_upsert"}, NEW s \in TaskRun,
         Begin(p, l, s) \/ \E id, st : BeginFor(p, l, s, id, st),
         RowExists, Edit(row, s), ~At(p, "request_upsert"), row' = row
  PROVE  RowsInv'
<1>1. Steps(p, l, s)
  BY StepsLemma
<1> QED
  BY <1>1, RowFrame

(* A goroutine goes on with the turn that took its input, or gives up.     *)
LEMMA SendInputRows ==
  ASSUME TypeOK, RowsInv, UnusedAreBlank, TurnsStay, RequestsStay,
         NEW p \in Procs, NEW l \in Labels \ {"request_upsert"}, NEW r \in TaskRun,
         r.thread = proc[p].row.thread, Edit(proc[p].row, r), SendInput(p, l, r),
         ~At(p, "request_upsert"), row' = row
  PROVE  RowsInv'
<1>1. CASE Steps(p, "idle", NoTask)
  BY <1>1, NoTaskType, RowFrame DEF Labels
<1>2. ASSUME NEW s \in TaskRun, Steps(p, l, s), OwnsNext(s),
             s.status = r.status, s.question = r.question, s.pending = r.pending
      PROVE  RowsInv'
  <2>1. Edit(proc[p].row, s)
    BY <1>2 DEF Edit, Asked
  <2> QED
    BY <1>2, <2>1, RowFrame
<1>3. ASSUME NEW t \in Turns, Steps(p, l, [r EXCEPT !.turn = t]), OwnsNext([r EXCEPT !.turn = t])
      PROVE  RowsInv'
  <2> DEFINE s == [r EXCEPT !.turn = t]
  <2>1. /\ s \in TaskRun
        /\ s.status = r.status /\ s.question = r.question /\ s.pending = r.pending
    BY ZenonT(120), RowEditType DEF TaskRun
  <2>2. Steps(p, l, s) /\ OwnsNext(s)
    BY <1>3
  <2> HIDE DEF s
  <2> QED
    BY <1>2, <2>1, <2>2
<1> QED
  BY <1>1, <1>3, SendInputStays

LEMMA StartStepsRows ==
  ASSUME TypeOK, RowsInv, UnusedAreBlank, TurnsStay, NEW p \in Procs, StartSteps(p) \/ Save(p)
  PROVE  RowsInv'
<1>1. RequestsStay
  BY SameRequestsStay
  DEF StartSteps, StartSave, SaveThen, StartSession, StartSessionHalfway, StartSessionFails,
      StartSessionTimeout, Save, store
<1>2. CASE StartSave(p) \/ Save(p)
  BY <1>1, <1>2, GoesOn DEF StartSave, SaveThen, Save, At, Labels
<1>3. CASE StartSession(p)
  <2>1. PICK s \in TaskRun : /\ Steps(p, "save", s) /\ OwnsNext(s)
                            /\ s.pending = proc[p].row.pending /\ s.status = "running"
    BY <1>3, StartSessionStays
  <2>2. Edit(proc[p].row, s)
    BY <2>1 DEF Edit, Asked
  <2>3. row' = row /\ ~At(p, "request_upsert")
    BY <1>3 DEF StartSession, At, store
  <2> QED
    BY <1>1, <2>1, <2>2, <2>3, RowFrame DEF Labels
<1>4. CASE StartSessionHalfway(p) \/ StartSessionFails(p)
  BY <1>1, <1>4, GoesOn
  DEF StartSessionHalfway, StartSessionFails, Fails, At, Labels, store
<1>5. CASE StartSessionTimeout(p)
  <2>1. proc[p].row \in TaskRun
    BY ProcRowType DEF TypeOK
  <2> DEFINE s == [proc[p].row EXCEPT !.status = "failed"]
  <2>2. s \in TaskRun /\ Edit(proc[p].row, s)
    BY <2>1, EditLemma, RowEditType DEF TaskStatus
  <2>3. GotoWith(p, "save", s) /\ row' = row /\ ~At(p, "request_upsert")
    BY <1>5 DEF StartSessionTimeout, At, store
  <2> HIDE DEF s
  <2> QED
    BY <1>1, <2>2, <2>3, GoesOnWith DEF Labels
<1> QED
  BY <1>2, <1>3, <1>4, <1>5 DEF StartSteps

LEMMA CommandedRows ==
  ASSUME TypeOK, RowsInv, TurnsStay, NEW o \in Operators, Commanded(o)
  PROVE  RowsInv'
<1>1. RequestsStay /\ ~At(o, "request_upsert") /\ o \in Procs
  BY SameRequestsStay, OperatorIsProc
  DEF Commanded, StartTask, Reply, Stop, Complete, Reopen, Delete, At, store
<1>2. row \in TaskRun
  BY DEF TypeOK
<1>3. CASE StartTask(o)
  <2>1. /\ row'.status = "pending" /\ row'.thread = 0 /\ row'.turn = 0 /\ row'.pending = 0
        /\ row.status # "deleted"
    BY <1>3 DEF StartTask, NoTask
  <2>2. PICK s \in TaskRun :
          /\ Steps(o, "start_save", s)
          /\ s.status = "starting" /\ s.thread = 0 /\ s.turn = 0 /\ s.pending = 0
    BY <1>1, <1>3, StepsLemma, NoTaskType, RowEditType DEF StartTask, NoTask, Labels, TaskStatus
  <2>3. UNCHANGED <<request, turn>>
    BY <1>3 DEF StartTask, codex
  <2>4. ASSUME NEW q \in Procs
        PROVE  /\ Asked(proc[q].row)' /\ OwnTurn(proc[q].row)'
               /\ proc'[q].row.status # "deleted"
               /\ ~At(q, "request_upsert")' => Recorded(proc[q].row)'
    BY <2>1, <2>2, <2>3 DEF RowsInv, Steps, Asked, OwnTurn, Recorded, At
  <2>5. /\ (At(Loop, "request_upsert") => proc[Loop].row.pending = proc[Loop].req)'
        /\ \A q \in Operators : ~At(q, "request_upsert")'
    BY <1>1, <2>2, OperatorIsProc, LoopIsProc DEF RowsInv, Steps, At
  <2>6. Asked(row)' /\ OwnTurn(row)' /\ Recorded(row)'
    BY <2>1 DEF Asked, OwnTurn, Recorded
  <2> QED
    BY <2>1, <2>4, <2>5, <2>6 DEF RowsInv
<1>4. CASE Reply(o)
  <2> DEFINE s == [Resume(row) EXCEPT !.question = FALSE]
  <2>1. s \in TaskRun /\ Edit(row, s)
    BY <1>2, EditLemma, RowEditType
  <2>2. /\ RowExists /\ row' = row
        /\ \E l \in {"reply_input", "save", "reply_mark"} :
             Begin(o, l, s) \/ \E id, st : BeginFor(o, l, s, id, st)
    BY <1>4 DEF Reply, RowExists, store
  <2> HIDE DEF s
  <2> QED
    BY <1>1, <2>1, <2>2, Begins DEF Labels
<1>5. CASE Stop(o)
  <2> DEFINE s == [row EXCEPT !.status = "stopped"]
  <2>1. s \in TaskRun /\ Edit(row, s)
    BY <1>2, EditLemma, RowEditType DEF TaskStatus
  <2>2. RowExists /\ row' = row /\ Begin(o, "stop_interrupt", s)
    BY <1>5 DEF Stop, Stoppable, RowExists, store
  <2> HIDE DEF s
  <2> QED
    BY <1>1, <2>1, <2>2, Begins DEF Labels
<1>6. CASE Complete(o)
  <2> DEFINE s == [row EXCEPT !.status = "completed", !.question = FALSE, !.pending = 0]
  <2>1. s \in TaskRun /\ Edit(row, s)
    BY <1>2, EditLemma DEF TaskRun, TaskStatus
  <2>2. /\ RowExists /\ row' = row
        /\ \E id, st : BeginFor(o, "complete_interrupt", s, id, st)
    BY <1>6 DEF Complete, RowExists, store
  <2> HIDE DEF s
  <2> QED
    BY <1>1, <2>1, <2>2, Begins DEF Labels
<1>7. CASE Reopen(o) \/ Delete(o)
  <2>1. Edit(row, row) /\ RowExists /\ row' = row
    BY <1>2, <1>7, EditLemma DEF Reopen, Delete, Reopenable, Terminal, RowExists, store
  <2> QED
    BY <1>1, <1>2, <1>7, <2>1, Begins DEF Reopen, Delete, Labels
<1> QED
  BY <1>3, <1>4, <1>5, <1>6, <1>7 DEF Commanded

LEMMA ContinueRows ==
  ASSUME TypeOK, AnswerInv, RowsInv, UnusedAreBlank, TurnsStay, NEW o \in Operators, Continue(o)
  PROVE  RowsInv'
<1>1. ~At(o, "request_upsert") /\ o \in Procs
  BY OperatorIsProc DEF RowsInv
<1>2. proc[o].row \in TaskRun
  BY <1>1, ProcRowType DEF TypeOK
<1>3. CASE ReplyMark(o) \/ ReplyReplied(o) \/ CompleteResolve(o) \/ ReopenResolve(o)
  <2>1. RequestsStay
    BY <1>3, MarkStays DEF ReplyMark, ReplyReplied, CompleteResolve, ReopenResolve
  <2> QED
    BY <1>1, <1>3, <2>1, GoesOn
    DEF ReplyMark, ReplyReplied, CompleteResolve, ReopenResolve, Labels
<1>4. CASE \/ ReplyRespond(o) \/ ReplyRespondFails(o) \/ StopInterrupt(o)
          \/ CompleteInterrupt(o) \/ ReopenAttach(o) \/ DeleteCleanup(o)
  <2>1. RequestsStay /\ row' = row
    BY <1>4, SameRequestsStay
    DEF ReplyRespond, ReplyRespondFails, StopInterrupt, CompleteInterrupt, ReopenAttach,
        DeleteCleanup, store
  <2>2. Return(o) \/ \E l \in Labels \ {"request_upsert"} : Goto(o, l)
    BY <1>4
    DEF ReplyRespond, ReplyRespondFails, StopInterrupt, CompleteInterrupt, ReopenAttach,
        DeleteCleanup, Fails, Labels
  <2> QED
    BY <1>1, <2>1, <2>2, GoesOn DEF Labels
<1>5. CASE ReopenTouch(o)
  BY <1>1, <1>5, SameRequestsStay, GoesOn DEF ReopenTouch, SaveThen, Labels
<1>6. CASE ReplyInput(o)
  <2>1. RequestsStay /\ row' = row
    BY <1>6, SameRequestsStay DEF ReplyInput, store
  <2> QED
    BY <1>1, <1>2, <1>6, <2>1, EditLemma, SendInputRows DEF ReplyInput, Labels
<1>7. CASE ReopenInput(o)
  <2> DEFINE r == [Resume(proc[o].row) EXCEPT !.question = FALSE, !.pending = 0]
             l == IF proc[o].req = 0 THEN "save" ELSE "reopen_resolve"
  <2>1. r \in TaskRun /\ Edit(proc[o].row, r) /\ r.thread = proc[o].row.thread
    BY <1>2, EditLemma DEF Resume, TaskRun, TaskStatus
  <2>2. l \in Labels \ {"request_upsert"} /\ SendInput(o, l, r)
    BY <1>7 DEF ReopenInput, Labels
  <2>3. RequestsStay /\ row' = row
    BY <1>7, SameRequestsStay DEF ReopenInput, store
  <2> HIDE DEF r, l
  <2> QED
    BY <1>1, <2>1, <2>2, <2>3, SendInputRows
<1>8. CASE DeleteRow(o)
  <2>1. RequestsStay
    BY <1>8, SameRequestsStay DEF DeleteRow
  <2>2. CASE ~RowExists
    BY <1>1, <1>8, <2>1, <2>2, GoesOn DEF DeleteRow, Labels
  <2>3. CASE RowExists
    <3>1. /\ row'.status = "deleted" /\ row'.thread = 0 /\ row'.turn = 0
          /\ row'.pending = 0 /\ UNCHANGED turn
      BY <1>8, <2>3 DEF DeleteRow, NoTask, codex
    <3>2. Steps(o, "delete_requests", proc[o].row)
      BY <1>1, <1>8, <2>3, StepsLemma DEF DeleteRow, Labels
    <3>3. \A q \in Procs : proc'[q].row = proc[q].row
      BY <3>2 DEF Steps
    <3>4. proc'[Loop] = proc[Loop] /\ \A q \in Operators : ~At(q, "request_upsert")'
      BY <1>1, <3>2, OperatorIsProc, LoopIsProc DEF RowsInv, Steps, At
    <3> QED
      BY <3>1, <3>3, <3>4 DEF RowsInv, Asked, OwnTurn, At
  <2> QED
    BY <2>2, <2>3
<1>9. CASE DeleteRequests(o)
  <2>1. row.status = "deleted" /\ row' = row /\ turn' = turn
    BY <1>9 DEF DeleteRequests, AnswerInv, codex
  <2>2. Steps(o, "idle", NoTask)
    BY <1>1, <1>9, StepsLemma DEF DeleteRequests, Labels
  <2>3. \A q \in Procs : proc'[q].row \in {proc[q].row, NoTask}
    BY <2>2 DEF Steps
  <2>4. proc'[Loop] = proc[Loop] /\ \A q \in Operators : ~At(q, "request_upsert")'
    BY <1>1, <2>2, OperatorIsProc, LoopIsProc DEF RowsInv, Steps, At
  <2> QED
    BY <2>1, <2>3, <2>4 DEF RowsInv, Asked, OwnTurn, NoTask, At
<1> QED
  BY <1>3, <1>4, <1>5, <1>6, <1>7, <1>8, <1>9 DEF Continue

(* A request that is handled again, or put to the user.                    *)
LEMMA ReconcileRequestRows ==
  ASSUME TypeOK, RowsInv, TurnsStay, RequestsStay, ~At(Loop, "request_upsert"),
         row' = row \/ UpdateTask(proc[Loop].row), NEW id, NEW st,
         ReconcileRequest(proc[Loop].row, id, st)
  PROVE  RowsInv'
<1>1. /\ proc[Loop].row \in TaskRun /\ Edit(proc[Loop].row, proc[Loop].row)
      /\ AskUser(proc[Loop].row) \in TaskRun /\ Edit(proc[Loop].row, AskUser(proc[Loop].row))
  BY LoopIsProc, ProcRowType, EditLemma, RowEditType DEF TypeOK
<1>2. row' = row \/ (RowExists /\ row' = proc[Loop].row)
  BY DEF UpdateTask
<1>3. CASE BeginFor(Loop, "request_read", proc[Loop].row, id, st)
  <2>1. Steps(Loop, "request_read", proc[Loop].row)
    BY <1>3, LoopIsProc, StepsLemma DEF Labels
  <2> QED
    BY <1>1, <1>2, <2>1, LoopIsProc, RowFrame DEF Labels
<1>4. CASE GotoWith(Loop, "save", AskUser(proc[Loop].row))
  BY <1>1, <1>4, LoopIsProc, GoesOnWith DEF Labels
<1>5. CASE Return(Loop)
  BY <1>5, LoopIsProc, GoesOn DEF Labels
<1> QED
  BY <1>3, <1>4, <1>5 DEF ReconcileRequest

(* A completed turn is supervised: it is a turn of the row's thread.       *)
LEMMA SuperviseRows ==
  ASSUME TypeOK, RowsInv, TurnsStay, RequestsStay, ~At(Loop, "request_upsert"), row' = row,
         NEW r \in TaskRun, r.thread # 0, NEW t \in Turns, turn[t].thread = r.thread,
         Edit(proc[Loop].row, r) \/ (RowExists /\ Edit(row, r)),
         Supervise(r, t)
  PROVE  RowsInv'
<1> DEFINE s == [r EXCEPT !.turn = t]
<1>1. Steps(Loop, "turn_decide", s)
  BY LoopIsProc DEF TypeOK, Supervise, Steps, Idle
<1>2. /\ s \in TaskRun /\ s.thread = r.thread /\ s.turn = t
      /\ s.status = r.status /\ s.question = r.question /\ s.pending = r.pending
  BY ZenonT(120), RowEditType DEF TaskRun
<1> HIDE DEF s
<1>3. OwnsNext(s)
  BY <1>2, NamesAreNotEmpty DEF TurnsStay, OwnsNext
<1>4. Edit(proc[Loop].row, s) \/ (RowExists /\ Edit(row, s))
  BY <1>2, <1>3 DEF Edit, Asked
<1> QED
  BY <1>1, <1>2, <1>4, LoopIsProc, RowFrame DEF Labels

LEMMA LoopHandlersRows ==
  ASSUME TypeOK, AnswerInv, RowsInv, UnusedAreBlank, TurnsStay, LoopHandlers
  PROVE  RowsInv'
<1>1. Loop \in Procs /\ proc[Loop].row \in TaskRun /\ row \in TaskRun
  BY LoopIsProc, ProcRowType DEF TypeOK
<1>2. CASE \/ RequestApproved \/ RequestUndecided \/ AutoRespondFails \/ TurnUndecided
  BY <1>1, <1>2, GoesOn, SameRequestsStay
  DEF RequestApproved, RequestUndecided, AutoRespondFails, TurnUndecided, Fails, At, Labels, store
<1>3. CASE AutoMark \/ AutoReplied
  <2>1. RequestsStay /\ ~At(Loop, "request_upsert")
    BY <1>3, MarkStays DEF AutoMark, AutoReplied, At
  <2> QED
    BY <1>1, <1>3, <2>1, GoesOn DEF AutoMark, AutoReplied, Labels
<1>4. CASE RequestSave \/ AutoSave \/ ResumeSave
  BY <1>1, <1>4, GoesOn, SameRequestsStay
  DEF RequestSave, AutoSave, ResumeSave, SaveThen, At, Labels
<1>5. ASSUME NEW s \in TaskRun,
             NEW l \in {"save", "auto_save", "request_decide", "resume_attach", "resume_save",
                       "reconcile"},
             GotoWith(Loop, l, s), Edit(proc[Loop].row, s) \/ (RowExists /\ Edit(row, s)),
             ~At(Loop, "request_upsert"),
             row' = row \/ UpdateTask(proc[Loop].row), RequestsStay
      PROVE  RowsInv'
  BY <1>1, <1>5, GoesOnWith DEF Labels
<1>6. /\ AskUser(proc[Loop].row) \in TaskRun /\ Edit(proc[Loop].row, AskUser(proc[Loop].row))
      /\ Resume(proc[Loop].row) \in TaskRun /\ Edit(proc[Loop].row, Resume(proc[Loop].row))
      /\ ClearPending(proc[Loop].row) \in TaskRun
      /\ Edit(proc[Loop].row, ClearPending(proc[Loop].row))
      /\ Edit(proc[Loop].row, proc[Loop].row) /\ Edit(row, row)
  BY <1>1, EditLemma, RowEditType
<1>7. CASE ResolvedMark
  <2>1. RequestsStay /\ ~At(Loop, "request_upsert") /\ row' = row
    BY <1>7, MarkStays DEF ResolvedMark, At
  <2> QED
    BY <1>1, <1>5, <1>6, <1>7, <2>1, GoesOn DEF ResolvedMark, Labels
<1>8. CASE RequestEscalated \/ AutoRespond
  BY <1>5, <1>6, <1>8, SameRequestsStay DEF RequestEscalated, AutoRespond, At, store
<1>9. CASE ProgressWaiting
  <2>1. RequestsStay /\ ~At(Loop, "request_upsert") /\ UpdateTask(proc[Loop].row)
    BY <1>9, SameRequestsStay DEF ProgressWaiting, At
  <2> QED
    BY <1>1, <1>5, <1>6, <1>9, <2>1, GoesOn DEF ProgressWaiting, Labels
<1>10. CASE RequestUpsert
  <2>1. PICK id \in Requests : id = proc[Loop].req /\ proc[Loop].row.pending = id
    BY <1>10 DEF RequestUpsert, AnswerInv, RowsInv, At, Handling
  <2>2. /\ request'[id] # "absent"
        /\ \A r \in Requests : request'[r] = "absent" => request[r] = "absent"
    BY <1>10, <2>1 DEF RequestUpsert, AnswerInv, TypeOK
  <2>3. Steps(Loop, "request_save", proc[Loop].row) /\ UNCHANGED <<row, turn>>
    BY <1>1, <1>10, StepsLemma DEF RequestUpsert, Labels, codex
  <2>4. /\ \A q \in Procs : proc'[q].row = proc[q].row
        /\ \A q \in Procs \ {Loop} : proc'[q] = proc[q]
        /\ ~At(Loop, "request_upsert")'
    BY <2>3 DEF Steps, At
  <2>5. /\ \A q \in Operators : ~At(q, "request_upsert")'
        /\ \A q \in Procs \ {Loop} : ~At(q, "request_upsert")
    BY <2>4, OperatorIsProc DEF RowsInv, At, Procs
  <2>6. \A q \in Procs : proc[q].row.pending \in Requests \cup {0}
    BY ProcRowType, RowFieldType DEF TypeOK
  <2>7. row.pending \in Requests \cup {0}
    BY RowFieldType DEF TypeOK
  <2>8. (row.status # "deleted" => Recorded(row))'
    BY <2>2, <2>3, <2>7 DEF RowsInv, Recorded
  <2>9. ASSUME NEW q \in Procs, row.status # "deleted"
        PROVE  Recorded(proc[q].row)'
    <3>1. CASE q = Loop
      BY <2>1, <2>2, <2>4, <3>1 DEF Recorded
    <3>2. CASE q # Loop
      <4>1. request[proc[q].row.pending] = "absent" => proc[q].row.pending = 0
        BY <2>5, <2>9, <3>2 DEF RowsInv, Recorded
      <4> QED
        BY <2>2, <2>4, <2>6, <4>1 DEF Recorded
    <3> QED
      BY <3>1, <3>2
  <2> QED
    BY <2>3, <2>4, <2>5, <2>8, <2>9 DEF RowsInv, Asked, OwnTurn
<1>11. CASE RequestRead
  <2>1. /\ RequestsStay /\ ~At(Loop, "request_upsert") /\ row' = row
        /\ Return(Loop) \/ (RowExists /\ GotoWith(Loop, "request_decide", row))
    BY <1>11, SameRequestsStay DEF RequestRead, At, store
  <2> QED
    BY <1>1, <1>5, <1>6, <2>1, GoesOn DEF Labels
<1>12. CASE TurnDecided
  <2> DEFINE r == proc[Loop].row
  <2>1. /\ RequestsStay /\ ~At(Loop, "request_upsert") /\ row' = row
        /\ \/ Goto(Loop, "turn_input")
           \/ GotoWith(Loop, "save", AskUser(Handled(r)))
           \/ GotoWith(Loop, "save", Handled(r))
    BY <1>12, SameRequestsStay DEF TurnDecided, TurnVerdict, At, store
  <2>2. Handled(r) \in TaskRun /\ AskUser(Handled(r)) \in TaskRun
    BY <1>1, LoopIsProc, ProcRowType, RowEditType DEF Handled, TypeOK
  <2>3. Edit(r, Handled(r)) /\ Edit(r, AskUser(Handled(r)))
    BY <1>1, EditLemma
  <2> QED
    BY <1>1, <1>5, <2>1, <2>2, <2>3, GoesOn DEF Labels
<1>13. CASE TurnInput
  <2> DEFINE r == Handled(Resume(proc[Loop].row))
  <2>1. /\ RequestsStay /\ ~At(Loop, "request_upsert") /\ row' = row
        /\ SendInput(Loop, "save", r)
    BY <1>13, SameRequestsStay DEF TurnInput, At, store
  <2>2. r \in TaskRun /\ r.thread = proc[Loop].row.thread /\ Edit(proc[Loop].row, r)
    BY <1>1, LoopIsProc, ProcRowType, EditLemma
    DEF TypeOK, TaskRun, Resume, Handled, TaskStatus
  <2> HIDE DEF r
  <2> QED
    BY <1>1, <2>1, <2>2, SendInputRows DEF Labels
<1>14. CASE RecoverAttach
  <2> DEFINE s == [proc[Loop].row EXCEPT !.status = "failed"]
  <2>1. s \in TaskRun /\ Edit(proc[Loop].row, s)
    BY <1>1, EditLemma, RowEditType DEF TaskStatus
  <2>2. /\ RequestsStay /\ ~At(Loop, "request_upsert") /\ row' = row
        /\ \/ GotoWith(Loop, "save", Resume(proc[Loop].row)) \/ GotoWith(Loop, "save", s)
           \/ Return(Loop)
    BY <1>14, SameRequestsStay DEF RecoverAttach, Fails, At, store
  <2> HIDE DEF s
  <2> QED
    BY <1>1, <1>5, <1>6, <2>1, <2>2, GoesOn DEF Labels
<1>15. CASE ResumeRead
  <2>1. /\ RequestsStay /\ ~At(Loop, "request_upsert") /\ row' = row
        /\ \/ Return(Loop)
           \/ /\ row.status \notin {"none", "deleted"}
              /\ GotoWith(Loop, "resume_attach", row) \/ GotoWith(Loop, "reconcile", row)
    BY <1>15, SameRequestsStay DEF ResumeRead, RowExists, At, store
  <2> QED
    BY <1>1, <1>5, <1>6, <2>1, GoesOn DEF RowExists, Labels
<1>16. CASE ResumeAttach
  <2>1. /\ RequestsStay /\ ~At(Loop, "request_upsert") /\ row' = row
        /\ \/ Return(Loop)
           \/ GotoWith(Loop, "resume_save", Resume(proc[Loop].row))
           \/ GotoWith(Loop, "resume_save", proc[Loop].row)
    BY <1>16, SameRequestsStay DEF ResumeAttach, Fails, At, store
  <2> QED
    BY <1>1, <1>5, <1>6, <2>1, GoesOn DEF Labels
<1>17. CASE Reconcile
  <2> DEFINE r == proc[Loop].row
  <2>1. RequestsStay /\ ~At(Loop, "request_upsert") /\ row' = row
    BY <1>17, SameRequestsStay DEF Reconcile, At, store
  <2>2. \/ Return(Loop)
        \/ \E id, st : ReconcileRequest(r, id, st)
        \/ ReconcileTurn(r)
        \/ \E id \in First(OpenRows) : \E st :
             BeginFor(Loop, "reconcile_save", [r EXCEPT !.pending = id], id, st)
    BY <1>17 DEF Reconcile
  <2>3. CASE Return(Loop)
    BY <1>1, <2>1, <2>3, GoesOn DEF Labels
  <2>4. CASE \E id, st : ReconcileRequest(r, id, st)
    BY <2>1, <2>4, ReconcileRequestRows
  <2>5. CASE ReconcileTurn(r)
    <3>1. Return(Loop) \/ \E t \in Turns : /\ r.thread \in watched /\ turn[t].thread = r.thread
                                          /\ Supervise(r, t)
      BY <2>5 DEF ReconcileTurn, IsLastTurn
    <3>2. r.thread \in watched => r.thread # 0
      BY NamesAreNotEmpty DEF TypeOK
    <3>3. r \in TaskRun /\ Edit(r, r)
      BY <1>1, EditLemma
    <3> QED
      BY <1>1, <2>1, <2>3, <3>1, <3>2, <3>3, SuperviseRows
  <2>6. ASSUME NEW id \in First(OpenRows), NEW st,
               BeginFor(Loop, "reconcile_save", [r EXCEPT !.pending = id], id, st)
        PROVE  RowsInv'
    <3> DEFINE s == [r EXCEPT !.pending = id]
    <3>1. id \in Requests /\ request[id] # "absent"
      BY DEF First, OpenRows, Open
    <3>2. /\ s \in TaskRun /\ s.pending = id /\ s.thread = r.thread /\ s.turn = r.turn
          /\ s.status = r.status /\ s.question = r.question
      BY ZenonT(120), <1>1, <3>1, RowEditType DEF TaskRun
    <3>3. Steps(Loop, "reconcile_save", s)
      BY <1>1, <2>6, StepsLemma DEF Labels
    <3> HIDE DEF s
    <3>4. UNCHANGED <<request, row, turn>>
      BY <1>17 DEF Reconcile, store, codex
    <3>5. /\ proc'[Loop].pc = "reconcile_save" /\ proc'[Loop].row = s
          /\ \A q \in Procs \ {Loop} : proc'[q] = proc[q]
      BY <3>3 DEF Steps
    <3>6. \A q \in Operators : ~At(q, "request_upsert")'
      BY <3>5, OperatorIsProc DEF RowsInv, At
    <3>7. /\ Asked(proc[Loop].row)' /\ OwnTurn(proc[Loop].row)' /\ Recorded(proc[Loop].row)'
          /\ proc'[Loop].row.status # "deleted" /\ ~At(Loop, "request_upsert")'
      BY <1>1, <3>1, <3>2, <3>4, <3>5 DEF RowsInv, Asked, OwnTurn, Recorded, At
    <3>8. \A q \in Procs \ {Loop} :
            /\ Asked(proc[q].row)' /\ OwnTurn(proc[q].row)'
            /\ proc'[q].row.status # "deleted"
            /\ row.status # "deleted" /\ ~At(q, "request_upsert")' => Recorded(proc[q].row)'
      BY <3>4, <3>5 DEF RowsInv, Asked, OwnTurn, Recorded, At
    <3>9. /\ Asked(row)' /\ OwnTurn(row)'
          /\ (row.status = "deleted" => row.pending = 0)'
          /\ (row.status # "deleted" => Recorded(row))'
      BY <3>4 DEF RowsInv, Asked, OwnTurn, Recorded
    <3> QED
      BY <3>4, <3>6, <3>7, <3>8, <3>9 DEF RowsInv
  <2> QED
    BY <2>2, <2>3, <2>4, <2>5, <2>6
<1>18. CASE ReconcileSave
  <2>1. RequestsStay /\ ~At(Loop, "request_upsert") /\ UpdateTask(proc[Loop].row)
    BY <1>18, SameRequestsStay DEF ReconcileSave, At
  <2> QED
    BY <1>1, <1>18, <2>1, GoesOn, ReconcileRequestRows DEF ReconcileSave, Labels
<1> QED
  BY <1>2, <1>3, <1>4, <1>7, <1>8, <1>9, <1>10, <1>11, <1>12, <1>13, <1>14, <1>15, <1>16,
     <1>17, <1>18
  DEF LoopHandlers

LEMMA LoopReceivesRows ==
  ASSUME TypeOK, RowsInv, EventsInv, TurnsStay, LoopReceives
  PROVE  RowsInv'
<1>1. RequestsStay /\ UNCHANGED <<row, request, turn>> /\ ~At(Loop, "request_upsert")
  BY SameRequestsStay
  DEF LoopReceives, IgnoreUnknownThread, ReceiveResolved, IgnoreClosedRequest, ReceiveRequest,
      IgnoreTurnCompleted, ReceiveTurnCompleted, Receive, At, store, codex
<1>2. /\ Loop \in Procs /\ row \in TaskRun /\ Edit(row, row)
  BY LoopIsProc, EditLemma DEF TypeOK
<1>3. CASE IgnoreUnknownThread \/ IgnoreClosedRequest \/ IgnoreTurnCompleted
  BY <1>1, <1>3, RowQuiet DEF IgnoreUnknownThread, IgnoreClosedRequest, IgnoreTurnCompleted
<1>4. CASE ReceiveResolved
  <2>1. RowExists /\ \E id, st : BeginFor(Loop, "resolved_mark", row, id, st)
    BY <1>4 DEF ReceiveResolved, OfTask
  <2> QED
    BY <1>1, <1>2, <2>1, Begins DEF Labels
<1>5. CASE ReceiveRequest
  <2>1. PICK id, st :
          /\ id \in Requests
          /\ BeginFor(Loop, "request_upsert", [row EXCEPT !.pending = id], id, st)
    BY <1>5, ReceiveType DEF ReceiveRequest
  <2> DEFINE s == [row EXCEPT !.pending = id]
  <2>2. /\ s \in TaskRun /\ s.pending = id /\ s.thread = row.thread /\ s.turn = row.turn
        /\ s.status = row.status /\ s.question = row.question
    BY ZenonT(120), <1>2, <2>1, RowEditType DEF TaskRun
  <2>3. Steps(Loop, "request_upsert", s) /\ proc'[Loop].req = id
    BY <1>2, <2>1, StepsLemma DEF BeginFor, TypeOK, Idle, Labels
  <2>4. RowExists
    BY <1>5 DEF ReceiveRequest, OfTask
  <2> HIDE DEF s
  <2>5. /\ proc'[Loop].pc = "request_upsert" /\ proc'[Loop].row = s
        /\ \A q \in Procs \ {Loop} : proc'[q] = proc[q]
    BY <2>3 DEF Steps
  <2>6. \A q \in Operators : ~At(q, "request_upsert")'
    BY <2>5, OperatorIsProc DEF RowsInv, At
  <2>7. /\ Asked(proc[Loop].row)' /\ OwnTurn(proc[Loop].row)'
        /\ proc'[Loop].row.status # "deleted" /\ At(Loop, "request_upsert")'
        /\ proc'[Loop].row.pending = proc'[Loop].req
    BY <1>1, <2>2, <2>3, <2>4, <2>5 DEF RowsInv, RowExists, Asked, OwnTurn, At
  <2>8. \A q \in Procs \ {Loop} :
          /\ Asked(proc[q].row)' /\ OwnTurn(proc[q].row)'
          /\ proc'[q].row.status # "deleted"
          /\ row.status # "deleted" /\ ~At(q, "request_upsert")' => Recorded(proc[q].row)'
    BY <1>1, <2>5 DEF RowsInv, Asked, OwnTurn, Recorded, At
  <2>9. /\ Asked(row)' /\ OwnTurn(row)'
        /\ (row.status = "deleted" => row.pending = 0)'
        /\ (row.status # "deleted" => Recorded(row))'
    BY <1>1 DEF RowsInv, Asked, OwnTurn, Recorded
  <2> QED
    BY <1>1, <2>6, <2>7, <2>8, <2>9 DEF RowsInv
<1>6. CASE ReceiveTurnCompleted
  <2> DEFINE e == Head(events)
  <2>1. e.kind = "turn_completed" /\ RowExists /\ row.thread = e.thread /\ Supervise(row, e.id)
    BY <1>6 DEF ReceiveTurnCompleted, OfTask
  <2>2. e = events[1] /\ 1 \in 1 .. Len(events) /\ e \in Event
    BY <1>6 DEF ReceiveTurnCompleted, Receive, TypeOK
  <2>3. e.id \in Turns /\ e.thread \in Threads /\ turn[e.id].thread = e.thread
    BY <2>1, <2>2 DEF EventsInv, Event
  <2>4. row.thread # 0
    BY <2>1, <2>3, NamesAreNotEmpty
  <2> HIDE DEF e
  <2> QED
    BY <1>1, <1>2, <2>1, <2>3, <2>4, SuperviseRows
<1> QED
  BY <1>3, <1>4, <1>5, <1>6 DEF LoopReceives

LEMMA LoopTicksRows ==
  ASSUME TypeOK, RowsInv, TurnsStay, LoopTicks
  PROVE  RowsInv'
<1>1. /\ RequestsStay /\ row' = row /\ RowExists /\ ~At(Loop, "request_upsert")
      /\ Loop \in Procs /\ row \in TaskRun
  BY SameRequestsStay, LoopIsProc
  DEF LoopTicks, TickStart, TickProgress, TickRecover, RowExists, At, store, TypeOK
<1>2. \A st \in {"starting", "recovering"} :
        [row EXCEPT !.status = st] \in TaskRun /\ Edit(row, [row EXCEPT !.status = st])
  BY <1>1, EditLemma, RowEditType DEF TaskStatus
<1>3. Edit(row, row)
  BY <1>1, EditLemma
<1>4. CASE TickStart
  BY <1>1, <1>2, <1>4, Begins DEF TickStart, Labels
<1>5. CASE TickProgress
  BY <1>1, <1>2, <1>3, <1>5, Begins DEF TickProgress, Labels
<1>6. CASE TickRecover
  BY <1>1, <1>3, <1>6, Begins DEF TickRecover, Labels
<1> QED
  BY <1>4, <1>5, <1>6 DEF LoopTicks

LEMMA CrashRows ==
  ASSUME TypeOK, RowsInv, Crash
  PROVE  RowsInv'
<1>1. UNCHANGED <<row, request, turn>>
  BY DEF Crash, store, codex
<1>2. \A p \in Procs : proc'[p].row = NoTask /\ proc'[p].pc \in {"resume", "idle"}
  BY DEF Crash, Idle
<1> QED
  BY <1>1, <1>2, LoopIsProc, OperatorIsProc
  DEF RowsInv, Asked, OwnTurn, Recorded, NoTask, At

LEMMA RowsStep ==
  ASSUME TypeOK, AnswerInv, RowsInv, UnusedAreBlank, EventsInv, TurnsStay, [Next]_vars
  PROVE  RowsInv'
<1>1. CASE \E o \in Operators : Commanded(o) \/ Continue(o)
  BY <1>1, CommandedRows, ContinueRows
<1>2. CASE \E p \in Procs : StartSteps(p) \/ Save(p)
  BY <1>2, StartStepsRows
<1>3. CASE LoopHandlers
  BY <1>3, LoopHandlersRows
<1>4. CASE LoopReceives
  BY <1>4, LoopReceivesRows
<1>5. CASE LoopTicks
  BY <1>5, LoopTicksRows
<1>6. CASE CodexSteps
  BY <1>6, RowQuiet
  DEF CodexSteps, RaiseRequest, CompleteTurn, ClearRequest, ReplayRequest, LoseThread, store
<1>7. CASE Crash
  BY <1>7, CrashRows
<1>8. CASE UNCHANGED vars
  BY <1>8, RowQuiet DEF vars
<1> QED
  BY <1>1, <1>2, <1>3, <1>4, <1>5, <1>6, <1>7, <1>8 DEF Next

-------------------------------------------------------------------------------
LEMMA RowsInvariant == Spec => [](RowsInv /\ UnusedAreBlank /\ EventsInv)
<1>1. Init => RowsInv /\ UnusedAreBlank /\ EventsInv
  <2> SUFFICES ASSUME Init PROVE RowsInv /\ UnusedAreBlank /\ EventsInv
    OBVIOUS
  <2>1. \A p \in Procs : proc[p].row = NoTask /\ proc[p].pc \in {"resume", "idle"}
    BY DEF Init, Idle
  <2>2. row = NoTask /\ \A p \in Procs : ~At(p, "request_upsert")
    BY <2>1 DEF Init, At
  <2>3. Asked(NoTask) /\ OwnTurn(NoTask) /\ Recorded(NoTask) /\ NoTask.status # "deleted"
    BY DEF Asked, OwnTurn, Recorded, NoTask
  <2>4. RowsInv
    BY <2>1, <2>2, <2>3, LoopIsProc, OperatorIsProc DEF RowsInv
  <2>5. UnusedAreBlank /\ events = <<>>
    BY DEF Init, UnusedAreBlank
  <2> QED
    BY <2>4, <2>5 DEF EventsInv
<1>2. /\ TypeOK /\ AnswerInv
      /\ RowsInv /\ UnusedAreBlank /\ EventsInv /\ [Next]_vars
      => (RowsInv /\ UnusedAreBlank /\ EventsInv)'
  BY TurnsStep, EventsStep, RowsStep
<1> QED
  BY <1>1, <1>2, TypeCorrect, AnswerInvariant, PTL DEF Spec

(* A task that waits for the user holds the question it asked, whatever    *)
(* stale copies any number of operators and the loop write over its row.   *)
THEOREM WaitingIsAnswerable == Spec => []WaitingHasQuestion
<1>1. RowsInv => WaitingHasQuestion
  BY DEF RowsInv, Asked, WaitingHasQuestion
<1> QED
  BY <1>1, RowsInvariant, PTL

(* The request a row points to is on record, so a restart at any moment    *)
(* finds it.                                                               *)
THEOREM PointersAreRecorded == Spec => []PendingIsRecorded
<1>1. RowsInv => PendingIsRecorded
  BY DEF RowsInv, Recorded, PendingIsRecorded
<1> QED
  BY <1>1, RowsInvariant, PTL

(* The turn a row names is a turn of the thread it names, over restarts    *)
(* and however many threads and turns were started.                        *)
THEOREM TurnsAreOwn == Spec => []TurnIsOfThread
<1>1. RowsInv => TurnIsOfThread
  BY DEF RowsInv, OwnTurn, TurnIsOfThread
<1> QED
  BY <1>1, RowsInvariant, PTL

-------------------------------------------------------------------------------
(* A handler that still holds a copy of a deleted task's row does not      *)
(* bring the task back: every write of a copy is an UPDATE, and the only   *)
(* insert is that of StartTask.                                            *)
THEOREM DeletedTasksStayDeleted == Spec => DeletedStaysDeleted
<1>1. [Next]_vars => [row.status = "deleted" => row'.status = "deleted"]_vars
  <2> SUFFICES ASSUME [Next]_vars, row.status = "deleted"
               PROVE  row'.status = "deleted"
    OBVIOUS
  <2>1. ASSUME NEW r, UpdateTask(r)
        PROVE  row' = row
    BY <2>1 DEF UpdateTask, RowExists
  <2>2. ASSUME NEW o \in Operators, Commanded(o)
        PROVE  row' = row
    BY <2>2 DEF Commanded, StartTask, Reply, Stop, Complete, Reopen, Delete, store
  <2>3. ASSUME NEW o \in Operators, Continue(o)
        PROVE  row' = row
    BY <2>1, <2>3
    DEF Continue, ReplyMark, ReplyRespond, ReplyRespondFails, ReplyReplied, ReplyInput,
        StopInterrupt, CompleteInterrupt, CompleteResolve, ReopenAttach, ReopenTouch, SaveThen,
        ReopenInput, ReopenResolve, DeleteCleanup, DeleteRow, DeleteRequests, RowExists, store
  <2>4. ASSUME NEW p \in Procs, StartSteps(p) \/ Save(p)
        PROVE  row' = row
    BY <2>1, <2>4
    DEF StartSteps, StartSave, SaveThen, StartSession, StartSessionHalfway, StartSessionFails,
        StartSessionTimeout, Save, store
  <2>5. CASE LoopHandlers
    BY <2>1, <2>5
    DEF LoopHandlers, ResolvedMark, RequestUpsert, RequestSave, RequestRead, RequestApproved,
        RequestEscalated, RequestUndecided, AutoMark, AutoRespond, AutoRespondFails, AutoSave,
        AutoReplied, TurnDecided, TurnUndecided, TurnInput, ProgressWaiting, RecoverAttach,
        ResumeRead, ResumeAttach, ResumeSave, Reconcile, ReconcileSave, SaveThen, store
  <2>6. CASE LoopReceives \/ LoopTicks \/ CodexSteps \/ Crash
    BY <2>6
    DEF LoopReceives, IgnoreUnknownThread, ReceiveResolved, IgnoreClosedRequest, ReceiveRequest,
        IgnoreTurnCompleted, ReceiveTurnCompleted, LoopTicks, TickStart, TickProgress,
        TickRecover, CodexSteps, RaiseRequest, CompleteTurn, ClearRequest, ReplayRequest,
        LoseThread, Crash, store
  <2>7. CASE UNCHANGED vars
    BY <2>7 DEF vars
  <2> QED
    BY <2>2, <2>3, <2>4, <2>5, <2>6, <2>7 DEF Next
<1> QED
  BY <1>1, PTL DEF Spec, DeletedStaysDeleted
===============================================================================
