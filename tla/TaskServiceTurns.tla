--------------------------- MODULE TaskServiceTurns ---------------------------
(***************************************************************************)
(* The loop takes up a turn it has continued only for the event that       *)
(* reports the turn, whatever the operators do.                            *)
(*                                                                         *)
(* A turn can reach the loop twice: as an event, and as the last turn of   *)
(* its thread in the reconciliation of a restart.  What the loop goes by   *)
(* is LastCompletedTurnID in the row, and any handler that has read the    *)
(* row before overwrites it, so that nothing is assumed of the row here.   *)
(* Two facts are left.  A turn that was continued is not the last of its   *)
(* thread any more, so that no restart finds it again.  And codex reports  *)
(* a turn once, so that its event can bring it back only once.             *)
(***************************************************************************)
EXTENDS TaskService_proofs

(* A turn is done, and its completion is on the queue.                     *)
Done(t) == turn[t].state \in {"completed", "aborted"}
Completion(i) == events[i].kind = "turn_completed"
Announced(t) == \E i \in 1 .. Len(events) : Completion(i) /\ events[i].id = t

(* Turns are used in their order, on threads that exist, and only the last *)
(* of a thread is active.                                                  *)
TurnsInOrder ==
  /\ \A t, u \in Turns : turn[t].state = "unused" /\ t <= u => turn[u].state = "unused"
  /\ \A t \in Turns : turn[t].state # "unused" =>
       turn[t].thread \in Threads /\ thread[turn[t].thread] # "unused"
  /\ \A t \in Turns : turn[t].state = "active" => IsLastTurn(t, turn[t].thread)

(* The queue has each completion once, of a turn that is done.             *)
AnnouncedOnce ==
  /\ \A i \in 1 .. Len(events) : Completion(i) => Done(events[i].id)
  /\ \A i, j \in 1 .. Len(events) :
       Completion(i) /\ Completion(j) /\ events[i].id = events[j].id => i = j

(* A turn that was continued is done, and was followed by another.         *)
Continued ==
  \A t \in Turns : turnSent[t] > 0 =>
    Done(t) /\ \E u \in Turns : u > t /\ turn[u].thread = turn[t].thread

(* The turn that is supervised is done, and the loop's copy of the row     *)
(* names it and its thread.                                                *)
Supervises == {"turn_decide", "turn_input"}
Supervised(t) == proc[Loop].pc \in Supervises /\ proc[Loop].turn = t
Supervising ==
  proc[Loop].pc \in Supervises => \E t \in Turns :
    /\ proc[Loop].turn = t /\ Done(t)
    /\ proc[Loop].row.thread = turn[t].thread /\ proc[Loop].row.turn = t

(* A turn that was continued once is not both on the queue and supervised, *)
(* and one that was continued again is neither.                            *)
Counted ==
  \A t \in Turns :
    /\ turnSent[t] = 1 => ~(Announced(t) /\ Supervised(t))
    /\ turnSent[t] = 2 => ~Announced(t) /\ ~Supervised(t)

(* The inductive invariant.                                                *)
AgainInv == TurnsInOrder /\ AnnouncedOnce /\ Continued /\ Supervising /\ Counted

-------------------------------------------------------------------------------
(* What every step keeps of the turns that are done and of their events.   *)
Kept ==
  /\ TurnsInOrder' /\ AnnouncedOnce'
  /\ \A t \in Turns : Done(t) => Done(t)' /\ (Announced(t)' => Announced(t))

LEMMA EventTypes ==
  ASSUME TypeOK, EventsInv
  PROVE  /\ events \in Seq(Event)
         /\ \A i \in 1 .. Len(events) : Completion(i) =>
              /\ events[i].id \in Turns /\ events[i].thread \in Threads
              /\ turn[events[i].id].thread = events[i].thread
<1>1. \A i \in 1 .. Len(events) :
        /\ events[i].thread \in Threads
        /\ events[i].kind = "turn_completed" => events[i].id \in Turns
  BY DEF TypeOK, Event
<1>. QED BY <1>1 DEF EventsInv, Completion, TypeOK

(* The property and the invariant speak of the same events.                *)
LEMMA ReportedIsAnnounced ==
  ASSUME TypeOK, NEW t
  PROVE  Reported(t) <=> Announced(t)
<1>1. DOMAIN events = 1 .. Len(events)
  BY DEF TypeOK
<1>. QED BY <1>1 DEF Reported, Announced, Completion

(* Turns end or are interrupted, and their completion is put on the queue. *)
LEMMA CodexKeeps ==
  ASSUME TypeOK, EventsInv, TurnsInOrder, AnnouncedOnce,
         \A t \in Turns :
           /\ turn'[t].thread = turn[t].thread
           /\ turn'[t].state = "unused" <=> turn[t].state = "unused"
           /\ turn'[t].state = "active" => turn[t].state = "active"
           /\ Done(t) => Done(t)',
         \A th \in Threads : thread[th] # "unused" => thread'[th] # "unused",
         \/ events' = events
         \/ \E e \in Event :
              /\ events' = Append(events, e)
              /\ e.kind = "turn_completed" => ~Done(e.id) /\ Done(e.id)'
  PROVE  Kept
<1>1. \A t \in Turns : \A th : IsLastTurn(t, th) <=> IsLastTurn(t, th)'
  BY DEF IsLastTurn
<1>2. TurnsInOrder'
  <2>1. \A t \in Turns : turn'[t].state = "active" => IsLastTurn(t, turn[t].thread)'
    BY <1>1 DEF TurnsInOrder
  <2>2. \A t \in Turns : turn'[t].state # "unused" => turn'[t].thread \in Threads /\ thread'[turn'[t].thread] # "unused"
    BY DEF TurnsInOrder
  <2>3. \A t, u \in Turns : turn'[t].state = "unused" /\ t <= u => turn'[u].state = "unused"
    BY DEF TurnsInOrder
  <2>. QED BY <2>1, <2>2, <2>3 DEF TurnsInOrder
<1>3. /\ \A i \in 1 .. Len(events) : Completion(i) => events[i].id \in Turns
      /\ events \in Seq(Event)
  BY EventTypes
<1>4. CASE events' = events
  BY <1>2, <1>3, <1>4 DEF Kept, AnnouncedOnce, Announced, Completion
<1>5. CASE \E e \in Event :
             /\ events' = Append(events, e)
             /\ e.kind = "turn_completed" => ~Done(e.id) /\ Done(e.id)'
  <2>1. PICK e \in Event :
             /\ events' = Append(events, e)
             /\ e.kind = "turn_completed" => ~Done(e.id) /\ Done(e.id)'
    BY <1>5
  <2>. PICK n \in Nat : n = Len(events) + 1
    BY <1>3
  <2>2. /\ events'[n] = e /\ Len(events) \in Nat
        /\ \A i \in 1 .. Len(events) : events'[i] = events[i]
        /\ \A i \in 1 .. Len(events') : i \in 1 .. Len(events) \/ i = n
    BY <1>3, <2>1
  <2>3. \A i \in 1 .. Len(events) : Completion(i)' <=> Completion(i)
    BY <2>2 DEF Completion
  <2>4. Completion(n)' => ~Done(e.id) /\ Done(e.id)'
    BY <2>1, <2>2 DEF Completion
  <2>5. AnnouncedOnce'
    <3>1. \A i \in 1 .. Len(events') : Completion(i)' => Done(events[i].id)'
      BY <1>3, <2>2, <2>3, <2>4 DEF AnnouncedOnce
    <3>2. ASSUME NEW i \in 1 .. Len(events'), NEW j \in 1 .. Len(events'),
                 Completion(i)', Completion(j)', events'[i].id = events'[j].id
          PROVE  i = j
      <4>1. CASE i \in 1 .. Len(events) /\ j \in 1 .. Len(events)
        BY <2>2, <2>3, <3>2, <4>1 DEF AnnouncedOnce
      <4>2. CASE i = n /\ j \in 1 .. Len(events)
        BY <2>2, <2>3, <2>4, <3>2, <4>2 DEF AnnouncedOnce
      <4>3. CASE j = n /\ i \in 1 .. Len(events)
        BY <2>2, <2>3, <2>4, <3>2, <4>3 DEF AnnouncedOnce
      <4>. QED BY <2>2, <4>1, <4>2, <4>3
    <3>. QED BY <3>1, <3>2 DEF AnnouncedOnce
  <2>6. ASSUME NEW t \in Turns, Done(t), Announced(t)' PROVE Announced(t)
    BY <2>2, <2>3, <2>4, <2>6 DEF Announced
  <2>. QED BY <1>2, <2>5, <2>6 DEF Kept
<1>. QED BY <1>4, <1>5

(* The loop takes an event from the queue, or the queue is lost.           *)
LEMMA ReceiptKeeps ==
  ASSUME TypeOK, EventsInv, TurnsInOrder, AnnouncedOnce, UNCHANGED <<turn, thread>>,
         events' = <<>> \/ (events # <<>> /\ events' = Tail(events))
  PROVE  Kept
<1>1. TurnsInOrder' /\ \A t \in Turns : Done(t) => Done(t)'
  BY DEF TurnsInOrder, IsLastTurn, Done
<1>2. /\ \A i \in 1 .. Len(events) : Completion(i) => events[i].id \in Turns
      /\ events \in Seq(Event)
  BY EventTypes
<1>3. CASE events' = <<>>
  BY <1>1, <1>3 DEF Kept, AnnouncedOnce, Announced
<1>4. CASE events # <<>> /\ events' = Tail(events)
  <2>1. \A i \in 1 .. Len(events') :
          i + 1 \in 1 .. Len(events) /\ events'[i] = events[i + 1] /\ (Completion(i)' <=> Completion(i + 1))
    BY <1>2, <1>4 DEF Completion
  <2>2. AnnouncedOnce'
    <3>1. \A i \in 1 .. Len(events') : Completion(i)' => Done(events[i].id)'
      BY <1>1, <1>2, <2>1 DEF AnnouncedOnce
    <3>2. ASSUME NEW i \in 1 .. Len(events'), NEW j \in 1 .. Len(events'),
                 Completion(i)', Completion(j)', events'[i].id = events'[j].id
          PROVE  i = j
      <4>1. i + 1 = j + 1
        BY <2>1, <3>2 DEF AnnouncedOnce
      <4>. QED BY <4>1
    <3>. QED BY <3>1, <3>2 DEF AnnouncedOnce
  <2>3. \A t \in Turns : Announced(t)' => Announced(t)
    BY <2>1 DEF Announced
  <2>. QED BY <1>1, <2>2, <2>3 DEF Kept
<1>. QED BY <1>3, <1>4

(* A new turn of a thread that has none active.                            *)
LEMMA StartKeeps ==
  ASSUME TypeOK, UnusedAreBlank, EventsInv, TurnsInOrder, AnnouncedOnce,
         NEW t \in First(UnusedTurns), NEW th \in Threads, StartTurn(t, th), ActiveTurns(th) = {},
         thread'[th] # "unused",
         \A h \in Threads : thread[h] # "unused" => thread'[h] # "unused",
         events' = events
  PROVE  /\ Kept
         /\ t \in Turns /\ turn'[t].thread = th /\ \A u \in Turns : Done(u) => u < t
<1>1. t \in Turns /\ turn[t].state = "unused" /\ \A u \in Turns : turn[u].state = "unused" => t <= u
  BY DEF First, UnusedTurns
<1>2. /\ turn'[t].state = "active" /\ turn'[t].thread = th
      /\ \A u \in Turns \ {t} : turn'[u] = turn[u]
  BY <1>1 DEF StartTurn, TypeOK
<1>3. \A u \in Turns : turn[u].state # "unused" => u < t
  BY <1>1 DEF TurnsInOrder, Turns
<1>4. \A u \in Turns : turn[u].thread # 0 => u < t
  BY <1>3 DEF UnusedAreBlank
<1>5. TurnsInOrder'
  <2>1. \A u, v \in Turns : turn'[u].state = "unused" /\ u <= v => turn'[v].state = "unused"
    BY <1>1, <1>2, <1>3 DEF TurnsInOrder, Turns
  <2>2. \A u \in Turns : turn'[u].state # "unused" => turn'[u].thread \in Threads /\ thread'[turn'[u].thread] # "unused"
    BY <1>2 DEF TurnsInOrder
  <2>3. IsLastTurn(t, th)'
    <3>1. \A u \in Turns : turn'[u].thread = th => u = t \/ u < t
      BY <1>2, <1>4, NamesAreNotEmpty
    <3>. QED BY <1>1, <1>2, <3>1 DEF IsLastTurn, Turns
  <2>4. ASSUME NEW u \in Turns \ {t}, turn'[u].state = "active" PROVE IsLastTurn(u, turn[u].thread)'
    <3>1. turn[u].thread # th /\ IsLastTurn(u, turn[u].thread)
      BY <1>2, <2>4 DEF ActiveTurns, TurnsInOrder
    <3>. QED BY <1>2, <3>1 DEF IsLastTurn
  <2>. QED BY <1>2, <2>1, <2>2, <2>3, <2>4 DEF TurnsInOrder
<1>6. \A i \in 1 .. Len(events) : Completion(i) => events[i].id \in Turns
  BY EventTypes
<1>7. \A u \in Turns : Done(u) => u # t /\ Done(u)' /\ u < t
  BY <1>1, <1>2, <1>3 DEF Done
<1>8. AnnouncedOnce'
  BY <1>6, <1>7 DEF AnnouncedOnce, Completion
<1>. QED BY <1>1, <1>2, <1>5, <1>7, <1>8 DEF Kept, Announced, Completion

LEMMA SameKeeps ==
  ASSUME TypeOK, EventsInv, TurnsInOrder, AnnouncedOnce, UNCHANGED <<turn, events>>,
         \A th \in Threads : thread[th] # "unused" => thread'[th] # "unused"
  PROVE  Kept
<1>1. \A t \in Turns : Done(t) => Done(t)'
  BY DEF Done
<1>. QED BY <1>1, CodexKeeps

LEMMA NotifyKeeps ==
  ASSUME TypeOK, EventsInv, TurnsInOrder, AnnouncedOnce, UNCHANGED <<turn, thread>>,
         NEW k \in {"request", "resolved"}, NEW r \in Requests, NEW th,
         \/ Notify([kind |-> k, thread |-> th, id |-> r])
         \/ Announce([kind |-> k, thread |-> th, id |-> r])
  PROVE  Kept
<1>. DEFINE e == [kind |-> k, thread |-> th, id |-> r]
<1>1. events' = events \/ (e.thread \in watched /\ events' = Append(events, e))
  BY DEF Announce, Notify
<1>2. e.kind # "turn_completed" /\ (e.thread \in watched => e \in Event)
  BY DEF TypeOK, Event
<1>3. \A t \in Turns : Done(t) => Done(t)'
  BY DEF Done
<1>. HIDE DEF e
<1>. QED BY <1>1, <1>2, <1>3, CodexKeeps

LEMMA RespondKeeps ==
  ASSUME TypeOK, EventsInv, TurnsInOrder, AnnouncedOnce, UNCHANGED <<turn, thread>>,
         NEW r \in Requests \cup {0}, Respond(r)
  PROVE  Kept
<1>1. CASE UNCHANGED <<asked, events, seen>>
  BY <1>1, SameKeeps
<1>2. CASE Notify([kind |-> "resolved", thread |-> turn[asked[r].turn].thread, id |-> r])
  <2>1. CASE r \in Requests
    BY <1>2, <2>1, NotifyKeeps
  <2>2. CASE r \notin Requests
    <3>1. r \notin seen
      BY <2>2 DEF TypeOK
    <3>2. events' = events
      BY <1>2, <3>1 DEF Notify
    <3>. QED BY <3>2, SameKeeps
  <2>. QED BY <2>1, <2>2
<1>. QED BY <1>1, <1>2 DEF Respond

LEMMA InterruptKeeps ==
  ASSUME TypeOK, EventsInv, TurnsInOrder, AnnouncedOnce, UNCHANGED <<thread, events>>,
         NEW t, Interrupt(t)
  PROVE  Kept
<1>1. \A u \in Turns : turn'[u] = turn[u] \/ (turn[u].state = "active" /\ turn'[u] = [turn[u] EXCEPT !.state = "interrupted"])
  BY DEF Interrupt, TypeOK
<1>2. \A u \in Turns :
        /\ turn'[u].thread = turn[u].thread
        /\ turn'[u].state = turn[u].state \/ (turn[u].state = "active" /\ turn'[u].state = "interrupted")
  BY <1>1 DEF TypeOK, Turn
<1>3. \A u \in Turns : Done(u) => Done(u)'
  BY <1>2 DEF Done
<1>. QED BY <1>2, <1>3, CodexKeeps

LEMMA CloseThreadKeeps ==
  ASSUME TypeOK, UnusedAreBlank, EventsInv, TurnsInOrder, AnnouncedOnce, events' = events,
         NEW th \in Threads, CloseThread(th)
  PROVE  Kept
<1>1. \A h \in Threads : thread[h] # "unused" => thread'[h] # "unused"
  BY DEF CloseThread, TypeOK
<1>2. \A t \in Turns :
        /\ turn'[t].thread = turn[t].thread
        /\ turn'[t].state = turn[t].state \/ turn'[t].state = "aborted"
        /\ turn[t].state = "unused" => turn'[t].state = "unused"
  BY NamesAreNotEmpty DEF CloseThread, TypeOK, Turn, UnusedAreBlank
<1>3. \A t \in Turns : Done(t) => Done(t)'
  BY <1>2 DEF Done
<1>. QED BY <1>1, <1>2, <1>3, CodexKeeps

LEMMA CodexStepsKeep ==
  ASSUME TypeOK, UnusedAreBlank, EventsInv, TurnsInOrder, AnnouncedOnce, CodexSteps
  PROVE  Kept
<1>1. ASSUME NEW t \in Turns, RaiseRequest(t) PROVE Kept
  <2>1. PICK r \in Requests : Announce([kind |-> "request", thread |-> turn[t].thread, id |-> r])
    BY <1>1 DEF RaiseRequest, First, UnusedRequests
  <2>. QED BY <1>1, <2>1, NotifyKeeps DEF RaiseRequest
<1>2. ASSUME NEW t \in Turns, CompleteTurn(t) PROVE Kept
  <2>. DEFINE e == [kind |-> "turn_completed", thread |-> turn[t].thread, id |-> t]
  <2>1. turn[t].state \in {"active", "interrupted"} /\ UNCHANGED thread
    BY <1>2 DEF CompleteTurn
  <2>2. /\ turn'[t].state \in {"completed", "aborted"} /\ turn'[t].thread = turn[t].thread
        /\ \A u \in Turns \ {t} : turn'[u] = turn[u]
    BY <1>2, <2>1 DEF CompleteTurn, TypeOK, Turn
  <2>3. \A u \in Turns :
          /\ turn'[u].thread = turn[u].thread
          /\ turn'[u].state = "unused" <=> turn[u].state = "unused"
          /\ turn'[u].state = "active" => turn[u].state = "active"
          /\ Done(u) => Done(u)'
    BY <2>1, <2>2 DEF Done
  <2>4. events' = events \/ (e.thread \in watched /\ events' = Append(events, e))
    BY <1>2 DEF CompleteTurn, Announce, Notify
  <2>5. e.thread \in watched => e \in Event
    BY DEF TypeOK, Event
  <2>6. e.id = t
    OBVIOUS
  <2>7. ~Done(t) /\ Done(t)'
    BY <2>1, <2>2 DEF Done
  <2>. HIDE DEF e
  <2>. QED BY <2>1, <2>3, <2>4, <2>5, <2>6, <2>7, CodexKeeps
<1>3. ASSUME NEW r \in Requests, ClearRequest(r) PROVE Kept
  BY <1>3, NotifyKeeps DEF ClearRequest
<1>4. ASSUME NEW r \in Requests, ReplayRequest(r) PROVE Kept
  BY <1>4, NotifyKeeps DEF ReplayRequest, codex
<1>5. ASSUME NEW th \in Threads, LoseThread(th) PROVE Kept
  BY <1>5, CloseThreadKeeps DEF LoseThread, link
<1>. QED BY <1>1, <1>2, <1>3, <1>4, <1>5 DEF CodexSteps

(* Input starts a turn, after all that are done, or goes to the active one.*)
LEMMA SendInputKeeps ==
  ASSUME TypeOK, UnusedAreBlank, EventsInv, TurnsInOrder, AnnouncedOnce, UNCHANGED <<thread, events>>,
         NEW p \in Procs, NEW l \in Labels, NEW r, SendInput(p, l, r)
  PROVE  /\ Kept
         /\ \/ Steps(p, "idle", NoTask)
            \/ \E t \in Turns :
                 /\ Steps(p, l, [r EXCEPT !.turn = t])
                 /\ \/ proc[p].row.turn = t /\ turn[t].state = "active"
                    \/ /\ turn'[t].thread = proc[p].row.thread
                       /\ \A u \in Turns : Done(u) => u < t
<1>1. CASE \E t \in ReachableTurns(proc[p].row) :
             /\ StartTurn(t, proc[p].row.thread)
             /\ GotoWith(p, l, [r EXCEPT !.turn = t])
             /\ UNCHANGED faults
  <2>1. PICK t \in ReachableTurns(proc[p].row) :
          StartTurn(t, proc[p].row.thread) /\ GotoWith(p, l, [r EXCEPT !.turn = t])
    BY <1>1
  <2>. DEFINE th == proc[p].row.thread
  <2>2. Steps(p, l, [r EXCEPT !.turn = t])
    BY <2>1, StepsLemma
  <2>3. th \in Threads /\ thread[th] = "live"
    BY <2>1 DEF ReachableTurns, Live
  <2>4. CASE ActiveTurns(th) # {}
    <3>1. t \in Turns /\ t = proc[p].row.turn /\ turn[t].state = "active" /\ turn[t].thread = th
      BY <2>1, <2>4 DEF ReachableTurns, Live, ActiveTurns
    <3>2. turn' = turn
      <4>1. turn[t] = [state |-> "active", thread |-> th]
        BY <3>1 DEF TypeOK, Turn
      <4>. QED BY <2>1, <3>1, <4>1 DEF StartTurn, TypeOK
    <3>. QED BY <2>2, <3>1, <3>2, SameKeeps
  <2>5. CASE ActiveTurns(th) = {}
    <3>1. t \in First(UnusedTurns)
      BY <2>1, <2>5 DEF ReachableTurns, Live
    <3>. QED BY <2>1, <2>2, <2>3, <2>5, <3>1, StartKeeps
  <2>. QED BY <2>4, <2>5
<1>2. CASE Return(p) /\ UNCHANGED <<turn, faults>>
  BY <1>2, StepsLemma, SameKeeps
<1>3. CASE Fails(p) /\ UNCHANGED turn
  BY <1>3, StepsLemma, SameKeeps DEF Fails
<1>. QED BY <1>1, <1>2, <1>3 DEF SendInput

LEMMA StartSessionKeeps ==
  ASSUME TypeOK, UnusedAreBlank, EventsInv, TurnsInOrder, AnnouncedOnce, NEW p \in Procs, StartSession(p)
  PROVE  Kept
<1>1. PICK th \in First(UnusedThreads), t \in First(UnusedTurns) :
        thread' = [thread EXCEPT ![th] = "live"] /\ StartTurn(t, th)
  BY DEF StartSession
<1>2. th \in Threads /\ thread[th] = "unused" /\ events' = events
  BY <1>1 DEF First, UnusedThreads, StartSession
<1>3. ActiveTurns(th) = {}
  BY <1>2 DEF ActiveTurns, TurnsInOrder
<1>4. thread'[th] # "unused" /\ \A h \in Threads : thread[h] # "unused" => thread'[h] # "unused"
  BY <1>1, <1>2 DEF TypeOK
<1>. QED BY <1>1, <1>2, <1>3, <1>4, StartKeeps

(* Whoever acts.                                                           *)
LEMMA StepKeeps ==
  ASSUME TypeOK, UnusedAreBlank, EventsInv, TurnsInOrder, AnnouncedOnce, [Next]_vars
  PROVE  Kept
<1>1. CASE UNCHANGED <<turn, thread, events>>
  BY <1>1, SameKeeps
<1>2. ASSUME NEW o \in Operators, Commanded(o) PROVE Kept
  BY <1>1, <1>2 DEF Commanded, StartTask, Reply, Stop, Complete, Reopen, Delete, codex, link
<1>3. ASSUME NEW o \in Operators, Continue(o) PROVE Kept
  <2>1. o \in Procs /\ proc[o].req \in Requests \cup {0} /\ "save" \in Labels /\ "reopen_resolve" \in Labels
    BY OperatorIsProc, ProcRowType DEF TypeOK, Labels
  <2>2. CASE ReplyRespond(o)
    BY <2>1, <2>2, RespondKeeps DEF ReplyRespond
  <2>3. CASE ReplyInput(o) \/ ReopenInput(o)
    BY <2>1, <2>3, SendInputKeeps DEF ReplyInput, ReopenInput, link
  <2>4. CASE StopInterrupt(o) \/ CompleteInterrupt(o)
    BY <1>1, <2>4, InterruptKeeps DEF StopInterrupt, CompleteInterrupt, link
  <2>5. CASE DeleteCleanup(o)
    BY <1>1, <2>5, CloseThreadKeeps DEF DeleteCleanup, Live
  <2>6. CASE UNCHANGED <<turn, thread, events>>
    BY <1>1, <2>6
  <2>. QED
    BY <1>3, <2>2, <2>3, <2>4, <2>5, <2>6
    DEF Continue, ReplyMark, ReplyRespondFails, ReplyReplied, CompleteResolve, ReopenAttach,
        ReopenTouch, SaveThen, ReopenResolve, DeleteRow, DeleteRequests, codex, link
<1>4. ASSUME NEW p \in Procs, StartSteps(p) \/ Save(p) PROVE Kept
  <2>1. CASE StartSessionHalfway(p)
    <3>1. \A th \in Threads : thread[th] # "unused" => thread'[th] # "unused"
      BY <2>1 DEF StartSessionHalfway, TypeOK
    <3>. QED BY <2>1, <3>1, SameKeeps DEF StartSessionHalfway, link
  <2>. QED
    BY <1>1, <1>4, <2>1, StartSessionKeeps
    DEF StartSteps, StartSave, SaveThen, StartSessionFails, StartSessionTimeout, Save, codex, link
<1>5. CASE LoopHandlers
  <2>1. CASE AutoRespond
    BY <2>1, LoopIsProc, ProcRowType, RespondKeeps DEF AutoRespond, TypeOK
  <2>2. CASE TurnInput
    BY <2>2, LoopIsProc, SendInputKeeps DEF TurnInput, link, Labels
  <2>3. CASE UNCHANGED <<turn, thread, events>>
    BY <1>1, <2>3
  <2>. QED
    BY <1>5, <2>1, <2>2, <2>3
    DEF LoopHandlers, ResolvedMark, RequestUpsert, RequestSave, RequestRead, RequestApproved,
        RequestEscalated, RequestUndecided, AutoMark, AutoRespondFails, AutoSave, AutoReplied,
        TurnDecided, TurnUndecided, ProgressWaiting, RecoverAttach, ResumeRead, ResumeAttach,
        ResumeSave, Reconcile, ReconcileSave, SaveThen, codex, link
<1>6. CASE LoopReceives \/ Crash
  BY <1>6, ReceiptKeeps
  DEF LoopReceives, IgnoreUnknownThread, ReceiveResolved, IgnoreClosedRequest, ReceiveRequest,
      IgnoreTurnCompleted, ReceiveTurnCompleted, Receive, Crash, codex
<1>7. CASE LoopTicks
  BY <1>1, <1>7 DEF LoopTicks, TickStart, TickProgress, TickRecover, codex, link
<1>8. CASE CodexSteps
  BY <1>8, CodexStepsKeep
<1>9. CASE UNCHANGED vars
  BY <1>1, <1>9 DEF vars
<1>. QED BY <1>2, <1>3, <1>4, <1>5, <1>6, <1>7, <1>8, <1>9 DEF Next

-------------------------------------------------------------------------------
(* The loop goes on with the turn it supervises, or with something else.   *)
SupervisesOn ==
  /\ turnSent' = turnSent
  /\ proc'[Loop].pc \in Supervises =>
       /\ proc[Loop].pc \in Supervises
       /\ proc'[Loop].pc = "turn_decide" => proc[Loop].pc = "turn_decide"
       /\ proc'[Loop].turn = proc[Loop].turn /\ proc'[Loop].row = proc[Loop].row

(* It takes up a turn it has not continued, or the turn of the first event *)
(* of the queue, which reports it and is gone.                             *)
TakesUp(t) ==
  /\ turnSent' = turnSent
  /\ Done(t) /\ proc'[Loop].pc = "turn_decide" /\ proc'[Loop].turn = t
  /\ proc'[Loop].row.turn = t /\ proc'[Loop].row.thread = turn[t].thread
  /\ turnSent[t] = 0 \/ (turnSent[t] = 1 /\ Announced(t) /\ ~Announced(t)')

(* It continues the turn: a new turn of the thread follows.                *)
Continues(t) ==
  /\ proc[Loop].pc = "turn_input" /\ proc[Loop].turn = t /\ proc'[Loop].pc = "save"
  /\ turnSent' = [turnSent EXCEPT ![t] = Bump(turnSent[t])]
  /\ \E u \in Turns : t < u /\ turn'[u].thread = turn[t].thread

LEMMA DoneStays ==
  ASSUME TypeOK, TurnsInOrder, TurnsStay, NEW t \in Turns, Done(t)
  PROVE  turn[t].thread # 0 /\ turn'[t].thread = turn[t].thread
  BY NamesAreNotEmpty DEF TurnsInOrder, Done, TurnsStay

LEMMA ContinuedStays ==
  ASSUME TypeOK, AgainInv, Kept, TurnsStay, NEW t \in Turns, turnSent[t] > 0
  PROVE  Done(t)' /\ \E u \in Turns : u > t /\ turn'[u].thread = turn'[t].thread
<1>1. Done(t) /\ \E u \in Turns : u > t /\ turn[u].thread = turn[t].thread
  BY DEF AgainInv, Continued
<1>2. turn[t].thread # 0 /\ turn'[t].thread = turn[t].thread
  BY <1>1, DoneStays DEF AgainInv
<1>. QED BY <1>1, <1>2 DEF Kept, TurnsStay

LEMMA SupervisesOnKeeps ==
  ASSUME TypeOK, AgainInv, Kept, TurnsStay, SupervisesOn
  PROVE  AgainInv'
<1>1. Continued'
  BY ContinuedStays DEF Continued, SupervisesOn
<1>2. Supervising'
  <2>. SUFFICES ASSUME proc'[Loop].pc \in Supervises PROVE Supervising'
    BY DEF Supervising
  <2>1. PICK t \in Turns :
          /\ proc[Loop].turn = t /\ Done(t)
          /\ proc[Loop].row.thread = turn[t].thread /\ proc[Loop].row.turn = t
    BY DEF SupervisesOn, AgainInv, Supervising
  <2>2. Done(t)' /\ turn'[t].thread = turn[t].thread
    BY <2>1, DoneStays DEF Kept, AgainInv
  <2>. QED BY <2>1, <2>2 DEF Supervising, SupervisesOn
<1>3. ASSUME NEW t \in Turns, turnSent[t] \in {1, 2}
      PROVE  (Announced(t)' => Announced(t)) /\ (Supervised(t)' => Supervised(t))
  BY <1>3 DEF AgainInv, Continued, Kept, Supervised, SupervisesOn
<1>4. Counted'
  BY <1>3 DEF AgainInv, Counted, SupervisesOn
<1>. QED BY <1>1, <1>2, <1>4 DEF AgainInv, Kept

LEMMA TakesUpKeeps ==
  ASSUME TypeOK, AgainInv, Kept, TurnsStay, NEW t \in Turns, TakesUp(t)
  PROVE  AgainInv'
<1>1. Continued'
  BY ContinuedStays DEF Continued, TakesUp
<1>2. Done(t)' /\ turn'[t].thread = turn[t].thread
  BY DoneStays DEF Kept, AgainInv, TakesUp
<1>3. Supervising'
  BY <1>2 DEF Supervising, TakesUp
<1>4. ASSUME NEW u \in Turns, turnSent[u] \in {1, 2}
      PROVE  /\ Announced(u)' => Announced(u)
             /\ Supervised(u)' => u = t
  BY <1>4 DEF AgainInv, Continued, Kept, Supervised, TakesUp
<1>5. Counted'
  BY <1>4 DEF AgainInv, Counted, TakesUp
<1>. QED BY <1>1, <1>3, <1>5 DEF AgainInv, Kept

LEMMA ContinuesKeeps ==
  ASSUME TypeOK, AgainInv, Kept, TurnsStay, NEW t \in Turns, Continues(t)
  PROVE  AgainInv'
<1>1. Done(t) /\ Supervised(t) /\ proc'[Loop].pc \notin Supervises
  BY DEF AgainInv, Supervising, Supervised, Continues, Supervises
<1>2. turnSent[t] \in 0 .. 2 /\ turnSent[t] # 2 /\ \A u \in Turns \ {t} : turnSent'[u] = turnSent[u]
  BY <1>1 DEF AgainInv, Counted, Continues, TypeOK
<1>3. turnSent'[t] = turnSent[t] + 1
  BY <1>2 DEF Continues, Bump, TypeOK
<1>4. Done(t)' /\ turn'[t].thread = turn[t].thread /\ (Announced(t)' => Announced(t))
  BY <1>1, DoneStays DEF Kept, AgainInv
<1>5. Continued'
  <2>1. ASSUME NEW u \in Turns, turnSent'[u] > 0
        PROVE  Done(u)' /\ \E v \in Turns : v > u /\ turn'[v].thread = turn'[u].thread
    <3>1. CASE u = t
      BY <1>4, <3>1 DEF Continues, Turns
    <3>2. CASE u # t
      BY <1>2, <2>1, <3>2, ContinuedStays
    <3>. QED BY <3>1, <3>2
  <2>. QED BY <2>1 DEF Continued
<1>6. Supervising'
  BY <1>1 DEF Supervising
<1>7. ASSUME NEW u \in Turns
      PROVE  /\ turnSent'[u] = 1 => ~(Announced(u)' /\ Supervised(u)')
             /\ turnSent'[u] = 2 => ~Announced(u)' /\ ~Supervised(u)'
  <2>1. ~Supervised(u)'
    BY <1>1 DEF Supervised
  <2>2. CASE u = t
    <3>1. turnSent'[t] = 2 => turnSent[t] = 1
      BY <1>2, <1>3
    <3>. QED BY <1>1, <1>4, <2>1, <2>2, <3>1 DEF AgainInv, Counted
  <2>3. CASE u # t
    BY <1>2, <2>1, <2>3 DEF AgainInv, Counted, Continued, Kept
  <2>. QED BY <2>2, <2>3
<1>8. Counted'
  BY <1>7 DEF Counted
<1>. QED BY <1>5, <1>6, <1>8 DEF AgainInv, Kept

-------------------------------------------------------------------------------
(* What each step of the loop does with the turn it supervises. *)

(* Anybody but the loop leaves it alone.                                   *)
LEMMA OthersStep ==
  ASSUME turnSent' = turnSent, proc'[Loop] = proc[Loop]
  PROVE  SupervisesOn
  BY DEF SupervisesOn

(* The loop does something else.                                           *)
LEMMA ElsewhereStep ==
  ASSUME turnSent' = turnSent, NEW l, l \notin Supervises, NEW s, Steps(Loop, l, s)
  PROVE  SupervisesOn
  BY DEF SupervisesOn, Steps

(* The last turn of a thread was not continued.                            *)
LEMMA LastIsNew ==
  ASSUME TypeOK, AgainInv, NEW t \in Turns, IsLastTurn(t, turn[t].thread)
  PROVE  turnSent[t] = 0
<1>1. ~(turnSent[t] > 0)
  <2>1. ASSUME turnSent[t] > 0 PROVE FALSE
    <3>1. PICK u \in Turns : u > t /\ turn[u].thread = turn[t].thread
      BY <2>1 DEF AgainInv, Continued
    <3>2. u <= t
      BY <3>1 DEF IsLastTurn
    <3>. QED BY <3>1, <3>2 DEF Turns
  <2>. QED BY <2>1
<1>. QED BY <1>1 DEF TypeOK

LEMMA SuperviseTakesUp ==
  ASSUME TypeOK, turnSent' = turnSent, NEW t \in Turns, Done(t), NEW r \in TaskRun, r.thread = turn[t].thread,
         Supervise(r, t), turnSent[t] = 0 \/ (turnSent[t] = 1 /\ Announced(t) /\ ~Announced(t)')
  PROVE  TakesUp(t)
<1>. DEFINE s == [r EXCEPT !.turn = t]
<1>1. s.turn = t /\ s.thread = r.thread
  BY DEF TaskRun
<1>. HIDE DEF s
<1>2. proc'[Loop].pc = "turn_decide" /\ proc'[Loop].turn = t /\ proc'[Loop].row = s
  BY LoopIsProc DEF Supervise, TypeOK, Idle, s
<1>. QED BY <1>1, <1>2 DEF TakesUp

(* The event of a turn that was continued is the only one, and the loop    *)
(* has taken it.                                                           *)
LEMMA ReceivesStep ==
  ASSUME TypeOK, EventsInv, AgainInv, LoopReceives
  PROVE  SupervisesOn \/ \E t \in Turns : TakesUp(t)
<1>1. turnSent' = turnSent
  BY DEF LoopReceives, IgnoreUnknownThread, ReceiveResolved, IgnoreClosedRequest, ReceiveRequest,
         IgnoreTurnCompleted, ReceiveTurnCompleted, sent
<1>2. CASE IgnoreUnknownThread \/ IgnoreClosedRequest \/ IgnoreTurnCompleted
  BY <1>1, <1>2, OthersStep DEF IgnoreUnknownThread, IgnoreClosedRequest, IgnoreTurnCompleted
<1>3. CASE ReceiveResolved \/ ReceiveRequest
  <2>1. \E l \in {"resolved_mark", "request_upsert"} : \E s : Steps(Loop, l, s)
    BY <1>3, LoopIsProc, StepsLemma DEF ReceiveResolved, ReceiveRequest, Labels
  <2>. QED BY <1>1, <2>1, ElsewhereStep DEF Supervises
<1>4. CASE ReceiveTurnCompleted
  <2>1. /\ events # <<>> /\ events' = Tail(events)
        /\ events[1].kind = "turn_completed" /\ row.thread = events[1].thread /\ Supervise(row, events[1].id)
    BY <1>4 DEF ReceiveTurnCompleted, Receive, OfTask
  <2>2. 1 \in 1 .. Len(events) /\ Completion(1) /\ events \in Seq(Event)
    BY <2>1, EventTypes DEF Completion
  <2>3. PICK t \in Turns : t = events[1].id
    BY <2>2, EventTypes
  <2>4. Done(t) /\ row.thread = turn[t].thread /\ Announced(t)
    BY <2>1, <2>2, <2>3, EventTypes DEF AgainInv, AnnouncedOnce, Announced
  <2>5. ~Announced(t)'
    <3>1. ASSUME NEW i \in 1 .. Len(events'), Completion(i)', events'[i].id = t PROVE FALSE
      <4>1. i + 1 \in 1 .. Len(events) /\ events'[i] = events[i + 1] /\ i + 1 # 1
        BY <2>1, <2>2, <3>1
      <4>2. Completion(i + 1) /\ events[i + 1].id = events[1].id
        BY <2>3, <3>1, <4>1 DEF Completion
      <4>. QED BY <2>2, <4>1, <4>2 DEF AgainInv, AnnouncedOnce
    <3>. QED BY <3>1 DEF Announced
  <2>6. turnSent[t] = 0 \/ turnSent[t] = 1
    BY <2>4 DEF AgainInv, Counted, TypeOK
  <2>7. row \in TaskRun
    BY DEF TypeOK
  <2>. QED BY <1>1, <2>1, <2>3, <2>4, <2>5, <2>6, <2>7, SuperviseTakesUp
<1>. QED BY <1>2, <1>3, <1>4 DEF LoopReceives

LEMMA TurnInputStep ==
  ASSUME TypeOK, UnusedAreBlank, EventsInv, AgainInv, TurnInput
  PROVE  SupervisesOn \/ \E t \in Turns : Continues(t)
<1>. DEFINE h == Handled(Resume(proc[Loop].row))
<1>1. /\ Loop \in Procs /\ "save" \in Labels /\ TurnsInOrder /\ AnnouncedOnce
      /\ proc[Loop].pc = "turn_input" /\ UNCHANGED <<thread, events>>
      /\ SendInput(Loop, "save", h)
  BY LoopIsProc DEF AgainInv, TurnInput, At, link, Labels
<1>2. PICK t \in Turns :
        /\ proc[Loop].turn = t /\ Done(t)
        /\ proc[Loop].row.thread = turn[t].thread /\ proc[Loop].row.turn = t
  BY <1>1 DEF AgainInv, Supervising, Supervises
<1>. HIDE DEF h
<1>3. \/ Steps(Loop, "idle", NoTask)
      \/ \E u \in Turns :
           /\ Steps(Loop, "save", [h EXCEPT !.turn = u])
           /\ \/ proc[Loop].row.turn = u /\ turn[u].state = "active"
              \/ turn'[u].thread = proc[Loop].row.thread /\ \A v \in Turns : Done(v) => v < u
  BY <1>1, SendInputKeeps
<1>4. CASE Steps(Loop, "idle", NoTask)
  <2>1. turnSent' = turnSent
    BY <1>4 DEF TurnInput, Steps
  <2>. QED BY <1>4, <2>1, ElsewhereStep DEF Supervises
<1>5. ASSUME NEW u \in Turns, Steps(Loop, "save", [h EXCEPT !.turn = u]),
             \/ proc[Loop].row.turn = u /\ turn[u].state = "active"
             \/ turn'[u].thread = proc[Loop].row.thread /\ \A v \in Turns : Done(v) => v < u
      PROVE  Continues(t)
  <2>1. turn'[u].thread = turn[t].thread /\ t < u
    BY <1>2, <1>5 DEF Done
  <2>2. proc'[Loop].pc = "save"
    BY <1>5 DEF Steps
  <2>. QED BY <1>1, <1>2, <2>1, <2>2 DEF Continues, TurnInput
<1>. QED BY <1>3, <1>4, <1>5

(* The reconciliation of a restart supervises the last turn of the thread. *)
LEMMA ReconcileStep ==
  ASSUME TypeOK, AgainInv, Reconcile
  PROVE  SupervisesOn \/ \E t \in Turns : TakesUp(t)
<1>. PICK r \in TaskRun : r = proc[Loop].row
  BY LoopIsProc, ProcRowType DEF TypeOK
<1>1. turnSent' = turnSent
  BY DEF Reconcile, sent
<1>2. \/ Return(Loop)
      \/ \E id, st : ReconcileRequest(r, id, st)
      \/ ReconcileTurn(r)
      \/ \E id, st : BeginFor(Loop, "reconcile_save", [r EXCEPT !.pending = id], id, st)
  BY DEF Reconcile
<1>3. CASE Return(Loop)
  BY <1>1, <1>3, LoopIsProc, StepsLemma, ElsewhereStep DEF Labels, Supervises
<1>4. CASE \E id, st : ReconcileRequest(r, id, st)
  <2>1. \E l \in {"request_read", "save", "idle"} : \E s : Steps(Loop, l, s)
    BY <1>4, LoopIsProc, StepsLemma DEF ReconcileRequest, Labels
  <2>. QED BY <1>1, <2>1, ElsewhereStep DEF Supervises
<1>5. CASE \E id, st : BeginFor(Loop, "reconcile_save", [r EXCEPT !.pending = id], id, st)
  <2>1. \E s : Steps(Loop, "reconcile_save", s)
    BY <1>5, LoopIsProc, StepsLemma DEF Labels
  <2>. QED BY <1>1, <2>1, ElsewhereStep DEF Supervises
<1>6. CASE ReconcileTurn(r)
  <2>1. \/ Return(Loop)
        \/ \E t \in Turns : IsLastTurn(t, r.thread) /\ turn[t].state = "completed" /\ Supervise(r, t)
    BY <1>6 DEF ReconcileTurn
  <2>2. ASSUME NEW t \in Turns, IsLastTurn(t, r.thread), turn[t].state = "completed", Supervise(r, t)
        PROVE  TakesUp(t)
    <3>1. turn[t].thread = r.thread /\ Done(t)
      BY <2>2 DEF IsLastTurn, Done
    <3>2. turnSent[t] = 0
      BY <2>2, <3>1, LastIsNew
    <3>. QED BY <1>1, <2>2, <3>1, <3>2, SuperviseTakesUp
  <2>. QED BY <1>3, <2>1, <2>2
<1>. QED BY <1>2, <1>3, <1>4, <1>5, <1>6

LEMMA HandlersStep ==
  ASSUME TypeOK, UnusedAreBlank, EventsInv, AgainInv, LoopHandlers
  PROVE  SupervisesOn \/ \E t \in Turns : TakesUp(t) \/ Continues(t)
<1>. DEFINE Elsewhere ==
       {"idle", "save", "request_save", "request_read", "request_decide", "auto_mark", "auto_respond",
        "auto_save", "auto_replied", "resume_attach", "resume_save", "reconcile"}
<1>1. /\ Elsewhere \subseteq Labels /\ Elsewhere \cap Supervises = {}
      /\ Loop \in Procs
  BY LoopIsProc DEF Labels, Supervises
<1>2. \A l \in Elsewhere :
        /\ Goto(Loop, l) => \E s : Steps(Loop, l, s)
        /\ \A r : GotoWith(Loop, l, r) => \E s : Steps(Loop, l, s)
        /\ \A r, id, st : BeginFor(Loop, l, r, id, st) => \E s : Steps(Loop, l, s)
  BY <1>1, StepsLemma
<1>3. Return(Loop) => Steps(Loop, "idle", NoTask)
  BY <1>1, StepsLemma
<1>. HIDE DEF Elsewhere
<1>4. ASSUME turnSent' = turnSent,
             \/ Return(Loop)
             \/ \E l \in Elsewhere :
                  \/ Goto(Loop, l) \/ \E r : GotoWith(Loop, l, r)
                  \/ \E r, id, st : BeginFor(Loop, l, r, id, st)
      PROVE  SupervisesOn
  <2>1. \E l \in Elsewhere \cup {"idle"} : \E s : Steps(Loop, l, s)
    BY <1>2, <1>3, <1>4
  <2>. QED BY <1>1, <1>4, <2>1, ElsewhereStep DEF Supervises
<1>5. CASE \/ ResolvedMark \/ RequestUpsert \/ RequestSave \/ RequestRead
           \/ RequestApproved \/ RequestEscalated \/ RequestUndecided
  BY <1>4, <1>5
  DEF ResolvedMark, RequestUpsert, RequestSave, RequestRead, RequestApproved, RequestEscalated,
      RequestUndecided, SaveThen, Fails, sent, Elsewhere
<1>6. CASE AutoMark \/ AutoRespond \/ AutoRespondFails \/ AutoSave \/ AutoReplied \/ ProgressWaiting
  BY <1>4, <1>6
  DEF AutoMark, AutoRespond, AutoRespondFails, AutoSave, AutoReplied, ProgressWaiting, SaveThen,
      Fails, sent, Elsewhere
<1>7. CASE RecoverAttach \/ ResumeRead \/ ResumeAttach \/ ResumeSave
  BY <1>4, <1>7
  DEF RecoverAttach, ResumeRead, ResumeAttach, ResumeSave, SaveThen, Fails, sent, Elsewhere
<1>8. CASE ReconcileSave
  BY <1>4, <1>8 DEF ReconcileSave, ReconcileRequest, sent, Elsewhere
<1>9. CASE TurnUndecided
  BY <1>4, <1>9 DEF TurnUndecided, Fails, sent
<1>10. CASE TurnDecided
  <2>1. turnSent' = turnSent /\ proc[Loop].pc = "turn_decide"
    BY <1>10 DEF TurnDecided, At, sent
  <2>2. Goto(Loop, "turn_input") \/ \E s : GotoWith(Loop, "save", s)
    BY <1>10 DEF TurnDecided, TurnVerdict
  <2>3. CASE Goto(Loop, "turn_input")
    <3>1. proc'[Loop].turn = proc[Loop].turn /\ proc'[Loop].row = proc[Loop].row
      BY <1>1, <2>3 DEF Goto, TypeOK, ProcState
    <3>. QED BY <2>1, <3>1 DEF SupervisesOn, Supervises
  <2>. QED BY <1>4, <2>1, <2>2, <2>3 DEF Elsewhere
<1>. QED
  BY <1>5, <1>6, <1>7, <1>8, <1>9, <1>10, TurnInputStep, ReconcileStep DEF LoopHandlers

LEMMA NextStep ==
  ASSUME TypeOK, UnusedAreBlank, EventsInv, AgainInv, [Next]_vars
  PROVE  SupervisesOn \/ \E t \in Turns : TakesUp(t) \/ Continues(t)
<1>1. /\ Loop \in Procs
      /\ \A l \in {"start_session", "start_save", "save", "idle", "progress_waiting", "recover_attach"} :
           l \in Labels /\ l \notin Supervises
  BY LoopIsProc DEF Labels, Supervises
<1>2. ASSUME NEW o \in Operators, Commanded(o) \/ Continue(o) PROVE SupervisesOn
  <2>1. o # Loop
    BY OperatorIsProc
  <2>2. turnSent' = turnSent
    BY <1>2
    DEF Commanded, StartTask, Reply, Stop, Complete, Reopen, Delete, Continue, ReplyMark, ReplyRespond,
        ReplyRespondFails, ReplyReplied, ReplyInput, StopInterrupt, CompleteInterrupt, CompleteResolve,
        ReopenAttach, ReopenTouch, SaveThen, ReopenInput, ReopenResolve, DeleteCleanup, DeleteRow,
        DeleteRequests, sent
  <2>3. proc'[Loop] = proc[Loop]
    <3>1. CASE Commanded(o)
      BY <1>1, <2>1, <3>1
      DEF TypeOK, Commanded, StartTask, Reply, Stop, Complete, Reopen, Delete, Begin, BeginFor
    <3>2. CASE Continue(o)
      BY <1>1, <2>1, <3>2
      DEF TypeOK, Continue, ReplyMark, ReplyRespond, ReplyRespondFails, ReplyReplied, ReplyInput,
          StopInterrupt, CompleteInterrupt, CompleteResolve, ReopenAttach, ReopenTouch, SaveThen,
          ReopenInput, ReopenResolve, DeleteCleanup, DeleteRow, DeleteRequests, SendInput, Fails,
          Goto, GotoWith, Return
    <3>. QED BY <1>2, <3>1, <3>2
  <2>. QED BY <2>2, <2>3, OthersStep
<1>3. ASSUME NEW p \in Procs, StartSteps(p) \/ Save(p) PROVE SupervisesOn
  <2>1. turnSent' = turnSent
    BY <1>3
    DEF StartSteps, StartSave, SaveThen, StartSession, StartSessionHalfway, StartSessionFails,
        StartSessionTimeout, Save, sent
  <2>2. \E l \in {"start_session", "save", "idle"} : \E s : Steps(p, l, s)
    <3>1. Return(p) \/ Goto(p, "start_session") \/ \E s : GotoWith(p, "save", s)
      BY <1>3
      DEF StartSteps, StartSave, SaveThen, StartSession, StartSessionHalfway, StartSessionFails,
          StartSessionTimeout, Save, Fails
    <3>. QED BY <1>1, <3>1, StepsLemma
  <2>3. CASE p = Loop
    BY <1>1, <2>1, <2>2, <2>3, ElsewhereStep
  <2>4. CASE p # Loop
    BY <1>1, <2>1, <2>2, <2>4, OthersStep DEF Steps
  <2>. QED BY <2>3, <2>4
<1>4. CASE LoopTicks
  <2>1. turnSent' = turnSent
    BY <1>4 DEF LoopTicks, TickStart, TickProgress, TickRecover, sent
  <2>2. \E l \in {"start_save", "save", "progress_waiting", "recover_attach"} : \E s : Begin(Loop, l, s)
    BY <1>4 DEF LoopTicks, TickStart, TickProgress, TickRecover
  <2>3. \E l \in {"start_save", "save", "progress_waiting", "recover_attach"} : \E s : Steps(Loop, l, s)
    BY <1>1, <2>2, StepsLemma
  <2>. QED BY <1>1, <2>1, <2>3, ElsewhereStep
<1>5. CASE CodexSteps \/ UNCHANGED vars
  BY <1>5, OthersStep
  DEF CodexSteps, RaiseRequest, CompleteTurn, ClearRequest, ReplayRequest, LoseThread, vars, store, sent
<1>6. CASE Crash
  BY <1>1, <1>6 DEF Crash, SupervisesOn, Supervises, Idle, sent
<1>. QED
  BY <1>2, <1>3, <1>4, <1>5, <1>6, ReceivesStep, HandlersStep DEF Next

-------------------------------------------------------------------------------
LEMMA AgainStep ==
  ASSUME TypeOK, UnusedAreBlank, EventsInv, AgainInv, [Next]_vars
  PROVE  AgainInv'
<1>1. Kept /\ TurnsStay
  BY StepKeeps, TurnsStep DEF AgainInv
<1>. QED BY <1>1, NextStep, SupervisesOnKeeps, TakesUpKeeps, ContinuesKeeps

LEMMA AgainStart == Init => AgainInv
<1>. SUFFICES ASSUME Init PROVE AgainInv
  OBVIOUS
<1>1. /\ events = <<>> /\ Len(events) = 0
      /\ \A t \in Turns : turn[t].state = "unused" /\ turnSent[t] = 0
      /\ proc[Loop].pc = "resume"
  BY LoopIsProc DEF Init, Idle
<1>. QED
  BY <1>1
  DEF AgainInv, TurnsInOrder, AnnouncedOnce, Continued, Supervising, Supervises, Counted

LEMMA AgainInvariant == Spec => []AgainInv
<1>1. TypeOK /\ RowsInv /\ UnusedAreBlank /\ EventsInv /\ AgainInv /\ [Next]_vars => AgainInv'
  BY AgainStep
<1>. QED BY <1>1, AgainStart, TypeCorrect, RowsInvariant, PTL DEF Spec

(* Whatever operators do, and whatever stale copies they write over the    *)
(* row: a turn that was not continued is taken up by its event or by a     *)
(* reconciliation, one that was continued once only by the event that      *)
(* reports it, which is then gone, and one that was continued twice never. *)
THEOREM TurnsContinueAgainByTheirEvents == Spec => ContinuedAgainByItsEvent
<1>. DEFINE A == \A t \in Turns : ~TakenUp(t) /\ TakenUp(t)' =>
                   turnSent[t] = 0 \/ (turnSent[t] = 1 /\ Reported(t) /\ ~Reported(t)')
<1>1. TypeOK /\ TypeOK' /\ UnusedAreBlank /\ EventsInv /\ AgainInv /\ [Next]_vars => A
  <2>. SUFFICES ASSUME TypeOK, TypeOK', UnusedAreBlank, EventsInv, AgainInv, [Next]_vars,
                       NEW t \in Turns, ~TakenUp(t), TakenUp(t)'
                PROVE  turnSent[t] = 0 \/ (turnSent[t] = 1 /\ Reported(t) /\ ~Reported(t)')
    OBVIOUS
  <2>1. (Reported(t) <=> Announced(t)) /\ (Reported(t)' <=> Announced(t)')
    BY ReportedIsAnnounced DEF Reported, Announced, Completion, TypeOK
  <2>2. /\ proc'[Loop].pc = "turn_decide" /\ proc'[Loop].turn = t
        /\ ~(proc[Loop].pc = "turn_decide" /\ proc[Loop].turn = t)
    BY DEF TakenUp, At
  <2>3. CASE SupervisesOn
    BY <2>2, <2>3 DEF SupervisesOn, Supervises
  <2>4. ASSUME NEW u \in Turns, TakesUp(u) PROVE turnSent[t] = 0 \/ (turnSent[t] = 1 /\ Announced(t) /\ ~Announced(t)')
    BY <2>2, <2>4 DEF TakesUp
  <2>5. ASSUME NEW u \in Turns, Continues(u) PROVE FALSE
    BY <2>2, <2>5 DEF Continues
  <2>. QED BY <2>1, <2>3, <2>4, <2>5, NextStep
<1>. QED
  BY <1>1, AgainInvariant, TypeCorrect, RowsInvariant, PTL DEF Spec, ContinuedAgainByItsEvent
===============================================================================
