------------------------------ MODULE TaskFleet ------------------------------
(***************************************************************************)
(* All the tasks together, where TaskService has one: on which machine a   *)
(* task is placed (orchestrator/scheduler.go), how the loop of the process *)
(* goes through the active tasks (TickOnce, ResumeActiveTasks), how all    *)
(* terminal tasks are deleted (DeleteTerminalTasks), and what becomes of   *)
(* tasks when the process is started again with another registry.          *)
(*                                                                         *)
(* What the runner and the store do to one task is an outcome here.  A     *)
(* definition named Faulty... is a plausible mistake in the definition     *)
(* that follows it; nothing uses it.                                       *)
(***************************************************************************)
EXTENDS Registry, FiniteSets

CONSTANTS
  Deployments, \* the files the process may be started with
  MaxTime,     \* how far the clock goes
  MaxTasks,    \* tasks created
  MaxRestarts  \* restarts of the process

ASSUME FleetBounds ==
  /\ {MaxTime, MaxTasks, MaxRestarts} \subseteq Nat
  /\ \A f \in Deployments : IsFiles(f)
  /\ LoadRegistry(InitialFiles).loaded \* without it there is no process

VARIABLES
  time,     \* the clock, see TextBefore
  rows,     \* the tasks, by their id; with the life they were created in and, as
            \* history, how many were before them
  created,  \* how many tasks were created
  starting, \* the StartTask being handled
  loop,     \* what Run is doing: resuming, ticking, or waiting for the ticker
  deleting, \* the DeleteTerminalTasks being handled
  restarts, \* how often the process was restarted
  tried,    \* history: the task the tick took last, and whether it failed
  resumed   \* history: the active tasks this life has not tried to resume

fleetVars == <<registryVars, time, rows, created, starting, loop, deleting, restarts,
               tried, resumed>>

Terminal == {"completed", "failed", "stopped"}
Active == {"pending", "starting", "running", "waiting_user_input", "recovering"}
Started == {"running", "recovering", "waiting_user_input", "completed"}
Times == 0..MaxTime

\* newTaskID is the time of creation in milliseconds: what is created in the same
\* one has the same id.
NewTaskID == time

\* created_at is a text: in it 12:00:00.5Z is before 12:00:00Z, and .12 before .1.
\* An even time is one whose text is a prefix of the text of the next time.
TextBefore(s, t) == s \div 2 < t \div 2 \/ (s \div 2 = t \div 2 /\ s > t)

\* The ids in ids, in the order of the store.
InOrder(ids) ==
  CHOOSE s \in [1..Cardinality(ids) -> ids] :
    \A j, k \in DOMAIN s : j < k => TextBefore(s[j], s[k])

ActiveTasks == {i \in DOMAIN rows : rows[i].status \in Active}

Idle == [at |-> "idle"]
NoOne == [id |-> -1, failed |-> FALSE]

-----------------------------------------------------------------------------
(* Placement. *)

CountsTowardMachineLoad(status) == status \notin Terminal

Load(m) ==
  Cardinality({i \in ActiveTasks : rows[i].machine = m
                                     /\ CountsTowardMachineLoad(rows[i].status)})

\* selectMachine goes through the list and changes its mind only for a machine
\* with fewer tasks.
SelectMachine(ids) ==
  LET selected[n \in 1..Len(ids)] ==
        IF n = 1 THEN ids[1]
        ELSE IF Load(ids[n]) < Load(selected[n - 1]) THEN ids[n] ELSE selected[n - 1]
  IN selected[Len(ids)]

-----------------------------------------------------------------------------
FleetTypeOK ==
  /\ time \in Times
  /\ DOMAIN rows \subseteq Times
  /\ \A i \in DOMAIN rows :
       rows[i].status \in Active \cup Terminal /\ rows[i].life \in 0..restarts
  /\ created \in 0..MaxTasks /\ restarts \in 0..MaxRestarts
  /\ starting.at \in {"idle", "selected", "created"}
  /\ loop.at \in {"idle", "resuming", "ticking"}
  /\ loop.at # "idle" => ToSet(loop.left) \subseteq Times
  /\ deleting.at \in {"idle", "deleting", "done"}
  /\ resumed \subseteq Times

FleetInit ==
  /\ files = InitialFiles /\ registry = LoadRegistry(InitialFiles) /\ edits = 0
  /\ time = 0 /\ rows = [i \in {} |-> NoOne] /\ created = 0 /\ restarts = 0
  /\ starting = Idle /\ loop = Idle /\ deleting = Idle
  /\ tried = NoOne /\ resumed = {}

TimePasses ==
  /\ time < MaxTime
  /\ time' = time + 1
  /\ UNCHANGED <<registryVars, rows, created, starting, loop, deleting, restarts,
                 tried, resumed>>

\* A user replies, reopens, stops or completes a task, or its thread goes on.
ChangeStatus(i) ==
  /\ \E s \in Started :
       /\ rows[i].status \in Started \ {s}
       /\ rows' = [rows EXCEPT ![i].status = s]
  /\ UNCHANGED <<registryVars, time, created, starting, loop, deleting, restarts, tried,
                 resumed>>

-----------------------------------------------------------------------------
(* StartTask. *)

LookupTemplate(t) == t \in DOMAIN registry.templates

\* It reads the active tasks and selects a machine.
SelectForTask(t) ==
  /\ starting = Idle /\ created < MaxTasks
  /\ LookupTemplate(t)
  /\ starting' = [at |-> "selected", template |-> t, id |-> NewTaskID,
                  machine |-> SelectMachine(registry.templates[t].workspace.machine_ids)]
  /\ UNCHANGED <<registryVars, time, rows, created, loop, deleting, restarts, tried,
                 resumed>>

\* CreateTask is refused by the primary key when the id is taken.  When
\* appendEvent fails afterwards the user is told so, and the row stays.
CreateTask ==
  /\ starting.at = "selected"
  /\ IF starting.id \in DOMAIN rows
     THEN starting' = Idle /\ UNCHANGED <<rows, created>>
     ELSE /\ created' = created + 1
          /\ rows' = [i \in DOMAIN rows \cup {starting.id} |->
               IF i = starting.id
               THEN [template |-> starting.template, machine |-> starting.machine,
                     status |-> "pending", life |-> restarts, serial |-> created']
               ELSE rows[i]]
          /\ starting' \in {Idle, [at |-> "created", id |-> starting.id]}
  /\ UNCHANGED <<registryVars, time, loop, deleting, restarts, tried, resumed>>

\* startPendingTask has what it needs from the registry.
CanStart(i) ==
  /\ LookupTemplate(rows[i].template)
  /\ rows[i].machine \in registry.machines

\* The status startPendingTask writes: it succeeds, fails, or times out, which
\* fails the task and is no error.
StartOutcomes(i) ==
  (IF CanStart(i) THEN {"running", "failed"} ELSE {}) \cup {"starting"}

StartCreated ==
  /\ starting.at = "created"
  /\ LET i == starting.id
     IN IF i \in DOMAIN rows
        THEN \E s \in StartOutcomes(i) \cup {rows[i].status} :
               rows' = [rows EXCEPT ![i].status = s]
        ELSE UNCHANGED rows
  /\ starting' = Idle
  /\ UNCHANGED <<registryVars, time, created, loop, deleting, restarts, tried,
                 resumed>>

-----------------------------------------------------------------------------
(* The loop. *)

\* It reads the active tasks, and goes through them as they were.
BeginTick ==
  /\ loop = Idle /\ ActiveTasks # {}
  /\ loop' = [at |-> "ticking", left |-> InOrder(ActiveTasks),
              was |-> [i \in ActiveTasks |-> rows[i].status]]
  /\ tried' = NoOne
  /\ UNCHANGED <<registryVars, time, rows, created, starting, deleting, restarts, resumed>>

\* What the next task comes to: its status, and whether that is an error.  A write
\* of the row may fail, which leaves it, and so may what comes after the write.
TickOutcomes(i, was) ==
  LET Outcomes(statuses) == [status : statuses \cup {rows[i].status}, failed : BOOLEAN]
      Watched == {"running", "recovering", "waiting_user_input"}
  IN CASE was \in {"pending", "starting"} ->
            {o \in Outcomes(StartOutcomes(i)) :
               o.failed \/ o.status \in StartOutcomes(i) \ {"starting"}}
       [] was = "recovering" -> Outcomes({"running", "failed"})
       [] was = "running" ->
            {o \in Outcomes(Watched) : o.failed \/ o.status \in Watched}
       [] OTHER -> {[status |-> rows[i].status, failed |-> FALSE]}

Continue == IF Len(loop.left) = 1 THEN Idle ELSE [loop EXCEPT !.left = Tail(@)]

\* TickOnce returns at the first error.
FaultyAfterTask(failed) == Idle
AfterTask(failed) == IF failed THEN Idle ELSE Continue

\* An update of a task that was deleted meanwhile is an error too.
TickTask ==
  /\ loop.at = "ticking"
  /\ LET i == Head(loop.left)
     IN IF i \in DOMAIN rows
        THEN \E outcome \in TickOutcomes(i, loop.was[i]) :
               /\ rows' = [rows EXCEPT ![i].status = outcome.status]
               /\ tried' = [id |-> i, failed |-> outcome.failed]
               /\ loop' = AfterTask(outcome.failed)
        ELSE /\ tried' = [id |-> i, failed |-> loop.was[i] # "waiting_user_input"]
             /\ loop' = AfterTask(tried'.failed)
             /\ UNCHANGED rows
  /\ UNCHANGED <<registryVars, time, created, starting, deleting, restarts, resumed>>

\* ResumeActiveTasks, the first thing Run does, continues after an error.
AfterResume(failed) == Continue

ResumeTask ==
  /\ loop.at = "resuming"
  /\ LET i == Head(loop.left)
     IN /\ resumed' = resumed \ {i}
        /\ \E failed \in BOOLEAN : loop' = AfterResume(failed)
        /\ \/ /\ i \in DOMAIN rows /\ loop.was[i] = "recovering"
              /\ rows' = [rows EXCEPT ![i].status = "running"]
           \/ UNCHANGED rows
  /\ UNCHANGED <<registryVars, time, created, starting, deleting, restarts, tried>>

\* The process stops and is started with other files; it would not start with
\* files it does not accept.
Restart(f) ==
  /\ restarts < MaxRestarts /\ restarts' = restarts + 1
  /\ LoadRegistry(f).loaded
  /\ files' = f /\ registry' = LoadRegistry(f)
  /\ starting' = Idle /\ deleting' = Idle
  /\ loop' = IF ActiveTasks = {} THEN Idle
             ELSE [at |-> "resuming", left |-> InOrder(ActiveTasks),
                   was |-> [i \in ActiveTasks |-> rows[i].status]]
  /\ tried' = NoOne /\ resumed' = ActiveTasks
  /\ UNCHANGED <<edits, time, rows, created>>

-----------------------------------------------------------------------------
(* DeleteTerminalTasks. *)

BeginDelete ==
  /\ deleting = Idle
  /\ \E i \in DOMAIN rows : rows[i].status \in Terminal
  /\ deleting' = LET terminal == {i \in DOMAIN rows : rows[i].status \in Terminal}
                 IN [at |-> "deleting", left |-> InOrder(terminal),
                     all |-> {rows[i].serial : i \in terminal}]
  /\ UNCHANGED <<registryVars, time, rows, created, starting, loop, restarts, tried,
                 resumed>>

\* Delete of the next task.  It reads the row again, and the workspace is deleted
\* after the row, when the registry still has template and machine.
AfterDelete ==
  IF Len(deleting.left) = 1 THEN [deleting EXCEPT !.at = "done", !.left = <<>>]
  ELSE [deleting EXCEPT !.left = Tail(@)]

FaultyDeleteTask ==
  /\ deleting.at = "deleting"
  /\ LET i == Head(deleting.left)
         gone == [j \in DOMAIN rows \ {i} |-> rows[j]]
     IN /\ rows' \in {rows, gone}
        /\ deleting' = AfterDelete
  /\ UNCHANGED <<registryVars, time, created, starting, loop, restarts, tried,
                 resumed>>
DeleteTask ==
  /\ deleting.at = "deleting"
  /\ LET i == Head(deleting.left)
         gone == [j \in DOMAIN rows \ {i} |-> rows[j]]
     IN \/ /\ deleting' = Idle                     \* an error before the row is deleted
           /\ UNCHANGED rows
        \/ /\ i \in DOMAIN rows /\ rows[i].status \in Terminal
           /\ rows' = gone
           /\ deleting' \in {Idle} \cup (IF CanStart(i) THEN {AfterDelete} ELSE {})
  /\ UNCHANGED <<registryVars, time, created, starting, loop, restarts, tried,
                 resumed>>

TellDeleted ==
  /\ deleting.at = "done"
  /\ deleting' = Idle
  /\ UNCHANGED <<registryVars, time, rows, created, starting, loop, restarts, tried,
                 resumed>>

-----------------------------------------------------------------------------
Templates ==
  LET accepted == {f \in Deployments : LoadRegistry(f).loaded}
  IN UNION {DOMAIN LoadRegistry(f).templates : f \in accepted}

FleetNext ==
  \/ TimePasses
  \/ \E i \in DOMAIN rows : ChangeStatus(i)
  \/ \E t \in Templates : SelectForTask(t)
  \/ CreateTask \/ StartCreated
  \/ BeginTick \/ TickTask \/ ResumeTask
  \/ \E f \in Deployments : Restart(f)
  \/ BeginDelete \/ DeleteTask \/ TellDeleted

\* The ticker fires again and again, and every call of the runner ends.
FleetFairness ==
  WF_fleetVars(BeginTick) /\ WF_fleetVars(TickTask) /\ WF_fleetVars(ResumeTask)

FleetSpec == FleetInit /\ [][FleetNext]_fleetVars /\ FleetFairness

-----------------------------------------------------------------------------
(***************************************************************************)
(* A task is placed on a machine of its template that has the fewest       *)
(* active tasks, of those the first one listed.                            *)
(***************************************************************************)
LoadOf(m) ==
  Cardinality({i \in DOMAIN rows : rows[i].machine = m /\ rows[i].status \in Active})

PlacedOnLeastLoaded ==
  [][starting.at = "idle" /\ starting'.at = "selected" =>
       LET ids == registry.templates[starting'.template].workspace.machine_ids
       IN \E n \in DOMAIN ids :
            /\ ids[n] = starting'.machine
            /\ \A k \in DOMAIN ids :
                 IF k < n THEN LoadOf(ids[k]) > LoadOf(ids[n])
                 ELSE LoadOf(ids[k]) >= LoadOf(ids[n])]_fleetVars

(***************************************************************************)
(* A task that the registry does not serve - its template or machine is    *)
(* unknown, so that it can be neither started nor deleted with its         *)
(* workspace - was created before the last restart: tasks of this life are *)
(* placed where they can run.                                              *)
(***************************************************************************)
OrphanIsOld == \A i \in DOMAIN rows : ~CanStart(i) => rows[i].life < restarts

(***************************************************************************)
(* After a restart no tick comes before every active task was tried to     *)
(* resume, whatever fails on the way.                                      *)
(***************************************************************************)
AllAreResumed == loop.at # "resuming" => resumed = {}

(***************************************************************************)
(* A task that waits to be started or recovered is taken by the ticks      *)
(* again and again - unless, again and again, a task before it fails: one  *)
(* task that cannot be started, for instance because its template is gone, *)
(* holds up all the later ones.                                            *)
(***************************************************************************)
Waits(i) == i \in DOMAIN rows /\ rows[i].status \in {"pending", "starting", "recovering"}

TicksReachAll ==
  \A i \in Times :
    \/ []<>(~Waits(i))
    \/ []<>(tried.id = i)
    \/ []<>(tried.failed /\ TextBefore(tried.id, i))

(***************************************************************************)
(* When /task delete -a reports success, every task that was terminal when *)
(* it began is deleted.  (Its id may be taken again by then.)              *)
(***************************************************************************)
DeleteAllIsComplete ==
  deleting.at = "done" => \A i \in DOMAIN rows : rows[i].serial \notin deleting.all

(***************************************************************************)
(* Nothing is forgotten: by the placement, by a restart, or by a deletion  *)
(* of all terminal tasks.                                                  *)
(***************************************************************************)
FleetSafety == OrphanIsOld /\ AllAreResumed /\ DeleteAllIsComplete

(***************************************************************************)
(* A task gets a machine that is not overloaded, and later its turn.       *)
(***************************************************************************)
TasksAreServed == PlacedOnLeastLoaded /\ TicksReachAll
=============================================================================
