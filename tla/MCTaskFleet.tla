----------------------------- MODULE MCTaskFleet -----------------------------
(***************************************************************************)
(* TLC instance of the registry and of the tasks that depend on it.  As in *)
(* MCServiceClients, a behaviour of this instance is one of one part: of   *)
(* the files and their loader, or of the tasks under three registries.     *)
(***************************************************************************)
EXTENDS TaskFleet

VARIABLE part

vars == <<part, fleetVars>>

-----------------------------------------------------------------------------
(* Documents: good ones, and each with one thing wrong. *)

Machine(id) == [id |-> id, complete |-> TRUE]

Repository(ids) == [id |-> "r", complete |-> TRUE, machine_ids |-> ids]

Workspace(ids) == [root |-> TRUE, machine_ids |-> ids, setup |-> "repo"]
Profile(ids) == [id |-> "w", workspace |-> Workspace(ids)]

Template(id) ==
  [id |-> id, workflow_path |-> "ok", workspace_id |-> "w", workspace |-> NoWorkspace,
   task_type |-> "", code_review |-> "none"]
OwnTemplate(id, ids) ==
  [Template(id) EXCEPT !.workspace_id = "", !.workspace = Workspace(ids)]
Review(id) == [Template(id) EXCEPT !.task_type = "code_review", !.code_review = "complete"]

MCDocuments ==
  [machines |->
     {Machine("m1"), Machine("m2"), Machine(""), [Machine("m1") EXCEPT !.complete = FALSE],
      Garbage},
   repositories |->
     {Repository(<<"m1">>), Repository(<<"m2">>), Repository(<<>>), Repository(<<"">>),
      [Repository(<<"m1">>) EXCEPT !.complete = FALSE], Garbage},
   workspaces |->
     {Profile(<<"m1", "m2">>), Profile(<<"m2">>), Profile(<<>>), Profile(<<"m1", "">>),
      Profile(<<"m3">>),
      [Profile(<<"m1">>) EXCEPT !.workspace.root = FALSE],
      [Profile(<<"m1">>) EXCEPT !.workspace.setup = "custom_incomplete"],
      [Profile(<<"m1">>) EXCEPT !.id = "v"], Garbage},
   templates |->
     {Template("s"), Template("t"), Review("t"), OwnTemplate("t", <<"m2">>),
      OwnTemplate("t", <<>>), OwnTemplate("t", <<"m1", "m3">>), Template(""), Garbage,
      [Template("t") EXCEPT !.workspace = Workspace(<<"m1">>)],
      [Template("t") EXCEPT !.workspace_id = ""],
      [Template("t") EXCEPT !.workspace_id = "v"],
      [Review("t") EXCEPT !.code_review = "incomplete"],
      [Review("t") EXCEPT !.code_review = "none"],
      [Review("t") EXCEPT !.task_type = "general"],
      [Template("t") EXCEPT !.task_type = "other"]}
     \cup {[Template("t") EXCEPT !.workflow_path = path] :
             path \in {"", "missing", "directory", "outside"}}]

Dir(docs) == [is |-> "dir", docs |-> docs]

MCInitialFiles ==
  [machines |-> Dir(<<Machine("m1"), Machine("m2")>>),
   repositories |-> [is |-> "missing", docs |-> <<>>],
   workspaces |-> Dir(<<Profile(<<"m1", "m2">>)>>),
   templates |-> Dir(<<Template("s")>>)]

\* The first files; without machine m1; with template t in the place of s; and with
\* a machine nobody knows, with which the process does not start.
MCDeployments ==
  {MCInitialFiles,
   [MCInitialFiles EXCEPT !.machines = Dir(<<Machine("m2")>>),
                          !.workspaces = Dir(<<Profile(<<"m2">>)>>)],
   [MCInitialFiles EXCEPT !.templates = Dir(<<OwnTemplate("t", <<"m2">>)>>)],
   [MCInitialFiles EXCEPT !.templates = Dir(<<Template("s"), OwnTemplate("t", <<"m1", "m3">>)>>)]}

-----------------------------------------------------------------------------
Init == part \in {"registry", "fleet"} /\ RegistryInit /\ FleetInit

tasksVars ==
  <<time, rows, created, starting, loop, deleting, restarts, tried, resumed>>

InRegistry(step) == part = "registry" /\ step /\ UNCHANGED <<part, tasksVars>>
InFleet(step) == part = "fleet" /\ step /\ UNCHANGED part

RegistrySteps ==
  \/ \E dir \in Directories :
       \/ \E d \in Documents[dir] : InRegistry(AddFile(dir, d))
       \/ \E i \in DOMAIN files[dir].docs :
            \/ InRegistry(RemoveFile(dir, i))
            \/ \E d \in Documents[dir] : InRegistry(ChangeFile(dir, i, d))
       \/ \E is \in {"missing", "file"} : InRegistry(ReplaceDirectory(dir, is))
  \/ InRegistry(Start)

FleetSteps ==
  \/ InFleet(TimePasses)
  \/ \E i \in DOMAIN rows : InFleet(ChangeStatus(i))
  \/ \E t \in Templates : InFleet(SelectForTask(t))
  \/ InFleet(CreateTask) \/ InFleet(StartCreated)
  \/ InFleet(BeginTick) \/ InFleet(TickTask) \/ InFleet(ResumeTask)
  \/ \E f \in Deployments : InFleet(Restart(f))
  \/ InFleet(BeginDelete) \/ InFleet(DeleteTask) \/ InFleet(TellDeleted)

Spec == Init /\ [][RegistrySteps \/ FleetSteps]_vars /\ FleetFairness

(***************************************************************************)
(* Every part keeps its types.                                             *)
(***************************************************************************)
TypeOK == RegistryTypeOK /\ FleetTypeOK
===============================================================================
