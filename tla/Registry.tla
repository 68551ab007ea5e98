------------------------------- MODULE Registry -------------------------------
(***************************************************************************)
(* The registry of machines, repositories, workspaces and task templates:  *)
(* LoadRegistry of orchestrator/config.go, which the process runs when it  *)
(* starts, over the files operators edit while it is running.              *)
(*                                                                         *)
(* A document is a record of what the loader tells apart.  Names are       *)
(* strings, "" where a field is missing or blank; complete stands for all  *)
(* the required fields that play no other part.  A document that cannot be *)
(* parsed is Garbage.  A definition named Faulty... is a plausible mistake *)
(* in the definition that follows it; nothing uses it.                     *)
(***************************************************************************)
EXTENDS Integers, Sequences, SequencesExt

CONSTANTS
  InitialFiles,  \* the files at the first start
  Documents,     \* what operators may write into each directory
  MaxEdits       \* how many times they edit a file

ASSUME EditsAreBounded == MaxEdits \in Nat

VARIABLES
  files,    \* the four directories of configs/
  registry, \* what the running process has loaded, or NotLoaded
  edits     \* how many times a file was edited

registryVars == <<files, registry, edits>>

Directories == {"machines", "repositories", "workspaces", "templates"}
Garbage == [id |-> "garbage"]
NotLoaded == [loaded |-> FALSE]

-----------------------------------------------------------------------------
(* Validate of each kind of document. *)

\* requireFields, of machine_ids: there is one, and none is blank.
ValidMachineIDs(ids) == ids # <<>> /\ "" \notin ToSet(ids)

ValidMachine(d) == d.id # "" /\ d.complete

ValidRepository(d) == d.id # "" /\ d.complete /\ ValidMachineIDs(d.machine_ids)

\* setup: the type, "..._incomplete" when what it requires is missing.
ValidSetup(setup) == setup \in {"repo", "empty", "custom"}

NoWorkspace == [root |-> FALSE, machine_ids |-> <<>>, setup |-> "none"]

ValidWorkspace(w) == w.root /\ ValidMachineIDs(w.machine_ids) /\ ValidSetup(w.setup)

ValidProfile(d) == d.id # "" /\ ValidWorkspace(d.workspace)

\* "complete" when every field is there and has one of the values supported.
ValidCodeReview(review) == review = "complete"

EffectiveTaskType(d) == IF d.task_type = "" THEN "general" ELSE d.task_type

\* A template has a workspace of its own or names one.
FaultyValidTemplate(d) ==
  /\ d.id # "" /\ d.workflow_path # ""
  /\ d.workspace # NoWorkspace => ValidWorkspace(d.workspace)
  /\ EffectiveTaskType(d) = "code_review" => ValidCodeReview(d.code_review)
ValidTemplate(d) ==
  /\ d.id # "" /\ d.workflow_path # ""
  /\ (d.workspace_id # "") # (d.workspace # NoWorkspace)
  /\ d.workspace # NoWorkspace => ValidWorkspace(d.workspace)
  /\ CASE EffectiveTaskType(d) = "general" -> d.code_review = "none"
       [] EffectiveTaskType(d) = "code_review" -> ValidCodeReview(d.code_review)
       [] OTHER -> FALSE

Valid(dir, d) ==
  /\ d # Garbage
  /\ CASE dir = "machines" -> ValidMachine(d)
       [] dir = "repositories" -> ValidRepository(d)
       [] dir = "workspaces" -> ValidProfile(d)
       [] OTHER -> ValidTemplate(d)

-----------------------------------------------------------------------------
(* LoadRegistry. *)

\* loadConfigFile of every file, and loadConfigDir: at least one file, and no id
\* twice; loadOptionalConfigDir: the directory may be missing.
Unique(docs) == \A i, j \in DOMAIN docs : docs[i].id = docs[j].id => i = j

LoadConfigDir(dir, content) ==
  /\ content.is = "dir" /\ content.docs # <<>>
  /\ \A i \in DOMAIN content.docs : Valid(dir, content.docs[i])
  /\ Unique(content.docs)

LoadOptionalConfigDir(dir, content) ==
  \/ content.is = "missing"
  \/ /\ content.is = "dir"
     /\ \A i \in DOMAIN content.docs : Valid(dir, content.docs[i])
     /\ Unique(content.docs)

IDs(content) == {d.id : d \in ToSet(content.docs)}

\* The entry of a map: the last file with the id, if there were several.
Named(content, id) ==
  LET docs == content.docs
  IN docs[CHOOSE i \in DOMAIN docs :
            docs[i].id = id /\ \A j \in DOMAIN docs : docs[j].id = id => j <= i]

\* bindWorkspaceMachines, and the same for a repository.
BindMachines(ids, machines) == ToSet(ids) \subseteq machines

\* The workspace a template runs in: its own, or a copy of the one it names.
WorkspaceOf(f, d) ==
  IF d.workspace_id = "" THEN d.workspace ELSE Named(f.workspaces, d.workspace_id).workspace

\* resolveWorkflowPath: a file, inside the root when all links are followed.
ResolveWorkflowPath(path) == path \notin {"missing", "directory", "outside"}

FaultyBindTemplate(f, d) ==
  /\ d.workspace_id # "" => d.workspace_id \in IDs(f.workspaces)
  /\ ResolveWorkflowPath(d.workflow_path)
BindTemplate(f, d) ==
  /\ d.workspace_id # "" => d.workspace_id \in IDs(f.workspaces)
  /\ BindMachines(WorkspaceOf(f, d).machine_ids, IDs(f.machines))
  /\ ResolveWorkflowPath(d.workflow_path)

Accepted(f) ==
  /\ LoadConfigDir("machines", f.machines)
  /\ LoadOptionalConfigDir("repositories", f.repositories)
  /\ LoadOptionalConfigDir("workspaces", f.workspaces)
  /\ LoadConfigDir("templates", f.templates)
  /\ \A d \in ToSet(f.repositories.docs) : BindMachines(d.machine_ids, IDs(f.machines))
  /\ \A d \in ToSet(f.workspaces.docs) :
       BindMachines(d.workspace.machine_ids, IDs(f.machines))
  /\ \A d \in ToSet(f.templates.docs) : BindTemplate(f, d)

\* What the service uses of it: the machines and, by its id, each template.
LoadRegistry(f) ==
  IF ~Accepted(f) THEN NotLoaded
  ELSE [loaded |-> TRUE,
        machines |-> IDs(f.machines),
        templates |-> [id \in IDs(f.templates) |->
          LET d == Named(f.templates, id)
          IN [workspace |-> WorkspaceOf(f, d), workflow |-> d.workflow_path,
              task_type |-> EffectiveTaskType(d), code_review |-> d.code_review]]]

-----------------------------------------------------------------------------
Contents(dir) ==
  {c \in [is : {"missing", "file", "dir"}, docs : Seq(Documents[dir])] :
     c.is # "dir" => c.docs = <<>>}

IsFiles(f) ==
  f \in [machines : Contents("machines"), repositories : Contents("repositories"),
         workspaces : Contents("workspaces"), templates : Contents("templates")]

ASSUME StartsWithFiles == IsFiles(InitialFiles)

\* What the loader tells apart in a template.
ASSUME TemplatesAreTyped ==
  \A d \in Documents["templates"] \ {Garbage} :
    /\ d.workflow_path \in {"ok", "", "missing", "directory", "outside"}
    /\ d.code_review \in {"none", "complete", "incomplete"}

ASSUME MachinesAreListed ==
  \A d \in (Documents["templates"] \cup Documents["workspaces"]) \ {Garbage} :
    d.workspace.machine_ids \in Seq(STRING)

RegistryTypeOK ==
  /\ IsFiles(files)
  /\ registry.loaded =>
       \A t \in DOMAIN registry.templates : registry.templates[t].workspace # NoWorkspace
  /\ edits \in 0..MaxEdits

RegistryInit ==
  /\ files = InitialFiles
  /\ registry = LoadRegistry(InitialFiles)
  /\ edits = 0

\* An operator adds, changes or removes a file, or a directory.
Write(dir, content) ==
  /\ edits < MaxEdits /\ edits' = edits + 1
  /\ files' = [files EXCEPT ![dir] = content]
  /\ UNCHANGED registry

AddFile(dir, d) ==
  /\ files[dir].is = "dir"
  /\ Write(dir, [is |-> "dir", docs |-> Append(files[dir].docs, d)])

ChangeFile(dir, i, d) ==
  /\ files[dir].is = "dir"
  /\ Write(dir, [is |-> "dir", docs |-> [files[dir].docs EXCEPT ![i] = d]])

RemoveFile(dir, i) ==
  /\ files[dir].is = "dir"
  /\ Write(dir, [is |-> "dir", docs |-> RemoveAt(files[dir].docs, i)])

ReplaceDirectory(dir, is) == is # "dir" /\ Write(dir, [is |-> is, docs |-> <<>>])

\* The process starts again: with the registry it loads, or not at all.
Start ==
  /\ registry' = LoadRegistry(files)
  /\ UNCHANGED <<files, edits>>

RegistryNext ==
  \/ \E dir \in Directories :
       \/ \E d \in Documents[dir] : AddFile(dir, d)
       \/ \E i \in DOMAIN files[dir].docs :
            RemoveFile(dir, i) \/ \E d \in Documents[dir] : ChangeFile(dir, i, d)
       \/ \E is \in {"missing", "file"} : ReplaceDirectory(dir, is)
  \/ Start

RegistrySpec == RegistryInit /\ [][RegistryNext]_registryVars

-----------------------------------------------------------------------------
(***************************************************************************)
(* Whatever the files say, a registry the process runs with serves every   *)
(* template it lists: a machine can be selected and is known, the setup of *)
(* the workspace can be run, the workflow can be read, and a review has    *)
(* its configuration.  StartTask and startPendingTask dereference all of   *)
(* these, wherever the workspace came from.                                *)
(***************************************************************************)
RegistryIsUsable ==
  registry.loaded =>
    \A t \in DOMAIN registry.templates :
      LET template == registry.templates[t]
      IN /\ template.workspace.machine_ids # <<>>
         /\ ToSet(template.workspace.machine_ids) \subseteq registry.machines
         /\ template.workspace.setup \in {"repo", "empty", "custom"}
         /\ template.workflow = "ok"
         /\ template.task_type = "code_review" <=> template.code_review = "complete"

(***************************************************************************)
(* No file of an accepted configuration is hidden by another one: what is  *)
(* loaded does not depend on the order in which files are read.            *)
(***************************************************************************)
Reversed(f) == [dir \in Directories |-> [f[dir] EXCEPT !.docs = Reverse(@)]]

OrderOfFilesIsFree == LoadRegistry(files) = LoadRegistry(Reversed(files))
(***************************************************************************)
(* Both: what was loaded can be used, and is all there is.                 *)
(***************************************************************************)
RegistrySafety == RegistryIsUsable /\ OrderOfFilesIsFree
=============================================================================
