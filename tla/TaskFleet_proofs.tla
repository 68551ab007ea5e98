--------------------------- MODULE TaskFleet_proofs ---------------------------
(***************************************************************************)
(* Proofs about the registry and the tasks that depend on it: Registry,    *)
(* TaskFleet and the instance MCTaskFleet, for all files, every number of  *)
(* tasks and restarts and every clock.                                     *)
(***************************************************************************)
EXTENDS TLAPS, MCTaskFleet, FiniteSetTheorems, WellFoundedInduction

-----------------------------------------------------------------------------
(* The order in which files are read.                                      *)

LEMMA Mirror ==
  ASSUME NEW D, NEW s \in Seq(D)
  PROVE  /\ Reverse(s) \in Seq(D) /\ Len(Reverse(s)) = Len(s)
         /\ \A i \in 1..Len(s) :
              /\ Len(s) - i + 1 \in 1..Len(s)
              /\ Reverse(s)[i] = s[Len(s) - i + 1]
              /\ s[i] = Reverse(s)[Len(s) - i + 1]
<1>1. Len(s) \in Nat
  OBVIOUS
<1>2. \A i \in 1..Len(s) :
        Len(s) - i + 1 \in 1..Len(s) /\ Len(s) - (Len(s) - i + 1) + 1 = i
  BY <1>1
<1>3. \A i \in 1..Len(s) : Reverse(s)[i] = s[Len(s) - i + 1]
  BY DEF Reverse
<1>4. Reverse(s) \in Seq(D) /\ Len(Reverse(s)) = Len(s)
  BY <1>1, <1>2 DEF Reverse
<1> QED
  BY <1>2, <1>3, <1>4

LEMMA MirrorSet ==
  ASSUME NEW D, NEW s \in Seq(D)
  PROVE  ToSet(Reverse(s)) = ToSet(s)
<1>1. DOMAIN s = 1..Len(s) /\ DOMAIN Reverse(s) = 1..Len(s)
  BY Mirror
<1>2. ASSUME NEW x \in ToSet(s) PROVE x \in ToSet(Reverse(s))
  <2>1. PICK i \in 1..Len(s) : x = s[i]
    BY <1>1 DEF ToSet
  <2> QED
    BY ZenonT(120), <1>1, <2>1, Mirror DEF ToSet
<1>3. ASSUME NEW x \in ToSet(Reverse(s)) PROVE x \in ToSet(s)
  <2>1. PICK i \in 1..Len(s) : x = Reverse(s)[i]
    BY <1>1 DEF ToSet
  <2> QED
    BY <1>1, <2>1, Mirror DEF ToSet
<1> QED
  BY <1>2, <1>3

LEMMA MirrorUnique ==
  ASSUME NEW D, NEW s \in Seq(D), Unique(s)
  PROVE  Unique(Reverse(s))
<1>1. DOMAIN s = 1..Len(s) /\ DOMAIN Reverse(s) = 1..Len(s) /\ Len(s) \in Nat
  BY Mirror
<1> SUFFICES ASSUME NEW i \in 1..Len(s), NEW j \in 1..Len(s), Reverse(s)[i].id = Reverse(s)[j].id
             PROVE  i = j
  BY <1>1 DEF Unique
<1> DEFINE m == Len(s) - i + 1
           n == Len(s) - j + 1
<1>2. m \in DOMAIN s /\ n \in DOMAIN s /\ s[m].id = s[n].id
  BY <1>1, Mirror
<1>3. m = n
  BY <1>2 DEF Unique
<1> QED
  BY <1>1, <1>3

LEMMA MirrorTwice ==
  ASSUME NEW D, NEW s \in Seq(D)
  PROVE  Reverse(Reverse(s)) = s
<1> DEFINE r == Reverse(s)
<1>1. r \in Seq(D) /\ Len(r) = Len(s) /\ Len(s) \in Nat
  BY Mirror
<1>2. \A i \in 1..Len(s) : s[i] = r[Len(s) - i + 1]
  BY Mirror
<1> HIDE DEF r
<1>3. Reverse(r) \in Seq(D) /\ Len(Reverse(r)) = Len(s)
  BY <1>1, Mirror
<1>4. \A i \in 1..Len(s) : Reverse(r)[i] = r[Len(s) - i + 1]
  BY <1>1, Mirror
<1>5. Reverse(r) = s
  BY <1>1, <1>2, <1>3, <1>4
<1> QED
  BY <1>5 DEF r

(* Without two documents of one id, the entry of an id is its document.    *)
LEMMA NamedIs ==
  ASSUME NEW D, NEW content, content.docs \in Seq(D), Unique(content.docs),
         NEW i \in DOMAIN content.docs
  PROVE  Named(content, content.docs[i].id) = content.docs[i]
<1> DEFINE docs == content.docs
           IsLast(k) == docs[k].id = docs[i].id /\ \A j \in DOMAIN docs : docs[j].id = docs[i].id => j <= k
<1>1. DOMAIN docs \subseteq Nat
  OBVIOUS
<1>2. \A k \in DOMAIN docs : docs[k].id = docs[i].id => k = i
  BY DEF Unique
<1>3. IsLast(i)
  BY <1>1, <1>2
<1>4. \A k \in DOMAIN docs : IsLast(k) => k = i
  BY <1>2
<1>5. (CHOOSE k \in DOMAIN docs : IsLast(k)) = i
  BY <1>3, <1>4
<1> QED
  BY <1>5 DEF Named

LEMMA NamedAny ==
  ASSUME NEW D, NEW content, content.docs \in Seq(D), Unique(content.docs), NEW id \in IDs(content)
  PROVE  Named(content, id) \in ToSet(content.docs) /\ Named(content, id).id = id
<1>1. PICK i \in DOMAIN content.docs : content.docs[i].id = id
  BY DEF IDs, ToSet
<1> QED
  BY <1>1, NamedIs DEF ToSet

LEMMA NamedMirror ==
  ASSUME NEW D, NEW content, NEW mirror, content.docs \in Seq(D), Unique(content.docs),
         mirror.docs = Reverse(content.docs), NEW id \in IDs(content)
  PROVE  Named(mirror, id) = Named(content, id)
<1>1. PICK i \in DOMAIN content.docs : content.docs[i].id = id
  BY DEF IDs, ToSet
<1>2. Named(content, id) = content.docs[i]
  BY <1>1, NamedIs
<1> DEFINE k == Len(content.docs) - i + 1
<1>3. k \in DOMAIN mirror.docs /\ mirror.docs[k] = content.docs[i]
  BY Mirror
<1>4. mirror.docs \in Seq(D) /\ Unique(mirror.docs)
  BY Mirror, MirrorUnique
<1>5. Named(mirror, mirror.docs[k].id) = mirror.docs[k]
  BY <1>3, <1>4, NamedIs
<1> QED
  BY <1>1, <1>2, <1>3, <1>5

IsContent(c) == c = [is |-> c.is, docs |-> c.docs]

LEMMA ContentFields ==
  ASSUME NEW c, IsContent(c), NEW d
  PROVE  [c EXCEPT !.docs = d] = [is |-> c.is, docs |-> d]
BY DEF IsContent

LEMMA FilesFields ==
  ASSUME NEW f, IsFiles(f)
  PROVE  /\ f = [dir \in Directories |-> f[dir]]
         /\ \A dir \in Directories : f[dir] \in Contents(dir)
BY DEF IsFiles, Directories

LEMMA FilesOfDirectories ==
  ASSUME NEW g, g = [dir \in Directories |-> g[dir]],
         \A dir \in Directories : g[dir] \in Contents(dir)
  PROVE  IsFiles(g)
BY DEF IsFiles, Directories

(* What the loader requires of a directory does not name the order.        *)
LEMMA MirrorContent ==
  ASSUME NEW dir \in Directories, NEW c \in Contents(dir), NEW m, m = [c EXCEPT !.docs = Reverse(@)]
  PROVE  /\ m \in Contents(dir) /\ m.is = c.is /\ m.docs = Reverse(c.docs)
         /\ c.docs \in Seq(Documents[dir])
         /\ ToSet(m.docs) = ToSet(c.docs) /\ IDs(m) = IDs(c)
         /\ [m EXCEPT !.docs = Reverse(@)] = c
<1>1. c \in [is : {"missing", "file", "dir"}, docs : Seq(Documents[dir])]
      /\ (c.is # "dir" => c.docs = <<>>)
  BY DEF Contents
<1>2. m.is = c.is /\ m.docs = Reverse(c.docs) /\ m = [is |-> c.is, docs |-> Reverse(c.docs)]
  <2>1. m = [is |-> c.is, docs |-> Reverse(c.docs)]
    BY <1>1, ContentFields DEF IsContent
  <2> QED
    BY <2>1
<1>3. Reverse(c.docs) \in Seq(Documents[dir]) /\ Len(Reverse(c.docs)) = Len(c.docs)
  BY <1>1, Mirror
<1>4. c.docs = <<>> => Reverse(c.docs) = <<>>
  BY <1>3
<1>5. m \in Contents(dir)
  BY <1>1, <1>2, <1>3, <1>4 DEF Contents
<1>6. ToSet(m.docs) = ToSet(c.docs) /\ IDs(m) = IDs(c)
  BY <1>1, <1>2, MirrorSet DEF IDs
<1>7. [m EXCEPT !.docs = Reverse(@)] = c
  <2>1. Reverse(m.docs) = c.docs
    BY <1>1, <1>2, MirrorTwice
  <2>2. [m EXCEPT !.docs = Reverse(@)] = [is |-> m.is, docs |-> Reverse(m.docs)]
    <3>1. IsContent(m)
      BY <1>2 DEF IsContent
    <3> QED
      BY <3>1, ContentFields
  <2>3. c = [is |-> c.is, docs |-> c.docs]
    BY <1>1
  <2> QED
    BY <1>2, <2>1, <2>2, <2>3
<1> QED
  BY <1>1, <1>2, <1>5, <1>6, <1>7

LEMMA MirrorFiles ==
  ASSUME NEW f, IsFiles(f)
  PROVE  /\ IsFiles(Reversed(f)) /\ Reversed(Reversed(f)) = f
         /\ \A dir \in Directories :
              /\ Reversed(f)[dir].is = f[dir].is
              /\ Reversed(f)[dir].docs = Reverse(f[dir].docs)
              /\ f[dir].docs \in Seq(Documents[dir])
              /\ ToSet(Reversed(f)[dir].docs) = ToSet(f[dir].docs)
              /\ IDs(Reversed(f)[dir]) = IDs(f[dir])
<1>1. \A dir \in Directories :
        f[dir] \in Contents(dir) /\ Reversed(f)[dir] = [f[dir] EXCEPT !.docs = Reverse(@)]
  BY FilesFields DEF Reversed
<1>2. \A dir \in Directories :
        /\ Reversed(f)[dir] \in Contents(dir)
        /\ [Reversed(f)[dir] EXCEPT !.docs = Reverse(@)] = f[dir]
  BY ZenonT(120), <1>1, MirrorContent
<1>3. Reversed(f) = [dir \in Directories |-> Reversed(f)[dir]]
  BY DEF Reversed
<1>4. IsFiles(Reversed(f))
  BY <1>2, <1>3, FilesOfDirectories
<1>5. Reversed(Reversed(f)) = [dir \in Directories |-> f[dir]]
  BY <1>2 DEF Reversed
<1>6. f = [dir \in Directories |-> f[dir]]
  BY FilesFields
<1>7. ASSUME NEW dir \in Directories
      PROVE  /\ Reversed(f)[dir].is = f[dir].is
             /\ Reversed(f)[dir].docs = Reverse(f[dir].docs)
             /\ f[dir].docs \in Seq(Documents[dir])
             /\ ToSet(Reversed(f)[dir].docs) = ToSet(f[dir].docs)
             /\ IDs(Reversed(f)[dir]) = IDs(f[dir])
  <2> DEFINE c == f[dir]
             m == Reversed(f)[dir]
  <2>1. c \in Contents(dir) /\ m = [c EXCEPT !.docs = Reverse(@)]
    BY <1>1
  <2> HIDE DEF c, m
  <2>2. /\ m.is = c.is /\ m.docs = Reverse(c.docs) /\ c.docs \in Seq(Documents[dir])
        /\ ToSet(m.docs) = ToSet(c.docs) /\ IDs(m) = IDs(c)
    BY <2>1, MirrorContent
  <2> QED
    BY <2>2 DEF c, m
<1> QED
  BY <1>4, <1>5, <1>6, <1>7

(* In an accepted configuration every directory has one document an id.    *)
LEMMA AcceptedDirectories ==
  ASSUME NEW f, IsFiles(f), Accepted(f), NEW dir \in Directories
  PROVE  /\ f[dir].docs \in Seq(Documents[dir])
         /\ Unique(f[dir].docs)
         /\ \A d \in ToSet(f[dir].docs) : Valid(dir, d) /\ d \in Documents[dir]
<1>1. /\ f[dir].docs \in Seq(Documents[dir])
      /\ f[dir].is # "dir" => f[dir].docs = <<>>
  BY FilesFields DEF Contents
<1>2. LoadConfigDir(dir, f[dir]) \/ LoadOptionalConfigDir(dir, f[dir])
  BY DEF Accepted, Directories
<1>3. /\ \A i \in DOMAIN f[dir].docs : Valid(dir, f[dir].docs[i])
      /\ Unique(f[dir].docs)
  BY <1>1, <1>2 DEF LoadConfigDir, LoadOptionalConfigDir, Unique
<1>4. \A d \in ToSet(f[dir].docs) : Valid(dir, d) /\ d \in Documents[dir]
  BY <1>1, <1>3 DEF ToSet
<1> QED
  BY <1>1, <1>3, <1>4

(* The workspace of a template is found in either order.                   *)
LEMMA MirrorNamed ==
  ASSUME NEW S, NEW here, here.docs \in Seq(S), Unique(here.docs),
         NEW there, there.docs = Reverse(here.docs)
  PROVE  \A w \in IDs(here) : Named(there, w) = Named(here, w)
BY NamedMirror

LEMMA MirrorWorkspace ==
  ASSUME NEW f, IsFiles(f), Unique(f.workspaces.docs),
         NEW d, d.workspace_id # "" => d.workspace_id \in IDs(f.workspaces)
  PROVE  WorkspaceOf(Reversed(f), d) = WorkspaceOf(f, d)
<1>1. /\ Reversed(f).workspaces.docs = Reverse(f.workspaces.docs)
      /\ f.workspaces.docs \in Seq(Documents["workspaces"])
  BY MirrorFiles DEF Directories
<1>2. CASE d.workspace_id = ""
  BY <1>2 DEF WorkspaceOf
<1>3. CASE d.workspace_id # ""
  <2>1. ASSUME NEW w \in IDs(f.workspaces)
        PROVE  Named(Reversed(f).workspaces, w) = Named(f.workspaces, w)
    BY <1>1, MirrorNamed
  <2> QED
    BY <1>3, <2>1 DEF WorkspaceOf
<1> QED
  BY <1>2, <1>3

LEMMA MirrorAccepted ==
  ASSUME NEW f, IsFiles(f), Accepted(f)
  PROVE  Accepted(Reversed(f))
<1> DEFINE r == Reversed(f)
<1>1. \A dir \in Directories :
        /\ r[dir].is = f[dir].is /\ r[dir].docs = Reverse(f[dir].docs)
        /\ f[dir].docs \in Seq(Documents[dir])
        /\ ToSet(r[dir].docs) = ToSet(f[dir].docs)
        /\ IDs(r[dir]) = IDs(f[dir])
  BY MirrorFiles
<1>2. \A d \in ToSet(f.templates.docs) : WorkspaceOf(r, d) = WorkspaceOf(f, d)
  <2>1. Unique(f.workspaces.docs)
    BY AcceptedDirectories DEF Directories
  <2>2. \A d \in ToSet(f.templates.docs) :
          d.workspace_id # "" => d.workspace_id \in IDs(f.workspaces)
    BY DEF Accepted, BindTemplate
  <2> QED
    BY <2>1, <2>2, MirrorWorkspace
<1> HIDE DEF r
<1>3. ASSUME NEW dir \in Directories
      PROVE  /\ \A i \in DOMAIN r[dir].docs : Valid(dir, r[dir].docs[i])
             /\ Unique(r[dir].docs)
             /\ f[dir].docs # <<>> => r[dir].docs # <<>>
  <2>1. \A d \in ToSet(r[dir].docs) : Valid(dir, d)
    BY <1>1, AcceptedDirectories
  <2>2. Unique(r[dir].docs) /\ Len(r[dir].docs) = Len(f[dir].docs)
    BY <1>1, AcceptedDirectories, MirrorUnique, Mirror
  <2>3. f[dir].docs # <<>> => r[dir].docs # <<>>
    BY <1>1, <2>2
  <2> QED
    BY <2>1, <2>2, <2>3 DEF ToSet
<1>4. LoadConfigDir("machines", r.machines) /\ LoadConfigDir("templates", r.templates)
  BY <1>1, <1>3 DEF Accepted, LoadConfigDir, Directories
<1>5. /\ LoadOptionalConfigDir("repositories", r.repositories)
      /\ LoadOptionalConfigDir("workspaces", r.workspaces)
  BY <1>1, <1>3 DEF Accepted, LoadOptionalConfigDir, Directories
<1>6. /\ \A d \in ToSet(r.repositories.docs) : BindMachines(d.machine_ids, IDs(r.machines))
      /\ \A d \in ToSet(r.workspaces.docs) : BindMachines(d.workspace.machine_ids, IDs(r.machines))
  BY <1>1 DEF Accepted, Directories
<1>7. \A d \in ToSet(r.templates.docs) : BindTemplate(r, d)
  BY <1>1, <1>2 DEF Accepted, BindTemplate, Directories
<1> QED
  BY <1>4, <1>5, <1>6, <1>7 DEF Accepted, r

(* What is loaded is the same in the other order.                          *)
LEMMA OrderIsFree ==
  ASSUME NEW f, IsFiles(f)
  PROVE  LoadRegistry(f) = LoadRegistry(Reversed(f))
<1>1. CASE ~Accepted(f)
  <2>1. ~Accepted(Reversed(f))
    BY <1>1, MirrorFiles, MirrorAccepted
  <2> QED
    BY <1>1, <2>1 DEF LoadRegistry
<1>2. CASE Accepted(f)
  <2> DEFINE r == Reversed(f)
             Entry(g, d) == [workspace |-> WorkspaceOf(g, d), workflow |-> d.workflow_path,
                             task_type |-> EffectiveTaskType(d), code_review |-> d.code_review]
  <2>1. Accepted(r)
    BY <1>2, MirrorAccepted
  <2>2. IDs(r.machines) = IDs(f.machines) /\ IDs(r.templates) = IDs(f.templates)
    BY MirrorFiles DEF Directories
  <2>3. ASSUME NEW id \in IDs(f.templates)
        PROVE  /\ Named(r.templates, id) = Named(f.templates, id)
               /\ WorkspaceOf(r, Named(f.templates, id)) = WorkspaceOf(f, Named(f.templates, id))
    <3>1. /\ f.templates.docs \in Seq(Documents["templates"]) /\ Unique(f.templates.docs)
          /\ r.templates.docs = Reverse(f.templates.docs)
          /\ Unique(f.workspaces.docs)
      BY <1>2, AcceptedDirectories, MirrorFiles DEF Directories
    <3>2. Named(r.templates, id) = Named(f.templates, id)
      BY <3>1, MirrorNamed
    <3>3. Named(f.templates, id) \in ToSet(f.templates.docs)
      BY <3>1, NamedAny
    <3>4. BindTemplate(f, Named(f.templates, id))
      BY <1>2, <3>3 DEF Accepted
    <3> QED
      BY <3>1, <3>2, <3>4, MirrorWorkspace DEF BindTemplate
  <2>4. LoadRegistry(f) = [loaded |-> TRUE, machines |-> IDs(f.machines),
          templates |-> [id \in IDs(f.templates) |-> Entry(f, Named(f.templates, id))]]
    BY <1>2 DEF LoadRegistry
  <2>5. LoadRegistry(r) = [loaded |-> TRUE, machines |-> IDs(r.machines),
          templates |-> [id \in IDs(r.templates) |-> Entry(r, Named(r.templates, id))]]
    BY <2>1 DEF LoadRegistry
  <2>6. \A id \in IDs(f.templates) :
          Entry(r, Named(r.templates, id)) = Entry(f, Named(f.templates, id))
    BY <2>3
  <2> HIDE DEF r, Entry
  <2>7. [id \in IDs(f.templates) |-> Entry(f, Named(f.templates, id))]
          = [id \in IDs(r.templates) |-> Entry(r, Named(r.templates, id))]
    BY <2>2, <2>6
  <2> QED
    BY <2>2, <2>4, <2>5, <2>7 DEF r
<1> QED
  BY <1>1, <1>2

-----------------------------------------------------------------------------
(* A registry that was loaded can be used.                                 *)

\* What the service needs of an entry of the registry.
EntryIsUsable(template, machines) ==
  /\ template.workspace # NoWorkspace
  /\ template.workspace.machine_ids \in Seq(STRING) \ {<<>>}
  /\ ToSet(template.workspace.machine_ids) \subseteq machines
  /\ template.workspace.setup \in {"repo", "empty", "custom"}
  /\ template.workflow = "ok"
  /\ template.task_type = "code_review" <=> template.code_review = "complete"

IsUsable(r) ==
  r.loaded => \A t \in DOMAIN r.templates : EntryIsUsable(r.templates[t], r.machines)

LEMMA WorkspaceIsValid ==
  ASSUME NEW f, IsFiles(f), Accepted(f), NEW d \in ToSet(f.templates.docs)
  PROVE  /\ ValidWorkspace(WorkspaceOf(f, d))
         /\ WorkspaceOf(f, d).machine_ids \in Seq(STRING)
         /\ ToSet(WorkspaceOf(f, d).machine_ids) \subseteq IDs(f.machines)
<1>1. ValidTemplate(d) /\ d \in Documents["templates"] \ {Garbage}
  BY AcceptedDirectories DEF Directories, Valid
<1>2. BindTemplate(f, d)
  BY DEF Accepted
<1>3. CASE d.workspace_id = ""
  <2>1. d.workspace # NoWorkspace
    BY <1>1, <1>3 DEF ValidTemplate
  <2> QED
    BY <1>1, <1>2, <1>3, <2>1, MachinesAreListed
    DEF ValidTemplate, WorkspaceOf, BindTemplate, BindMachines
<1>4. CASE d.workspace_id # ""
  <2>1. d.workspace_id \in IDs(f.workspaces)
    BY <1>2, <1>4 DEF BindTemplate
  <2>2. /\ f.workspaces.docs \in Seq(Documents["workspaces"]) /\ Unique(f.workspaces.docs)
        /\ \A w \in ToSet(f.workspaces.docs) :
             ValidProfile(w) /\ w \in Documents["workspaces"] \ {Garbage}
    BY AcceptedDirectories DEF Directories, Valid
  <2>3. Named(f.workspaces, d.workspace_id) \in ToSet(f.workspaces.docs)
    BY <2>1, <2>2, NamedAny
  <2> QED
    BY <1>2, <1>4, <2>2, <2>3, MachinesAreListed
    DEF ValidProfile, WorkspaceOf, BindTemplate, BindMachines
<1> QED
  BY <1>3, <1>4

LEMMA LoadedIsUsable ==
  ASSUME NEW f, IsFiles(f)
  PROVE  IsUsable(LoadRegistry(f))
<1>1. CASE ~Accepted(f)
  BY <1>1 DEF LoadRegistry, NotLoaded, IsUsable
<1>2. CASE Accepted(f)
  <2> DEFINE Entry(d) == [workspace |-> WorkspaceOf(f, d), workflow |-> d.workflow_path,
                          task_type |-> EffectiveTaskType(d), code_review |-> d.code_review]
  <2>1. LoadRegistry(f) = [loaded |-> TRUE, machines |-> IDs(f.machines),
          templates |-> [id \in IDs(f.templates) |-> Entry(Named(f.templates, id))]]
    BY <1>2 DEF LoadRegistry
  <2>2. ASSUME NEW d \in ToSet(f.templates.docs)
        PROVE  EntryIsUsable(Entry(d), IDs(f.machines))
    <3>1. ValidTemplate(d) /\ d \in Documents["templates"] \ {Garbage}
      BY <1>2, AcceptedDirectories DEF Directories, Valid
    <3>2. BindTemplate(f, d)
      BY <1>2 DEF Accepted
    <3>3. /\ ValidWorkspace(WorkspaceOf(f, d))
          /\ WorkspaceOf(f, d).machine_ids \in Seq(STRING)
          /\ ToSet(WorkspaceOf(f, d).machine_ids) \subseteq IDs(f.machines)
      BY <1>2, WorkspaceIsValid
    <3>4. d.workflow_path = "ok"
      BY <3>1, <3>2, TemplatesAreTyped DEF ValidTemplate, BindTemplate, ResolveWorkflowPath
    <3>5. EffectiveTaskType(d) = "code_review" <=> d.code_review = "complete"
      BY <3>1 DEF ValidTemplate, ValidCodeReview
    <3>6. WorkspaceOf(f, d) # NoWorkspace
      BY <3>3 DEF ValidWorkspace, NoWorkspace
    <3> DEFINE e == Entry(d)
    <3>7. /\ e.workspace = WorkspaceOf(f, d) /\ e.workflow = d.workflow_path
          /\ e.task_type = EffectiveTaskType(d) /\ e.code_review = d.code_review
      OBVIOUS
    <3> HIDE DEF e
    <3>8. EntryIsUsable(e, IDs(f.machines))
      BY <3>3, <3>4, <3>5, <3>6, <3>7
      DEF EntryIsUsable, ValidWorkspace, ValidMachineIDs, ValidSetup
    <3> QED
      BY <3>8 DEF e
  <2>3. \A id \in IDs(f.templates) : Named(f.templates, id) \in ToSet(f.templates.docs)
    BY <1>2, AcceptedDirectories, NamedAny DEF Directories
  <2> HIDE DEF Entry
  <2> QED
    BY <2>1, <2>2, <2>3 DEF IsUsable
<1> QED
  BY <1>1, <1>2

(* The files and what was loaded of them, through every edit and start.    *)
RegistryInv ==
  /\ IsFiles(files) /\ IsUsable(registry) /\ edits \in 0..MaxEdits

LEMMA RegistryInvIsSafe == RegistryInv => RegistryTypeOK /\ RegistrySafety
<1> SUFFICES ASSUME RegistryInv PROVE RegistryTypeOK /\ RegistrySafety
  OBVIOUS
<1>1. RegistryTypeOK /\ RegistryIsUsable
  BY DEF RegistryInv, IsUsable, EntryIsUsable, RegistryTypeOK, RegistryIsUsable
<1>2. OrderOfFilesIsFree
  BY OrderIsFree DEF RegistryInv, OrderOfFilesIsFree
<1> QED
  BY <1>1, <1>2 DEF RegistrySafety

LEMMA RegistryInvInit == RegistryInit => RegistryInv
BY StartsWithFiles, EditsAreBounded, LoadedIsUsable DEF RegistryInit, RegistryInv

LEMMA WriteStep ==
  ASSUME RegistryInv, NEW dir \in Directories, NEW content \in Contents(dir), Write(dir, content)
  PROVE  RegistryInv'
<1>1. edits' \in 0..MaxEdits /\ registry' = registry
  BY EditsAreBounded DEF RegistryInv, Write
<1>2. IsFiles(files')
  <2>1. files = [e \in Directories |-> files[e]] /\ \A e \in Directories : files[e] \in Contents(e)
    BY FilesFields DEF RegistryInv
  <2>2. files' = [files EXCEPT ![dir] = content]
    BY DEF Write
  <2>3. \A e \in Directories : files'[e] = IF e = dir THEN content ELSE files[e]
    BY <2>1, <2>2
  <2>4. files' = [e \in Directories |-> files'[e]]
    BY <2>1, <2>2
  <2> QED
    BY <2>1, <2>3, <2>4, FilesOfDirectories
<1> QED
  BY <1>1, <1>2 DEF RegistryInv

LEMMA RemovingOne ==
  ASSUME NEW S, NEW s \in Seq(S), NEW i \in DOMAIN s
  PROVE  RemoveAt(s, i) \in Seq(S)
<1>1. Len(s) \in Nat /\ i \in 1..Len(s) /\ \A k \in 1..Len(s) : s[k] \in S
  OBVIOUS
<1>2. SubSeq(s, 1, i - 1) \in Seq(S)
  BY <1>1
<1>3. SubSeq(s, i + 1, Len(s)) \in Seq(S)
  BY <1>1
<1> QED
  BY <1>2, <1>3 DEF RemoveAt

LEMMA RegistryInvStep ==
  ASSUME RegistryInv, [RegistryNext]_registryVars
  PROVE  RegistryInv'
<1> DEFINE Docs(dir) == files[dir].docs
<1>1. \A dir \in Directories : Docs(dir) \in Seq(Documents[dir])
  BY FilesFields DEF RegistryInv, Contents
<1>2. ASSUME NEW dir \in Directories, NEW s \in Seq(Documents[dir]),
             Write(dir, [is |-> "dir", docs |-> s])
      PROVE  RegistryInv'
  BY <1>2, WriteStep DEF Contents
<1>3. ASSUME NEW dir \in Directories, NEW d \in Documents[dir], AddFile(dir, d)
      PROVE  RegistryInv'
  <2>1. \A s \in Seq(Documents[dir]) : Append(s, d) \in Seq(Documents[dir])
    OBVIOUS
  <2>2. Append(Docs(dir), d) \in Seq(Documents[dir])
    BY <1>1, <2>1
  <2> QED
    BY <1>2, <1>3, <2>2 DEF AddFile
<1>4. ASSUME NEW dir \in Directories, NEW d \in Documents[dir], NEW i \in DOMAIN Docs(dir),
             ChangeFile(dir, i, d)
      PROVE  RegistryInv'
  BY <1>1, <1>2, <1>4 DEF ChangeFile
<1>5. ASSUME NEW dir \in Directories, NEW i \in DOMAIN Docs(dir), RemoveFile(dir, i)
      PROVE  RegistryInv'
  <2>1. RemoveAt(Docs(dir), i) \in Seq(Documents[dir])
    BY <1>1, RemovingOne
  <2> QED
    BY <1>2, <1>5, <2>1 DEF RemoveFile
<1>6. ASSUME NEW dir \in Directories, NEW is \in {"missing", "file"}, ReplaceDirectory(dir, is)
      PROVE  RegistryInv'
  <2>1. [is |-> is, docs |-> <<>>] \in Contents(dir)
    BY DEF Contents
  <2> QED
    BY <1>6, <2>1, WriteStep DEF ReplaceDirectory
<1>7. CASE Start
  BY <1>7, LoadedIsUsable DEF Start, RegistryInv
<1>8. CASE UNCHANGED registryVars
  BY <1>8 DEF registryVars, RegistryInv
<1> QED
  BY <1>3, <1>4, <1>5, <1>6, <1>7, <1>8 DEF RegistryNext

(* Whatever operators write, a registry the process runs with can be used, *)
(* and does not depend on the order of the files.                          *)
THEOREM RegistryIsSafe == RegistrySpec => []RegistrySafety
BY RegistryInvInit, RegistryInvStep, RegistryInvIsSafe, PTL DEF RegistrySpec

-----------------------------------------------------------------------------
(* Every set of naturals has a least element: what takes the place of an   *)
(* induction below, where the least counterexample leads to a smaller one. *)

LEMMA LeastNatural ==
  ASSUME NEW X, X \subseteq Nat, X # {}
  PROVE  \E n \in X : \A m \in X : n <= m
<1>1. \E n \in X : \A m \in X : ~(<<m, n>> \in OpToRel(<, Nat))
  BY NatLessThanWellFounded, WFMin
<1>2. PICK n \in X : \A m \in X : ~(<<m, n>> \in OpToRel(<, Nat))
  BY <1>1
<1>3. ASSUME NEW m \in X, m < n PROVE <<m, n>> \in OpToRel(<, Nat)
  <2> DEFINE e == <<m, n>>
  <2>1. e \in Nat \X Nat /\ e[1] < e[2]
    BY <1>3
  <2> HIDE DEF e
  <2> QED
    BY <2>1 DEF OpToRel, e
<1>4. \A m \in X : ~(m < n)
  BY <1>2, <1>3, Zenon
<1> QED
  BY <1>4

-----------------------------------------------------------------------------
(* selectMachine.                                                          *)

(* What the loop has selected after the first n machines, for n up to k.   *)
Selects(ids, k, f) ==
  f = [n \in 1..k |->
        IF n = 1 THEN ids[1]
        ELSE IF Load(ids[n]) < Load(f[n - 1]) THEN ids[n] ELSE f[n - 1]]

LEMMA SelectsSome ==
  ASSUME NEW ids, NEW k \in Nat
  PROVE  \E f : Selects(ids, k, f)
<1> DEFINE X == {n \in Nat : ~\E f : Selects(ids, n, f)}
<1> SUFFICES ASSUME X # {} PROVE FALSE
  OBVIOUS
<1>1. PICK n \in X : \A m \in X : n <= m
  BY LeastNatural
<1>2. CASE n = 0
  <2>1. Selects(ids, 0, [m \in 1..0 |-> 0])
    BY DEF Selects
  <2> QED
    BY <1>2, <2>1
<1>3. CASE n # 0
  <2>1. n - 1 \in Nat /\ n - 1 \notin X
    BY <1>1, <1>3
  <2>2. PICK g : Selects(ids, n - 1, g)
    BY <2>1
  <2> DEFINE last == IF n = 1 THEN ids[1]
                     ELSE IF Load(ids[n]) < Load(g[n - 1]) THEN ids[n] ELSE g[n - 1]
             f == [m \in 1..n |-> IF m = n THEN last ELSE g[m]]
  <2>3. n \in Nat /\ n >= 1
    BY <1>3
  <2>4. ASSUME NEW m \in 1..n
        PROVE  f[m] = IF m = 1 THEN ids[1]
                      ELSE IF Load(ids[m]) < Load(f[m - 1]) THEN ids[m] ELSE f[m - 1]
    <3>1. m # 1 => m - 1 \in 1..n /\ m - 1 # n
      BY <2>3
    <3>2. m # n => m \in 1..(n - 1)
      BY <2>3
    <3>3. m # n => g[m] = IF m = 1 THEN ids[1]
                          ELSE IF Load(ids[m]) < Load(g[m - 1]) THEN ids[m] ELSE g[m - 1]
      BY <2>2, <3>2 DEF Selects
    <3>4. m # 1 => f[m - 1] = g[m - 1]
      BY <3>1
    <3> QED
      BY <3>3, <3>4
  <2>5. f = [m \in 1..n |-> f[m]]
    OBVIOUS
  <2> HIDE DEF f
  <2>6. Selects(ids, n, f)
    BY <2>4, <2>5 DEF Selects
  <2> QED
    BY <2>6
<1> QED
  BY <1>2, <1>3

\* m is the first of the machines with the fewest tasks among the first k.
IsFirstLeast(ids, k, m) ==
  \E n \in 1..k :
    /\ ids[n] = m
    /\ \A j \in 1..k :
         IF j < n THEN Load(ids[j]) > Load(ids[n]) ELSE Load(ids[j]) >= Load(ids[n])

LEMMA SelectsFirstLeast ==
  ASSUME NEW ids, NEW k \in Nat, \A n \in 1..k : Load(ids[n]) \in Nat,
         NEW f, Selects(ids, k, f), NEW n \in 1..k
  PROVE  IsFirstLeast(ids, n, f[n])
<1> DEFINE X == {i \in 1..k : ~IsFirstLeast(ids, i, f[i])}
<1> SUFFICES ASSUME X # {} PROVE FALSE
  OBVIOUS
<1>1. PICK i \in X : \A j \in X : i <= j
  <2>1. X \subseteq Nat
    OBVIOUS
  <2> HIDE DEF X
  <2> QED
    BY <2>1, LeastNatural
<1>2. i \in 1..k /\ ~IsFirstLeast(ids, i, f[i])
  BY <1>1
<1>3. f[i] = IF i = 1 THEN ids[1]
             ELSE IF Load(ids[i]) < Load(f[i - 1]) THEN ids[i] ELSE f[i - 1]
  BY <1>2 DEF Selects
<1>4. CASE i = 1
  BY <1>2, <1>3, <1>4 DEF IsFirstLeast
<1>5. CASE i # 1
  <2>1. i - 1 \in 1..k /\ i - 1 \notin X
    BY <1>1, <1>2, <1>5
  <2>2. PICK b \in 1..(i - 1) :
          /\ ids[b] = f[i - 1]
          /\ \A j \in 1..(i - 1) :
               IF j < b THEN Load(ids[j]) > Load(ids[b]) ELSE Load(ids[j]) >= Load(ids[b])
    BY <2>1 DEF IsFirstLeast
  <2>3. b \in 1..k /\ i \in Nat /\ b < i /\ b \in Nat
    BY <1>2
  <2>4. Load(ids[b]) \in Nat /\ Load(ids[i]) \in Nat
    BY <1>2, <2>3
  <2>5. ASSUME NEW j \in 1..i, j # i
        PROVE  j \in 1..(i - 1) /\ Load(ids[j]) \in Nat
    BY <1>2, <2>3, <2>5
  <2>6. CASE Load(ids[i]) < Load(ids[b])
    <3>1. f[i] = ids[i]
      BY <1>3, <1>5, <2>2, <2>6
    <3>2. ASSUME NEW j \in 1..i
          PROVE  IF j < i THEN Load(ids[j]) > Load(ids[i]) ELSE Load(ids[j]) >= Load(ids[i])
      <4>1. CASE j = i
        BY <2>3, <2>4, <4>1
      <4>2. CASE j # i
        <5>1. Load(ids[j]) >= Load(ids[b])
          BY <2>2, <2>4, <2>5, <4>2
        <5> QED
          BY <2>3, <2>4, <2>5, <2>6, <4>2, <5>1
      <4> QED
        BY <4>1, <4>2
    <3> QED
      BY <1>2, <2>3, <3>1, <3>2 DEF IsFirstLeast
  <2>7. CASE ~(Load(ids[i]) < Load(ids[b]))
    <3>1. f[i] = ids[b] /\ Load(ids[i]) >= Load(ids[b])
      BY <1>3, <1>5, <2>2, <2>4, <2>7
    <3>2. ASSUME NEW j \in 1..i
          PROVE  IF j < b THEN Load(ids[j]) > Load(ids[b]) ELSE Load(ids[j]) >= Load(ids[b])
      BY <2>2, <2>3, <2>5, <3>1
    <3>3. b \in 1..i
      BY <2>3
    <3> QED
      BY <1>2, <3>1, <3>2, <3>3 DEF IsFirstLeast
  <2> QED
    BY <2>6, <2>7
<1> QED
  BY <1>4, <1>5

(* The first of the machines with the fewest tasks is selected.            *)
LEMMA SelectMachineIs ==
  ASSUME NEW S, NEW ids \in Seq(S), ids # <<>>, \A n \in DOMAIN ids : Load(ids[n]) \in Nat
  PROVE  IsFirstLeast(ids, Len(ids), SelectMachine(ids))
<1> DEFINE f == CHOOSE f : Selects(ids, Len(ids), f)
<1>1. Len(ids) \in Nat /\ Len(ids) \in 1..Len(ids) /\ DOMAIN ids = 1..Len(ids)
  OBVIOUS
<1>2. Selects(ids, Len(ids), f)
  BY <1>1, SelectsSome
<1>3. SelectMachine(ids) = f[Len(ids)]
  BY DEF SelectMachine, Selects
<1> HIDE DEF f
<1> QED
  BY <1>1, <1>2, <1>3, SelectsFirstLeast

-----------------------------------------------------------------------------
(* The order of the store.                                                 *)

\* Where the text of a time stands among all of them.
Place(t) == IF t % 2 = 0 THEN t + 1 ELSE t - 1

IsHalf(q, t) ==
  /\ t \div 2 = q
  /\ \/ t % 2 = 0 /\ t = 2 * q
     \/ t % 2 = 1 /\ t = 2 * q + 1

LEMMA HalfExists ==
  ASSUME NEW t \in Nat
  PROVE  \E q \in Nat : IsHalf(q, t)
BY DEF IsHalf

LEMMA BeforeIsPlace ==
  ASSUME NEW s \in Nat, NEW t \in Nat
  PROVE  /\ Place(s) \in Nat
         /\ TextBefore(s, t) <=> Place(s) < Place(t)
         /\ Place(s) = Place(t) => s = t
<1>1. PICK p \in Nat : IsHalf(p, s)
  BY HalfExists
<1>2. PICK q \in Nat : IsHalf(q, t)
  BY HalfExists
<1>3. Place(s) = IF s = 2 * p THEN 2 * p + 1 ELSE 2 * p
  BY <1>1 DEF Place, IsHalf
<1>4. Place(t) = IF t = 2 * q THEN 2 * q + 1 ELSE 2 * q
  BY <1>2 DEF Place, IsHalf
<1>5. TextBefore(s, t) <=> p < q \/ (p = q /\ s > t)
  BY <1>1, <1>2 DEF TextBefore, IsHalf
<1>6. (s = 2 * p \/ s = 2 * p + 1) /\ (t = 2 * q \/ t = 2 * q + 1)
  BY <1>1, <1>2 DEF IsHalf
<1> QED
  BY <1>3, <1>4, <1>5, <1>6

LEMMA FirstInOrder ==
  ASSUME NEW S, S \subseteq Nat, S # {}
  PROVE  \E e \in S : \A t \in S \ {e} : TextBefore(e, t)
<1> DEFINE X == {Place(t) : t \in S}
<1>1. X \subseteq Nat /\ X # {}
  <2>1. \A t \in S : Place(t) \in Nat
    BY BeforeIsPlace
  <2> QED
    BY <2>1
<1>2. PICK n \in X : \A m \in X : n <= m
  BY <1>1, LeastNatural
<1>3. PICK e \in S : n = Place(e)
  OBVIOUS
<1>4. ASSUME NEW t \in S \ {e} PROVE TextBefore(e, t)
  <2>1. Place(e) <= Place(t)
    BY <1>2, <1>3
  <2>2. Place(e) \in Nat /\ Place(t) \in Nat /\ Place(e) # Place(t)
    BY BeforeIsPlace
  <2> QED
    BY <2>1, <2>2, BeforeIsPlace
<1> QED
  BY <1>4

IsInOrder(s) == \A j, k \in DOMAIN s : j < k => TextBefore(s[j], s[k])
HasOrder(S) == \E s \in [1..Cardinality(S) -> S] : IsInOrder(s)

LEMMA OrderExtends ==
  ASSUME NEW S, S \subseteq Nat, IsFiniteSet(S), NEW e \in S,
         \A t \in S \ {e} : TextBefore(e, t), HasOrder(S \ {e})
  PROVE  HasOrder(S)
<1> DEFINE n == Cardinality(S)
<1>1. n \in Nat /\ Cardinality(S \ {e}) = n - 1
  BY FS_CardinalityType, FS_RemoveElement
<1>2. PICK g \in [1..(n - 1) -> S \ {e}] : IsInOrder(g)
  BY <1>1 DEF HasOrder
<1> HIDE DEF n
<1> DEFINE s == [i \in 1..n |-> IF i = 1 THEN e ELSE g[i - 1]]
<1>3. \A i \in 1..n : i # 1 => i - 1 \in 1..(n - 1) /\ g[i - 1] \in S \ {e}
  BY <1>1
<1>4. s \in [1..n -> S]
  BY <1>3
<1>5. ASSUME NEW j \in 1..n, NEW k \in 1..n, j < k PROVE TextBefore(s[j], s[k])
  <2>1. k # 1 /\ s[k] = g[k - 1] /\ g[k - 1] \in S \ {e}
    BY <1>3, <1>5
  <2>2. CASE j = 1
    BY <2>1, <2>2
  <2>3. CASE j # 1
    <3>1. s[j] = g[j - 1] /\ j - 1 \in 1..(n - 1) /\ k - 1 \in 1..(n - 1) /\ j - 1 < k - 1
      BY <1>1, <1>3, <1>5, <2>1, <2>3
    <3> QED
      BY <1>2, <2>1, <3>1 DEF IsInOrder
  <2> QED
    BY <2>2, <2>3
<1> HIDE DEF s
<1>6. IsInOrder(s)
  BY <1>4, <1>5 DEF IsInOrder
<1> QED
  BY <1>4, <1>6 DEF HasOrder, n

LEMMA EverySetHasOrder ==
  ASSUME NEW S, S \subseteq Nat, IsFiniteSet(S)
  PROVE  HasOrder(S)
<1> DEFINE X == {n \in Nat : \E T \in SUBSET S : Cardinality(T) = n /\ ~HasOrder(T)}
<1>0. \A T \in SUBSET S : IsFiniteSet(T) /\ Cardinality(T) \in Nat
  BY FS_Subset, FS_CardinalityType
<1> SUFFICES ASSUME X # {} PROVE FALSE
  BY <1>0
<1>1. PICK n \in X : \A m \in X : n <= m
  BY LeastNatural
<1>2. PICK T \in SUBSET S : Cardinality(T) = n /\ ~HasOrder(T)
  BY <1>1
<1>3. CASE T = {}
  <2>1. Cardinality(T) = 0
    BY <1>3, FS_EmptySet
  <2> DEFINE s == [i \in 1..0 |-> 0]
  <2>2. s \in [1..0 -> T] /\ IsInOrder(s)
    BY DEF IsInOrder
  <2> QED
    BY <1>2, <2>1, <2>2 DEF HasOrder
<1>4. CASE T # {}
  <2>1. PICK e \in T : \A t \in T \ {e} : TextBefore(e, t)
    BY <1>4, FirstInOrder
  <2>2. Cardinality(T \ {e}) = n - 1 /\ IsFiniteSet(T)
    BY <1>0, <1>2, FS_RemoveElement
  <2>3. n - 1 \in Nat /\ n - 1 \notin X
    BY <1>0, <1>1, <2>2
  <2>4. HasOrder(T \ {e})
    BY <2>2, <2>3
  <2> QED
    BY <1>2, <2>1, <2>2, <2>4, OrderExtends
<1> QED
  BY <1>3, <1>4

(* The loop goes through all the tasks it has read, each of them once.     *)
LEMMA InOrderListsAll ==
  ASSUME NEW S, S \subseteq Nat, IsFiniteSet(S)
  PROVE  /\ InOrder(S) \in Seq(S) /\ IsInOrder(InOrder(S)) 
         /\ ToSet(InOrder(S)) = S
         /\ S # {} => InOrder(S) # <<>>
<1> DEFINE n == Cardinality(S)
           s == InOrder(S)
<1>1. n \in Nat
  BY FS_CardinalityType
<1>2. s \in [1..n -> S] /\ IsInOrder(s)
  BY EverySetHasOrder DEF HasOrder, InOrder, IsInOrder
<1>3. n = 0 <=> S = {}
  BY FS_EmptySet
<1>4. IsFiniteSet(1..n) /\ Cardinality(1..n) = n
  BY <1>1, FS_Interval
<1> HIDE DEF n, s
<1>5. \A j, k \in 1..n : s[j] = s[k] => j = k
  <2> SUFFICES ASSUME NEW j \in 1..n, NEW k \in 1..n, s[j] = s[k], j < k PROVE FALSE
    BY <1>1
  <2>1. TextBefore(s[j], s[k]) /\ s[j] \in Nat
    BY <1>2 DEF IsInOrder
  <2> QED
    BY <2>1, BeforeIsPlace
<1>6. s \in Injection(1..n, S)
  BY <1>2, <1>5 DEF Injection, IsInjective
<1>7. s \in Surjection(1..n, S)
  BY <1>4, <1>6, FS_Injection DEF n
<1>8. ToSet(s) = S
  BY <1>2, <1>7 DEF Surjection, ToSet
<1>9. s \in Seq(S) /\ Len(s) = n
  BY <1>1, <1>2
<1>10. S # {} => s # <<>>
  <2> SUFFICES ASSUME S # {}, s = <<>> PROVE FALSE
    OBVIOUS
  <2> QED
    BY <1>3, <1>9
<1>11. s \in Seq(S) /\ IsInOrder(s) /\ ToSet(s) = S /\ (S # {} => s # <<>>)
  BY <1>2, <1>8, <1>9, <1>10
<1> QED
  BY <1>11 DEF s


-----------------------------------------------------------------------------
(* The tasks.  The operators have what they are about as parameters, so    *)
(* that a step is proved for each of them apart.                           *)

Statuses == Active \cup Terminal

IsServed(template, machine, reg) ==
  template \in DOMAIN reg.templates /\ machine \in reg.machines

\* A row of the life before, or one the registry serves.
RowOk(row, count, life, reg) ==
  /\ row = [template |-> row.template, machine |-> row.machine, status |-> row.status,
            life |-> row.life, serial |-> row.serial]
  /\ row.status \in Statuses /\ row.life \in 0..life /\ row.serial \in 1..count
  /\ row.life = life => IsServed(row.template, row.machine, reg)

RowsOk(r, count, life, reg) ==
  /\ r = [i \in DOMAIN r |-> r[i]] /\ DOMAIN r \subseteq Times
  /\ \A i \in DOMAIN r : RowOk(r[i], count, life, reg)
  /\ \A i, j \in DOMAIN r : r[i].serial = r[j].serial => i = j

\* What was selected is in the registry: it does not change while a task is started.
StartingOk(s, count, reg) ==
  \/ s.at \in {"idle", "created"}
  \/ /\ s.at = "selected" /\ s.id \in Times /\ count < MaxTasks
     /\ IsServed(s.template, s.machine, reg)

\* The loop has something left to do, and the tasks to resume are among it.
LoopOk(l, waiting) ==
  \/ l = Idle /\ waiting = {}
  \/ /\ l.at \in {"resuming", "ticking"}
     /\ l = [at |-> l.at, left |-> l.left, was |-> l.was]
     /\ l.left \in Seq(Times) /\ l.left # <<>>
     /\ waiting \subseteq (IF l.at = "resuming" THEN ToSet(l.left) ELSE {})

\* A task of those to delete that has a row is left to be deleted.
DeletingOk(d, r, count) ==
  \/ d = Idle
  \/ /\ d.at \in {"deleting", "done"}
     /\ d = [at |-> d.at, left |-> d.left, all |-> d.all]
     /\ d.left \in Seq(Times) /\ (d.left = <<>> <=> d.at = "done")
     /\ d.all \subseteq 1..count
     /\ \A i \in DOMAIN r : r[i].serial \in d.all => i \in ToSet(d.left)

FleetInv ==
  /\ RegistryInv /\ registry.loaded
  /\ time \in Times /\ created \in 0..MaxTasks /\ restarts \in 0..MaxRestarts
  /\ RowsOk(rows, created, restarts, registry)
  /\ StartingOk(starting, created, registry)
  /\ LoopOk(loop, resumed)
  /\ DeletingOk(deleting, rows, created)

(* What steps do to a row, and to the rows.                                *)
LEMMA RowWithStatus ==
  ASSUME NEW row, NEW count, NEW life, NEW reg, RowOk(row, count, life, reg), NEW s \in Statuses
  PROVE  /\ RowOk([row EXCEPT !.status = s], count, life, reg)
         /\ [row EXCEPT !.status = s].serial = row.serial
<1> DEFINE q == [row EXCEPT !.status = s]
<1>1. row = [template |-> row.template, machine |-> row.machine, status |-> row.status,
             life |-> row.life, serial |-> row.serial]
  BY DEF RowOk
<1>2. q = [template |-> row.template, machine |-> row.machine, status |-> s,
           life |-> row.life, serial |-> row.serial]
  BY <1>1
<1> HIDE DEF q
<1>3. /\ q.template = row.template /\ q.machine = row.machine /\ q.status = s
      /\ q.life = row.life /\ q.serial = row.serial
  BY <1>2
<1>4. RowOk(q, count, life, reg) /\ q.serial = row.serial
  BY <1>2, <1>3 DEF RowOk
<1> QED
  BY <1>4 DEF q

WithStatus(r, i, s) == [r EXCEPT ![i].status = s]

LEMMA StatusChanges ==
  ASSUME NEW r, NEW count, NEW life, NEW reg, RowsOk(r, count, life, reg),
         NEW i \in DOMAIN r, NEW s \in Statuses, NEW q, q = WithStatus(r, i, s)
  PROVE  /\ RowsOk(q, count, life, reg) /\ DOMAIN q = DOMAIN r
         /\ \A j \in DOMAIN r : q[j].serial = r[j].serial
<1>1. DOMAIN q = DOMAIN r /\ q = [j \in DOMAIN q |-> q[j]]
  BY DEF WithStatus
<1>2. \A j \in DOMAIN r : q[j] = IF j = i THEN [r[i] EXCEPT !.status = s] ELSE r[j]
  BY DEF WithStatus
<1>3. \A j \in DOMAIN r : RowOk(r[j], count, life, reg)
  BY DEF RowsOk
<1>4. RowOk([r[i] EXCEPT !.status = s], count, life, reg)
      /\ [r[i] EXCEPT !.status = s].serial = r[i].serial
  BY <1>3, RowWithStatus
<1> DEFINE new == [r[i] EXCEPT !.status = s]
<1> HIDE DEF new
<1>5. \A j \in DOMAIN r : q[j] = IF j = i THEN new ELSE r[j]
  BY <1>2 DEF new
<1>6. RowOk(new, count, life, reg) /\ new.serial = r[i].serial
  BY <1>4 DEF new
<1>7. \A j \in DOMAIN r : RowOk(q[j], count, life, reg) /\ q[j].serial = r[j].serial
  BY <1>3, <1>5, <1>6
<1>8. RowsOk(q, count, life, reg)
  BY <1>1, <1>7 DEF RowsOk
<1> QED
  BY <1>1, <1>7, <1>8

LEMMA RowIsAdded ==
  ASSUME NEW r, NEW count \in Nat, NEW life \in Nat, NEW reg, RowsOk(r, count, life, reg),
         NEW i \in Times, i \notin DOMAIN r, NEW row, RowOk(row, count + 1, life, reg),
         row.serial = count + 1,
         NEW q, q = [j \in DOMAIN r \cup {i} |-> IF j = i THEN row ELSE r[j]]
  PROVE  /\ RowsOk(q, count + 1, life, reg) /\ DOMAIN q = DOMAIN r \cup {i}
         /\ q[i].serial = count + 1
         /\ \A j \in DOMAIN r : q[j].serial = r[j].serial
<1>1. DOMAIN q = DOMAIN r \cup {i} /\ q = [j \in DOMAIN q |-> q[j]]
  OBVIOUS
<1>2. q[i] = row /\ \A j \in DOMAIN r : q[j] = r[j]
  OBVIOUS
<1>3. \A j \in DOMAIN r : RowOk(r[j], count + 1, life, reg) /\ r[j].serial # count + 1
  BY DEF RowsOk, RowOk
<1>4. \A j \in DOMAIN q : RowOk(q[j], count + 1, life, reg)
  BY <1>1, <1>2, <1>3
<1>5. \A j, k \in DOMAIN q : q[j].serial = q[k].serial => j = k
  BY <1>1, <1>2, <1>3 DEF RowsOk
<1>6. DOMAIN q \subseteq Times
  BY <1>1 DEF RowsOk
<1> QED
  BY <1>1, <1>2, <1>4, <1>5, <1>6 DEF RowsOk

LEMMA RowIsGone ==
  ASSUME NEW r, NEW count, NEW life, NEW reg, RowsOk(r, count, life, reg), NEW i,
         NEW q, q = [j \in DOMAIN r \ {i} |-> r[j]]
  PROVE  /\ RowsOk(q, count, life, reg) /\ DOMAIN q = DOMAIN r \ {i}
         /\ \A j \in DOMAIN q : q[j] = r[j]
BY DEF RowsOk

(* After a restart all rows are of a life before.                          *)
LEMMA RowsGrowOld ==
  ASSUME NEW r, NEW count, NEW life \in Nat, NEW reg, NEW new, RowsOk(r, count, life, reg)
  PROVE  RowsOk(r, count, life + 1, new)
<1>1. \A i \in DOMAIN r : RowOk(r[i], count, life + 1, new)
  BY DEF RowsOk, RowOk
<1> QED
  BY <1>1 DEF RowsOk

(* The rest of the invariant does not look at the status of a row.         *)
LEMMA DeletingKept ==
  ASSUME NEW d, NEW r, NEW count \in Nat, DeletingOk(d, r, count), NEW q, NEW more \in Nat,
         more >= count,
         \A j \in DOMAIN q :
           IF j \in DOMAIN r THEN q[j].serial = r[j].serial ELSE q[j].serial > count
  PROVE  DeletingOk(d, q, more)
<1>1. CASE d = Idle
  BY <1>1 DEF DeletingOk
<1>2. CASE d # Idle
  <2>1. /\ d.at \in {"deleting", "done"}
        /\ d = [at |-> d.at, left |-> d.left, all |-> d.all]
        /\ d.left \in Seq(Times) /\ (d.left = <<>> <=> d.at = "done")
        /\ d.all \subseteq 1..count
        /\ \A i \in DOMAIN r : r[i].serial \in d.all => i \in ToSet(d.left)
    BY <1>2 DEF DeletingOk
  <2>2. \A i \in DOMAIN q : q[i].serial \in d.all => i \in ToSet(d.left)
    BY <2>1
  <2>3. d.all \subseteq 1..more
    BY <2>1
  <2> QED
    BY <2>1, <2>2, <2>3 DEF DeletingOk
<1> QED
  BY <1>1, <1>2

(* What is left of a list after its first task.                            *)
LEMMA TailKeepsRest ==
  ASSUME NEW S, NEW s \in Seq(S), s # <<>>
  PROVE  /\ Head(s) \in S
         /\ Len(s) = 1 => ToSet(s) \subseteq {Head(s)}
         /\ Len(s) # 1 => /\ Tail(s) \in Seq(S) /\ Tail(s) # <<>>
                          /\ ToSet(s) \ {Head(s)} \subseteq ToSet(Tail(s))
<1>1. Len(s) \in Nat /\ Len(s) >= 1 /\ DOMAIN s = 1..Len(s)
  <2>1. Len(s) # 0
    OBVIOUS
  <2> QED
    BY <2>1
<1>2. Head(s) = s[1] /\ s[1] \in S
  BY <1>1
<1>3. ToSet(s) = {s[i] : i \in 1..Len(s)}
  BY <1>1 DEF ToSet
<1>4. Len(s) = 1 => ToSet(s) \subseteq {Head(s)}
  BY <1>2, <1>3
<1>5. ASSUME Len(s) # 1
      PROVE  /\ Tail(s) \in Seq(S) /\ Tail(s) # <<>>
             /\ ToSet(s) \ {Head(s)} \subseteq ToSet(Tail(s))
  <2> DEFINE t == Tail(s)
  <2>1. t \in Seq(S) /\ Len(t) = Len(s) - 1 /\ \A i \in 1..Len(t) : t[i] = s[i + 1]
    BY <1>1
  <2> HIDE DEF t
  <2>2. DOMAIN t = 1..Len(t)
    BY <2>1
  <2>3. t # <<>>
    BY <1>1, <1>5, <2>1
  <2>4. ASSUME NEW x \in ToSet(s) \ {Head(s)} PROVE x \in ToSet(t)
    <3>1. PICK i \in 1..Len(s) : x = s[i]
      BY <1>3
    <3>2. i # 1
      BY <1>2, <2>4, <3>1
    <3>3. i - 1 \in 1..Len(t) /\ t[i - 1] = s[i]
      BY <1>1, <2>1, <3>1, <3>2
    <3> QED
      BY <2>2, <3>1, <3>3 DEF ToSet
  <2>5. t \in Seq(S) /\ t # <<>> /\ ToSet(s) \ {Head(s)} \subseteq ToSet(t)
    BY <2>1, <2>3, <2>4
  <2> QED
    BY <2>5 DEF t
<1> QED
  BY <1>2, <1>4, <1>5

LEMMA LoopGoesOn ==
  ASSUME NEW l, NEW waiting, LoopOk(l, waiting), l # Idle, NEW next,
         next = IF Len(l.left) = 1 THEN Idle ELSE [l EXCEPT !.left = Tail(@)]
  PROVE  LoopOk(next, waiting \ {Head(l.left)})
<1>1. /\ l.at \in {"resuming", "ticking"}
      /\ l = [at |-> l.at, left |-> l.left, was |-> l.was]
      /\ l.left \in Seq(Times) /\ l.left # <<>>
      /\ waiting \subseteq (IF l.at = "resuming" THEN ToSet(l.left) ELSE {})
  BY DEF LoopOk
<1>2. CASE Len(l.left) = 1
  <2>1. ToSet(l.left) \subseteq {Head(l.left)}
    BY <1>1, <1>2, TailKeepsRest
  <2> QED
    BY <1>1, <1>2, <2>1 DEF LoopOk
<1>3. CASE Len(l.left) # 1
  <2> DEFINE t == Tail(l.left)
  <2>1. t \in Seq(Times) /\ t # <<>> /\ ToSet(l.left) \ {Head(l.left)} \subseteq ToSet(t)
    BY <1>1, <1>3, TailKeepsRest
  <2>2. next = [l EXCEPT !.left = t]
    BY <1>3
  <2> HIDE DEF t
  <2>3. next = [at |-> l.at, left |-> t, was |-> l.was]
    BY <1>1, <2>2
  <2>4. next.at = l.at /\ next.left = t /\ next.was = l.was
    BY <2>3
  <2>5. waiting \ {Head(l.left)} \subseteq (IF l.at = "resuming" THEN ToSet(t) ELSE {})
    BY <1>1, <2>1
  <2> QED
    BY <1>1, <2>1, <2>3, <2>4, <2>5 DEF LoopOk
<1> QED
  BY <1>2, <1>3

(* The rows there are, and therefore the loads, are finite in number.      *)
LEMMA RowsAreFinite ==
  ASSUME NEW S, S \subseteq Times
  PROVE  S \subseteq Nat /\ IsFiniteSet(S) /\ Cardinality(S) \in Nat
<1>1. MaxTime \in Nat
  BY FleetBounds
<1>2. IsFiniteSet(Times) /\ Times \subseteq Nat
  BY <1>1, FS_Interval DEF Times
<1>3. IsFiniteSet(S)
  BY <1>2, FS_Subset
<1> QED
  BY <1>2, <1>3, FS_CardinalityType

LEMMA LoadIsNatural ==
  ASSUME DOMAIN rows \subseteq Times, NEW m
  PROVE  Load(m) \in Nat /\ LoadOf(m) = Load(m)
<1> DEFINE X == {i \in ActiveTasks : rows[i].machine = m
                                      /\ CountsTowardMachineLoad(rows[i].status)}
           Y == {i \in DOMAIN rows : rows[i].machine = m /\ rows[i].status \in Active}
<1>1. X = Y
  BY DEF ActiveTasks, CountsTowardMachineLoad, Active, Terminal
<1>2. Cardinality(Y) \in Nat
  <2>1. Y \subseteq Times
    OBVIOUS
  <2> HIDE DEF Y
  <2> QED
    BY <2>1, RowsAreFinite
<1> QED
  BY <1>1, <1>2 DEF Load, LoadOf

LEMMA OrderOfTasks ==
  ASSUME NEW S, S \subseteq Times
  PROVE  /\ InOrder(S) \in Seq(Times) /\ ToSet(InOrder(S)) = S
         /\ S # {} => InOrder(S) # <<>>
<1> DEFINE s == InOrder(S)
<1>1. s \in Seq(S) /\ ToSet(s) = S /\ (S # {} => s # <<>>)
  BY RowsAreFinite, InOrderListsAll
<1> HIDE DEF s
<1>2. s \in Seq(Times)
  BY <1>1
<1>3. s \in Seq(Times) /\ ToSet(s) = S /\ (S # {} => s # <<>>)
  BY <1>1, <1>2
<1> QED
  BY <1>3 DEF s

LEMMA FleetInvInit == FleetInit => FleetInv
<1> SUFFICES ASSUME FleetInit PROVE FleetInv
  OBVIOUS
<1>1. RegistryInv /\ registry.loaded
  BY StartsWithFiles, FleetBounds, EditsAreBounded, LoadedIsUsable DEF FleetInit, RegistryInv
<1>2. time \in Times /\ created \in 0..MaxTasks /\ restarts \in 0..MaxRestarts
  BY FleetBounds DEF FleetInit, Times
<1>3. DOMAIN rows = {} /\ rows = [i \in DOMAIN rows |-> rows[i]]
  BY DEF FleetInit
<1>4. RowsOk(rows, created, restarts, registry)
  BY <1>3 DEF RowsOk
<1>5. StartingOk(starting, created, registry) /\ LoopOk(loop, resumed) /\ DeletingOk(deleting, rows, created)
  BY DEF FleetInit, StartingOk, LoopOk, DeletingOk, Idle
<1> QED
  BY <1>1, <1>2, <1>4, <1>5 DEF FleetInv

(* A step that at most changes the status of one row, and what is being    *)
(* started, leaves the invariant when the loop is left or goes on.         *)
LEMMA StatusStep ==
  ASSUME FleetInv,
         UNCHANGED <<registryVars, time, created, deleting, restarts>>,
         \/ rows' = rows
         \/ \E i \in DOMAIN rows : \E s \in Statuses : rows' = [rows EXCEPT ![i].status = s],
         starting' = starting \/ starting' = Idle,
         LoopOk(loop', resumed')
  PROVE  FleetInv'
<1>1. RegistryInv' /\ registry'.loaded /\ registry' = registry
  BY DEF registryVars, FleetInv, RegistryInv
<1>2. /\ time' \in Times /\ created' \in 0..MaxTasks /\ restarts' \in 0..MaxRestarts
      /\ created' = created /\ restarts' = restarts /\ deleting' = deleting
  BY DEF FleetInv
<1>3. StartingOk(starting', created', registry')
  BY <1>1 DEF FleetInv, StartingOk, Idle
<1>4. RowsOk(rows', created, restarts, registry) /\ DeletingOk(deleting, rows', created)
  <2>1. CASE rows' = rows
    BY <2>1 DEF FleetInv
  <2>2. ASSUME NEW i \in DOMAIN rows, NEW s \in Statuses, rows' = [rows EXCEPT ![i].status = s]
        PROVE  RowsOk(rows', created, restarts, registry) /\ DeletingOk(deleting, rows', created)
    <3>1. RowsOk(rows, created, restarts, registry) /\ DeletingOk(deleting, rows, created)
          /\ created \in Nat
      BY FleetBounds DEF FleetInv
    <3> DEFINE q == rows'
    <3>2. q = WithStatus(rows, i, s)
      BY <2>2 DEF WithStatus
    <3> HIDE DEF q
    <3>3. /\ RowsOk(q, created, restarts, registry) /\ DOMAIN q = DOMAIN rows
          /\ \A j \in DOMAIN rows : q[j].serial = rows[j].serial
      BY <3>1, <3>2, StatusChanges
    <3>4. DeletingOk(deleting, q, created)
      BY <3>1, <3>3, DeletingKept
    <3> QED
      BY <3>3, <3>4 DEF q
  <2> QED
    BY <2>1, <2>2
<1> QED
  BY <1>1, <1>2, <1>3, <1>4 DEF FleetInv

LEMMA ChangeStatusStep ==
  ASSUME FleetInv, NEW i \in DOMAIN rows, ChangeStatus(i)
  PROVE  FleetInv'
<1>1. \E s \in Statuses : rows' = [rows EXCEPT ![i].status = s]
  BY DEF ChangeStatus, Started, Statuses, Active, Terminal
<1>2. LoopOk(loop', resumed')
  BY DEF ChangeStatus, FleetInv
<1> QED
  BY <1>1, <1>2, StatusStep DEF ChangeStatus

LEMMA StartCreatedStep ==
  ASSUME FleetInv, StartCreated
  PROVE  FleetInv'
<1>1. LoopOk(loop', resumed')
  BY DEF StartCreated, FleetInv
<1>2. \A i \in DOMAIN rows : rows[i].status \in Statuses
  BY DEF FleetInv, RowsOk, RowOk
<1>3. \A i \in DOMAIN rows : StartOutcomes(i) \cup {rows[i].status} \subseteq Statuses
  BY <1>2 DEF StartOutcomes, Statuses, Active, Terminal
<1>4. \/ rows' = rows
      \/ \E i \in DOMAIN rows : \E s \in Statuses : rows' = [rows EXCEPT ![i].status = s]
  <2> DEFINE i == starting.id
  <2>1. CASE i \in DOMAIN rows
    <3>1. PICK s \in StartOutcomes(i) \cup {rows[i].status} : rows' = [rows EXCEPT ![i].status = s]
      BY <2>1 DEF StartCreated
    <3> QED
      BY <1>3, <2>1, <3>1
  <2>2. CASE i \notin DOMAIN rows
    BY <2>2 DEF StartCreated
  <2> QED
    BY <2>1, <2>2
<1> QED
  BY <1>1, <1>4, StatusStep DEF StartCreated

LEMMA TickOutcomesAreStatuses ==
  ASSUME FleetInv, NEW i \in DOMAIN rows, NEW was, NEW outcome \in TickOutcomes(i, was)
  PROVE  outcome.status \in Statuses /\ outcome.failed \in BOOLEAN
<1>1. rows[i].status \in Statuses
  BY DEF FleetInv, RowsOk, RowOk
<1>2. StartOutcomes(i) \subseteq Statuses
  BY DEF StartOutcomes, Statuses, Active, Terminal
<1>3. CASE was \in {"pending", "starting"}
  BY <1>1, <1>2, <1>3 DEF TickOutcomes
<1>4. CASE was = "recovering"
  BY <1>1, <1>4 DEF TickOutcomes, Statuses, Active, Terminal
<1>5. CASE was = "running"
  BY <1>1, <1>5 DEF TickOutcomes, Statuses, Active, Terminal
<1>6. CASE was \notin {"pending", "starting", "recovering", "running"}
  <2>1. TickOutcomes(i, was) = {[status |-> rows[i].status, failed |-> FALSE]}
    BY <1>6 DEF TickOutcomes
  <2>2. outcome = [status |-> rows[i].status, failed |-> FALSE]
    BY <2>1
  <2> QED
    BY <1>1, <2>2
<1> QED
  BY <1>3, <1>4, <1>5, <1>6

LEMMA TickTaskStep ==
  ASSUME FleetInv, TickTask
  PROVE  FleetInv'
<1> DEFINE i == Head(loop.left)
<1>1. loop.at = "ticking" /\ loop # Idle /\ LoopOk(loop, resumed) /\ resumed' = resumed
  BY DEF TickTask, Idle, FleetInv
<1>2. resumed = {}
  BY <1>1 DEF LoopOk
<1>3. LoopOk(Idle, {}) /\ LoopOk(Continue, {})
  BY <1>1, <1>2, LoopGoesOn DEF LoopOk, Continue
<1>4. \A failed : LoopOk(AfterTask(failed), {})
  BY <1>3 DEF AfterTask
<1>5. LoopOk(loop', resumed')
  <2>1. \E failed : loop' = AfterTask(failed)
    BY DEF TickTask
  <2> QED
    BY <1>1, <1>2, <1>4, <2>1
<1>6. \/ rows' = rows
      \/ \E j \in DOMAIN rows : \E s \in Statuses : rows' = [rows EXCEPT ![j].status = s]
  <2>1. CASE i \in DOMAIN rows
    <3>1. PICK outcome \in TickOutcomes(i, loop.was[i]) :
            rows' = [rows EXCEPT ![i].status = outcome.status]
      BY <2>1 DEF TickTask
    <3>2. outcome.status \in Statuses
      BY <2>1, <3>1, TickOutcomesAreStatuses
    <3> QED
      BY <2>1, <3>1, <3>2
  <2>2. CASE i \notin DOMAIN rows
    BY <2>2 DEF TickTask
  <2> QED
    BY <2>1, <2>2
<1> QED
  BY <1>5, <1>6, StatusStep DEF TickTask

LEMMA ResumeTaskStep ==
  ASSUME FleetInv, ResumeTask
  PROVE  FleetInv'
<1> DEFINE i == Head(loop.left)
<1>1. loop.at = "resuming" /\ loop # Idle /\ LoopOk(loop, resumed)
  BY DEF ResumeTask, Idle, FleetInv
<1>2. LoopOk(Continue, resumed \ {i})
  BY <1>1, LoopGoesOn DEF Continue
<1>3. loop' = Continue /\ resumed' = resumed \ {i}
  BY DEF ResumeTask, AfterResume
<1>4. \/ rows' = rows
      \/ \E j \in DOMAIN rows : \E s \in Statuses : rows' = [rows EXCEPT ![j].status = s]
  BY DEF ResumeTask, Statuses, Active
<1> QED
  BY <1>2, <1>3, <1>4, StatusStep DEF ResumeTask

(* What StartTask selects.                                                 *)
LEMMA SelectedIsFirstLeast ==
  ASSUME FleetInv, NEW t \in DOMAIN registry.templates
  PROVE  LET ids == registry.templates[t].workspace.machine_ids
         IN /\ DOMAIN ids = 1..Len(ids)
            /\ IsFirstLeast(ids, Len(ids), SelectMachine(ids))
            /\ SelectMachine(ids) \in registry.machines
<1> DEFINE ids == registry.templates[t].workspace.machine_ids
<1>1. ids # <<>> /\ ToSet(ids) \subseteq registry.machines
  BY DEF FleetInv, RegistryInv, IsUsable, EntryIsUsable
<1>2. ids \in Seq(STRING)
  BY DEF FleetInv, RegistryInv, IsUsable, EntryIsUsable
<1> HIDE DEF ids
<1>3. DOMAIN ids = 1..Len(ids) /\ \A n \in DOMAIN ids : ids[n] \in ToSet(ids)
  BY <1>2 DEF ToSet
<1>4. \A n \in DOMAIN ids : Load(ids[n]) \in Nat
  BY LoadIsNatural DEF FleetInv, RowsOk
<1>5. IsFirstLeast(ids, Len(ids), SelectMachine(ids))
  BY <1>1, <1>2, <1>4, SelectMachineIs
<1>6. SelectMachine(ids) \in ToSet(ids)
  BY <1>3, <1>5 DEF IsFirstLeast
<1>7. /\ DOMAIN ids = 1..Len(ids)
      /\ IsFirstLeast(ids, Len(ids), SelectMachine(ids))
      /\ SelectMachine(ids) \in registry.machines
  BY <1>1, <1>3, <1>5, <1>6
<1> QED
  BY <1>7 DEF ids

LEMMA SelectForTaskStep ==
  ASSUME FleetInv, NEW t, SelectForTask(t)
  PROVE  FleetInv'
<1> DEFINE m == SelectMachine(registry.templates[t].workspace.machine_ids)
<1>1. t \in DOMAIN registry.templates
  BY DEF SelectForTask, LookupTemplate
<1>2. m \in registry.machines
  BY <1>1, SelectedIsFirstLeast
<1>3. starting' = [at |-> "selected", template |-> t, id |-> time, machine |-> m]
  BY DEF SelectForTask, NewTaskID
<1>5. created' = created /\ created < MaxTasks
  BY DEF SelectForTask
<1> HIDE DEF m
<1>4. StartingOk(starting', created', registry)
  BY <1>1, <1>2, <1>3, <1>5 DEF StartingOk, IsServed, FleetInv
<1> QED
  BY <1>4 DEF SelectForTask, FleetInv, RegistryInv, registryVars

LEMMA CreateTaskStep ==
  ASSUME FleetInv, CreateTask
  PROVE  FleetInv'
<1>1. /\ UNCHANGED <<registryVars, time, loop, deleting, restarts, resumed>>
      /\ created \in Nat /\ restarts \in Nat /\ MaxTasks \in Nat
  BY FleetBounds DEF CreateTask, FleetInv
<1>2. CASE starting.id \in DOMAIN rows
  <2>1. starting' = Idle /\ rows' = rows /\ created' = created
    BY <1>2 DEF CreateTask
  <2>2. StartingOk(starting', created', registry')
    BY <2>1 DEF StartingOk, Idle
  <2> QED
    BY <1>1, <2>1, <2>2 DEF FleetInv, RegistryInv, registryVars
<1>3. CASE starting.id \notin DOMAIN rows
  <2> DEFINE row == [template |-> starting.template, machine |-> starting.machine,
                     status |-> "pending", life |-> restarts, serial |-> created + 1]
             q == rows'
             i == starting.id
  <2>1. i \in Times /\ created < MaxTasks /\ IsServed(starting.template, starting.machine, registry)
    BY DEF CreateTask, FleetInv, StartingOk
  <2>2. row.serial = created + 1 /\ RowOk(row, created + 1, restarts, registry)
    BY <1>1, <2>1 DEF RowOk, Statuses, Active
  <2>3. created' = created + 1
    BY <1>3 DEF CreateTask
  <2>4. q = [j \in DOMAIN rows \cup {i} |-> IF j = i THEN row ELSE rows[j]]
    BY <1>3, <2>3 DEF CreateTask
  <2>5. StartingOk(starting', created', registry)
    BY <1>3 DEF CreateTask, StartingOk, Idle
  <2>6. RowsOk(rows, created, restarts, registry) /\ DeletingOk(deleting, rows, created)
    BY DEF FleetInv
  <2> HIDE DEF q, row
  <2>7. /\ RowsOk(q, created + 1, restarts, registry) /\ DOMAIN q = DOMAIN rows \cup {i}
        /\ q[i].serial = created + 1
        /\ \A j \in DOMAIN rows : q[j].serial = rows[j].serial
    BY <1>1, <1>3, <2>1, <2>2, <2>4, <2>6, RowIsAdded
  <2>8. \A j \in DOMAIN q :
          IF j \in DOMAIN rows THEN q[j].serial = rows[j].serial ELSE q[j].serial > created
    BY <1>1, <2>7
  <2>9. DeletingOk(deleting, q, created + 1)
    BY <1>1, <2>6, <2>8, DeletingKept
  <2> QED
    BY <1>1, <2>1, <2>3, <2>5, <2>7, <2>9 DEF FleetInv, RegistryInv, registryVars, q
<1> QED
  BY <1>2, <1>3

LEMMA ActiveAreTimes ==
  ASSUME FleetInv
  PROVE  ActiveTasks \subseteq Times
BY DEF FleetInv, RowsOk, ActiveTasks

LEMMA BeginTickStep ==
  ASSUME FleetInv, BeginTick
  PROVE  FleetInv'
<1> DEFINE s == InOrder(ActiveTasks)
           w == [i \in ActiveTasks |-> rows[i].status]
<1>1. s \in Seq(Times) /\ s # <<>>
  BY ActiveAreTimes, OrderOfTasks DEF BeginTick
<1>2. loop' = [at |-> "ticking", left |-> s, was |-> w] /\ resumed' = {}
  BY DEF BeginTick, FleetInv, LoopOk, Idle
<1> HIDE DEF s, w
<1>3. LoopOk(loop', resumed')
  BY <1>1, <1>2 DEF LoopOk
<1> QED
  BY <1>3, StatusStep DEF BeginTick

LEMMA RestartStep ==
  ASSUME FleetInv, NEW f \in Deployments, Restart(f)
  PROVE  FleetInv'
<1>1. RegistryInv' /\ registry'.loaded
  BY FleetBounds, LoadedIsUsable DEF Restart, FleetInv, RegistryInv
<1>2. /\ time' \in Times /\ created' \in 0..MaxTasks /\ restarts' \in 0..MaxRestarts
      /\ created' = created /\ rows' = rows /\ restarts' = restarts + 1 /\ restarts \in Nat
  BY FleetBounds DEF Restart, FleetInv
<1>3. RowsOk(rows, created, restarts + 1, registry')
  BY <1>2, RowsGrowOld DEF FleetInv
<1>4. StartingOk(starting', created', registry') /\ DeletingOk(deleting', rows', created')
  BY DEF Restart, StartingOk, DeletingOk, Idle
<1>5. LoopOk(loop', resumed')
  <2> DEFINE s == InOrder(ActiveTasks)
             w == [i \in ActiveTasks |-> rows[i].status]
  <2>1. s \in Seq(Times) /\ ToSet(s) = ActiveTasks /\ (ActiveTasks # {} => s # <<>>)
    BY ActiveAreTimes, OrderOfTasks
  <2>2. /\ loop' = IF ActiveTasks = {} THEN Idle ELSE [at |-> "resuming", left |-> s, was |-> w]
        /\ resumed' = ActiveTasks
    BY DEF Restart
  <2> HIDE DEF s, w
  <2> QED
    BY <2>1, <2>2 DEF LoopOk
<1> QED
  BY <1>1, <1>2, <1>3, <1>4, <1>5 DEF FleetInv

LEMMA BeginDeleteStep ==
  ASSUME FleetInv, BeginDelete
  PROVE  FleetInv'
<1> DEFINE T == {i \in DOMAIN rows : rows[i].status \in Terminal}
           s == InOrder(T)
           serials == {rows[i].serial : i \in T}
<1>1. T # {} /\ T \subseteq DOMAIN rows /\ T \subseteq Times
  BY DEF BeginDelete, FleetInv, RowsOk
<1>2. \A i \in DOMAIN rows : rows[i].serial \in 1..created
  BY DEF FleetInv, RowsOk, RowOk
<1>3. serials \subseteq 1..created
  BY <1>1, <1>2
<1>4. \A i \in DOMAIN rows : rows[i].serial \in serials => i \in T
  BY <1>1 DEF FleetInv, RowsOk
<1>5. deleting' = [at |-> "deleting", left |-> s, all |-> serials]
  BY DEF BeginDelete
<1> HIDE DEF T
<1>6. s \in Seq(Times) /\ ToSet(s) = T /\ s # <<>>
  BY <1>1, OrderOfTasks
<1> HIDE DEF s, serials
<1>7. DeletingOk(deleting', rows, created)
  BY <1>3, <1>4, <1>5, <1>6 DEF DeletingOk
<1> QED
  BY <1>7 DEF BeginDelete, FleetInv, RegistryInv, registryVars

IsAfterDelete(d, next) ==
  next = IF Len(d.left) = 1 THEN [d EXCEPT !.at = "done", !.left = <<>>]
         ELSE [d EXCEPT !.left = Tail(@)]

(* The task whose row is gone is the one that was the next to delete.      *)
LEMMA DeletingGoesOn ==
  ASSUME NEW d, NEW r, NEW count, DeletingOk(d, r, count), d.at = "deleting",
         NEW q, DOMAIN q = DOMAIN r \ {Head(d.left)}, \A j \in DOMAIN q : q[j] = r[j],
         NEW next, IsAfterDelete(d, next)
  PROVE  DeletingOk(next, q, count)
<1>1. /\ d = [at |-> d.at, left |-> d.left, all |-> d.all]
      /\ d.left \in Seq(Times) /\ d.left # <<>>
      /\ d.all \subseteq 1..count
      /\ \A i \in DOMAIN r : r[i].serial \in d.all => i \in ToSet(d.left)
  BY DEF DeletingOk, Idle
<1> DEFINE h == Head(d.left)
<1>2. \A i \in DOMAIN q : q[i].serial \in d.all => i \in ToSet(d.left) \ {h}
  BY <1>1
<1>3. CASE Len(d.left) = 1
  <2>1. next = [at |-> "done", left |-> <<>>, all |-> d.all]
    BY <1>1, <1>3 DEF IsAfterDelete
  <2>2. next.at = "done" /\ next.left = <<>> /\ next.all = d.all
    BY <2>1
  <2>3. ToSet(d.left) \subseteq {h}
    BY <1>1, <1>3, TailKeepsRest
  <2>4. \A i \in DOMAIN q : q[i].serial \notin d.all
    BY <1>2, <2>3
  <2> QED
    BY <1>1, <2>1, <2>2, <2>4 DEF DeletingOk
<1>4. CASE Len(d.left) # 1
  <2> DEFINE t == Tail(d.left)
  <2>1. t \in Seq(Times) /\ t # <<>> /\ ToSet(d.left) \ {h} \subseteq ToSet(t)
    BY <1>1, <1>4, TailKeepsRest
  <2>2. next = [d EXCEPT !.left = t]
    BY <1>4 DEF IsAfterDelete
  <2> HIDE DEF t
  <2>3. next = [at |-> "deleting", left |-> t, all |-> d.all]
    BY <1>1, <2>2
  <2>4. next.at = "deleting" /\ next.left = t /\ next.all = d.all
    BY <2>3
  <2>5. \A i \in DOMAIN q : q[i].serial \in d.all => i \in ToSet(t)
    BY <1>2, <2>1
  <2> QED
    BY <1>1, <2>1, <2>3, <2>4, <2>5 DEF DeletingOk
<1> QED
  BY <1>3, <1>4

LEMMA DeleteTaskStep ==
  ASSUME FleetInv, DeleteTask
  PROVE  FleetInv'
<1> DEFINE i == Head(deleting.left)
           gone == [j \in DOMAIN rows \ {i} |-> rows[j]]
<1>1. deleting.at = "deleting" /\ DeletingOk(deleting, rows, created)
      /\ RowsOk(rows, created, restarts, registry)
  BY DEF DeleteTask, FleetInv
<1>2. /\ RowsOk(gone, created, restarts, registry) /\ DOMAIN gone = DOMAIN rows \ {i}
      /\ \A j \in DOMAIN gone : gone[j] = rows[j]
  BY <1>1, RowIsGone
<1>3. DeletingOk(Idle, rows, created) /\ DeletingOk(Idle, gone, created)
  BY DEF DeletingOk
<1>4. DeletingOk(AfterDelete, gone, created)
  <2> HIDE DEF gone
  <2> QED
    BY <1>1, <1>2, DeletingGoesOn DEF AfterDelete, IsAfterDelete
<1>5. \/ rows' = rows /\ deleting' = Idle
      \/ rows' = gone /\ deleting' \in {Idle, AfterDelete}
  BY DEF DeleteTask
<1> HIDE DEF gone
<1>6. RowsOk(rows', created, restarts, registry) /\ DeletingOk(deleting', rows', created)
  BY <1>1, <1>2, <1>3, <1>4, <1>5
<1> QED
  BY <1>6 DEF DeleteTask, FleetInv, RegistryInv, registryVars

LEMMA FleetInvStep ==
  ASSUME FleetInv, [FleetNext]_fleetVars
  PROVE  FleetInv'
<1>1. CASE TimePasses
  <2>1. time' \in Times
    BY <1>1, FleetBounds DEF TimePasses, FleetInv, Times
  <2> QED
    BY <1>1, <2>1 DEF TimePasses, FleetInv, RegistryInv, registryVars
<1>2. ASSUME NEW i \in DOMAIN rows, ChangeStatus(i) PROVE FleetInv'
  BY <1>2, ChangeStatusStep
<1>3. ASSUME NEW t \in Templates, SelectForTask(t) PROVE FleetInv'
  BY <1>3, SelectForTaskStep
<1>4. CASE TellDeleted
  <2>1. DeletingOk(deleting', rows', created')
    BY <1>4 DEF TellDeleted, DeletingOk
  <2> QED
    BY <1>4, <2>1 DEF TellDeleted, FleetInv, RegistryInv, registryVars
<1>5. CASE UNCHANGED fleetVars
  BY <1>5 DEF fleetVars, FleetInv, RegistryInv, registryVars
<1>6. ASSUME NEW f \in Deployments, Restart(f) PROVE FleetInv'
  BY <1>6, RestartStep
<1> QED
  BY <1>1, <1>2, <1>3, <1>4, <1>5, <1>6, CreateTaskStep, StartCreatedStep, BeginTickStep,
     TickTaskStep, ResumeTaskStep, BeginDeleteStep, DeleteTaskStep
  DEF FleetNext

LEMMA FleetInvIsSafe == FleetInv => FleetTypeOK /\ FleetSafety
<1> SUFFICES ASSUME FleetInv PROVE FleetTypeOK /\ FleetSafety
  OBVIOUS
<1>1. \A i \in DOMAIN rows :
        /\ rows[i].status \in Active \cup Terminal /\ rows[i].life \in 0..restarts
        /\ rows[i].life = restarts => CanStart(i)
  BY DEF FleetInv, RowsOk, RowOk, IsServed, Statuses, CanStart, LookupTemplate
<1>2. restarts \in Nat
  BY FleetBounds DEF FleetInv
<1>3. OrphanIsOld
  BY <1>1, <1>2 DEF OrphanIsOld
<1>4. AllAreResumed /\ resumed \subseteq Times
  <2>1. CASE loop = Idle /\ resumed = {}
    BY <2>1 DEF AllAreResumed
  <2>2. CASE loop.at \in {"resuming", "ticking"} /\ loop.left \in Seq(Times)
             /\ resumed \subseteq (IF loop.at = "resuming" THEN ToSet(loop.left) ELSE {})
    BY <2>2 DEF AllAreResumed, ToSet
  <2> QED
    BY <2>1, <2>2 DEF FleetInv, LoopOk
<1>5. DeleteAllIsComplete
  BY DEF DeleteAllIsComplete, FleetInv, DeletingOk, Idle, ToSet
<1>6. loop.at \in {"idle", "resuming", "ticking"} /\ (loop.at # "idle" => ToSet(loop.left) \subseteq Times)
  BY DEF FleetInv, LoopOk, Idle, ToSet
<1>7. deleting.at \in {"idle", "deleting", "done"} /\ starting.at \in {"idle", "selected", "created"}
  BY DEF FleetInv, DeletingOk, StartingOk, Idle
<1>8. time \in Times /\ DOMAIN rows \subseteq Times /\ created \in 0..MaxTasks
      /\ restarts \in 0..MaxRestarts
  BY DEF FleetInv, RowsOk
<1>9. FleetTypeOK
  BY <1>1, <1>4, <1>6, <1>7, <1>8 DEF FleetTypeOK
<1> QED
  BY <1>3, <1>4, <1>5, <1>9 DEF FleetSafety

(* However many tasks there are and whatever is in the files at each       *)
(* restart: a task the registry does not serve is of a life before, every  *)
(* active task is tried to resume before the first tick, and a deletion    *)
(* of all that reports success has deleted all.                            *)
THEOREM FleetIsSafe == FleetSpec => []FleetSafety
<1>1. FleetSpec => []FleetInv
  BY FleetInvInit, FleetInvStep, PTL DEF FleetSpec
<1> QED
  BY <1>1, FleetInvIsSafe, PTL

-----------------------------------------------------------------------------
(* Placement, as a step.                                                   *)

OnLeastLoaded(ids, m) ==
  \E n \in DOMAIN ids :
    /\ ids[n] = m
    /\ \A k \in DOMAIN ids :
         IF k < n THEN LoadOf(ids[k]) > LoadOf(ids[n]) ELSE LoadOf(ids[k]) >= LoadOf(ids[n])

LEMMA SelectionIsOnLeastLoaded ==
  ASSUME FleetInv, NEW t \in DOMAIN registry.templates, NEW ids,
         ids = registry.templates[t].workspace.machine_ids
  PROVE  OnLeastLoaded(ids, SelectMachine(ids))
<1>1. /\ DOMAIN ids = 1..Len(ids)
      /\ IsFirstLeast(ids, Len(ids), SelectMachine(ids))
  BY SelectedIsFirstLeast
<1>2. \A m : LoadOf(m) = Load(m)
  BY LoadIsNatural DEF FleetInv, RowsOk
<1> QED
  BY <1>1, <1>2 DEF IsFirstLeast, OnLeastLoaded

Placement ==
  starting.at = "idle" /\ starting'.at = "selected" =>
    OnLeastLoaded(registry.templates[starting'.template].workspace.machine_ids,
                  starting'.machine)

LEMMA FleetStepPlaces ==
  ASSUME FleetInv, FleetNext
  PROVE  Placement
<1>1. ASSUME NEW t \in Templates, SelectForTask(t) PROVE Placement
  <2> DEFINE ids == registry.templates[t].workspace.machine_ids
             m == SelectMachine(ids)
  <2>1. t \in DOMAIN registry.templates
    BY <1>1 DEF SelectForTask, LookupTemplate
  <2>2. OnLeastLoaded(ids, m)
    BY <2>1, SelectionIsOnLeastLoaded
  <2>3. starting' = [at |-> "selected", template |-> t, id |-> NewTaskID, machine |-> m]
    BY <1>1 DEF SelectForTask
  <2> HIDE DEF m
  <2>4. starting'.template = t /\ starting'.machine = m
    BY <2>3
  <2> QED
    BY <2>2, <2>4 DEF Placement
<1>2. CASE CreateTask
  BY <1>2 DEF CreateTask, Placement
<1>3. CASE starting' = starting \/ starting' = Idle
  BY <1>3 DEF Placement, Idle
<1>4. FleetNext => \/ \E t \in Templates : SelectForTask(t)
                   \/ CreateTask
                   \/ starting' = starting \/ starting' = Idle
  BY DEF FleetNext, TimePasses, ChangeStatus, StartCreated, BeginTick, TickTask, ResumeTask,
         Restart, BeginDelete, DeleteTask, TellDeleted
<1> QED
  BY <1>1, <1>2, <1>3, <1>4

(* A task is placed on the first of the machines of its template that have *)
(* the fewest active tasks.                                                *)
THEOREM TasksArePlaced == FleetSpec => PlacedOnLeastLoaded
<1>1. FleetSpec => []FleetInv /\ [][FleetNext]_fleetVars
  BY FleetInvInit, FleetInvStep, PTL DEF FleetSpec
<1>2. FleetInv /\ [FleetNext]_fleetVars => [Placement]_fleetVars
  BY FleetStepPlaces
<1>3. FleetSpec => [][Placement]_fleetVars
  BY <1>1, <1>2, PTL
<1> QED
  BY <1>3 DEF PlacedOnLeastLoaded, Placement, OnLeastLoaded

-----------------------------------------------------------------------------
(* The instance that is model-checked.                                     *)

\* Where nothing happens to tasks.
AtRest ==
  /\ time = 0 /\ created = 0 /\ restarts = 0 /\ DOMAIN rows = {}
  /\ starting = Idle /\ loop = Idle /\ deleting = Idle /\ resumed = {}

PartInv ==
  \/ part = "registry" /\ RegistryInv /\ AtRest
  \/ part = "fleet" /\ FleetInv

LEMMA PartInvInit == Init => PartInv
<1> SUFFICES ASSUME Init PROVE PartInv
  OBVIOUS
<1>1. RegistryInv /\ FleetInv
  BY RegistryInvInit, FleetInvInit DEF Init
<1>2. AtRest
  BY DEF Init, FleetInit, AtRest
<1> QED
  BY <1>1, <1>2 DEF Init, PartInv

LEMMA PartSteps ==
  ASSUME [RegistrySteps \/ FleetSteps]_vars
  PROVE  \/ part = "registry" /\ part' = part /\ [RegistryNext]_registryVars /\ UNCHANGED tasksVars
         \/ part = "fleet" /\ part' = part /\ [FleetNext]_fleetVars
         \/ UNCHANGED vars
<1>1. CASE RegistrySteps
  <2>1. RegistryNext
    BY <1>1 DEF RegistrySteps, InRegistry, RegistryNext
  <2>2. part = "registry" /\ part' = part /\ UNCHANGED tasksVars
    BY <1>1 DEF RegistrySteps, InRegistry
  <2> QED
    BY <2>1, <2>2
<1>2. CASE FleetSteps
  <2>1. FleetNext
    BY <1>2 DEF FleetSteps, InFleet, FleetNext
  <2>2. part = "fleet" /\ part' = part
    BY <1>2 DEF FleetSteps, InFleet
  <2> QED
    BY <2>1, <2>2
<1> QED
  BY <1>1, <1>2

LEMMA PartInvStep ==
  ASSUME PartInv, [RegistrySteps \/ FleetSteps]_vars
  PROVE  PartInv'
<1>1. CASE part = "registry" /\ part' = part /\ [RegistryNext]_registryVars /\ UNCHANGED tasksVars
  <2>1. RegistryInv /\ AtRest
    BY <1>1 DEF PartInv
  <2>2. RegistryInv'
    BY <1>1, <2>1, RegistryInvStep
  <2>3. AtRest'
    BY <1>1, <2>1 DEF AtRest, tasksVars
  <2> QED
    BY <1>1, <2>2, <2>3 DEF PartInv
<1>2. CASE part = "fleet" /\ part' = part /\ [FleetNext]_fleetVars
  BY <1>2, FleetInvStep DEF PartInv
<1>3. CASE UNCHANGED vars
  BY <1>3 DEF PartInv, vars, fleetVars, registryVars, RegistryInv, AtRest, FleetInv
<1> QED
  BY <1>1, <1>2, <1>3, PartSteps

LEMMA PartInvIsSafe == PartInv => TypeOK /\ RegistrySafety /\ FleetSafety
<1>1. AtRest => FleetTypeOK /\ FleetSafety
  <2> SUFFICES ASSUME AtRest PROVE FleetTypeOK /\ FleetSafety
    OBVIOUS
  <2>1. FleetTypeOK
    BY FleetBounds DEF AtRest, FleetTypeOK, Idle, Times
  <2>2. OrphanIsOld /\ AllAreResumed /\ DeleteAllIsComplete
    BY DEF AtRest, OrphanIsOld, AllAreResumed, DeleteAllIsComplete, Idle
  <2> QED
    BY <2>1, <2>2 DEF FleetSafety
<1>2. FleetInv => RegistryInv
  BY DEF FleetInv
<1> QED
  BY <1>1, <1>2, FleetInvIsSafe, RegistryInvIsSafe DEF PartInv, TypeOK

(* In the instance that is model-checked, for every value of its bounds,   *)
(* both parts keep their types and promises, and tasks are placed.         *)
THEOREM RegistryAndFleetAreSafe ==
  Spec => [](TypeOK /\ RegistrySafety /\ FleetSafety) /\ PlacedOnLeastLoaded
<1>1. Spec => []PartInv /\ [][RegistrySteps \/ FleetSteps]_vars
  BY PartInvInit, PartInvStep, PTL DEF Spec
<1>2. PartInv /\ [RegistrySteps \/ FleetSteps]_vars => [Placement]_fleetVars
  <2> SUFFICES ASSUME PartInv, [RegistrySteps \/ FleetSteps]_vars PROVE [Placement]_fleetVars
    OBVIOUS
  <2>1. CASE part = "registry" /\ UNCHANGED tasksVars
    BY <2>1 DEF tasksVars, Placement, PartInv, AtRest, Idle
  <2>2. CASE part = "fleet" /\ [FleetNext]_fleetVars
    BY <2>2, FleetStepPlaces DEF PartInv
  <2>3. CASE UNCHANGED vars
    BY <2>3 DEF vars
  <2> QED
    BY <2>1, <2>2, <2>3, PartSteps
<1>3. Spec => [][Placement]_fleetVars
  BY <1>1, <1>2, PTL
<1>4. Spec => PlacedOnLeastLoaded
  BY <1>3 DEF PlacedOnLeastLoaded, Placement, OnLeastLoaded
<1> QED
  BY <1>1, <1>4, PartInvIsSafe, PTL
===============================================================================
