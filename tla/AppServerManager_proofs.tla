----------------------- MODULE AppServerManager_proofs -----------------------
(***************************************************************************)
(* What is proved of AppServerManager, for any callers, threads, channels  *)
(* and bounds.  TypeInv is inductive on its own; it says what every        *)
(* goroutine, frame and queue looks like, that the lock is held by whoever *)
(* is in a part of the code that holds it, and that one reply to a caller  *)
(* is under way at most.                                                   *)
(*                                                                         *)
(* OrderParts is inductive beside it, for as long as no client is replaced *)
(* while it is in use (raced) and nothing has panicked, and where no       *)
(* operation is "cleanup".  Each of its parts is about one thing that the  *)
(* order of events rests on: that one runtime and one client are in use,   *)
(* that a thread is watched before codex sends it anything, what is under  *)
(* way of a thread from the loop back to the app-server, and what a caller *)
(* that resumes a thread may rely on while it holds the lock.              *)
(* GivenHarmless goes with it: what codex may still do for a call whose    *)
(* caller has given it up.                                                 *)
(***************************************************************************)
EXTENDS AppServerManager, TLAPS

(* The parts of a caller's record.                                         *)
StepOf(r) == Script[r.op][r.step]
Dialled(r) == r.at \in {"install", "reinstall"}
Waiting(r) == r.at \in {"sent", "replied"}
Redialling(r) ==
  r.op # "none" /\ StepOf(r) = "ensure" /\ r.at \in {"resume_next", "sent", "replied", "failed", "refused"}
Resuming(r) ==
  r.op # "none" /\ StepOf(r) = "resume" /\ r.at \in {"sent", "replied", "answered", "failed", "refused"}
Holding(r) == Redialling(r) \/ Resuming(r)

AllPlaces == {"idle", "go", "install", "reinstall", "resume_next", "sent", "replied", "answered", "failed", "refused"}

Records == [op : {"none"} \cup DOMAIN Script, step : Nat, at : AllPlaces,
            thread : Threads \cup {NoOne}, about : Threads \cup {NoOne},
            home : {0} \cup Clients, runtime : {0} \cup Clients, client : {0} \cup Clients,
            todo : SUBSET Threads]

CallerOk(r) ==
  /\ r \in Records
  /\ r.op = "none" => r = Idle
  /\ r.op # "none" =>
       /\ r.op \in Ops
       /\ r.thread \in Threads
       /\ r.step \in 1 .. Len(Script[r.op])
       /\ r.at # "idle"
       /\ Dialled(r) \/ r.at = "resume_next" => StepOf(r) = "ensure"
       /\ r.at = "answered" => StepOf(r) = "resume"
       /\ r.at \in {"failed", "refused"} => StepOf(r) \in {"ensure", "resume"}
       /\ Waiting(r) => StepOf(r) \in Methods \cup {"ensure", "resume"}
       /\ r.step > 1 => r.home # 0 /\ r.runtime # 0
       /\ Dialled(r) \/ Waiting(r) \/ r.at = "resume_next" => r.client # 0
       /\ Waiting(r) => r.about \in Threads

Replies == [kind : {"reply"}, to : AllCallers \cup {NoOne}, result : {"answered", "refused"}]
EventsFor(ts) == [kind : {"event"}, thread : ts, n : Nat]
Deltas == [kind : {"delta"}, thread : Threads]
Frames == Replies \cup EventsFor(Threads) \cup Deltas

Consumers == [at : {"off", "start", "ready", "blocked"}, runtime : {0} \cup Clients, client : {0} \cup Clients]

StateTyped ==
  /\ mu \in AllCallers \cup Clients \cup {NoOne}
  /\ machine \in {0} \cup Clients
  /\ runtimes \in [Clients -> [client : {0} \cup Clients, watchers : SUBSET Threads]]
  /\ conn \in [Clients -> {"unused", "open", "broken"}]
  /\ ended \subseteq Clients
  /\ bridged \subseteq Threads
  /\ bridge \in [Threads -> {0} \cup Clients]
  /\ sub \in [Clients -> SUBSET Threads]
  /\ active \subseteq Threads

QueuesTyped ==
  /\ inbox \in [Clients -> Seq(Frames)]
  /\ notes \in [Clients -> Seq(Frames)]
  /\ channel \in [Clients -> [Threads -> Seq(Frames)]]
  /\ runner \in Seq(EventsFor(Threads))
  /\ \A r \in Clients, t \in Threads : channel[r][t] \in Seq(EventsFor({t}))
  /\ \A c \in Clients : Len(notes[c]) <= NotifyCap
  /\ \A r \in Clients, t \in Threads : Len(channel[r][t]) <= WatcherCap
  /\ Len(runner) <= RunnerCap

ConsumersTyped ==
  /\ consumer \in [Clients -> Consumers]
  /\ \A k \in Clients :
       /\ consumer[k].at # "off" => consumer[k].runtime # 0
       /\ ~panicked /\ consumer[k].at \in {"ready", "blocked"} => consumer[k].client # 0

BlockedOnEvent ==
  \A k \in Clients : ~panicked /\ consumer[k].at = "blocked" =>
    /\ notes[consumer[k].client] # <<>>
    /\ Message(k).kind = "event"

CallersTyped ==
  /\ caller \in [AllCallers -> Records]
  /\ \A p \in AllCallers : CallerOk(caller[p])

LockHeld ==
  /\ \A p \in AllCallers : mu = p <=> Holding(caller[p])
  /\ \A k \in Clients : mu = k <=> consumer[k].at = "blocked"

ReplyTo(m, p) == m.kind = "reply" /\ m.to = p

RepliesMatch ==
  /\ \A c \in Clients : \A i \in DOMAIN inbox[c] : \A p \in AllCallers :
       ReplyTo(inbox[c][i], p) => caller[p].at = "replied" /\ caller[p].client = c
  /\ \A c \in Clients : \A i, j \in DOMAIN inbox[c] : \A p \in AllCallers :
       ReplyTo(inbox[c][i], p) /\ ReplyTo(inbox[c][j], p) => i = j

Owns(r) == Dialled(r) \/ Redialling(r)

OwnedClients ==
  /\ \A c \in Clients : conn[c] = "unused" => consumer[c].at = "off"
  /\ \A p \in AllCallers : Owns(caller[p]) =>
       /\ caller[p].client \in Clients
       /\ conn[caller[p].client] # "unused" /\ consumer[caller[p].client].at = "off"
  /\ \A p, q \in AllCallers :
       p # q /\ Owns(caller[p]) /\ Owns(caller[q]) => caller[p].client # caller[q].client
  /\ \A p \in AllCallers : caller[p].at = "reinstall" \/ Redialling(caller[p]) => machine # 0

EndedEmpty == \A c \in ended : conn[c] = "broken" /\ inbox[c] = <<>>

Numbered ==
  /\ sent \in [Threads -> Nat]
  /\ got \in [Threads -> Nat]
  /\ lost \in [Threads -> SUBSET Nat]
  /\ \A t \in Threads :
       /\ got[t] <= sent[t]
       /\ lost[t] \subseteq 1 .. sent[t]
       /\ EventsOf(runner, t) \subseteq 1 .. sent[t]
       /\ \A c \in Clients : EventsOf(notes[c], t) \cup EventsOf(inbox[c], t) \cup EventsOf(channel[c][t], t)
                               \subseteq 1 .. sent[t]

(* Calls that have been given up.                                          *)
Given == [client : Clients, step : Methods \cup {"ensure", "resume"}, about : Threads]
GivenTyped == abandoned \subseteq Given /\ forsaken \subseteq Threads

TypeInv ==
  StateTyped /\ QueuesTyped /\ ConsumersTyped /\ BlockedOnEvent /\ CallersTyped
  /\ LockHeld /\ OwnedClients /\ RepliesMatch /\ EndedEmpty /\ Numbered

-------------------------------------------------------------------------------
(* The client in use, and the threads that are watched on it.              *)
Cur(c) == machine # 0 /\ Client(machine) = c
Watched(t) == machine # 0 /\ t \in Watchers(machine)
Subscribed(t) == \E c \in Clients : conn[c] = "open" /\ t \in sub[c]

OneRuntime ==
  /\ \A k \in Clients : consumer[k].at # "off" => consumer[k].runtime = machine /\ Cur(k)
  /\ \A k \in Clients : consumer[k].at \in {"ready", "blocked"} => consumer[k].client = k
  /\ \A t \in Threads : bridge[t] \in {0, machine}
  /\ \A r \in Clients, t \in Threads : r # machine => channel[r][t] = <<>>
  /\ machine = 0 => runner = <<>> /\ \A t \in Threads : sent[t] = 0

OneClient ==
  /\ \A c \in Clients : ~Cur(c) => inbox[c] = <<>> /\ notes[c] = <<>> /\ (conn[c] = "broken" \/ sub[c] = {})
  /\ \A c \in Clients : Cur(c) => conn[c] # "unused"

ActiveWatched ==
  /\ Old \subseteq active
  /\ \A t \in active \ Old : Watched(t)
  /\ \A t \in Threads \ active : sent[t] = 0

(* What is under way of a thread.                                          *)
NoneTaken(t) ==
  /\ EventsOf(runner, t) = {}
  /\ machine # 0 => EventsOf(channel[machine][t], t) = {}
  /\ \A c \in Clients : EventsOf(notes[c], t) = {}
NoneUnderWay(t) == NoneTaken(t) /\ \A c \in Clients : EventsOf(inbox[c], t) = {}

UnwatchedQuiet == \A t \in Old \ forsaken : ~Watched(t) => NoneUnderWay(t) /\ ~Subscribed(t)

Noted == IF Client(machine) = 0 THEN <<>> ELSE notes[Client(machine)]
Arriving == IF Client(machine) = 0 THEN <<>> ELSE inbox[Client(machine)]

Pipeline(a, b, c, d, t, g, s, l) ==
  /\ EventsOf(a, t) \cup EventsOf(b, t) \cup EventsOf(c, t) \cup EventsOf(d, t) = (g + 1 .. s) \ l
  /\ InOrder(a, t) /\ InOrder(b, t) /\ InOrder(c, t) /\ InOrder(d, t)
  /\ Below(EventsOf(a, t), EventsOf(b, t))
  /\ Below(EventsOf(a, t), EventsOf(c, t))
  /\ Below(EventsOf(a, t), EventsOf(d, t))
  /\ Below(EventsOf(b, t), EventsOf(c, t))
  /\ Below(EventsOf(b, t), EventsOf(d, t))
  /\ Below(EventsOf(c, t), EventsOf(d, t))

Ordered ==
  machine # 0 =>
    \A t \in Threads \ GivenUp :
      Pipeline(runner, channel[machine][t], Noted, Arriving, t, got[t], sent[t], lost[t])

(* A thread whose resume has not been answered.                            *)
Pending(r) == Resuming(r) /\ r.at # "answered"
Attaches(r) == r.op = "attach" /\ r.step > 2

PendingApart ==
  \A p, q \in AllCallers : Pending(caller[p]) /\ Attaches(caller[q]) => caller[q].thread # caller[p].thread

Attached ==
  \A c \in Clients : Cur(c) /\ conn[c] = "open" /\ consumer[c].at # "off" =>
    \A t \in Watchers(machine) \cap Old :
      t \in sub[c] \/ \E p \in AllCallers : Pending(caller[p]) /\ caller[p].thread = t

(* A caller, and what it relies on.                                        *)
OnItsWay(p) ==
  /\ caller[p].home \in {0, machine} /\ caller[p].runtime \in {0, machine}
  /\ caller[p].op = "start" => caller[p].thread \notin Old
  /\ caller[p].op = "attach" => caller[p].thread \in Old
  /\ caller[p].op \in {"input", "respond"} => caller[p].thread \in active
  /\ caller[p].op = "start" /\ caller[p].step > 4 => Watched(caller[p].thread)
  /\ Attaches(caller[p]) => Watched(caller[p].thread)

Uses(p) ==
  /\ Dialled(caller[p]) => ~Cur(caller[p].client)
  /\ Redialling(caller[p]) => Cur(caller[p].client)
  /\ Waiting(caller[p]) => \/ Cur(caller[p].client)
                           \/ conn[caller[p].client] = "broken" /\ ~Resuming(caller[p])
  /\ Waiting(caller[p]) /\ ~Redialling(caller[p]) => caller[p].about = caller[p].thread

WorksOn(p) ==
  /\ Resuming(caller[p]) => Watched(caller[p].thread)
  /\ Redialling(caller[p]) => \A t \in caller[p].todo : Watched(t)
  /\ Redialling(caller[p]) /\ Waiting(caller[p]) => Watched(caller[p].about)

Answers(m, p) == ReplyTo(m, p) /\ m.result = "answered"
HasAnswer(s, p) == \E i \in DOMAIN s : Answers(s[i], p)
Heralded(s, p, t) ==
  \A j \in DOMAIN s : IsEvent(s[j], t) => \E i \in DOMAIN s : i < j /\ Answers(s[i], p)

Resumes(p) ==
  Resuming(caller[p]) /\ caller[p].thread \notin forsaken =>
    LET t == caller[p].thread
        s == inbox[caller[p].client]
    IN /\ caller[p].at \in {"sent", "failed", "refused"} => NoneUnderWay(t) /\ ~Subscribed(t)
       /\ caller[p].at = "replied" => NoneTaken(t) /\ Heralded(s, p, t) /\ (Subscribed(t) => HasAnswer(s, p))

Redials(p) ==
  /\ /\ Redialling(caller[p]) /\ conn[caller[p].client] = "open"
     /\ caller[p].at \in {"resume_next", "sent", "replied"}
     => \A t \in Watchers(machine) \cap Old :
          t \in sub[caller[p].client] \/ t \in caller[p].todo \/ (Waiting(caller[p]) /\ caller[p].about = t)
  /\ Holding(caller[p]) /\ caller[p].at = "replied" /\ HasAnswer(inbox[caller[p].client], p) =>
       caller[p].about \in sub[caller[p].client]

Fits(p) == OnItsWay(p) /\ Uses(p) /\ WorksOn(p) /\ Resumes(p) /\ Redials(p)

OrderParts ==
  /\ OneRuntime /\ OneClient /\ ActiveWatched /\ UnwatchedQuiet /\ Ordered /\ Attached /\ PendingApart
  /\ \A p \in AllCallers : Fits(p)

(* What codex may still do for calls that have been given up.              *)
GivenHarmless ==
  \A a \in abandoned :
    /\ Cur(a.client) \/ conn[a.client] = "broken"
    /\ a.step \notin {"thread/unsubscribe", "thread/archive"}
    /\ a.step = "thread/start" => a.about \notin Old
    /\ a.step = "turn/start" => a.about \in Old \/ Watched(a.about)
    /\ a.step = "resume" => a.about \in forsaken
    /\ a.step = "ensure" => /\ Watched(a.about)
                            /\ \A p \in AllCallers : Resuming(caller[p]) => caller[p].thread # a.about

OrderInv == ~raced /\ ~panicked => OrderParts /\ GivenHarmless

-------------------------------------------------------------------------------
(* The scripts.                                                            *)
LEMMA ScriptNames == DOMAIN Script = {"start", "attach", "input", "respond", "cleanup", "snapshot"}
  BY DEF Script

LEMMA ScriptLengths == ASSUME NEW op \in DOMAIN Script PROVE Len(Script[op]) \in Nat /\ Len(Script[op]) > 0
<1>1. CASE op = "start" BY <1>1 DEF Script
<1>2. CASE op = "attach" BY <1>2 DEF Script
<1>3. CASE op = "input" BY <1>3 DEF Script
<1>4. CASE op = "respond" BY <1>4 DEF Script
<1>5. CASE op = "cleanup" BY <1>5 DEF Script
<1>6. CASE op = "snapshot" BY <1>6 DEF Script
<1>. QED BY <1>1, <1>2, <1>3, <1>4, <1>5, <1>6, ScriptNames

LEMMA ScriptSteps ==
  ASSUME NEW op \in DOMAIN Script, NEW i \in 1 .. Len(Script[op])
  PROVE  /\ Len(Script[op]) \in Nat /\ Len(Script[op]) > 0
         /\ Script[op][1] \in {"ensure", "snapshot"}
         /\ Script[op][i] \in Methods \cup {"ensure", "resume", "respond", "watch", "mark", "bridge", "forget", "snapshot"}
         /\ Script[op][i] = "resume" <=> op = "attach" /\ i = 2
         /\ Script[op][i] = "watch" <=> op = "start" /\ i = 4
         /\ Script[op][i] = "thread/start" => op = "start"
         /\ Script[op][i] = "turn/start" => op = "input" \/ (op = "start" /\ i = 5)
         /\ Script[op][i] = "bridge" => (op = "start" /\ i = 8) \/ (op = "attach" /\ i = 5)
         /\ Script[op][i] \in {"thread/unsubscribe", "thread/archive", "forget"} => op = "cleanup"
<1>1. CASE op = "start"
  BY <1>1 DEF Script, Methods
<1>2. CASE op = "attach"
  BY <1>2 DEF Script, Methods
<1>3. CASE op = "input"
  BY <1>3 DEF Script, Methods
<1>4. CASE op = "respond"
  BY <1>4 DEF Script, Methods
<1>5. CASE op = "cleanup"
  BY <1>5 DEF Script, Methods
<1>6. CASE op = "snapshot"
  BY <1>6 DEF Script, Methods
<1>. QED BY <1>1, <1>2, <1>3, <1>4, <1>5, <1>6, ScriptNames

LEMMA IdleOk == CallerOk(Idle) /\ Idle.op = "none" /\ Idle.at = "idle" /\ ~Holding(Idle) /\ ~Waiting(Idle) /\ ~Owns(Idle)
  BY DEF Owns, CallerOk, Idle, Records, AllPlaces, Holding, Redialling, Resuming, Waiting, Dialled

(* What the next step of a script makes of its caller.                     *)
LEMMA AfterIs ==
  ASSUME NEW r, CallerOk(r), r.op # "none", r.home # 0, r.runtime # 0,
         NEW x, x = After(r)
  PROVE  \/ x = Idle
         \/ /\ x \in Records
            /\ x.op = r.op /\ x.step = r.step + 1 /\ x.at = "go" /\ x.thread = r.thread
            /\ x.home = r.home /\ x.runtime = r.runtime
            /\ x.client = 0 /\ x.todo = r.todo
            /\ x.step \in 1 .. Len(Script[x.op])
<1>. /\ r \in Records /\ r.op \in DOMAIN Script /\ r.step \in 1 .. Len(Script[r.op])
     /\ Len(Script[r.op]) \in Nat
  BY ScriptSteps, OpsAreScripts DEF CallerOk, Records
<1>1. CASE r.step = Len(Script[r.op])
  BY <1>1 DEF After
<1>2. CASE r.step # Len(Script[r.op])
  <2>1. x = [r EXCEPT !.step = @ + 1, !.at = "go", !.client = 0, !.about = NoOne]
    BY <1>2 DEF After
  <2>2. /\ x.op = r.op /\ x.step = r.step + 1 /\ x.at = "go" /\ x.thread = r.thread
        /\ x.home = r.home /\ x.runtime = r.runtime
        /\ x.client = 0 /\ x.todo = r.todo
    BY <2>1 DEF Records
  <2>3. x \in Records
    <3>1. r.step + 1 \in Nat /\ "go" \in AllPlaces /\ 0 \in {0} \cup Clients /\ NoOne \in Threads \cup {NoOne}
      BY DEF Records, AllPlaces
    <3>. QED BY <2>1, <3>1 DEF Records
  <2>. QED BY <2>2, <2>3, <1>2
<1>. QED BY <1>1, <1>2

LEMMA AfterOk ==
  ASSUME NEW r, CallerOk(r), r.op # "none", r.home # 0, r.runtime # 0
  PROVE  CallerOk(After(r)) /\ ~Holding(After(r)) /\ ~Waiting(After(r)) /\ ~Owns(After(r))
<1>. DEFINE x == After(r)
<1>1. CASE x = Idle
  BY <1>1, IdleOk
<1>2. CASE x # Idle
  <2>. /\ x \in Records
       /\ x.op = r.op /\ x.step = r.step + 1 /\ x.at = "go" /\ x.thread = r.thread
       /\ x.home = r.home /\ x.runtime = r.runtime
       /\ x.client = 0 /\ x.todo = r.todo
       /\ x.step \in 1 .. Len(Script[x.op])
    BY AfterIs, <1>2
  <2>. HIDE DEF x
  <2>1. x.op # "none" /\ x.op \in Ops /\ x.thread \in Threads /\ x.home # 0 /\ x.runtime # 0
    BY DEF CallerOk
  <2>2. ~Holding(x) /\ ~Waiting(x) /\ ~Owns(x) /\ ~Dialled(x)
    BY DEF Owns, Dialled, Waiting, Holding, Redialling, Resuming
  <2>3. CallerOk(x)
    BY <2>1, <2>2 DEF CallerOk
  <2>. QED BY <2>2, <2>3 DEF x
<1>. QED BY <1>1, <1>2

(* Past its first step a caller has a runtime.                             *)
LEMMA PastEnsure ==
  ASSUME NEW r, CallerOk(r), r.op # "none", StepOf(r) \notin {"ensure", "snapshot"}
  PROVE  r.step > 1 /\ r.home # 0 /\ r.runtime # 0
<1>1. r.op \in DOMAIN Script /\ r.step \in 1 .. Len(Script[r.op]) /\ Len(Script[r.op]) \in Nat
  BY ScriptSteps, OpsAreScripts DEF CallerOk
<1>2. Script[r.op][1] \in {"ensure", "snapshot"}
  BY <1>1, ScriptSteps
<1>3. r.step # 1
  BY <1>2 DEF StepOf
<1>. QED BY <1>1, <1>3 DEF CallerOk

(* What an outcome makes of a call.                                        *)
LEMMA ReturnedIs ==
  ASSUME NEW r, CallerOk(r), r.op # "none", NEW how \in {"answered", "refused", "failed"},
         StepOf(r) \in Methods \cup {"ensure", "resume"},
         StepOf(r) = "ensure" => r.client # 0,
         NEW x, x = Returned(r, how)
  PROVE  /\ CallerOk(x)
         /\ \/ StepOf(r) \in Methods /\ (x = Idle \/ x = After(r)) /\ ~Holding(x)
            \/ /\ StepOf(r) \in {"ensure", "resume"}
               /\ x.op = r.op /\ x.step = r.step /\ x.thread = r.thread /\ x.about = r.about
               /\ x.home = r.home /\ x.runtime = r.runtime /\ x.client = r.client /\ x.todo = r.todo
               /\ x.at = IF StepOf(r) = "ensure" /\ how = "answered" THEN "resume_next" ELSE how
               /\ Holding(x)
         /\ ~Waiting(x) /\ ~Dialled(x) /\ (Owns(x) => StepOf(r) = "ensure")
<1>. r \in Records
  BY DEF CallerOk
<1>1. CASE StepOf(r) \in Methods
  <2>1. x = Idle \/ x = After(r)
    BY <1>1 DEF Returned, StepOf
  <2>2. r.home # 0 /\ r.runtime # 0
    BY <1>1, PastEnsure DEF Methods
  <2>. QED BY <1>1, <2>1, <2>2, AfterOk, IdleOk DEF Owns
<1>2. CASE StepOf(r) \notin Methods
  <2>. DEFINE a == IF StepOf(r) = "ensure" /\ how = "answered" THEN "resume_next" ELSE how
  <2>1. x = [r EXCEPT !.at = a]
    BY <1>2 DEF Returned, StepOf
  <2>2. a \in AllPlaces /\ a \notin {"idle", "go", "install", "reinstall", "sent", "replied"}
    BY DEF AllPlaces
  <2>. HIDE DEF a
  <2>3. /\ x.op = r.op /\ x.step = r.step /\ x.thread = r.thread /\ x.about = r.about
        /\ x.home = r.home /\ x.runtime = r.runtime /\ x.client = r.client /\ x.todo = r.todo
        /\ x.at = a
    BY <2>1 DEF Records
  <2>4. x \in Records
    BY <2>1, <2>2 DEF Records
  <2>5. StepOf(r) \in {"ensure", "resume"} /\ StepOf(x) = StepOf(r)
    BY <1>2, <2>3 DEF StepOf
  <2>6. ~Waiting(x) /\ ~Dialled(x)
    BY <2>2, <2>3 DEF Waiting, Dialled
  <2>7. /\ a = "resume_next" => StepOf(r) = "ensure"
        /\ a = "answered" => StepOf(r) = "resume"
        /\ a \in {"resume_next", "answered", "failed", "refused"}
    BY <2>5 DEF a
  <2>8. Holding(x)
    BY <2>3, <2>5, <2>7 DEF Holding, Redialling, Resuming
  <2>9. CallerOk(x)
    BY <2>2, <2>3, <2>4, <2>5, <2>6, <2>7 DEF CallerOk
  <2>10. Owns(x) => StepOf(r) = "ensure"
    BY <2>5, <2>6 DEF Owns, Redialling
  <2>. QED BY <2>3, <2>5, <2>6, <2>8, <2>9, <2>10 DEF a
<1>. QED BY <1>1, <1>2

-------------------------------------------------------------------------------
(* The goroutines.                                                         *)
LEMMA MoveIs ==
  ASSUME CallersTyped, NEW p \in AllCallers, NEW r, CallerOk(r), Move(p, r)
  PROVE  /\ CallersTyped'
         /\ caller'[p] = r
         /\ \A q \in AllCallers : q # p => caller'[q] = caller[q]
<1>1. r \in Records
  BY DEF CallerOk
<1>2. caller' = [caller EXCEPT ![p] = r]
  BY DEF Move
<1>3. caller' \in [AllCallers -> Records]
  BY <1>1, <1>2 DEF CallersTyped
<1>4. caller'[p] = r /\ \A q \in AllCallers : q # p => caller'[q] = caller[q]
  BY <1>2 DEF CallersTyped
<1>5. \A q \in AllCallers : CallerOk(caller'[q])
  BY <1>4 DEF CallersTyped
<1>. QED BY <1>3, <1>4, <1>5 DEF CallersTyped

LEMMA LockKept ==
  ASSUME CallersTyped, LockHeld, NEW p \in AllCallers, NEW r, CallerOk(r), Move(p, r),
         Holding(r) <=> Holding(caller[p]), mu' = mu, consumer' = consumer
  PROVE  LockHeld'
  BY MoveIs DEF LockHeld

LEMMA LockTaken ==
  ASSUME CallersTyped, LockHeld, NEW p \in AllCallers, NEW r, CallerOk(r), Move(p, r),
         Free, mu' = p, Holding(r), consumer' = consumer
  PROVE  LockHeld'
  BY MoveIs, LoopIsNoCaller DEF LockHeld, Free

LEMMA LockReleased ==
  ASSUME CallersTyped, LockHeld, NEW p \in AllCallers, NEW r, CallerOk(r), Move(p, r),
         Holding(caller[p]), mu' = NoOne, ~Holding(r),
         \A k \in Clients : consumer'[k].at = "blocked" <=> consumer[k].at = "blocked"
  PROVE  LockHeld'
  BY MoveIs, LoopIsNoCaller DEF LockHeld

LEMMA RepliesKept ==
  ASSUME CallersTyped, RepliesMatch, NEW p \in AllCallers, NEW r, CallerOk(r), Move(p, r),
         caller[p].at # "replied", inbox' = inbox
  PROVE  RepliesMatch'
  BY MoveIs DEF RepliesMatch

-------------------------------------------------------------------------------
(* Events in a queue.                                                      *)
LEMMA EmptyQueue == ASSUME NEW t PROVE EventsOf(<<>>, t) = {} /\ InOrder(<<>>, t)
  BY DEF EventsOf, InOrder

LEMMA AppendEvents ==
  ASSUME NEW S, NEW s \in Seq(S), NEW m \in S, NEW t
  PROVE  EventsOf(Append(s, m), t) = EventsOf(s, t) \cup (IF IsEvent(m, t) THEN {m.n} ELSE {})
<1>. DEFINE u == Append(s, m)
<1>1. /\ DOMAIN s = 1 .. Len(s) /\ DOMAIN u = 1 .. Len(s) + 1 /\ Len(s) \in Nat
      /\ u[Len(s) + 1] = m /\ \A i \in 1 .. Len(s) : u[i] = s[i]
  OBVIOUS
<1>. HIDE DEF u
<1>2. ASSUME NEW n PROVE n \in EventsOf(u, t) => n \in EventsOf(s, t) \/ (IsEvent(m, t) /\ n = m.n)
  BY <1>1 DEF EventsOf
<1>3. ASSUME NEW n PROVE n \in EventsOf(s, t) => n \in EventsOf(u, t)
  BY <1>1 DEF EventsOf
<1>4. IsEvent(m, t) => m.n \in EventsOf(u, t)
  BY <1>1 DEF EventsOf
<1>5. EventsOf(u, t) = EventsOf(s, t) \cup (IF IsEvent(m, t) THEN {m.n} ELSE {})
  BY <1>2, <1>3, <1>4
<1>. QED BY <1>5 DEF u

LEMMA AppendInOrder ==
  ASSUME NEW S, NEW s \in Seq(S), NEW m \in S, NEW t, InOrder(s, t),
         IsEvent(m, t) => Below(EventsOf(s, t), {m.n})
  PROVE  InOrder(Append(s, m), t)
<1>. DEFINE u == Append(s, m)
<1>1. /\ DOMAIN s = 1 .. Len(s) /\ DOMAIN u = 1 .. Len(s) + 1 /\ Len(s) \in Nat
      /\ u[Len(s) + 1] = m /\ \A i \in 1 .. Len(s) : u[i] = s[i]
  OBVIOUS
<1>. HIDE DEF u
<1>2. SUFFICES ASSUME NEW i \in DOMAIN u, NEW j \in DOMAIN u, i < j, IsEvent(u[i], t), IsEvent(u[j], t)
               PROVE  u[i].n < u[j].n
  BY DEF InOrder, u
<1>3. CASE j = Len(s) + 1
  <2>1. i \in DOMAIN s /\ u[i] = s[i] /\ u[j] = m
    BY <1>1, <1>2, <1>3
  <2>2. u[i].n \in EventsOf(s, t)
    BY <2>1, <1>2 DEF EventsOf
  <2>. QED BY <2>1, <2>2, <1>2 DEF Below
<1>4. CASE j # Len(s) + 1
  <2>1. i \in DOMAIN s /\ j \in DOMAIN s /\ u[i] = s[i] /\ u[j] = s[j]
    BY <1>1, <1>2, <1>4
  <2>. QED BY <2>1, <1>2 DEF InOrder
<1>. QED BY <1>3, <1>4

LEMMA TailEvents ==
  ASSUME NEW S, NEW s \in Seq(S), s # <<>>, NEW t
  PROVE  EventsOf(s, t) = EventsOf(Tail(s), t) \cup (IF IsEvent(Head(s), t) THEN {Head(s).n} ELSE {})
<1>. DEFINE u == Tail(s)
<1>1. /\ DOMAIN s = 1 .. Len(s) /\ DOMAIN u = 1 .. Len(s) - 1 /\ Len(s) \in Nat /\ Len(s) > 0
      /\ Head(s) = s[1] /\ \A i \in 1 .. Len(s) - 1 : u[i] = s[i + 1]
  OBVIOUS
<1>. HIDE DEF u
<1>2. ASSUME NEW n PROVE n \in EventsOf(s, t) => n \in EventsOf(u, t) \/ (IsEvent(Head(s), t) /\ n = Head(s).n)
  <2>1. SUFFICES ASSUME NEW i \in DOMAIN s, IsEvent(s[i], t), n = s[i].n
                 PROVE  n \in EventsOf(u, t) \/ (IsEvent(Head(s), t) /\ n = Head(s).n)
    BY DEF EventsOf
  <2>2. CASE i = 1
    BY <2>1, <2>2, <1>1
  <2>3. CASE i # 1
    <3>1. i - 1 \in DOMAIN u /\ u[i - 1] = s[i]
      BY <1>1, <2>3
    <3>. QED BY <3>1, <2>1 DEF EventsOf
  <2>. QED BY <2>2, <2>3
<1>3. ASSUME NEW n PROVE n \in EventsOf(u, t) => n \in EventsOf(s, t)
  <2>1. SUFFICES ASSUME NEW i \in DOMAIN u, IsEvent(u[i], t), n = u[i].n
                 PROVE  n \in EventsOf(s, t)
    BY DEF EventsOf
  <2>2. i + 1 \in DOMAIN s /\ u[i] = s[i + 1]
    BY <1>1
  <2>. QED BY <2>1, <2>2 DEF EventsOf
<1>4. IsEvent(Head(s), t) => Head(s).n \in EventsOf(s, t)
  BY <1>1 DEF EventsOf
<1>5. EventsOf(s, t) = EventsOf(u, t) \cup (IF IsEvent(Head(s), t) THEN {Head(s).n} ELSE {})
  BY <1>2, <1>3, <1>4
<1>. QED BY <1>5 DEF u

LEMMA TailInOrder ==
  ASSUME NEW S, NEW s \in Seq(S), s # <<>>, NEW t, InOrder(s, t)
  PROVE  /\ InOrder(Tail(s), t)
         /\ IsEvent(Head(s), t) => Below({Head(s).n}, EventsOf(Tail(s), t))
<1>. DEFINE u == Tail(s)
<1>1. /\ DOMAIN s = 1 .. Len(s) /\ DOMAIN u = 1 .. Len(s) - 1 /\ Len(s) \in Nat /\ Len(s) > 0
      /\ Head(s) = s[1] /\ \A i \in 1 .. Len(s) - 1 : u[i] = s[i + 1]
  OBVIOUS
<1>. HIDE DEF u
<1>2. InOrder(u, t)
  <2>1. SUFFICES ASSUME NEW i \in DOMAIN u, NEW j \in DOMAIN u, i < j, IsEvent(u[i], t), IsEvent(u[j], t)
                 PROVE  u[i].n < u[j].n
    BY DEF InOrder
  <2>2. i + 1 \in DOMAIN s /\ j + 1 \in DOMAIN s /\ u[i] = s[i + 1] /\ u[j] = s[j + 1] /\ i + 1 < j + 1
    BY <1>1, <2>1
  <2>. QED BY <2>1, <2>2 DEF InOrder
<1>3. ASSUME IsEvent(Head(s), t), NEW b \in EventsOf(u, t) PROVE Head(s).n < b
  <2>1. PICK j \in DOMAIN u : IsEvent(u[j], t) /\ b = u[j].n
    BY <1>3 DEF EventsOf
  <2>2. j + 1 \in DOMAIN s /\ u[j] = s[j + 1] /\ 1 < j + 1 /\ 1 \in DOMAIN s /\ Head(s) = s[1]
    BY <1>1
  <2>. QED BY <2>1, <2>2, <1>3 DEF InOrder
<1>4. IsEvent(Head(s), t) => Below({Head(s).n}, EventsOf(u, t))
  BY <1>3 DEF Below
<1>. QED BY <1>2, <1>4 DEF u

LEMMA TailIs ==
  ASSUME NEW S, NEW s \in Seq(S), s # <<>>
  PROVE  /\ Head(s) \in S /\ Tail(s) \in Seq(S) /\ Len(Tail(s)) = Len(s) - 1 /\ Len(s) \in Nat
         /\ Head(s) = s[1] /\ 1 \in DOMAIN s
         /\ \A i \in DOMAIN Tail(s) : i + 1 \in DOMAIN s /\ Tail(s)[i] = s[i + 1] /\ i \in Nat /\ i > 0
         /\ \A i \in DOMAIN s : i # 1 => i - 1 \in DOMAIN Tail(s) /\ Tail(s)[i - 1] = s[i]
  OBVIOUS

(* What arrives of a queue, and what does not.                             *)
LEMMA CutIs ==
  ASSUME NEW S, NEW s \in Seq(S), NEW n \in 0 .. Len(s),
         NEW u, u = SubSeq(s, 1, n), NEW v, v = SubSeq(s, n + 1, Len(s))
  PROVE  /\ u \in Seq(S) /\ v \in Seq(S)
         /\ DOMAIN s = 1 .. Len(s) /\ Len(s) \in Nat
         /\ DOMAIN u = 1 .. n /\ \A i \in 1 .. n : u[i] = s[i]
         /\ DOMAIN v = 1 .. Len(s) - n /\ \A i \in 1 .. Len(s) - n : v[i] = s[n + i]
  OBVIOUS

LEMMA CutEvents ==
  ASSUME NEW S, NEW s \in Seq(S), NEW n \in 0 .. Len(s), NEW t
  PROVE  /\ EventsOf(s, t) = EventsOf(SubSeq(s, 1, n), t) \cup EventsOf(SubSeq(s, n + 1, Len(s)), t)
         /\ InOrder(s, t) => /\ InOrder(SubSeq(s, 1, n), t)
                             /\ Below(EventsOf(SubSeq(s, 1, n), t), EventsOf(SubSeq(s, n + 1, Len(s)), t))
<1>. DEFINE u == SubSeq(s, 1, n)
            v == SubSeq(s, n + 1, Len(s))
<1>1. /\ DOMAIN s = 1 .. Len(s) /\ Len(s) \in Nat /\ n \in Nat /\ n <= Len(s)
      /\ DOMAIN u = 1 .. n /\ \A i \in 1 .. n : u[i] = s[i]
      /\ DOMAIN v = 1 .. Len(s) - n /\ \A i \in 1 .. Len(s) - n : v[i] = s[n + i]
  BY CutIs
<1>. HIDE DEF u, v
<1>2. ASSUME NEW i \in DOMAIN s PROVE (i \in DOMAIN u /\ u[i] = s[i]) \/ (i - n \in DOMAIN v /\ v[i - n] = s[i])
  <2>1. CASE i <= n
    BY <1>1, <2>1
  <2>2. CASE i > n
    <3>1. i - n \in 1 .. Len(s) - n /\ n + (i - n) = i
      BY <1>1, <2>2
    <3>. QED BY <1>1, <3>1
  <2>. QED BY <1>1, <2>1, <2>2
<1>3. ASSUME NEW i \in DOMAIN v PROVE n + i \in DOMAIN s /\ s[n + i] = v[i]
  BY <1>1
<1>4. ASSUME NEW i \in DOMAIN u PROVE i \in DOMAIN s /\ s[i] = u[i]
  BY <1>1
<1>5. EventsOf(s, t) = EventsOf(u, t) \cup EventsOf(v, t)
  <2>1. ASSUME NEW b \in EventsOf(s, t) PROVE b \in EventsOf(u, t) \cup EventsOf(v, t)
    <3>1. PICK i \in DOMAIN s : IsEvent(s[i], t) /\ b = s[i].n
      BY <2>1 DEF EventsOf
    <3>. QED BY <3>1, <1>2 DEF EventsOf
  <2>2. EventsOf(v, t) \subseteq EventsOf(s, t)
    BY <1>3 DEF EventsOf
  <2>3. EventsOf(u, t) \subseteq EventsOf(s, t)
    BY <1>4 DEF EventsOf
  <2>. QED BY <2>1, <2>2, <2>3
<1>6. ASSUME InOrder(s, t) PROVE InOrder(u, t)
  BY <1>4, <1>6 DEF InOrder
<1>7. ASSUME InOrder(s, t), NEW a \in EventsOf(u, t), NEW b \in EventsOf(v, t) PROVE a < b
  <2>1. PICK i \in DOMAIN u : IsEvent(u[i], t) /\ a = u[i].n
    BY <1>7 DEF EventsOf
  <2>2. PICK j \in DOMAIN v : IsEvent(v[j], t) /\ b = v[j].n
    BY <1>7 DEF EventsOf
  <2>3. i < n + j /\ i \in DOMAIN s /\ n + j \in DOMAIN s /\ s[i] = u[i] /\ s[n + j] = v[j]
    BY <1>1
  <2>. QED BY <2>1, <2>2, <2>3, <1>7 DEF InOrder
<1>8. InOrder(s, t) => Below(EventsOf(u, t), EventsOf(v, t))
  BY <1>7 DEF Below
<1>. QED BY <1>5, <1>6, <1>8 DEF u, v

-------------------------------------------------------------------------------
(* Callers and what they change.                                           *)
LEMMA AtIs ==
  ASSUME CallersTyped, NEW p \in AllCallers, NEW s, NEW l, At(p, s, l)
  PROVE  /\ CallerOk(caller[p]) /\ caller[p].op # "none"
         /\ StepOf(caller[p]) = s /\ caller[p].at = l /\ ~panicked
  BY DEF CallersTyped, At, Runs, Step, StepOf

LEMMA EnsuredIs ==
  ASSUME CallersTyped, NEW p \in AllCallers, caller[p].op # "none", StepOf(caller[p]) = "ensure",
         ~Waiting(caller[p]),
         NEW r \in Clients, r # 0, NEW x, x = InRuntime(p, r)
  PROVE  /\ CallerOk(x) /\ x.home # 0 /\ x.runtime # 0
         /\ x.op = caller[p].op /\ x.step = caller[p].step /\ x.thread = caller[p].thread
         /\ x.runtime = r /\ x.home \in {r, caller[p].home} /\ x.todo = caller[p].todo
<1>. DEFINE h == IF caller[p].step = 1 THEN r ELSE caller[p].home
<1>1. CallerOk(caller[p]) /\ caller[p] \in Records
  BY DEF CallersTyped
<1>2. caller[p].op \in DOMAIN Script /\ caller[p].step \in 1 .. Len(Script[caller[p].op])
      /\ Len(Script[caller[p].op]) \in Nat
  BY <1>1, OpsAreScripts, ScriptSteps DEF CallerOk
<1>3. h \in {0} \cup Clients /\ h # 0 /\ h \in {r, caller[p].home}
  BY <1>1, <1>2 DEF CallerOk, Records
<1>4. x = [caller[p] EXCEPT !.runtime = r, !.home = h]
  BY DEF InRuntime
<1>. HIDE DEF h
<1>5. x \in Records
  BY <1>1, <1>3, <1>4 DEF Records
<1>6. /\ x.op = caller[p].op /\ x.step = caller[p].step /\ x.at = caller[p].at /\ x.thread = caller[p].thread
      /\ x.home = h /\ x.runtime = r /\ x.client = caller[p].client /\ x.todo = caller[p].todo
      /\ x.about = caller[p].about
  BY <1>1, <1>4 DEF Records
<1>7. StepOf(x) = StepOf(caller[p])
  BY <1>6 DEF StepOf
<1>8. CallerOk(x)
  BY <1>1, <1>3, <1>5, <1>6, <1>7 DEF CallerOk, Dialled, Waiting
<1>. QED BY <1>3, <1>6, <1>8

(* A request that is sent, or is not.                                      *)
LEMMA CallIs ==
  ASSUME NEW p \in AllCallers, NEW c \in Clients, c # 0, NEW r, CallerOk(r), r.op # "none", r.about \in Threads,
         StepOf(r) \in Methods \cup {"ensure", "resume"},
         StepOf(r) = "ensure" => r.client # 0,
         Call(p, c, r)
  PROVE  \E x :
           /\ CallerOk(x) /\ Move(p, x)
           /\ Holding(x) <=> StepOf(r) \in {"ensure", "resume"}
           /\ ~Dialled(x) /\ (Owns(x) => StepOf(r) = "ensure")
           /\ \/ /\ x.op = r.op /\ x.step = r.step /\ x.at = "sent" /\ x.thread = r.thread /\ x.about = r.about
                 /\ x.home = r.home /\ x.runtime = r.runtime /\ x.client = c /\ x.todo = r.todo
              \/ conn[c] = "broken" /\ x = Returned(r, "failed")
<1>. r \in Records
  BY DEF CallerOk
<1>1. CASE Move(p, [r EXCEPT !.at = "sent", !.client = c])
  <2>. DEFINE x == [r EXCEPT !.at = "sent", !.client = c]
  <2>1. /\ x.op = r.op /\ x.step = r.step /\ x.at = "sent" /\ x.thread = r.thread /\ x.about = r.about
        /\ x.home = r.home /\ x.runtime = r.runtime /\ x.client = c /\ x.todo = r.todo
    BY DEF Records
  <2>2. x \in Records
    BY DEF Records, AllPlaces
  <2>3. Move(p, x)
    BY <1>1
  <2>. HIDE DEF x
  <2>4. StepOf(x) = StepOf(r)
    BY <2>1 DEF StepOf
  <2>5. CallerOk(x) /\ ~Dialled(x)
    BY <2>1, <2>2, <2>4 DEF CallerOk, Dialled, Waiting
  <2>6. Holding(x) <=> StepOf(r) \in {"ensure", "resume"}
    BY <2>1, <2>4 DEF Holding, Redialling, Resuming
  <2>7. Owns(x) => StepOf(r) = "ensure"
    BY <2>4, <2>5 DEF Owns, Redialling
  <2>. QED BY <2>1, <2>3, <2>5, <2>6, <2>7
<1>2. CASE conn[c] = "broken" /\ Move(p, Returned(r, "failed"))
  <2>. DEFINE x == Returned(r, "failed")
  <2>1. /\ CallerOk(x)
        /\ \/ StepOf(r) \in Methods /\ ~Holding(x)
           \/ StepOf(r) \in {"ensure", "resume"} /\ Holding(x)
        /\ ~Dialled(x) /\ (Owns(x) => StepOf(r) = "ensure")
    BY ReturnedIs
  <2>2. "ensure" \notin Methods /\ "resume" \notin Methods
    BY DEF Methods
  <2>3. Move(p, x) /\ conn[c] = "broken"
    BY <1>2
  <2>. QED BY <2>1, <2>2, <2>3
<1>. QED BY <1>1, <1>2 DEF Call

LEMMA SetWatchersIs ==
  ASSUME StateTyped, NEW r \in Clients, NEW ws \in SUBSET Threads, SetWatchers(r, ws)
  PROVE  /\ runtimes' \in [Clients -> [client : {0} \cup Clients, watchers : SUBSET Threads]]
         /\ \A s \in Clients : Client(s)' = Client(s)
         /\ \A s \in Clients : Watchers(s)' = IF s = r THEN ws ELSE Watchers(s)
  BY DEF StateTyped, SetWatchers, Client, Watchers

LEMMA OwnedKept ==
  ASSUME CallersTyped, OwnedClients, NEW p \in AllCallers, NEW r, CallerOk(r), Move(p, r),
         Owns(r) => Owns(caller[p]) /\ r.client = caller[p].client /\ machine # 0,
         consumer' = consumer, conn' = conn, machine' = machine
  PROVE  OwnedClients'
  BY MoveIs DEF OwnedClients, Owns, Dialled

(* A step of a caller that leaves the queues and the lock alone.           *)
LEMMA CallerDials ==
  ASSUME TypeInv, NEW p \in AllCallers, NEW r, CallerOk(r), Move(p, r),
         Holding(r) <=> Holding(caller[p]), caller[p].at # "replied",
         UNCHANGED <<mu, ended, pipe, consumer, sent, got, lost, panicked>>,
         \A c \in Clients : conn[c] = "broken" => conn'[c] = "broken",
         StateTyped', OwnedClients'
  PROVE  TypeInv'
<1>1. CallersTyped'
  BY MoveIs DEF TypeInv
<1>2. LockHeld'
  BY LockKept DEF TypeInv
<1>3. RepliesMatch'
  BY RepliesKept DEF TypeInv, pipe
<1>4. QueuesTyped' /\ ConsumersTyped' /\ BlockedOnEvent' /\ Numbered'
  BY DEF TypeInv, QueuesTyped, ConsumersTyped, BlockedOnEvent, Numbered, pipe, Message
<1>5. EndedEmpty'
  BY DEF TypeInv, EndedEmpty, pipe, StateTyped
<1>. QED BY <1>1, <1>2, <1>3, <1>4, <1>5 DEF TypeInv

LEMMA CallerOnly ==
  ASSUME TypeInv, NEW p \in AllCallers, NEW r, CallerOk(r), Move(p, r),
         Holding(r) <=> Holding(caller[p]), caller[p].at # "replied",
         Owns(r) => Owns(caller[p]) /\ r.client = caller[p].client /\ machine # 0,
         UNCHANGED <<mu, machine, ended, pipe, consumer, conn, sent, got, lost, panicked>>,
         StateTyped'
  PROVE  TypeInv'
  BY OwnedKept, CallerDials DEF TypeInv

LEMMA StateSame ==
  ASSUME StateTyped, UNCHANGED <<mu, machine, runtimes, conn, ended, bridged, bridge, sub, active>>
  PROVE  StateTyped'
  BY DEF StateTyped

LEMMA GoIs ==
  ASSUME NEW r, r.at = "go"
  PROVE  ~Holding(r) /\ ~Waiting(r) /\ ~Dialled(r) /\ ~Owns(r)
  BY DEF Owns, Holding, Redialling, Resuming, Waiting, Dialled

LEMMA BeginTyped ==
  ASSUME TypeInv, NEW p \in AllCallers, NEW op \in Ops, NEW t \in Threads, Begin(p, op, t)
  PROVE  TypeInv'
<1>. DEFINE r == [Idle EXCEPT !.op = op, !.step = 1, !.at = "go", !.thread = t]
<1>1. /\ r.op = op /\ r.step = 1 /\ r.at = "go" /\ r.thread = t /\ r \in Records
  BY OpsAreScripts DEF Idle, Records, AllPlaces
<1>2. Move(p, r)
  BY DEF Begin
<1>. HIDE DEF r
<1>3. op \in DOMAIN Script /\ 1 \in 1 .. Len(Script[op]) /\ op # "none"
  BY ScriptLengths, ScriptNames, OpsAreScripts
<1>4. ~Holding(r) /\ ~Waiting(r) /\ ~Dialled(r) /\ ~Owns(r)
  BY <1>1, GoIs
<1>5. CallerOk(r)
  BY <1>1, <1>3, <1>4 DEF CallerOk
<1>6. caller[p] = Idle
  BY DEF Begin, TypeInv, CallersTyped, CallerOk
<1>7. StateTyped'
  BY StateSame DEF TypeInv, Begin, lock, codex
<1>. QED BY <1>2, <1>4, <1>5, <1>6, <1>7, IdleOk, CallerOnly DEF Begin, history, codex, lock

LEMMA EnsureAliveTyped ==
  ASSUME TypeInv, NEW p \in AllCallers, EnsureAlive(p)
  PROVE  TypeInv'
<1>1. /\ CallerOk(caller[p]) /\ caller[p].op # "none"
      /\ StepOf(caller[p]) = "ensure" /\ caller[p].at = "go"
  BY AtIs DEF EnsureAlive, TypeInv
<1>2. machine \in Clients /\ machine # 0
  BY DEF EnsureAlive, TypeInv, StateTyped
<1>. DEFINE x == InRuntime(p, machine)
<1>3. CallerOk(x) /\ x.op # "none" /\ x.home # 0 /\ x.runtime # 0
  BY <1>1, <1>2, GoIs, EnsuredIs DEF TypeInv
<1>4. CallerOk(After(x)) /\ ~Holding(After(x)) /\ ~Owns(After(x)) /\ Move(p, After(x))
  BY <1>3, AfterOk DEF EnsureAlive, Advance
<1>5. StateTyped'
  BY StateSame DEF TypeInv, EnsureAlive, lock, codex
<1>. QED BY <1>1, <1>4, <1>5, GoIs, CallerOnly DEF EnsureAlive, history, codex, lock, goroutines

LEMMA DialTyped ==
  ASSUME TypeInv, NEW p \in AllCallers, Dial(p)
  PROVE  TypeInv'
<1>1. /\ CallerOk(caller[p]) /\ caller[p].op # "none" /\ caller[p] \in Records
      /\ StepOf(caller[p]) = "ensure" /\ caller[p].at = "go"
  BY AtIs DEF Dial, TypeInv, CallerOk
<1>. DEFINE l == IF machine = 0 THEN "install" ELSE "reinstall"
<1>2. PICK c \in Clients :
        /\ conn[c] = "unused"
        /\ conn' = [conn EXCEPT ![c] = "open"]
        /\ Move(p, [caller[p] EXCEPT !.client = c, !.at = l])
  BY DEF Dial
<1>. DEFINE x == [caller[p] EXCEPT !.client = c, !.at = l]
<1>3. l \in {"install", "reinstall"} /\ l \in AllPlaces /\ c # 0 /\ (l = "reinstall" => machine # 0)
  BY DEF AllPlaces, Clients
<1>. HIDE DEF l
<1>4. /\ x.op = caller[p].op /\ x.step = caller[p].step /\ x.at = l /\ x.thread = caller[p].thread
      /\ x.home = caller[p].home /\ x.runtime = caller[p].runtime /\ x.client = c /\ x.todo = caller[p].todo
      /\ x \in Records
  BY <1>1, <1>3 DEF Records
<1>5. Move(p, x)
  BY <1>2
<1>. HIDE DEF x
<1>6. StepOf(x) = "ensure" /\ ~Waiting(x) /\ ~Holding(x)
  BY <1>1, <1>3, <1>4 DEF StepOf, Waiting, Holding, Redialling, Resuming
<1>7. CallerOk(x)
  BY <1>1, <1>3, <1>4, <1>6 DEF CallerOk
<1>8. StateTyped' /\ \A d \in Clients : conn[d] = "broken" => conn'[d] = "broken"
  BY <1>2 DEF TypeInv, StateTyped, Dial, lock, codex
<1>9. OwnedClients'
  <2>1. conn' = [conn EXCEPT ![c] = "open"] /\ conn[c] = "unused" /\ consumer' = consumer
    BY <1>2 DEF Dial
  <2>2. caller'[p] = x /\ \A q \in AllCallers : q # p => caller'[q] = caller[q]
    BY <1>5, <1>7, MoveIs DEF TypeInv
  <2>3. \A q \in AllCallers : Owns(caller[q]) => caller[q].client # c
    BY <2>1 DEF TypeInv, OwnedClients
  <2>4. \A d \in Clients : conn'[d] = IF d = c THEN "open" ELSE conn[d]
    BY <2>1 DEF TypeInv, StateTyped
  <2>5. machine' = machine /\ ~Redialling(x)
    BY <1>6 DEF Dial, lock, Holding
  <2>6. \A q \in AllCallers : caller'[q].at = "reinstall" \/ Redialling(caller'[q]) => machine' # 0
    BY <1>3, <1>4, <2>2, <2>5 DEF TypeInv, OwnedClients
  <2>. QED BY <1>4, <2>1, <2>2, <2>3, <2>4, <2>6 DEF TypeInv, OwnedClients
<1>. QED BY <1>1, <1>5, <1>6, <1>7, <1>8, <1>9, GoIs, CallerDials DEF Dial, history, codex, lock, goroutines

LEMMA DialFailsTyped ==
  ASSUME TypeInv, NEW p \in AllCallers, DialFails(p)
  PROVE  TypeInv'
<1>1. caller[p].at = "go"
  BY AtIs DEF DialFails, TypeInv
<1>2. Move(p, Idle)
  BY DEF DialFails, Finish
<1>3. StateTyped'
  BY StateSame DEF TypeInv, DialFails, lock, codex
<1>. QED BY <1>1, <1>2, <1>3, GoIs, IdleOk, CallerOnly DEF DialFails, history, codex, lock, goroutines

LEMMA ResumeNextTyped ==
  ASSUME TypeInv, NEW p \in AllCallers, ResumeNext(p)
  PROVE  TypeInv'
<1>1. /\ CallerOk(caller[p]) /\ caller[p].op # "none" /\ caller[p] \in Records
      /\ StepOf(caller[p]) = "ensure" /\ caller[p].at = "resume_next"
  BY AtIs DEF ResumeNext, TypeInv, CallerOk
<1>2. PICK t \in caller[p].todo :
        Call(p, caller[p].client, [caller[p] EXCEPT !.about = t, !.todo = @ \ {t}])
  BY DEF ResumeNext
<1>. DEFINE r == [caller[p] EXCEPT !.about = t, !.todo = @ \ {t}]
<1>3. t \in Threads /\ caller[p].client \in Clients /\ caller[p].client # 0
  BY <1>1 DEF CallerOk, Records
<1>4. /\ r.op = caller[p].op /\ r.step = caller[p].step /\ r.at = caller[p].at /\ r.thread = caller[p].thread
      /\ r.about = t /\ r.home = caller[p].home /\ r.runtime = caller[p].runtime
      /\ r.client = caller[p].client /\ r.todo = caller[p].todo \ {t}
      /\ r \in Records
  BY <1>1, <1>3 DEF Records
<1>5. Call(p, caller[p].client, r)
  BY <1>2
<1>. HIDE DEF r
<1>6. StepOf(r) = "ensure" /\ CallerOk(r)
  BY <1>1, <1>4 DEF StepOf, CallerOk, Waiting, Dialled
<1>7. PICK x :
        /\ CallerOk(x) /\ Move(p, x) /\ Holding(x)
        /\ x.client = caller[p].client \/ x = Returned(r, "failed")
  BY <1>1, <1>3, <1>4, <1>5, <1>6, CallIs
<1>8. Holding(caller[p]) /\ Owns(caller[p])
  BY <1>1 DEF Holding, Redialling, Owns
<1>10. x.client = caller[p].client /\ machine # 0
  <2>1. machine # 0
    BY <1>1 DEF TypeInv, OwnedClients, Redialling
  <2>. QED BY <2>1, <1>1, <1>3, <1>4, <1>6, <1>7, ReturnedIs
<1>9. StateTyped'
  BY StateSame DEF TypeInv, ResumeNext, lock, codex
<1>. QED BY <1>1, <1>7, <1>8, <1>9, <1>10, CallerOnly DEF ResumeNext, history, codex, lock, goroutines

LEMMA CallMethodTyped ==
  ASSUME TypeInv, NEW p \in AllCallers, CallMethod(p)
  PROVE  TypeInv'
<1>1. /\ CallerOk(caller[p]) /\ caller[p].op # "none" /\ caller[p] \in Records
      /\ StepOf(caller[p]) \in Methods /\ caller[p].at = "go"
  BY DEF CallMethod, TypeInv, CallersTyped, CallerOk, Runs, Step, StepOf
<1>. DEFINE r == [caller[p] EXCEPT !.about = caller[p].thread]
            c == Client(caller[p].home)
<1>2. caller[p].home \in Clients /\ c \in Clients /\ c # 0 /\ caller[p].thread \in Threads
  <2>1. StepOf(caller[p]) \notin {"ensure", "snapshot"}
    BY <1>1 DEF Methods
  <2>2. caller[p].home \in Clients
    BY <1>1, <2>1, PastEnsure DEF Records
  <2>. QED BY <1>1, <2>2 DEF CallMethod, TypeInv, StateTyped, Client, CallerOk
<1>3. /\ r.op = caller[p].op /\ r.step = caller[p].step /\ r.at = caller[p].at /\ r.thread = caller[p].thread
      /\ r.about = caller[p].thread /\ r.home = caller[p].home /\ r.runtime = caller[p].runtime
      /\ r.client = caller[p].client /\ r.todo = caller[p].todo
      /\ r \in Records
  BY <1>1, <1>2 DEF Records
<1>4. Call(p, c, r)
  BY DEF CallMethod
<1>. HIDE DEF r, c
<1>5. StepOf(r) \in Methods /\ StepOf(r) \notin {"ensure", "resume"} /\ CallerOk(r)
  BY <1>1, <1>3 DEF StepOf, CallerOk, Waiting, Dialled, Methods
<1>6. PICK x : CallerOk(x) /\ Move(p, x) /\ ~Holding(x) /\ ~Owns(x)
  BY <1>1, <1>2, <1>3, <1>4, <1>5, CallIs DEF Owns, Holding
<1>7. StateTyped'
  BY StateSame DEF TypeInv, CallMethod, lock, codex
<1>. QED BY <1>1, <1>6, <1>7, GoIs, CallerOnly DEF CallMethod, history, codex, lock, goroutines

LEMMA RespondTyped ==
  ASSUME TypeInv, NEW p \in AllCallers, Respond(p)
  PROVE  TypeInv'
<1>1. caller[p].at = "go"
  BY AtIs DEF Respond, TypeInv
<1>2. Move(p, Idle)
  BY DEF Respond, Finish
<1>3. StateTyped'
  BY StateSame DEF TypeInv, Respond, lock, codex
<1>. QED BY <1>1, <1>2, <1>3, GoIs, IdleOk, CallerOnly DEF Respond, history, codex, lock, goroutines

LEMMA SnapshotTyped ==
  ASSUME TypeInv, NEW p \in AllCallers, Snapshot(p)
  PROVE  TypeInv'
<1>1. caller[p].at = "go"
  BY AtIs DEF Snapshot, TypeInv
<1>2. Move(p, Idle)
  BY DEF Snapshot, Finish
<1>3. StateTyped'
  BY StateSame DEF TypeInv, Snapshot, lock, codex
<1>. QED BY <1>1, <1>2, <1>3, GoIs, IdleOk, CallerOnly DEF Snapshot, history, codex, lock, goroutines

(* A caller that goes on to its next step.                                 *)
LEMMA AdvanceIs ==
  ASSUME CallersTyped, NEW p \in AllCallers, caller[p].op # "none", StepOf(caller[p]) \notin {"ensure", "snapshot"},
         Advance(p, caller[p])
  PROVE  /\ Move(p, After(caller[p])) /\ CallerOk(After(caller[p])) /\ ~Holding(After(caller[p])) /\ ~Owns(After(caller[p]))
         /\ caller[p].home \in Clients /\ caller[p].runtime \in Clients /\ caller[p].thread \in Threads
<1>1. CallerOk(caller[p])
  BY DEF CallersTyped
<1>2. caller[p].home # 0 /\ caller[p].runtime # 0
  BY <1>1, PastEnsure
<1>3. CallerOk(After(caller[p])) /\ ~Holding(After(caller[p])) /\ ~Owns(After(caller[p]))
  BY <1>1, <1>2, AfterOk
<1>. QED BY <1>1, <1>2, <1>3 DEF Advance, CallerOk, Records

LEMMA WatchTyped ==
  ASSUME TypeInv, NEW p \in AllCallers, Watch(p)
  PROVE  TypeInv'
<1>1. caller[p].at = "go" /\ caller[p].op # "none" /\ StepOf(caller[p]) = "watch"
  BY AtIs DEF Watch, TypeInv
<1>2. /\ Move(p, After(caller[p])) /\ CallerOk(After(caller[p])) /\ ~Holding(After(caller[p])) /\ ~Owns(After(caller[p]))
      /\ caller[p].runtime \in Clients /\ caller[p].thread \in Threads
  BY <1>1, AdvanceIs DEF Watch, TypeInv
<1>3. Watchers(caller[p].runtime) \cup {caller[p].thread} \in SUBSET Threads
  BY <1>2 DEF TypeInv, StateTyped, Watchers
<1>4. StateTyped'
  BY <1>2, <1>3, SetWatchersIs DEF TypeInv, StateTyped, Watch, codex
<1>. QED BY <1>1, <1>2, <1>4, GoIs, CallerOnly DEF Watch, history, codex, goroutines

LEMMA ResumeWatchedTyped ==
  ASSUME TypeInv, NEW p \in AllCallers, ResumeWatched(p)
  PROVE  TypeInv'
<1>1. caller[p].at = "go" /\ caller[p].op # "none" /\ StepOf(caller[p]) = "resume"
  BY AtIs DEF ResumeWatched, TypeInv
<1>2. Move(p, After(caller[p])) /\ CallerOk(After(caller[p])) /\ ~Holding(After(caller[p])) /\ ~Owns(After(caller[p]))
  BY <1>1, AdvanceIs DEF ResumeWatched, TypeInv
<1>3. StateTyped'
  BY StateSame DEF TypeInv, ResumeWatched, lock, codex
<1>. QED BY <1>1, <1>2, <1>3, GoIs, CallerOnly DEF ResumeWatched, history, codex, lock, goroutines

LEMMA MarkTyped ==
  ASSUME TypeInv, NEW p \in AllCallers, Mark(p)
  PROVE  TypeInv'
<1>1. caller[p].at = "go" /\ caller[p].op # "none" /\ StepOf(caller[p]) = "mark" /\ CallerOk(caller[p])
  BY AtIs DEF Mark, TypeInv
<1>2. StateTyped'
  BY <1>1 DEF TypeInv, StateTyped, Mark, lock, codex, CallerOk
<1>3. CASE caller[p].thread \in bridged
  <2>1. Move(p, Idle)
    BY <1>3 DEF Mark, Finish
  <2>. QED BY <1>1, <1>2, <2>1, GoIs, IdleOk, CallerOnly DEF Mark, history, codex, lock, goroutines
<1>4. CASE caller[p].thread \notin bridged
  <2>1. Move(p, After(caller[p])) /\ CallerOk(After(caller[p])) /\ ~Holding(After(caller[p])) /\ ~Owns(After(caller[p]))
    BY <1>1, <1>4, AdvanceIs DEF Mark, TypeInv
  <2>. QED BY <1>1, <1>2, <2>1, GoIs, CallerOnly DEF Mark, history, codex, lock, goroutines
<1>. QED BY <1>3, <1>4

LEMMA StartBridgeTyped ==
  ASSUME TypeInv, NEW p \in AllCallers, StartBridge(p)
  PROVE  TypeInv'
<1>1. caller[p].at = "go" /\ caller[p].op # "none" /\ StepOf(caller[p]) = "bridge"
  BY AtIs DEF StartBridge, TypeInv
<1>2. /\ Move(p, After(caller[p])) /\ CallerOk(After(caller[p])) /\ ~Holding(After(caller[p])) /\ ~Owns(After(caller[p]))
      /\ caller[p].runtime \in Clients /\ caller[p].thread \in Threads
  BY <1>1, AdvanceIs DEF StartBridge, TypeInv
<1>3. Watchers(caller[p].runtime) \cup {caller[p].thread} \in SUBSET Threads
  BY <1>2 DEF TypeInv, StateTyped, Watchers
<1>4. StateTyped'
  BY <1>2, <1>3, SetWatchersIs DEF TypeInv, StateTyped, StartBridge, codex
<1>. QED BY <1>1, <1>2, <1>4, GoIs, CallerOnly DEF StartBridge, history, codex, goroutines

LEMMA ForgetTyped ==
  ASSUME TypeInv, NEW p \in AllCallers, Forget(p)
  PROVE  TypeInv'
<1>1. caller[p].at = "go" /\ caller[p].op # "none" /\ StepOf(caller[p]) = "forget"
  BY AtIs DEF Forget, TypeInv
<1>2. /\ Move(p, After(caller[p])) /\ CallerOk(After(caller[p])) /\ ~Holding(After(caller[p])) /\ ~Owns(After(caller[p]))
      /\ caller[p].home \in Clients
  BY <1>1, AdvanceIs DEF Forget, TypeInv
<1>3. StateTyped'
  <2>1. CASE machine = caller[p].home
    <3>1. machine \in Clients /\ Watchers(machine) \ {caller[p].thread} \in SUBSET Threads
      BY <1>2, <2>1 DEF TypeInv, StateTyped, Watchers
    <3>. QED BY <2>1, <3>1, SetWatchersIs DEF TypeInv, StateTyped, Forget, codex
  <2>2. CASE machine # caller[p].home
    BY <2>2, StateSame DEF TypeInv, Forget, codex
  <2>. QED BY <2>1, <2>2
<1>. QED BY <1>1, <1>2, <1>3, GoIs, CallerOnly DEF Forget, history, codex, goroutines

(* A step that changes nothing but whether the process has died.           *)
LEMMA NilClientTyped ==
  ASSUME TypeInv, NEW p \in AllCallers, NilClient(p)
  PROVE  TypeInv'
<1>1. panicked'
  BY DEF NilClient
<1>2. StateTyped'
  BY StateSame DEF TypeInv, NilClient, lock, codex, goroutines
<1>3. QueuesTyped' /\ ConsumersTyped' /\ BlockedOnEvent' /\ Numbered'
  BY <1>1 DEF TypeInv, QueuesTyped, ConsumersTyped, BlockedOnEvent, Numbered, pipe, NilClient, goroutines, codex
<1>4. CallersTyped' /\ LockHeld' /\ OwnedClients' /\ RepliesMatch' /\ EndedEmpty'
  BY DEF TypeInv, CallersTyped, OwnedClients, LockHeld, RepliesMatch, EndedEmpty, pipe, NilClient, goroutines, lock, vars
<1>. QED BY <1>2, <1>3, <1>4 DEF TypeInv

LEMMA QueuesSame ==
  ASSUME TypeInv, UNCHANGED <<pipe, conn, ended, sent, got, lost>>
  PROVE  QueuesTyped' /\ EndedEmpty' /\ Numbered'
  BY DEF TypeInv, QueuesTyped, EndedEmpty, Numbered, pipe

LEMMA ConsumersSame ==
  ASSUME TypeInv, UNCHANGED <<consumer, notes, panicked>>
  PROVE  ConsumersTyped' /\ BlockedOnEvent'
  BY DEF TypeInv, ConsumersTyped, BlockedOnEvent, Message

LEMMA ConsumeIs ==
  ASSUME TypeInv, NEW c \in Clients, NEW r \in Clients, r # 0, consumer[c].at = "off", Consume(c, r),
         UNCHANGED <<notes, panicked>>
  PROVE  /\ ConsumersTyped' /\ BlockedOnEvent'
         /\ consumer'[c].at = "start" /\ consumer'[c].runtime = r
         /\ \A k \in Clients : k # c => consumer'[k] = consumer[k]
<1>1. /\ consumer'[c] = [at |-> "start", runtime |-> r, client |-> 0]
      /\ \A k \in Clients : k # c => consumer'[k] = consumer[k]
      /\ consumer' \in [Clients -> Consumers]
  BY DEF Consume, TypeInv, ConsumersTyped, Consumers
<1>2. ConsumersTyped'
  BY <1>1 DEF TypeInv, ConsumersTyped
<1>3. BlockedOnEvent'
  BY <1>1 DEF TypeInv, BlockedOnEvent, Message
<1>. QED BY <1>1, <1>2, <1>3

LEMMA InstallTyped ==
  ASSUME TypeInv, NEW p \in AllCallers, Install(p)
  PROVE  TypeInv'
<1>. DEFINE r == caller[p].client
<1>1. /\ CallerOk(caller[p]) /\ caller[p].op # "none" /\ caller[p] \in Records
      /\ StepOf(caller[p]) = "ensure" /\ caller[p].at = "install"
  BY AtIs DEF Install, TypeInv, CallerOk
<1>2. ~Holding(caller[p]) /\ ~Waiting(caller[p]) /\ Owns(caller[p])
  BY <1>1 DEF Owns, Holding, Redialling, Resuming, Waiting, Dialled
<1>3. r \in Clients /\ r # 0 /\ conn[r] # "unused" /\ consumer[r].at = "off"
  BY <1>2 DEF TypeInv, OwnedClients, Clients
<1>. DEFINE x == InRuntime(p, r)
<1>4. CallerOk(x) /\ x.op # "none" /\ x.home # 0 /\ x.runtime # 0
  BY <1>1, <1>2, <1>3, EnsuredIs DEF TypeInv
<1>5. CallerOk(After(x)) /\ ~Holding(After(x)) /\ ~Owns(After(x)) /\ Move(p, After(x))
  BY <1>4, AfterOk DEF Install, Advance
<1>6. Consume(r, r) /\ UNCHANGED <<mu, conn, ended, pipe, bridged, bridge, codex, got, lost, panicked, budget>>
  BY DEF Install
<1>. HIDE DEF x
<1>7. /\ ConsumersTyped' /\ BlockedOnEvent' /\ consumer'[r].at = "start"
      /\ \A k \in Clients : k # r => consumer'[k] = consumer[k]
  BY <1>3, <1>6, ConsumeIs DEF pipe
<1>8. /\ CallersTyped' /\ caller'[p] = After(x)
      /\ \A q \in AllCallers : q # p => caller'[q] = caller[q]
  BY <1>5, MoveIs DEF TypeInv
<1>9. StateTyped'
  BY <1>3 DEF TypeInv, StateTyped, Install, codex
<1>10. LockHeld'
  BY <1>2, <1>3, <1>5, <1>6, <1>7, <1>8 DEF TypeInv, LockHeld
<1>11. OwnedClients'
  <2>. conn' = conn
    BY <1>6
  <2>1. machine' # 0
    BY <1>3 DEF Install
  <2>. QED BY <2>1, <1>2, <1>3, <1>5, <1>7, <1>8 DEF TypeInv, OwnedClients
<1>12. RepliesMatch'
  BY <1>1, <1>5, <1>6, RepliesKept DEF TypeInv, pipe
<1>13. QueuesTyped' /\ EndedEmpty' /\ Numbered'
  BY <1>6, QueuesSame DEF codex
<1>. QED BY <1>7, <1>8, <1>9, <1>10, <1>11, <1>12, <1>13 DEF TypeInv

LEMMA ReinstallTyped ==
  ASSUME TypeInv, NEW p \in AllCallers, Reinstall(p)
  PROVE  TypeInv'
<1>1. /\ CallerOk(caller[p]) /\ caller[p].op # "none" /\ caller[p] \in Records
      /\ StepOf(caller[p]) = "ensure" /\ caller[p].at = "reinstall"
  BY AtIs DEF Reinstall, TypeInv, CallerOk
<1>2. Owns(caller[p]) /\ caller[p].client \in Clients /\ caller[p].client # 0 /\ machine # 0
  BY <1>1 DEF Owns, Dialled, TypeInv, OwnedClients, Clients
<1>. DEFINE todo == Watchers(machine)
            x == [caller[p] EXCEPT !.at = "resume_next", !.todo = todo]
<1>3. Move(p, x)
  BY DEF Reinstall
<1>. HIDE DEF x
<1>. USE DEF x
<1>4. CASE machine \in Clients
  <2>1. todo \subseteq Threads /\ "resume_next" \in AllPlaces
    BY <1>4 DEF TypeInv, StateTyped, Watchers, AllPlaces
  <2>. HIDE DEF todo
  <2>2. /\ x.op = caller[p].op /\ x.step = caller[p].step /\ x.at = "resume_next" /\ x.thread = caller[p].thread
        /\ x.home = caller[p].home /\ x.runtime = caller[p].runtime /\ x.client = caller[p].client
        /\ x.todo = todo /\ x \in Records
    BY <1>1, <2>1 DEF Records
  <2>. HIDE DEF x
  <2>3. StepOf(x) = "ensure" /\ Holding(x) /\ ~Waiting(x) /\ ~Dialled(x)
    BY <1>1, <2>2 DEF StepOf, Holding, Redialling, Waiting, Dialled
  <2>4. CallerOk(x)
    BY <1>1, <1>2, <2>2, <2>3 DEF CallerOk
  <2>5. CallersTyped' /\ LockHeld' /\ OwnedClients' /\ RepliesMatch'
    BY <1>1, <1>2, <1>3, <2>2, <2>3, <2>4, MoveIs, LockTaken, OwnedKept, RepliesKept DEF TypeInv, Reinstall, pipe
  <2>6. QueuesTyped' /\ EndedEmpty' /\ Numbered' /\ ConsumersTyped' /\ BlockedOnEvent'
    BY QueuesSame, ConsumersSame DEF Reinstall, codex, pipe
  <2>7. StateTyped'
    BY <1>2 DEF TypeInv, StateTyped, Reinstall, codex
  <2>. QED BY <2>5, <2>6, <2>7 DEF TypeInv
<1>5. machine \in Clients
  BY <1>2 DEF TypeInv, StateTyped
<1>. QED BY <1>4, <1>5

LEMMA ResumeFailsTyped ==
  ASSUME TypeInv, NEW p \in AllCallers, ResumeFails(p)
  PROVE  TypeInv'
<1>1. caller[p].op # "none" /\ StepOf(caller[p]) = "ensure" /\ caller[p].at \in {"failed", "refused"}
  BY AtIs DEF ResumeFails, TypeInv
<1>2. Holding(caller[p])
  BY <1>1 DEF Holding, Redialling
<1>3. Move(p, Idle)
  BY DEF ResumeFails, Finish
<1>4. CallersTyped' /\ LockHeld' /\ OwnedClients' /\ RepliesMatch'
  BY <1>1, <1>2, <1>3, IdleOk, MoveIs, LockReleased, OwnedKept, RepliesKept DEF TypeInv, ResumeFails, pipe
<1>5. QueuesTyped' /\ EndedEmpty' /\ Numbered' /\ ConsumersTyped' /\ BlockedOnEvent'
  BY QueuesSame, ConsumersSame DEF ResumeFails, codex, pipe, history
<1>6. StateTyped'
  BY DEF TypeInv, StateTyped, ResumeFails, codex
<1>. QED BY <1>4, <1>5, <1>6 DEF TypeInv

LEMMA ResumedAllTyped ==
  ASSUME TypeInv, NEW p \in AllCallers, ResumedAll(p)
  PROVE  TypeInv'
<1>. DEFINE c == caller[p].client
<1>1. /\ CallerOk(caller[p]) /\ caller[p].op # "none" /\ caller[p] \in Records
      /\ StepOf(caller[p]) = "ensure" /\ caller[p].at = "resume_next"
  BY AtIs DEF ResumedAll, TypeInv, CallerOk
<1>2. Holding(caller[p]) /\ ~Waiting(caller[p]) /\ Owns(caller[p])
  BY <1>1 DEF Owns, Holding, Redialling, Waiting
<1>3. c \in Clients /\ conn[c] # "unused" /\ consumer[c].at = "off" /\ machine # 0
                /\ machine \in Clients
  BY <1>1, <1>2 DEF TypeInv, StateTyped, OwnedClients, Clients, Redialling
<1>. DEFINE x == InRuntime(p, machine)
<1>4. CallerOk(x) /\ x.op # "none" /\ x.home # 0 /\ x.runtime # 0
  BY <1>1, <1>2, <1>3, EnsuredIs DEF TypeInv
<1>5. CallerOk(After(x)) /\ ~Holding(After(x)) /\ ~Owns(After(x)) /\ Move(p, After(x))
  BY <1>4, AfterOk DEF ResumedAll, Advance
<1>6. /\ Consume(c, machine) /\ mu' = NoOne
      /\ UNCHANGED <<machine, runtimes, conn, ended, pipe, bridged, bridge, codex, history, budget>>
  BY DEF ResumedAll
<1>. HIDE DEF x
<1>7. /\ ConsumersTyped' /\ BlockedOnEvent' /\ consumer'[c].at = "start"
      /\ \A k \in Clients : k # c => consumer'[k] = consumer[k]
  BY <1>3, <1>6, ConsumeIs DEF pipe, history
<1>8. /\ CallersTyped' /\ caller'[p] = After(x)
      /\ \A q \in AllCallers : q # p => caller'[q] = caller[q]
  BY <1>5, MoveIs DEF TypeInv
<1>9. StateTyped'
  BY <1>6 DEF TypeInv, StateTyped, codex
<1>10. LockHeld'
  BY <1>2, <1>3, <1>5, <1>6, <1>7, LockReleased DEF TypeInv
<1>11. OwnedClients'
  <2>. conn' = conn
    BY <1>6
  <2>1. machine' # 0
    BY <1>3, <1>6
  <2>. QED BY <2>1, <1>2, <1>3, <1>5, <1>7, <1>8 DEF TypeInv, OwnedClients
<1>12. RepliesMatch'
  BY <1>1, <1>5, <1>6, RepliesKept DEF TypeInv, pipe
<1>13. QueuesTyped' /\ EndedEmpty' /\ Numbered'
  BY <1>6, QueuesSame DEF codex, history
<1>. QED BY <1>7, <1>8, <1>9, <1>10, <1>11, <1>12, <1>13 DEF TypeInv

LEMMA ResumeTyped ==
  ASSUME TypeInv, NEW p \in AllCallers, Resume(p)
  PROVE  TypeInv'
<1>1. /\ CallerOk(caller[p]) /\ caller[p].op # "none" /\ caller[p] \in Records
      /\ StepOf(caller[p]) = "resume" /\ caller[p].at = "go"
  BY AtIs DEF Resume, TypeInv, CallerOk
<1>. DEFINE r == [caller[p] EXCEPT !.about = caller[p].thread]
            c == Client(caller[p].runtime)
<1>2. caller[p].runtime \in Clients /\ c \in Clients /\ c # 0 /\ caller[p].thread \in Threads
  <2>1. caller[p].runtime \in Clients
    BY <1>1, PastEnsure DEF Records
  <2>. QED BY <1>1, <2>1 DEF Resume, TypeInv, StateTyped, Client, CallerOk
<1>3. /\ r.op = caller[p].op /\ r.step = caller[p].step /\ r.at = caller[p].at /\ r.thread = caller[p].thread
      /\ r.about = caller[p].thread /\ r.home = caller[p].home /\ r.runtime = caller[p].runtime
      /\ r.client = caller[p].client /\ r.todo = caller[p].todo
      /\ r \in Records
  BY <1>1, <1>2 DEF Records
<1>4. Call(p, c, r)
  BY DEF Resume
<1>. HIDE DEF r, c
<1>5. StepOf(r) = "resume" /\ CallerOk(r)
  BY <1>1, <1>3 DEF StepOf, CallerOk, Waiting, Dialled
<1>6. PICK x : CallerOk(x) /\ Move(p, x) /\ Holding(x) /\ ~Owns(x)
  BY <1>1, <1>2, <1>3, <1>4, <1>5, CallIs
<1>7. CallersTyped' /\ LockHeld' /\ OwnedClients' /\ RepliesMatch'
  BY <1>1, <1>6, MoveIs, LockTaken, OwnedKept, RepliesKept DEF TypeInv, Resume, pipe
<1>8. QueuesTyped' /\ EndedEmpty' /\ Numbered' /\ ConsumersTyped' /\ BlockedOnEvent'
  BY QueuesSame, ConsumersSame DEF Resume, codex, pipe, history
<1>9. StateTyped'
  <2>1. Watchers(caller[p].runtime) \cup {caller[p].thread} \in SUBSET Threads
    BY <1>2 DEF TypeInv, StateTyped, Watchers
  <2>. QED BY <1>2, <2>1, SetWatchersIs DEF TypeInv, StateTyped, Resume, codex
<1>. QED BY <1>7, <1>8, <1>9 DEF TypeInv

LEMMA ResumeReturnsTyped ==
  ASSUME TypeInv, NEW p \in AllCallers, ResumeReturns(p)
  PROVE  TypeInv'
<1>1. /\ CallerOk(caller[p]) /\ caller[p].op # "none" /\ caller[p] \in Records
      /\ StepOf(caller[p]) = "resume" /\ caller[p].at \in {"answered", "failed", "refused"}
  BY AtIs DEF ResumeReturns, TypeInv, CallerOk
<1>2. Holding(caller[p])
  BY <1>1 DEF Holding, Resuming
<1>3. caller[p].runtime \in Clients
  BY <1>1, PastEnsure DEF Records
<1>4. PICK x : CallerOk(x) /\ Move(p, x) /\ ~Holding(x) /\ ~Owns(x)
  <2>1. CASE Advance(p, caller[p])
    BY <1>1, <2>1, AdvanceIs DEF TypeInv
  <2>2. CASE Finish(p)
    BY <2>2, IdleOk DEF Finish
  <2>. QED BY <2>1, <2>2 DEF ResumeReturns
<1>5. CallersTyped' /\ LockHeld' /\ OwnedClients' /\ RepliesMatch'
  BY <1>1, <1>2, <1>4, MoveIs, LockReleased, OwnedKept, RepliesKept DEF TypeInv, ResumeReturns, pipe
<1>6. QueuesTyped' /\ EndedEmpty' /\ Numbered' /\ ConsumersTyped' /\ BlockedOnEvent'
  BY QueuesSame, ConsumersSame DEF ResumeReturns, codex, pipe, history
<1>7. StateTyped'
  <2>1. Watchers(caller[p].runtime) \ {caller[p].thread} \in SUBSET Threads
    BY <1>3 DEF TypeInv, StateTyped, Watchers
  <2>. QED BY <1>3, <2>1, SetWatchersIs DEF TypeInv, StateTyped, ResumeReturns, codex
<1>. QED BY <1>5, <1>6, <1>7 DEF TypeInv

LEMMA StepsTyped ==
  ASSUME TypeInv, NEW p \in AllCallers, Steps(p)
  PROVE  TypeInv'
  BY EnsureAliveTyped, DialTyped, DialFailsTyped, InstallTyped, ReinstallTyped, ResumeNextTyped, ResumeFailsTyped,
     ResumedAllTyped, CallMethodTyped, RespondTyped, WatchTyped, ResumeWatchedTyped, ResumeTyped, ResumeReturnsTyped,
     MarkTyped, StartBridgeTyped, ForgetTyped, SnapshotTyped, NilClientTyped DEF Steps, Ensure

-------------------------------------------------------------------------------
(* What moves the messages.                                                *)
LEMMA CallersSame ==
  ASSUME TypeInv, UNCHANGED <<mu, machine, caller, consumer, conn>>
  PROVE  CallersTyped' /\ LockHeld' /\ OwnedClients'
  BY DEF TypeInv, CallersTyped, LockHeld, OwnedClients

LEMMA TailReplies ==
  ASSUME QueuesTyped, RepliesMatch, NEW c \in Clients, inbox[c] # <<>>, caller' = caller,
         inbox' = [inbox EXCEPT ![c] = Tail(@)]
  PROVE  RepliesMatch'
<1>1. /\ inbox[c] \in Seq(Frames) /\ inbox'[c] = Tail(inbox[c])
      /\ \A d \in Clients : d # c => inbox'[d] = inbox[d]
  BY DEF QueuesTyped
<1>2. \A i \in DOMAIN inbox'[c] : i + 1 \in DOMAIN inbox[c] /\ inbox'[c][i] = inbox[c][i + 1] /\ i \in Nat
  <2>. DEFINE s == inbox[c]
  <2>1. s \in Seq(Frames) /\ s # <<>> /\ inbox'[c] = Tail(s)
    BY <1>1
  <2>. HIDE DEF s
  <2>2. \A i \in DOMAIN Tail(s) : i + 1 \in DOMAIN s /\ Tail(s)[i] = s[i + 1] /\ i \in Nat
    BY <2>1, TailIs
  <2>3. \A i \in DOMAIN inbox'[c] : i + 1 \in DOMAIN s /\ inbox'[c][i] = s[i + 1] /\ i \in Nat
    BY <2>1, <2>2
  <2>. QED BY <2>3 DEF s
<1>. QED BY SMTT(60), <1>1, <1>2 DEF RepliesMatch

LEMMA PublishTyped ==
  ASSUME TypeInv, NEW c \in Clients, Publish(c)
  PROVE  TypeInv'
<1>. DEFINE m == Head(inbox[c])
<1>1. /\ inbox[c] \in Seq(Frames) /\ notes[c] \in Seq(Frames) /\ inbox[c] # <<>> /\ m \in Frames
      /\ inbox' = [inbox EXCEPT ![c] = Tail(@)] /\ notes' = [notes EXCEPT ![c] = Append(@, m)]
      /\ UNCHANGED <<lock, conn, ended, channel, runner, goroutines, codex, history, budget>>
  BY DEF Publish, TypeInv, QueuesTyped
<1>2. /\ inbox'[c] = Tail(inbox[c]) /\ notes'[c] = Append(notes[c], m)
      /\ \A d \in Clients : d # c => inbox'[d] = inbox[d] /\ notes'[d] = notes[d]
  BY <1>1 DEF TypeInv, QueuesTyped
<1>3. StateTyped' /\ CallersTyped' /\ LockHeld' /\ OwnedClients'
  BY <1>1, StateSame, CallersSame DEF TypeInv, lock, codex, goroutines
<1>4. QueuesTyped'
  <2>1. Len(notes[c]) < NotifyCap /\ NotifyCap \in Nat
    BY CapacitiesArePositive DEF Publish
  <2>2. /\ inbox' \in [Clients -> Seq(Frames)]
        /\ notes' \in [Clients -> Seq(Frames)]
        /\ Len(notes'[c]) <= NotifyCap
    BY <1>1, <1>2, <2>1 DEF TypeInv, QueuesTyped
  <2>. QED BY <1>1, <1>2, <2>2 DEF TypeInv, QueuesTyped
<1>5. ConsumersTyped'
  BY <1>1 DEF TypeInv, ConsumersTyped, goroutines, history
<1>6. BlockedOnEvent'
  <2>1. ASSUME NEW k \in Clients, ~panicked', consumer'[k].at = "blocked"
        PROVE  notes'[consumer'[k].client] # <<>> /\ Message(k)'.kind = "event"
    <3>1. /\ consumer' = consumer /\ ~panicked /\ notes[consumer[k].client] # <<>> /\ Message(k).kind = "event"
          /\ consumer[k].client \in Clients
      BY <1>1, <2>1 DEF goroutines, history, TypeInv, BlockedOnEvent, ConsumersTyped, Consumers
    <3>2. CASE consumer[k].client = c
      <4>1. notes'[c] # <<>> /\ Head(notes'[c]) = Head(notes[c])
        BY <1>1, <1>2, <3>1, <3>2
      <4>. QED BY <3>1, <3>2, <4>1 DEF Message
    <3>3. CASE consumer[k].client # c
      BY <1>2, <3>1, <3>3 DEF Message
    <3>. QED BY <3>2, <3>3
  <2>. QED BY <2>1 DEF BlockedOnEvent
<1>7. RepliesMatch'
  BY <1>1, TailReplies DEF TypeInv, goroutines
<1>8. EndedEmpty'
  BY <1>1, <1>2 DEF TypeInv, EndedEmpty, StateTyped
<1>9. Numbered'
  <2>1. ASSUME NEW t \in Threads
        PROVE  EventsOf(notes'[c], t) \cup EventsOf(inbox'[c], t) = EventsOf(notes[c], t) \cup EventsOf(inbox[c], t)
    <3>1. EventsOf(inbox[c], t) = EventsOf(inbox'[c], t) \cup (IF IsEvent(m, t) THEN {m.n} ELSE {})
      BY <1>1, <1>2, TailEvents
    <3>2. EventsOf(notes'[c], t) = EventsOf(notes[c], t) \cup (IF IsEvent(m, t) THEN {m.n} ELSE {})
      BY <1>1, <1>2, AppendEvents
    <3>. QED BY <3>1, <3>2
  <2>. QED BY <1>1, <1>2, <2>1 DEF TypeInv, Numbered, codex, history
<1>. QED BY <1>3, <1>4, <1>5, <1>6, <1>7, <1>8, <1>9 DEF TypeInv

LEMMA ReplyFrame ==
  ASSUME NEW m \in Frames
  PROVE  /\ m.kind = "reply" => m.to \in AllCallers \cup {NoOne} /\ m.result \in {"answered", "refused"}
         /\ m.kind = "event" => m \in EventsFor(Threads) /\ m.thread \in Threads /\ m.n \in Nat
                                /\ m \in EventsFor({m.thread})
  BY DEF Frames, Replies, EventsFor, Deltas

(* A reply that finds no pending call.                                     *)
LEMMA IgnoredTyped ==
  ASSUME TypeInv, NEW c \in Clients, RouteResponse(c), Head(inbox[c]).to = NoOne
  PROVE  TypeInv'
<1>1. /\ inbox[c] \in Seq(Frames) /\ inbox[c] # <<>>
      /\ inbox' = [inbox EXCEPT ![c] = Tail(@)] /\ caller' = caller
      /\ UNCHANGED <<lock, conn, ended, notes, channel, runner, consumer, bridged, bridge, codex, history, budget>>
  BY DEF RouteResponse, TypeInv, QueuesTyped
<1>2. /\ inbox'[c] = Tail(inbox[c]) /\ inbox' \in [Clients -> Seq(Frames)]
      /\ \A d \in Clients : d # c => inbox'[d] = inbox[d]
  BY <1>1 DEF TypeInv, QueuesTyped
<1>3. StateTyped' /\ CallersTyped' /\ LockHeld' /\ OwnedClients'
  BY <1>1, StateSame, CallersSame DEF TypeInv, lock, codex
<1>4. QueuesTyped' /\ ConsumersTyped' /\ BlockedOnEvent'
  BY <1>1, <1>2, ConsumersSame DEF TypeInv, QueuesTyped, history
<1>5. RepliesMatch'
  BY <1>1, TailReplies DEF TypeInv
<1>6. EndedEmpty'
  BY <1>1, <1>2 DEF TypeInv, EndedEmpty, StateTyped
<1>7. Numbered'
  <2>1. \A t \in Threads : EventsOf(inbox'[c], t) \subseteq EventsOf(inbox[c], t)
    BY <1>1, <1>2, TailEvents
  <2>. QED BY <1>1, <1>2, <2>1 DEF TypeInv, Numbered, codex, history
<1>. QED BY <1>3, <1>4, <1>5, <1>6, <1>7 DEF TypeInv

LEMMA RoutedTyped ==
  ASSUME TypeInv, NEW c \in Clients, RouteResponse(c), Head(inbox[c]).to # NoOne
  PROVE  TypeInv'
<1>. DEFINE m == Head(inbox[c])
            p == m.to
            x == Returned(caller[p], m.result)
<1>1. /\ inbox[c] \in Seq(Frames) /\ inbox[c] # <<>> /\ m \in Frames /\ m = inbox[c][1] /\ 1 \in DOMAIN inbox[c]
      /\ m.kind = "reply"
      /\ inbox' = [inbox EXCEPT ![c] = Tail(@)]
      /\ Move(p, x)
      /\ UNCHANGED <<lock, conn, ended, notes, channel, runner, consumer, bridged, bridge, codex, history, budget>>
  BY DEF RouteResponse, TypeInv, QueuesTyped
<1>2. /\ inbox'[c] = Tail(inbox[c]) /\ inbox' \in [Clients -> Seq(Frames)]
      /\ \A d \in Clients : d # c => inbox'[d] = inbox[d]
  BY <1>1 DEF TypeInv, QueuesTyped
<1>3. p \in AllCallers /\ m.result \in {"answered", "refused", "failed"}
  BY <1>1, ReplyFrame
<1>4. /\ caller[p].at = "replied" /\ caller[p].client = c /\ CallerOk(caller[p]) /\ caller[p].op # "none" /\ c # 0
  <2>1. ReplyTo(inbox[c][1], p)
    BY <1>1 DEF ReplyTo
  <2>2. caller[p].at = "replied" /\ caller[p].client = c /\ CallerOk(caller[p])
    BY <1>1, <1>3, <2>1 DEF TypeInv, RepliesMatch, CallersTyped
  <2>3. caller[p].op # "none"
    BY <2>2, IdleOk DEF CallerOk
  <2>. QED BY <2>2, <2>3 DEF Clients
<1>. HIDE DEF p, x
<1>5. StepOf(caller[p]) \in Methods \cup {"ensure", "resume"}
  BY <1>4 DEF CallerOk, Waiting
<1>6. /\ CallerOk(x) /\ ~Waiting(x)
      /\ \/ StepOf(caller[p]) \in Methods /\ ~Holding(x)
         \/ StepOf(caller[p]) \in {"ensure", "resume"} /\ Holding(x) /\ x.client = c
      /\ Owns(x) => StepOf(caller[p]) = "ensure"
  BY <1>3, <1>4, <1>5, ReturnedIs DEF x
<1>7. Holding(x) <=> Holding(caller[p])
  <2>1. Holding(caller[p]) <=> StepOf(caller[p]) \in {"ensure", "resume"}
    BY <1>4, <1>5 DEF Holding, Redialling, Resuming, Methods
  <2>. QED BY <1>6, <2>1 DEF Methods
<1>8. /\ CallersTyped' /\ caller'[p] = x
      /\ \A q \in AllCallers : q # p => caller'[q] = caller[q]
  BY <1>1, <1>3, <1>6, MoveIs DEF TypeInv
<1>9. LockHeld'
  BY <1>1, <1>3, <1>6, <1>7, LockKept DEF TypeInv, lock
<1>10. OwnedClients'
  <2>1. Owns(x) => Owns(caller[p]) /\ x.client = caller[p].client /\ machine # 0
    BY <1>4, <1>3, <1>6 DEF Owns, Redialling, Methods, TypeInv, OwnedClients
  <2>. QED BY <1>1, <1>3, <1>6, <2>1, OwnedKept DEF TypeInv, lock
<1>11. RepliesMatch'
  <2>. DEFINE s == inbox[c]
  <2>1. s \in Seq(Frames) /\ s # <<>> /\ inbox'[c] = Tail(s) /\ ReplyTo(s[1], p) /\ 1 \in DOMAIN s
    BY <1>1, <1>2 DEF ReplyTo, p
  <2>2. /\ \A i \in DOMAIN s : \A q \in AllCallers :
             ReplyTo(s[i], q) => caller[q].at = "replied" /\ caller[q].client = c
        /\ \A i, j \in DOMAIN s : \A q \in AllCallers : ReplyTo(s[i], q) /\ ReplyTo(s[j], q) => i = j
    BY DEF TypeInv, RepliesMatch
  <2>. HIDE DEF s
  <2>3. \A i \in DOMAIN Tail(s) : i + 1 \in DOMAIN s /\ Tail(s)[i] = s[i + 1] /\ i \in Nat /\ i > 0
    BY <2>1, TailIs
  <2>4. ASSUME NEW i \in DOMAIN Tail(s), NEW q \in AllCallers, ReplyTo(Tail(s)[i], q)
        PROVE  q # p /\ caller'[q].at = "replied" /\ caller'[q].client = c
    <3>1. i + 1 \in DOMAIN s /\ ReplyTo(s[i + 1], q) /\ i + 1 # 1
      BY <2>3, <2>4
    <3>2. q # p
      BY <1>3, <3>1, <2>1, <2>2
    <3>. QED BY <1>8, <2>2, <3>1, <3>2
  <2>5. ASSUME NEW i \in DOMAIN Tail(s), NEW j \in DOMAIN Tail(s), NEW q \in AllCallers,
               ReplyTo(Tail(s)[i], q), ReplyTo(Tail(s)[j], q)
        PROVE  i = j
    <3>1. i + 1 = j + 1
      BY <2>2, <2>3, <2>5
    <3>. QED BY <3>1, <2>3
  <2>6. ASSUME NEW d \in Clients, d # c, NEW i \in DOMAIN inbox'[d], NEW q \in AllCallers, ReplyTo(inbox'[d][i], q)
        PROVE  caller'[q].at = "replied" /\ caller'[q].client = d
    BY <1>2, <1>4, <1>8, <2>6 DEF TypeInv, RepliesMatch
  <2>7. ASSUME NEW d \in Clients, d # c, NEW i \in DOMAIN inbox'[d], NEW j \in DOMAIN inbox'[d], NEW q \in AllCallers,
               ReplyTo(inbox'[d][i], q), ReplyTo(inbox'[d][j], q)
        PROVE  i = j
    BY <1>2, <2>7 DEF TypeInv, RepliesMatch
  <2>. QED BY <2>1, <2>4, <2>5, <2>6, <2>7 DEF RepliesMatch
<1>12. QueuesTyped' /\ ConsumersTyped' /\ BlockedOnEvent'
  BY <1>1, <1>2 DEF TypeInv, QueuesTyped, ConsumersTyped, BlockedOnEvent, Message, history
<1>13. EndedEmpty'
  BY <1>1, <1>2 DEF TypeInv, EndedEmpty, StateTyped
<1>14. Numbered'
  <2>1. \A t \in Threads : EventsOf(inbox'[c], t) \subseteq EventsOf(inbox[c], t)
    BY <1>1, <1>2, TailEvents
  <2>. QED BY <1>1, <1>2, <2>1 DEF TypeInv, Numbered, codex, history
<1>15. StateTyped'
  BY <1>1, StateSame DEF TypeInv, lock, codex
<1>. QED BY <1>8, <1>9, <1>10, <1>11, <1>12, <1>13, <1>14, <1>15 DEF TypeInv

LEMMA RouteResponseTyped ==
  ASSUME TypeInv, NEW c \in Clients, RouteResponse(c)
  PROVE  TypeInv'
  BY IgnoredTyped, RoutedTyped

(* failAll: those who wait on c fail, and only they move.                  *)
LEMMA ReadEndsIs ==
  ASSUME TypeInv, NEW c \in Clients, ReadEnds(c), NEW p \in AllCallers
  PROVE  \/ caller'[p] = caller[p] /\ ~(Waiting(caller[p]) /\ caller[p].client = c)
         \/ /\ Waiting(caller[p]) /\ caller[p].client = c /\ caller'[p] = Returned(caller[p], "failed")
            /\ caller[p].op # "none"
            /\ CallerOk(caller'[p]) /\ ~Waiting(caller'[p]) /\ ~Dialled(caller'[p])
            /\ Holding(caller'[p]) <=> Holding(caller[p])
            /\ Redialling(caller'[p]) <=> Redialling(caller[p])
            /\ Owns(caller'[p]) => Owns(caller[p]) /\ caller'[p].client = c
            /\ \/ StepOf(caller[p]) \in Methods /\ ~Holding(caller'[p])
               \/ /\ StepOf(caller[p]) \in {"ensure", "resume"} /\ Holding(caller'[p])
                  /\ caller'[p].op = caller[p].op /\ caller'[p].step = caller[p].step
                  /\ caller'[p].thread = caller[p].thread /\ caller'[p].todo = caller[p].todo
                  /\ caller'[p].home = caller[p].home /\ caller'[p].runtime = caller[p].runtime
                  /\ caller'[p].client = c /\ caller'[p].at = "failed"
<1>1. caller'[p] = IF Waits(p) /\ caller[p].client = c THEN Returned(caller[p], "failed") ELSE caller[p]
  BY DEF ReadEnds
<1>2. Waits(p) <=> Waiting(caller[p])
  BY DEF Waits, Waiting
<1>3. CASE ~(Waiting(caller[p]) /\ caller[p].client = c)
  BY <1>1, <1>2, <1>3
<1>4. CASE Waiting(caller[p]) /\ caller[p].client = c
  <2>. DEFINE r == caller[p]
              x == Returned(r, "failed")
  <2>1. CallerOk(r) /\ r.client # 0 /\ r.op # "none"
    BY <1>4, IdleOk DEF TypeInv, CallersTyped, CallerOk, Clients
  <2>2. StepOf(r) \in Methods \cup {"ensure", "resume"}
    BY <1>4, <2>1 DEF CallerOk
  <2>3. /\ CallerOk(x)
        /\ \/ StepOf(r) \in Methods /\ ~Holding(x)
           \/ /\ StepOf(r) \in {"ensure", "resume"}
              /\ x.op = r.op /\ x.step = r.step /\ x.thread = r.thread
              /\ x.home = r.home /\ x.runtime = r.runtime /\ x.client = r.client /\ x.todo = r.todo
              /\ x.at = "failed"
              /\ Holding(x)
        /\ ~Waiting(x) /\ ~Dialled(x) /\ (Owns(x) => StepOf(r) = "ensure")
    BY <2>1, <2>2, ReturnedIs
  <2>4. caller'[p] = x
    BY <1>1, <1>2, <1>4
  <2>. HIDE DEF x, r
  <2>5. Holding(r) <=> StepOf(r) \in {"ensure", "resume"}
    BY <1>4, <2>1, <2>2 DEF Holding, Redialling, Resuming, Waiting, Methods, r
  <2>6. Redialling(x) <=> Redialling(r)
    BY <1>4, <2>1, <2>3, <2>5 DEF Holding, Redialling, Resuming, Waiting, StepOf, r, Methods
  <2>7. Owns(x) => Owns(r) /\ x.client = c
    <3>1. "ensure" \notin Methods /\ "resume" \notin Methods
      BY DEF Methods
    <3>. QED BY <1>4, <2>3, <2>6, <3>1 DEF Owns, r
  <2>8. "ensure" \notin Methods /\ "resume" \notin Methods
    BY DEF Methods
  <2>9. Holding(x) <=> Holding(r)
    BY <2>3, <2>5, <2>8
  <2>10. caller'[p].client = c \/ StepOf(r) \in Methods
    BY <1>4, <2>3, <2>4 DEF r
  <2>. QED BY <1>4, <2>1, <2>3, <2>4, <2>6, <2>7, <2>9, <2>10 DEF r, x
<1>. QED BY <1>3, <1>4

LEMMA ReadEndsTyped ==
  ASSUME TypeInv, NEW c \in Clients, ReadEnds(c)
  PROVE  TypeInv'
<1>1. /\ conn[c] = "broken" /\ inbox[c] = <<>>
      /\ ended' = ended \cup {c}
      /\ UNCHANGED <<lock, conn, pipe, consumer, bridged, bridge, codex, history, budget>>
  BY DEF ReadEnds
<1>2. CallersTyped'
  <2>1. \A p \in AllCallers : CallerOk(caller'[p])
    BY ReadEndsIs DEF TypeInv, CallersTyped
  <2>2. caller' = [p \in AllCallers |-> caller'[p]]
    BY DEF ReadEnds
  <2>3. \A p \in AllCallers : caller'[p] \in Records
    BY <2>1 DEF CallerOk
  <2>4. caller' \in [AllCallers -> Records]
    BY <2>2, <2>3
  <2>. QED BY <2>1, <2>4 DEF CallersTyped
<1>3. LockHeld'
  BY <1>1, ReadEndsIs DEF TypeInv, LockHeld, lock
<1>4. OwnedClients'
  <2>1. \A p \in AllCallers : /\ Owns(caller'[p]) => Owns(caller[p]) /\ caller'[p].client = caller[p].client
                              /\ caller'[p].at = "reinstall" => caller[p].at = "reinstall"
                              /\ Redialling(caller'[p]) => Redialling(caller[p])
    BY ReadEndsIs DEF Dialled
  <2>2. UNCHANGED <<machine, conn, consumer>>
    BY <1>1 DEF lock
  <2>. QED BY <2>1, <2>2 DEF TypeInv, OwnedClients
<1>5. RepliesMatch'
  <2>1. inbox' = inbox
    BY <1>1 DEF pipe
  <2>2. ASSUME NEW d \in Clients, NEW i \in DOMAIN inbox[d], NEW p \in AllCallers, ReplyTo(inbox[d][i], p)
        PROVE  caller'[p] = caller[p]
    <3>1. caller[p].client = d /\ d # c
      BY <2>2, <1>1 DEF TypeInv, RepliesMatch
    <3>. QED BY <3>1, ReadEndsIs
  <2>. QED BY <2>1, <2>2 DEF TypeInv, RepliesMatch
<1>6. QueuesTyped' /\ ConsumersTyped' /\ BlockedOnEvent' /\ Numbered'
  BY <1>1 DEF TypeInv, QueuesTyped, ConsumersTyped, BlockedOnEvent, Numbered, Message, pipe, codex, history
<1>7. EndedEmpty'
  BY <1>1 DEF TypeInv, EndedEmpty, pipe
<1>8. StateTyped'
  BY <1>1 DEF TypeInv, StateTyped, lock, codex
<1>. QED BY <1>2, <1>3, <1>4, <1>5, <1>6, <1>7, <1>8 DEF TypeInv

LEMMA StartConsumerTyped ==
  ASSUME TypeInv, NEW k \in Clients, StartConsumer(k)
  PROVE  TypeInv'
<1>. DEFINE cl == Client(consumer[k].runtime)
<1>1. /\ consumer[k].at = "start" /\ consumer[k].runtime \in Clients /\ consumer[k] \in Consumers /\ ~panicked
  BY DEF StartConsumer, On, TypeInv, ConsumersTyped, Consumers
<1>2. cl \in {0} \cup Clients
  BY <1>1 DEF TypeInv, StateTyped, Client
<1>3. /\ panicked' = (cl = 0)
      /\ consumer' = [consumer EXCEPT ![k].at = "ready", ![k].client = cl]
      /\ UNCHANGED <<lock, conn, ended, pipe, bridged, bridge, caller, codex, got, lost, raced, budget>>
  BY DEF StartConsumer
<1>. HIDE DEF cl
<1>4. /\ consumer'[k].at = "ready" /\ consumer'[k].client = cl /\ consumer'[k].runtime = consumer[k].runtime
      /\ \A d \in Clients : d # k => consumer'[d] = consumer[d]
      /\ consumer' \in [Clients -> Consumers]
  BY <1>1, <1>2, <1>3 DEF TypeInv, ConsumersTyped, Consumers
<1>5. ConsumersTyped'
  BY <1>1, <1>3, <1>4 DEF TypeInv, ConsumersTyped
<1>6. BlockedOnEvent'
  BY <1>1, <1>3, <1>4 DEF TypeInv, BlockedOnEvent, Message, pipe
<1>7. CallersTyped' /\ LockHeld' /\ RepliesMatch'
  BY <1>1, <1>3, <1>4 DEF TypeInv, CallersTyped, LockHeld, RepliesMatch, lock, pipe
<1>8. OwnedClients'
  <2>. UNCHANGED <<conn, caller, machine>>
    BY <1>3 DEF lock
  <2>. QED BY <1>1, <1>4 DEF TypeInv, OwnedClients
<1>9. QueuesTyped' /\ EndedEmpty' /\ Numbered' /\ StateTyped'
  BY <1>3, QueuesSame, StateSame DEF TypeInv, lock, codex
<1>. QED BY <1>5, <1>6, <1>7, <1>8, <1>9 DEF TypeInv

(* The consumer and the message it works on.                               *)
LEMMA WorkIs ==
  ASSUME TypeInv, NEW k \in Clients, ~panicked, consumer[k].at \in {"ready", "blocked"},
         notes[consumer[k].client] # <<>>
  PROVE  /\ consumer[k].client \in Clients /\ consumer[k].runtime \in Clients
         /\ consumer[k].runtime # 0
         /\ notes[consumer[k].client] \in Seq(Frames) /\ Message(k) \in Frames
         /\ Message(k).kind = "event" => Message(k).thread \in Threads /\ Message(k) \in EventsFor({Message(k).thread})
<1>1. /\ consumer[k].client \in Clients /\ consumer[k].runtime \in Clients /\ consumer[k].runtime # 0
  BY DEF TypeInv, ConsumersTyped, Consumers
<1>2. notes[consumer[k].client] \in Seq(Frames) /\ Message(k) \in Frames
  BY <1>1 DEF TypeInv, QueuesTyped, Message
<1>. QED BY <1>1, <1>2, ReplyFrame

LEMMA PassedIs ==
  ASSUME TypeInv, NEW r \in Clients, NEW t \in Threads, NEW m \in EventsFor({t}),
         Len(channel[r][t]) < WatcherCap,
         channel' = [channel EXCEPT ![r][t] = Append(@, m)]
  PROVE  /\ channel' \in [Clients -> [Threads -> Seq(Frames)]]
         /\ channel'[r][t] = Append(channel[r][t], m)
         /\ \A s \in Clients, u \in Threads : s # r \/ u # t => channel'[s][u] = channel[s][u]
         /\ \A s \in Clients, u \in Threads : channel'[s][u] \in Seq(EventsFor({u})) /\ Len(channel'[s][u]) <= WatcherCap
<1>1. m \in Frames
  BY DEF Frames, EventsFor
<1>2. /\ channel' \in [Clients -> [Threads -> Seq(Frames)]]
      /\ channel'[r][t] = Append(channel[r][t], m)
      /\ \A s \in Clients, u \in Threads : s # r \/ u # t => channel'[s][u] = channel[s][u]
  BY <1>1 DEF TypeInv, QueuesTyped
<1>3. Append(channel[r][t], m) \in Seq(EventsFor({t})) /\ Len(Append(channel[r][t], m)) <= WatcherCap
  <2>1. channel[r][t] \in Seq(EventsFor({t})) /\ WatcherCap \in Nat
    BY CapacitiesArePositive DEF TypeInv, QueuesTyped
  <2>. HIDE DEF EventsFor
  <2>. QED BY <2>1
<1>4. ASSUME NEW s \in Clients, NEW u \in Threads
      PROVE  channel'[s][u] \in Seq(EventsFor({u})) /\ Len(channel'[s][u]) <= WatcherCap
  <2>1. CASE s = r /\ u = t
    BY <1>2, <1>3, <2>1
  <2>2. CASE s # r \/ u # t
    BY <1>2, <2>2 DEF TypeInv, QueuesTyped
  <2>. QED BY <2>1, <2>2
<1>. QED BY <1>2, <1>4

(* A consumer takes a message, and may pass it on.                         *)
LEMMA TakenTyped ==
  ASSUME TypeInv, NEW k \in Clients, ~panicked, consumer[k].at \in {"ready", "blocked"},
         notes[consumer[k].client] # <<>>, Taken(k),
         \/ Message(k).kind = "event" /\ Room(k) /\ Passed(k)
         \/ channel' = channel,
         UNCHANGED <<inbox, runner, sent, got, lost>>
  PROVE  QueuesTyped' /\ Numbered'
<1>. DEFINE n == consumer[k].client
            r == consumer[k].runtime
            m == Message(k)
            t == m.thread
<1>1. /\ n \in Clients /\ r \in Clients /\ notes[n] \in Seq(Frames) /\ m \in Frames
      /\ m.kind = "event" => t \in Threads /\ m \in EventsFor({t})
  BY WorkIs
<1>2. /\ m = Head(notes[n]) /\ notes[n] # <<>>
      /\ notes' = [notes EXCEPT ![n] = Tail(@)]
  BY DEF Message, Taken
<1>3. /\ notes' \in [Clients -> Seq(Frames)] /\ notes'[n] = Tail(notes[n])
      /\ \A d \in Clients : d # n => notes'[d] = notes[d]
      /\ Len(notes'[n]) <= NotifyCap
  BY SMTT(60), <1>1, <1>2, CapacitiesArePositive DEF TypeInv, QueuesTyped
<1>. DEFINE pass == m.kind = "event" /\ Len(channel[r][t]) < WatcherCap
                    /\ channel' = [channel EXCEPT ![r][t] = Append(@, m)]
<1>4. pass \/ channel' = channel
  BY DEF Room, Passed
<1>. HIDE DEF m
<1>. HIDE DEF t, r
<1>10. ASSUME pass
       PROVE  /\ channel' \in [Clients -> [Threads -> Seq(Frames)]]
              /\ channel'[r][t] = Append(channel[r][t], m) /\ channel[r][t] \in Seq(Frames)
              /\ \A s \in Clients, u \in Threads : s # r \/ u # t => channel'[s][u] = channel[s][u]
              /\ \A s \in Clients, u \in Threads : channel'[s][u] \in Seq(EventsFor({u})) /\ Len(channel'[s][u]) <= WatcherCap
  <2>1. t \in Threads /\ m \in EventsFor({t})
    BY <1>1, <1>10
  <2>2. channel[r][t] \in Seq(Frames)
    BY <1>1, <2>1 DEF TypeInv, QueuesTyped
  <2>3. r \in Clients /\ Len(channel[r][t]) < WatcherCap /\ channel' = [channel EXCEPT ![r][t] = Append(@, m)]
    BY <1>1, <1>10
  <2>. HIDE DEF pass
  <2>4. /\ channel' \in [Clients -> [Threads -> Seq(Frames)]]
        /\ channel'[r][t] = Append(channel[r][t], m)
        /\ \A s \in Clients, u \in Threads : s # r \/ u # t => channel'[s][u] = channel[s][u]
        /\ \A s \in Clients, u \in Threads : channel'[s][u] \in Seq(EventsFor({u})) /\ Len(channel'[s][u]) <= WatcherCap
    BY ONLY TypeInv, <2>1, <2>3, PassedIs
  <2>. QED BY <2>2, <2>4
<1>. HIDE DEF pass
<1>5. /\ channel' \in [Clients -> [Threads -> Seq(Frames)]]
      /\ \A s \in Clients, u \in Threads : channel'[s][u] \in Seq(EventsFor({u})) /\ Len(channel'[s][u]) <= WatcherCap
  <2>1. CASE pass
    BY <1>10, <2>1
  <2>2. CASE channel' = channel
    BY <2>2 DEF TypeInv, QueuesTyped
  <2>. QED BY <1>4, <2>1, <2>2
<1>6. QueuesTyped'
  BY <1>3, <1>5 DEF TypeInv, QueuesTyped
<1>7. \A u \in Threads : EventsOf(notes[n], u) = EventsOf(notes'[n], u) \cup (IF IsEvent(m, u) THEN {m.n} ELSE {})
  BY <1>1, <1>2, <1>3, TailEvents
<1>8. ASSUME NEW s \in Clients, NEW u \in Threads
      PROVE  EventsOf(channel'[s][u], u) \subseteq EventsOf(channel[s][u], u) \cup EventsOf(notes[n], u)
  <2>1. CASE pass /\ s = r /\ u = t
    <3>1. channel'[s][u] = Append(channel[s][u], m) /\ channel[s][u] \in Seq(Frames)
      BY <1>10, <2>1
    <3>2. EventsOf(channel'[s][u], u) = EventsOf(channel[s][u], u) \cup (IF IsEvent(m, u) THEN {m.n} ELSE {})
      BY <1>1, <3>1, AppendEvents
    <3>. QED BY <1>7, <3>2
  <2>2. CASE pass /\ ~(s = r /\ u = t)
    BY <1>10, <2>2
  <2>3. CASE channel' = channel
    BY <2>3
  <2>. QED BY <1>4, <2>1, <2>2, <2>3
<1>9. Numbered'
  <2>1. \A u \in Threads : EventsOf(notes'[n], u) \subseteq EventsOf(notes[n], u)
    BY <1>7
  <2>. HIDE DEF n
  <2>2. ASSUME NEW c \in Clients, NEW u \in Threads
        PROVE  EventsOf(notes'[c], u) \cup EventsOf(inbox'[c], u) \cup EventsOf(channel'[c][u], u) \subseteq 1 .. sent'[u]
    BY <1>1, <1>3, <1>8, <2>1 DEF TypeInv, Numbered
  <2>. QED BY <2>2 DEF TypeInv, Numbered
<1>. QED BY <1>6, <1>9

LEMMA ApplyTyped ==
  ASSUME TypeInv, NEW k \in Clients, Apply(k)
  PROVE  TypeInv'
<1>1. /\ ~panicked /\ consumer[k].at = "ready" /\ Free /\ notes[consumer[k].client] # <<>>
      /\ \/ ForWatcher(k) /\ Room(k) /\ Passed(k)
         \/ channel' = channel
      /\ Taken(k)
      /\ UNCHANGED <<lock, conn, ended, inbox, runner, goroutines, codex, history, budget>>
  BY DEF Apply, On
<1>2. QueuesTyped' /\ Numbered'
  BY <1>1, TakenTyped DEF ForWatcher, codex, history
<1>3. \A d \in Clients : consumer[d].at # "blocked"
  BY <1>1, LoopIsNoCaller DEF TypeInv, LockHeld, Free
<1>4. BlockedOnEvent'
  BY <1>1, <1>3 DEF BlockedOnEvent, goroutines
<1>5. StateTyped' /\ CallersTyped' /\ LockHeld' /\ OwnedClients'
  BY <1>1, StateSame, CallersSame DEF TypeInv, lock, codex, goroutines
<1>6. ConsumersTyped' /\ RepliesMatch' /\ EndedEmpty'
  BY <1>1 DEF TypeInv, ConsumersTyped, RepliesMatch, EndedEmpty, goroutines, history
<1>. QED BY <1>2, <1>4, <1>5, <1>6 DEF TypeInv

(* A consumer that comes to or leaves its wait.                            *)
LEMMA ConsumerTurns ==
  ASSUME TypeInv, NEW k \in Clients, consumer[k].at # "off", NEW a \in {"ready", "blocked", "off"},
         consumer' = [consumer EXCEPT ![k].at = a],
         consumer[k].at \in {"ready", "blocked"}, UNCHANGED <<panicked, caller, conn, machine>>
  PROVE  /\ ConsumersTyped' /\ OwnedClients'
         /\ consumer'[k].at = a /\ consumer'[k].client = consumer[k].client /\ consumer'[k].runtime = consumer[k].runtime
         /\ \A d \in Clients : d # k => consumer'[d] = consumer[d]
<1>1. /\ consumer'[k].at = a /\ consumer'[k].client = consumer[k].client /\ consumer'[k].runtime = consumer[k].runtime
      /\ \A d \in Clients : d # k => consumer'[d] = consumer[d]
      /\ consumer' \in [Clients -> Consumers]
  BY DEF TypeInv, ConsumersTyped, Consumers
<1>2. ConsumersTyped'
  BY <1>1 DEF TypeInv, ConsumersTyped
<1>3. OwnedClients'
  BY <1>1 DEF TypeInv, OwnedClients
<1>. QED BY <1>1, <1>2, <1>3

LEMMA ApplyBlocksTyped ==
  ASSUME TypeInv, NEW k \in Clients, ApplyBlocks(k)
  PROVE  TypeInv'
<1>1. /\ ~panicked /\ consumer[k].at = "ready" /\ mu = NoOne /\ notes[consumer[k].client] # <<>> /\ ForWatcher(k)
      /\ mu' = k /\ consumer' = [consumer EXCEPT ![k].at = "blocked"]
      /\ UNCHANGED <<machine, runtimes, conn, ended, pipe, bridged, bridge, caller, codex, history, budget>>
  BY DEF ApplyBlocks, On, Free
<1>2. /\ ConsumersTyped' /\ OwnedClients'
      /\ consumer'[k].at = "blocked" /\ consumer'[k].client = consumer[k].client
      /\ \A d \in Clients : d # k => consumer'[d] = consumer[d]
  BY <1>1, ConsumerTurns DEF history
<1>3. LockHeld'
  BY <1>1, <1>2, LoopIsNoCaller DEF TypeInv, LockHeld
<1>4. BlockedOnEvent'
  BY <1>1, <1>2 DEF TypeInv, BlockedOnEvent, Message, ForWatcher, pipe, history
<1>5. QueuesTyped' /\ EndedEmpty' /\ Numbered'
  BY <1>1, QueuesSame DEF codex, history
<1>6. StateTyped' /\ CallersTyped' /\ RepliesMatch'
  BY <1>1 DEF TypeInv, StateTyped, CallersTyped, RepliesMatch, codex, pipe
<1>. QED BY <1>2, <1>3, <1>4, <1>5, <1>6 DEF TypeInv

LEMMA ApplyUnblocksTyped ==
  ASSUME TypeInv, NEW k \in Clients, ApplyUnblocks(k)
  PROVE  TypeInv'
<1>1. /\ ~panicked /\ consumer[k].at = "blocked" /\ Room(k) /\ Passed(k) /\ Taken(k)
      /\ mu' = NoOne /\ consumer' = [consumer EXCEPT ![k].at = "ready"]
      /\ UNCHANGED <<machine, runtimes, conn, ended, inbox, runner, bridged, bridge, caller, codex, history, budget>>
  BY DEF ApplyUnblocks, On
<1>2. notes[consumer[k].client] # <<>> /\ Message(k).kind = "event" /\ mu = k
  BY <1>1 DEF TypeInv, BlockedOnEvent, LockHeld
<1>3. QueuesTyped' /\ Numbered'
  BY <1>1, <1>2, TakenTyped DEF codex, history
<1>4. /\ ConsumersTyped' /\ OwnedClients'
      /\ consumer'[k].at = "ready" /\ consumer'[k].client = consumer[k].client
      /\ \A d \in Clients : d # k => consumer'[d] = consumer[d]
  BY <1>1, ConsumerTurns DEF history
<1>5. LockHeld'
  BY <1>1, <1>2, <1>4, LoopIsNoCaller DEF TypeInv, LockHeld
<1>6. BlockedOnEvent'
  BY <1>2, <1>4 DEF TypeInv, LockHeld, BlockedOnEvent
<1>7. StateTyped' /\ CallersTyped' /\ RepliesMatch' /\ EndedEmpty'
  BY <1>1 DEF TypeInv, StateTyped, CallersTyped, RepliesMatch, EndedEmpty, codex
<1>. QED BY <1>3, <1>4, <1>5, <1>6, <1>7 DEF TypeInv

LEMMA EndConsumerTyped ==
  ASSUME TypeInv, NEW k \in Clients, EndConsumer(k)
  PROVE  TypeInv'
<1>. DEFINE r == consumer[k].runtime
<1>1. /\ ~panicked /\ consumer[k].at = "ready" /\ mu = NoOne
      /\ runtimes' = [runtimes EXCEPT ![r].client = 0] \/ runtimes' = runtimes
      /\ consumer' = [consumer EXCEPT ![k].at = "off"]
      /\ UNCHANGED <<mu, machine, conn, ended, pipe, bridged, bridge, caller, codex, got, lost, panicked, budget>>
  BY DEF EndConsumer, On, Free
<1>2. /\ ConsumersTyped' /\ OwnedClients'
      /\ consumer'[k].at = "off"
      /\ \A d \in Clients : d # k => consumer'[d] = consumer[d]
  BY <1>1, ConsumerTurns
<1>3. LockHeld'
  BY <1>1, <1>2 DEF TypeInv, LockHeld
<1>4. BlockedOnEvent'
  BY <1>1, <1>2 DEF TypeInv, BlockedOnEvent, Message, pipe
<1>5. QueuesTyped' /\ EndedEmpty' /\ Numbered'
  BY <1>1, QueuesSame DEF codex
<1>6. CallersTyped' /\ RepliesMatch'
  BY <1>1 DEF TypeInv, CallersTyped, RepliesMatch, pipe
<1>7. runtimes' \in [Clients -> [client : {0} \cup Clients, watchers : SUBSET Threads]]
  BY <1>1 DEF TypeInv, StateTyped
<1>8. StateTyped'
  BY <1>1, <1>7 DEF TypeInv, StateTyped, codex
<1>. QED BY <1>2, <1>3, <1>4, <1>5, <1>6, <1>8 DEF TypeInv

LEMMA BridgeEventTyped ==
  ASSUME TypeInv, NEW t \in Threads, BridgeEvent(t)
  PROVE  TypeInv'
<1>. DEFINE b == bridge[t]
            m == Head(channel[b][t])
<1>1. /\ b \in Clients /\ channel[b][t] # <<>> /\ Len(runner) < RunnerCap
      /\ runner' = Append(runner, m)
      /\ channel' = [channel EXCEPT ![b][t] = Tail(@)]
      /\ UNCHANGED <<lock, conn, ended, inbox, notes, goroutines, codex, history, budget>>
  BY DEF BridgeEvent, TypeInv, StateTyped
<1>2. /\ channel[b][t] \in Seq(EventsFor({t})) /\ channel[b][t] \in Seq(Frames)
      /\ Len(channel[b][t]) \in Nat /\ Len(channel[b][t]) <= WatcherCap /\ WatcherCap \in Nat /\ RunnerCap \in Nat
  BY <1>1, CapacitiesArePositive DEF TypeInv, QueuesTyped
<1>3. m \in EventsFor({t}) /\ Tail(channel[b][t]) \in Seq(EventsFor({t})) /\ Tail(channel[b][t]) \in Seq(Frames)
      /\ Len(Tail(channel[b][t])) <= WatcherCap
  BY <1>1, <1>2, TailIs
<1>4. m \in EventsFor(Threads) /\ m.thread = t /\ m.kind = "event"
  BY <1>3 DEF EventsFor
<1>. HIDE DEF m, b
<1>5. /\ channel' \in [Clients -> [Threads -> Seq(Frames)]]
      /\ channel'[b][t] = Tail(channel[b][t])
      /\ \A s \in Clients, u \in Threads : s # b \/ u # t => channel'[s][u] = channel[s][u]
  BY <1>1, <1>3 DEF TypeInv, QueuesTyped
<1>6. ASSUME NEW s \in Clients, NEW u \in Threads
      PROVE  channel'[s][u] \in Seq(EventsFor({u})) /\ Len(channel'[s][u]) <= WatcherCap
  <2>1. CASE s = b /\ u = t
    BY <1>3, <1>5, <2>1
  <2>2. CASE s # b \/ u # t
    BY <1>5, <2>2 DEF TypeInv, QueuesTyped
  <2>. QED BY <2>1, <2>2
<1>7. QueuesTyped'
  <2>1. runner' \in Seq(EventsFor(Threads)) /\ Len(runner') <= RunnerCap
    BY <1>1, <1>2, <1>4 DEF TypeInv, QueuesTyped
  <2>. QED BY <1>1, <1>5, <1>6, <2>1 DEF TypeInv, QueuesTyped
<1>8. Numbered'
  <2>1. EventsOf(channel[b][t], t) = EventsOf(channel'[b][t], t) \cup (IF IsEvent(m, t) THEN {m.n} ELSE {})
    BY <1>1, <1>2, <1>5, TailEvents DEF m
  <2>2. \A u \in Threads : EventsOf(runner', u) = EventsOf(runner, u) \cup (IF IsEvent(m, u) THEN {m.n} ELSE {})
    BY <1>1, <1>4, AppendEvents DEF TypeInv, QueuesTyped
  <2>3. \A u \in Threads : IsEvent(m, u) => u = t
    BY <1>4 DEF IsEvent
  <2>4. \A u \in Threads : EventsOf(runner', u) \subseteq EventsOf(runner, u) \cup EventsOf(channel[b][u], u)
    BY <2>1, <2>2, <2>3
  <2>5. \A s \in Clients, u \in Threads : EventsOf(channel'[s][u], u) \subseteq EventsOf(channel[s][u], u)
    BY <1>5, <2>1
  <2>. QED BY <1>1, <2>4, <2>5 DEF TypeInv, Numbered, codex, history
<1>9. StateTyped' /\ CallersTyped' /\ LockHeld' /\ OwnedClients'
  BY <1>1, StateSame, CallersSame DEF TypeInv, lock, codex, goroutines
<1>10. ConsumersTyped' /\ BlockedOnEvent' /\ RepliesMatch' /\ EndedEmpty'
  BY <1>1, ConsumersSame DEF TypeInv, RepliesMatch, EndedEmpty, goroutines, history
<1>. QED BY <1>7, <1>8, <1>9, <1>10 DEF TypeInv

LEMMA ReceiveTyped ==
  ASSUME TypeInv, Receive
  PROVE  TypeInv'
<1>. DEFINE m == Head(runner)
<1>1. /\ runner # <<>> /\ runner \in Seq(EventsFor(Threads))
      /\ got' = [got EXCEPT ![m.thread] = m.n] /\ runner' = Tail(runner)
      /\ UNCHANGED <<lock, conn, ended, inbox, notes, channel, goroutines, codex, lost, raced, panicked, budget>>
  BY DEF Receive, TypeInv, QueuesTyped
<1>2. m \in EventsFor(Threads) /\ Tail(runner) \in Seq(EventsFor(Threads)) /\ Len(Tail(runner)) <= RunnerCap
  <2>1. m \in EventsFor(Threads) /\ Tail(runner) \in Seq(EventsFor(Threads)) /\ Len(Tail(runner)) = Len(runner) - 1
        /\ Len(runner) \in Nat
    BY <1>1, TailIs
  <2>. QED BY <2>1, CapacitiesArePositive DEF TypeInv, QueuesTyped
<1>3. m.thread \in Threads /\ m.n \in Nat /\ IsEvent(m, m.thread)
  BY <1>2 DEF EventsFor, IsEvent
<1>4. \A t \in Threads : EventsOf(runner, t) = EventsOf(runner', t) \cup (IF IsEvent(m, t) THEN {m.n} ELSE {})
  BY <1>1, TailEvents
<1>. HIDE DEF m
<1>5. m.n \in 1 .. sent[m.thread]
  BY <1>3, <1>4 DEF TypeInv, Numbered
<1>6. Numbered'
  <2>1. got' \in [Threads -> Nat] /\ \A t \in Threads : got'[t] <= sent[t]
    BY <1>1, <1>3, <1>5 DEF TypeInv, Numbered
  <2>2. \A t \in Threads : EventsOf(runner', t) \subseteq 1 .. sent[t]
    BY <1>4 DEF TypeInv, Numbered
  <2>. QED BY <1>1, <2>1, <2>2 DEF TypeInv, Numbered, codex
<1>7. QueuesTyped'
  BY <1>1, <1>2 DEF TypeInv, QueuesTyped
<1>8. StateTyped' /\ CallersTyped' /\ LockHeld' /\ OwnedClients'
  BY <1>1, StateSame, CallersSame DEF TypeInv, lock, codex, goroutines
<1>9. ConsumersTyped' /\ BlockedOnEvent' /\ RepliesMatch' /\ EndedEmpty'
  BY <1>1, ConsumersSame DEF TypeInv, RepliesMatch, EndedEmpty, goroutines
<1>. QED BY <1>6, <1>7, <1>8, <1>9 DEF TypeInv

LEMMA MovesTyped ==
  ASSUME TypeInv, Moves
  PROVE  TypeInv'
  BY PublishTyped, RouteResponseTyped, ReadEndsTyped, StartConsumerTyped, ApplyTyped, ApplyBlocksTyped,
     ApplyUnblocksTyped, EndConsumerTyped, BridgeEventTyped, ReceiveTyped DEF Moves

-------------------------------------------------------------------------------
(* Calls that are given up.                                                *)
LEMMA DisownedIs ==
  ASSUME NEW s \in Seq(Frames), NEW p \in AllCallers
  PROVE  /\ Disowned(s, p) \in Seq(Frames)
         /\ DOMAIN Disowned(s, p) = DOMAIN s /\ Len(Disowned(s, p)) = Len(s)
         /\ s = <<>> => Disowned(s, p) = <<>>
         /\ \A i \in DOMAIN s : \A q \in AllCallers :
              ReplyTo(Disowned(s, p)[i], q) <=> ReplyTo(s[i], q) /\ q # p
         /\ \A i \in DOMAIN s : \A q \in AllCallers : q # p => (Disowned(s, p)[i].result = s[i].result \/ ~ReplyTo(s[i], q))
         /\ \A i \in DOMAIN s : \A t : /\ IsEvent(Disowned(s, p)[i], t) <=> IsEvent(s[i], t)
                                       /\ IsEvent(s[i], t) => Disowned(s, p)[i] = s[i]
<1>. DEFINE d == Disowned(s, p)
            Own(i) == s[i].kind = "reply" /\ s[i].to = p
            Orphan(i) == [s[i] EXCEPT !.to = NoOne]
<1>1. DOMAIN s = 1 .. Len(s) /\ Len(s) \in Nat /\ \A i \in DOMAIN s : s[i] \in Frames
  OBVIOUS
<1>2. d = [i \in 1 .. Len(s) |-> IF Own(i) THEN Orphan(i) ELSE s[i]]
  BY <1>1 DEF Disowned
<1>3. ASSUME NEW i \in DOMAIN s, Own(i)
      PROVE  Orphan(i) \in Frames /\ Orphan(i).kind = "reply" /\ Orphan(i).to = NoOne
  <2>1. s[i] \in Replies
    BY <1>1, <1>3 DEF Frames, EventsFor, Deltas
  <2>. QED BY <2>1 DEF Frames, Replies
<1>4. /\ d \in Seq(Frames) /\ DOMAIN d = 1 .. Len(s) /\ Len(d) = Len(s)
  <2>1. \A i \in 1 .. Len(s) : (IF Own(i) THEN Orphan(i) ELSE s[i]) \in Frames
    BY <1>1, <1>3
  <2>. HIDE DEF Own, Orphan, d
  <2>. QED BY <1>1, <1>2, <2>1
<1>5. \A i \in DOMAIN s : d[i] = IF Own(i) THEN Orphan(i) ELSE s[i]
  BY <1>1, <1>2
<1>6. s = <<>> => d = <<>>
  BY <1>4
<1>7. ASSUME NEW i \in DOMAIN s
      PROVE  /\ \A q \in AllCallers : ReplyTo(d[i], q) <=> ReplyTo(s[i], q) /\ q # p
             /\ \A q \in AllCallers : q # p => (d[i].result = s[i].result \/ ~ReplyTo(s[i], q))
             /\ \A t : (IsEvent(d[i], t) <=> IsEvent(s[i], t)) /\ (IsEvent(s[i], t) => d[i] = s[i])
  <2>. HIDE DEF d
  <2>1. CASE Own(i)
    <3>1. d[i] = Orphan(i) /\ d[i].kind = "reply" /\ d[i].to = NoOne
      BY <1>3, <1>5, <2>1
    <3>. HIDE DEF Orphan
    <3>. QED BY <2>1, <3>1, LoopIsNoCaller DEF ReplyTo, IsEvent
  <2>2. CASE ~Own(i)
    <3>1. d[i] = s[i]
      BY <1>5, <2>2
    <3>. QED BY <2>2, <3>1 DEF ReplyTo
  <2>. QED BY <2>1, <2>2
<1>. HIDE DEF d
<1>8. DOMAIN d = DOMAIN s
  BY <1>1, <1>4
<1>. QED BY <1>4, <1>6, <1>7, <1>8 DEF d

LEMMA DisownedEvents ==
  ASSUME NEW s \in Seq(Frames), NEW p \in AllCallers, NEW t
  PROVE  /\ EventsOf(Disowned(s, p), t) = EventsOf(s, t)
         /\ InOrder(s, t) => InOrder(Disowned(s, p), t)
<1>. DEFINE d == Disowned(s, p)
<1>1. DOMAIN d = DOMAIN s /\ \A i \in DOMAIN s : (IsEvent(d[i], t) <=> IsEvent(s[i], t)) /\ (IsEvent(s[i], t) => d[i] = s[i])
  <2>1. DOMAIN d = DOMAIN s
    BY DisownedIs
  <2>2. ASSUME NEW i \in DOMAIN s
        PROVE  (IsEvent(d[i], t) <=> IsEvent(s[i], t)) /\ (IsEvent(s[i], t) => d[i] = s[i])
    <3>1. \A u : /\ IsEvent(Disowned(s, p)[i], u) <=> IsEvent(s[i], u)
                 /\ IsEvent(s[i], u) => Disowned(s, p)[i] = s[i]
      BY DisownedIs
    <3>. QED BY <3>1
  <2>. QED BY <2>1, <2>2
<1>. HIDE DEF d
<1>2. EventsOf(d, t) = EventsOf(s, t)
  BY <1>1 DEF EventsOf
<1>3. InOrder(s, t) => InOrder(d, t)
  BY <1>1 DEF InOrder
<1>. QED BY <1>2, <1>3 DEF d

LEMMA CancelIs ==
  ASSUME TypeInv, NEW p \in AllCallers, Cancel(p),
         NEW c, c = caller[p].client, NEW x, x = Returned(caller[p], "failed")
  PROVE  /\ CallerOk(caller[p]) /\ caller[p].op # "none" /\ caller[p] \in Records /\ Waiting(caller[p])
         /\ c \in Clients /\ c # 0 /\ caller[p].about \in Threads /\ caller[p].thread \in Threads
         /\ StepOf(caller[p]) \in Methods \cup {"ensure", "resume"}
         /\ inbox[c] \in Seq(Frames) /\ inbox'[c] = Disowned(inbox[c], p) /\ inbox' \in [Clients -> Seq(Frames)]
         /\ \A d \in Clients : d # c => inbox'[d] = inbox[d]
         /\ Move(p, x) /\ CallerOk(x) /\ ~Waiting(x) /\ ~Dialled(x)
         /\ \/ StepOf(caller[p]) \in Methods /\ x = Idle
            \/ /\ StepOf(caller[p]) \in {"ensure", "resume"}
               /\ x.op = caller[p].op /\ x.step = caller[p].step /\ x.thread = caller[p].thread
               /\ x.about = caller[p].about /\ x.home = caller[p].home /\ x.runtime = caller[p].runtime
               /\ x.client = c /\ x.todo = caller[p].todo
               /\ x.at = "failed" /\ Holding(x)
         /\ Holding(x) <=> Holding(caller[p])
         /\ Owns(x) => Owns(caller[p]) /\ x.client = c /\ machine # 0
<1>. DEFINE r == caller[p]
<1>1. CallerOk(r) /\ r.op # "none" /\ r \in Records /\ Waiting(r)
  BY DEF Cancel, Runs, Waits, Waiting, TypeInv, CallersTyped
<1>2. c \in Clients /\ c # 0 /\ r.about \in Threads /\ r.thread \in Threads
  BY <1>1 DEF CallerOk, Records
<1>3. StepOf(r) \in Methods \cup {"ensure", "resume"}
  BY <1>1 DEF CallerOk
<1>4. inbox' = [inbox EXCEPT ![c] = Disowned(@, p)] /\ Move(p, x)
  BY DEF Cancel
<1>5. inbox[c] \in Seq(Frames) /\ Disowned(inbox[c], p) \in Seq(Frames)
  BY <1>2, DisownedIs DEF TypeInv, QueuesTyped
<1>6. /\ inbox'[c] = Disowned(inbox[c], p) /\ inbox' \in [Clients -> Seq(Frames)]
      /\ \A d \in Clients : d # c => inbox'[d] = inbox[d]
  BY <1>2, <1>4, <1>5 DEF TypeInv, QueuesTyped
<1>. HIDE DEF r
<1>7. /\ CallerOk(x) /\ ~Waiting(x) /\ ~Dialled(x)
      /\ \/ StepOf(r) \in Methods /\ ~Holding(x)
         \/ /\ StepOf(r) \in {"ensure", "resume"}
            /\ x.op = r.op /\ x.step = r.step /\ x.thread = r.thread /\ x.about = r.about
            /\ x.home = r.home /\ x.runtime = r.runtime /\ x.client = r.client /\ x.todo = r.todo
            /\ x.at = "failed" /\ Holding(x)
      /\ Owns(x) => StepOf(r) = "ensure"
  BY <1>1, <1>2, <1>3, ReturnedIs DEF r
<1>8. "ensure" \notin Methods /\ "resume" \notin Methods
  BY DEF Methods
<1>9. StepOf(r) \in Methods => x = Idle
  BY DEF Returned, StepOf, r
<1>10. Holding(r) <=> StepOf(r) \in {"ensure", "resume"}
  BY <1>1, <1>3, <1>8 DEF Holding, Redialling, Resuming, Waiting
<1>11. StepOf(r) = "ensure" => Owns(r) /\ machine # 0
  <2>1. StepOf(r) = "ensure" => Redialling(r)
    BY <1>1 DEF Redialling, Waiting
  <2>. QED BY <2>1 DEF Owns, TypeInv, OwnedClients, r
<1>. QED BY <1>1, <1>2, <1>3, <1>4, <1>5, <1>6, <1>7, <1>8, <1>9, <1>10, <1>11 DEF r

LEMMA CancelTyped ==
  ASSUME TypeInv, NEW p \in AllCallers, Cancel(p)
  PROVE  TypeInv'
<1>. DEFINE c == caller[p].client
            x == Returned(caller[p], "failed")
<1>1. /\ CallerOk(caller[p]) /\ Waiting(caller[p]) /\ c \in Clients
      /\ inbox[c] \in Seq(Frames) /\ inbox'[c] = Disowned(inbox[c], p) /\ inbox' \in [Clients -> Seq(Frames)]
      /\ \A d \in Clients : d # c => inbox'[d] = inbox[d]
      /\ Move(p, x) /\ CallerOk(x)
      /\ Holding(x) <=> Holding(caller[p])
      /\ Owns(x) => Owns(caller[p]) /\ x.client = c /\ machine # 0
  BY CancelIs
<1>2. UNCHANGED <<lock, conn, ended, notes, channel, runner, consumer, bridged, bridge, sub, active, sent, got, lost, panicked>>
  BY DEF Cancel
<1>. HIDE DEF x
<1>3. CallersTyped' /\ caller'[p] = x /\ \A q \in AllCallers : q # p => caller'[q] = caller[q]
  BY <1>1, MoveIs DEF TypeInv
<1>4. LockHeld'
  BY <1>1, <1>2, LockKept DEF TypeInv, lock
<1>5. OwnedClients'
  BY <1>1, <1>2, OwnedKept DEF TypeInv, lock
<1>. HIDE DEF c
<1>6. /\ DOMAIN inbox'[c] = DOMAIN inbox[c]
      /\ \A i \in DOMAIN inbox[c] : \A q \in AllCallers : ReplyTo(inbox'[c][i], q) <=> ReplyTo(inbox[c][i], q) /\ q # p
      /\ inbox[c] = <<>> => inbox'[c] = <<>>
      /\ \A t : EventsOf(inbox'[c], t) = EventsOf(inbox[c], t)
  BY <1>1, DisownedIs, DisownedEvents
<1>7. ASSUME NEW d \in Clients, NEW i \in DOMAIN inbox'[d], NEW q \in AllCallers, ReplyTo(inbox'[d][i], q)
      PROVE  i \in DOMAIN inbox[d] /\ ReplyTo(inbox[d][i], q) /\ q # p
  <2>1. CASE d = c
    BY <1>6, <1>7, <2>1
  <2>2. CASE d # c
    <3>1. i \in DOMAIN inbox[d] /\ ReplyTo(inbox[d][i], q)
      BY <1>1, <1>7, <2>2
    <3>2. caller[q].client = d
      BY <3>1 DEF TypeInv, RepliesMatch
    <3>. QED BY <2>2, <3>1, <3>2 DEF c
  <2>. QED BY <2>1, <2>2
<1>8. RepliesMatch'
  <2>1. ASSUME NEW d \in Clients, NEW i \in DOMAIN inbox'[d], NEW q \in AllCallers, ReplyTo(inbox'[d][i], q)
        PROVE  caller'[q].at = "replied" /\ caller'[q].client = d
    BY <1>3, <1>7, <2>1 DEF TypeInv, RepliesMatch
  <2>2. ASSUME NEW d \in Clients, NEW i \in DOMAIN inbox'[d], NEW j \in DOMAIN inbox'[d], NEW q \in AllCallers,
               ReplyTo(inbox'[d][i], q), ReplyTo(inbox'[d][j], q)
        PROVE  i = j
    <3>1. i \in DOMAIN inbox[d] /\ ReplyTo(inbox[d][i], q) /\ j \in DOMAIN inbox[d] /\ ReplyTo(inbox[d][j], q)
      BY <1>7, <2>2
    <3>. QED BY <3>1 DEF TypeInv, RepliesMatch
  <2>. QED BY <2>1, <2>2 DEF RepliesMatch
<1>9. QueuesTyped' /\ ConsumersTyped' /\ BlockedOnEvent'
  BY <1>1, <1>2, ConsumersSame DEF TypeInv, QueuesTyped
<1>10. EndedEmpty'
  BY <1>1, <1>2, <1>6 DEF TypeInv, EndedEmpty, StateTyped
<1>11. Numbered'
  <2>1. \A d \in Clients, t \in Threads : EventsOf(inbox'[d], t) = EventsOf(inbox[d], t)
    BY <1>1, <1>6
  <2>. QED BY <1>2, <2>1 DEF TypeInv, Numbered
<1>12. StateTyped'
  BY <1>2, StateSame DEF TypeInv, lock
<1>. QED BY <1>3, <1>4, <1>5, <1>8, <1>9, <1>10, <1>11, <1>12 DEF TypeInv

-------------------------------------------------------------------------------
(* What the app-server does.                                               *)
Replied(p) == [caller[p] EXCEPT !.at = "replied"]

LEMMA ReplyIs ==
  ASSUME TypeInv, NEW p \in AllCallers, NEW result \in {"answered", "refused"}, Reply(p, result)
  PROVE  /\ CallerOk(caller[p]) /\ caller[p].op # "none" /\ caller[p].at = "sent"
         /\ caller[p].client \in Clients /\ caller[p].client # 0 /\ conn[caller[p].client] = "open" /\ caller[p].about \in Threads
         /\ ReplyFor(p, result) \in Frames /\ ReplyFor(p, result).kind = "reply" /\ ReplyFor(p, result).to = p /\ ReplyFor(p, result).result = result
         /\ inbox'[caller[p].client] = Append(inbox[caller[p].client], ReplyFor(p, result)) /\ inbox' \in [Clients -> Seq(Frames)]
         /\ inbox[caller[p].client] \in Seq(Frames)
         /\ \A d \in Clients : d # caller[p].client => inbox'[d] = inbox[d]
         /\ Move(p, Replied(p)) /\ CallerOk(Replied(p))
         /\ Replied(p).op = caller[p].op /\ Replied(p).step = caller[p].step /\ Replied(p).at = "replied" /\ Replied(p).thread = caller[p].thread
         /\ Replied(p).about = caller[p].about /\ Replied(p).home = caller[p].home /\ Replied(p).runtime = caller[p].runtime
         /\ Replied(p).client = caller[p].client /\ Replied(p).todo = caller[p].todo
         /\ Holding(Replied(p)) <=> Holding(caller[p])
         /\ Redialling(Replied(p)) <=> Redialling(caller[p])
         /\ ~Dialled(Replied(p))
<1>. DEFINE c == caller[p].client
            m == ReplyFor(p, result)
            x == Replied(p)
<1>1. CallerOk(caller[p]) /\ caller[p] \in Records /\ caller[p].at = "sent"
  BY DEF Reply, TypeInv, CallersTyped, CallerOk
<1>2. caller[p].op # "none" /\ c \in Clients /\ c # 0 /\ caller[p].about \in Threads /\ conn[c] = "open"
  BY <1>1, IdleOk DEF Reply, CallerOk, Waiting, Records, Clients
<1>3. m \in Frames /\ m.kind = "reply" /\ m.to = p /\ m.result = result
  BY DEF Frames, Replies, ReplyFor
<1>4. inbox' = [inbox EXCEPT ![c] = Append(@, m)]
  BY DEF Reply, ReplyFor
<1>5. /\ inbox'[c] = Append(inbox[c], m) /\ inbox[c] \in Seq(Frames) /\ inbox' \in [Clients -> Seq(Frames)]
      /\ \A d \in Clients : d # c => inbox'[d] = inbox[d]
  BY <1>2, <1>3, <1>4 DEF TypeInv, QueuesTyped
<1>6. /\ x.op = caller[p].op /\ x.step = caller[p].step /\ x.at = "replied" /\ x.thread = caller[p].thread
      /\ x.about = caller[p].about /\ x.home = caller[p].home /\ x.runtime = caller[p].runtime
      /\ x.client = c /\ x.todo = caller[p].todo /\ x \in Records
  BY <1>1 DEF Records, AllPlaces, Replied
<1>7. Move(p, x)
  BY DEF Reply, Goto, Move, Replied
<1>. HIDE DEF x, m
<1>8. StepOf(x) = StepOf(caller[p])
  BY <1>6 DEF StepOf
<1>9. CallerOk(x) /\ ~Dialled(x)
  BY <1>1, <1>2, <1>6, <1>8 DEF CallerOk, Waiting, Dialled
<1>10. (Holding(x) <=> Holding(caller[p])) /\ (Redialling(x) <=> Redialling(caller[p]))
  BY <1>1, <1>2, <1>6, <1>8 DEF Holding, Redialling, Resuming
<1>. QED BY <1>1, <1>2, <1>3, <1>5, <1>6, <1>7, <1>9, <1>10 DEF x, m

LEMMA DoesIs ==
  ASSUME TypeInv, NEW step, NEW c \in Clients, NEW t \in Threads, Does(step, c, t)
  PROVE  sub' \in [Clients -> SUBSET Threads] /\ active' \subseteq Threads
<1>1. sub' \in [Clients -> SUBSET Threads]
  BY DEF Does, TypeInv, StateTyped
<1>2. active' \subseteq Threads
  BY DEF Does, TypeInv, StateTyped
<1>. QED BY <1>1, <1>2

LEMMA ReplyTyped ==
  ASSUME TypeInv, NEW p \in AllCallers, NEW result \in {"answered", "refused"}, Reply(p, result),
         sub' \in [Clients -> SUBSET Threads], active' \subseteq Threads
  PROVE  TypeInv'
<1>. DEFINE c == caller[p].client
            m == ReplyFor(p, result)
            x == Replied(p)
<1>1. /\ caller[p].op # "none" /\ caller[p].at = "sent"
      /\ c \in Clients /\ conn[c] = "open"
      /\ m \in Frames /\ m.kind = "reply" /\ m.to = p
      /\ inbox'[c] = Append(inbox[c], m) /\ inbox' \in [Clients -> Seq(Frames)] /\ inbox[c] \in Seq(Frames)
      /\ \A d \in Clients : d # c => inbox'[d] = inbox[d]
  BY ReplyIs
<1>2. /\ Move(p, x) /\ CallerOk(x) /\ x.at = "replied" /\ x.client = c
      /\ Holding(x) <=> Holding(caller[p])
      /\ Redialling(x) <=> Redialling(caller[p])
      /\ ~Dialled(x)
  BY ReplyIs
<1>3. /\ UNCHANGED <<lock, conn, ended, notes, channel, runner, consumer, bridged, bridge, sent, history>>
  BY DEF Reply
<1>. HIDE DEF m, x
<1>4. CallersTyped' /\ caller'[p] = x /\ \A q \in AllCallers : q # p => caller'[q] = caller[q]
  BY <1>2, MoveIs DEF TypeInv
<1>5. LockHeld'
  BY <1>2, <1>3, LockKept DEF TypeInv, lock
<1>6. OwnedClients'
  <2>1. Owns(x) => Owns(caller[p]) /\ x.client = caller[p].client /\ machine # 0
    BY <1>2 DEF Owns, TypeInv, OwnedClients
  <2>. QED BY <1>2, <1>3, <2>1, OwnedKept DEF TypeInv, lock
<1>7. RepliesMatch'
  <2>1. \A d \in Clients : \A i \in DOMAIN inbox[d] : ~ReplyTo(inbox[d][i], p)
    BY <1>1 DEF TypeInv, RepliesMatch
  <2>2. /\ DOMAIN inbox'[c] = 1 .. Len(inbox[c]) + 1 /\ DOMAIN inbox[c] = 1 .. Len(inbox[c]) /\ Len(inbox[c]) \in Nat
        /\ inbox'[c][Len(inbox[c]) + 1] = m /\ \A i \in 1 .. Len(inbox[c]) : inbox'[c][i] = inbox[c][i]
    BY <1>1
  <2>3. \A q \in AllCallers : ReplyTo(m, q) => q = p
    BY <1>1 DEF ReplyTo
  <2>4. ASSUME NEW d \in Clients, NEW i \in DOMAIN inbox'[d], NEW q \in AllCallers, ReplyTo(inbox'[d][i], q)
        PROVE  /\ caller'[q].at = "replied" /\ caller'[q].client = d
               /\ (q = p /\ d = c /\ i = Len(inbox[c]) + 1)
                  \/ (q # p /\ i \in DOMAIN inbox[d] /\ ReplyTo(inbox[d][i], q))
    <3>1. CASE d = c /\ i = Len(inbox[c]) + 1
      BY <1>2, <1>4, <2>2, <2>3, <2>4, <3>1
    <3>2. CASE ~(d = c /\ i = Len(inbox[c]) + 1)
      <4>1. i \in DOMAIN inbox[d] /\ ReplyTo(inbox[d][i], q)
        <5>1. CASE d = c
          <6>1. i \in 1 .. Len(inbox[c])
            BY SMTT(60), <2>2, <2>4, <3>2, <5>1
          <6>. QED BY <2>2, <2>4, <5>1, <6>1
        <5>2. CASE d # c
          BY <1>1, <2>4, <5>2
        <5>. QED BY <5>1, <5>2
      <4>. QED BY <1>4, <2>1, <4>1 DEF TypeInv, RepliesMatch
    <3>. QED BY <3>1, <3>2
  <2>5. ASSUME NEW d \in Clients, NEW i \in DOMAIN inbox'[d], NEW j \in DOMAIN inbox'[d], NEW q \in AllCallers,
               ReplyTo(inbox'[d][i], q), ReplyTo(inbox'[d][j], q)
        PROVE  i = j
    <3>1. CASE q = p
      BY <2>4, <2>5, <3>1
    <3>2. CASE q # p
      BY <2>4, <2>5, <3>2 DEF TypeInv, RepliesMatch
    <3>. QED BY <3>1, <3>2
  <2>. QED BY <2>4, <2>5 DEF RepliesMatch
<1>8. QueuesTyped' /\ ConsumersTyped' /\ BlockedOnEvent'
  BY <1>1, <1>3, ConsumersSame DEF TypeInv, QueuesTyped, history
<1>9. EndedEmpty'
  BY <1>1, <1>3 DEF TypeInv, EndedEmpty, StateTyped
<1>10. Numbered'
  <2>1. \A t \in Threads : EventsOf(inbox'[c], t) = EventsOf(inbox[c], t)
    <3>1. \A t \in Threads : ~IsEvent(m, t)
      BY <1>1 DEF IsEvent
    <3>2. \A t \in Threads : EventsOf(inbox'[c], t) = EventsOf(inbox[c], t) \cup (IF IsEvent(m, t) THEN {m.n} ELSE {})
      BY <1>1, AppendEvents
    <3>. QED BY <3>1, <3>2
  <2>. QED BY ZenonT(60), <1>1, <1>3, <2>1 DEF TypeInv, Numbered, history
<1>11. StateTyped'
  BY <1>3 DEF TypeInv, StateTyped, lock
<1>. QED BY <1>4, <1>5, <1>6, <1>7, <1>8, <1>9, <1>10, <1>11 DEF TypeInv

LEMMA ServeTyped ==
  ASSUME TypeInv, NEW p \in AllCallers, Serve(p)
  PROVE  TypeInv'
<1>1. caller[p].about \in Threads /\ caller[p].client \in Clients
  BY ReplyIs DEF Serve
<1>2. sub' \in [Clients -> SUBSET Threads] /\ active' \subseteq Threads
  BY <1>1, DoesIs DEF Serve
<1>. QED BY <1>2, ReplyTyped DEF Serve

(* A call that nobody waits for is served, and answered to nobody.         *)
LEMMA ServeAbandonedTyped ==
  ASSUME TypeInv, NEW a \in Given, ServeAbandoned(a)
  PROVE  TypeInv'
<1>. DEFINE c == a.client
            m == ReplyFor(NoOne, "answered")
<1>1. c \in Clients /\ conn[c] = "open" /\ inbox[c] \in Seq(Frames)
      /\ m \in Frames /\ (\A q \in AllCallers : ~ReplyTo(m, q))
      /\ \A t : ~IsEvent(m, t)
  BY LoopIsNoCaller DEF Given, ServeAbandoned, TypeInv, QueuesTyped, Frames, Replies, ReplyFor, ReplyTo, IsEvent
<1>2. inbox' = [inbox EXCEPT ![c] = Append(@, m)]
  BY DEF ServeAbandoned
<1>3. UNCHANGED <<lock, conn, ended, notes, channel, runner, goroutines, sent, history, budget>>
  BY DEF ServeAbandoned
<1>4. sub' \in [Clients -> SUBSET Threads] /\ active' \subseteq Threads
  BY DoesIs DEF ServeAbandoned, Given
<1>. HIDE DEF m, c
<1>5. /\ inbox'[c] = Append(inbox[c], m) /\ inbox' \in [Clients -> Seq(Frames)]
      /\ \A d \in Clients : d # c => inbox'[d] = inbox[d]
  BY <1>1, <1>2 DEF TypeInv, QueuesTyped
<1>6. StateTyped' /\ CallersTyped' /\ LockHeld' /\ OwnedClients'
  BY <1>3, <1>4, CallersSame DEF TypeInv, StateTyped, lock, goroutines
<1>7. QueuesTyped' /\ ConsumersTyped' /\ BlockedOnEvent'
  BY <1>3, <1>5, ConsumersSame DEF TypeInv, QueuesTyped, goroutines, history
<1>8. EndedEmpty'
  <2>1. c \notin ended
    BY <1>1 DEF TypeInv, EndedEmpty
  <2>2. ended' = ended /\ conn' = conn
    BY <1>3
  <2>. QED BY <1>5, <2>1, <2>2 DEF TypeInv, EndedEmpty, StateTyped
<1>9. ASSUME NEW d \in Clients, NEW i \in DOMAIN inbox'[d], NEW q \in AllCallers, ReplyTo(inbox'[d][i], q)
      PROVE  i \in DOMAIN inbox[d] /\ ReplyTo(inbox[d][i], q)
  <2>1. CASE d = c
    <3>1. i \in 1 .. Len(inbox[c]) + 1 /\ Len(inbox[c]) \in Nat /\ DOMAIN inbox[c] = 1 .. Len(inbox[c])
          /\ inbox'[c][Len(inbox[c]) + 1] = m /\ \A j \in 1 .. Len(inbox[c]) : inbox'[c][j] = inbox[c][j]
      BY <1>1, <1>5, <1>9, <2>1
    <3>2. i # Len(inbox[c]) + 1
      BY <1>1, <1>9, <2>1, <3>1
    <3>. QED BY <1>9, <2>1, <3>1, <3>2
  <2>2. CASE d # c
    BY <1>5, <1>9, <2>2
  <2>. QED BY <2>1, <2>2
<1>10. RepliesMatch'
  <2>1. caller' = caller
    BY <1>3 DEF goroutines
  <2>2. ASSUME NEW d \in Clients, NEW i \in DOMAIN inbox'[d], NEW q \in AllCallers, ReplyTo(inbox'[d][i], q)
        PROVE  caller'[q].at = "replied" /\ caller'[q].client = d
    BY <1>9, <2>1, <2>2 DEF TypeInv, RepliesMatch
  <2>3. ASSUME NEW d \in Clients, NEW i \in DOMAIN inbox'[d], NEW j \in DOMAIN inbox'[d], NEW q \in AllCallers,
               ReplyTo(inbox'[d][i], q), ReplyTo(inbox'[d][j], q)
        PROVE  i = j
    <3>1. i \in DOMAIN inbox[d] /\ ReplyTo(inbox[d][i], q) /\ j \in DOMAIN inbox[d] /\ ReplyTo(inbox[d][j], q)
      BY <1>9, <2>3
    <3>. QED BY <3>1 DEF TypeInv, RepliesMatch
  <2>. QED BY <2>2, <2>3 DEF RepliesMatch
<1>11. Numbered'
  <2>1. \A d \in Clients, t \in Threads : EventsOf(inbox'[d], t) = EventsOf(inbox[d], t)
    <3>1. \A t \in Threads : EventsOf(inbox'[c], t) = EventsOf(inbox[c], t) \cup (IF IsEvent(m, t) THEN {m.n} ELSE {})
      BY <1>1, <1>5, AppendEvents
    <3>2. \A t \in Threads : EventsOf(inbox'[c], t) = EventsOf(inbox[c], t)
      <4>1. \A t \in Threads : (IF IsEvent(m, t) THEN {m.n} ELSE {}) = {}
        <5>1. \A t \in Threads : ~IsEvent(m, t)
          BY <1>1
        <5>. QED BY <5>1
      <4>. QED BY <3>1, <4>1
    <3>. QED BY <1>5, <3>2
  <2>. QED BY <1>3, <2>1 DEF TypeInv, Numbered, history
<1>. QED BY <1>6, <1>7, <1>8, <1>10, <1>11 DEF TypeInv

LEMMA RefuseTyped ==
  ASSUME TypeInv, NEW p \in AllCallers, Refuse(p)
  PROVE  TypeInv'
  BY ReplyTyped DEF Refuse, TypeInv, StateTyped

(* A notification reaches every connection that is subscribed.             *)
LEMMA NotifyIs ==
  ASSUME TypeInv, NEW t \in Threads, NEW m \in Frames, Notify(t, m), NEW c \in Clients
  PROVE  /\ inbox' \in [Clients -> Seq(Frames)] /\ inbox[c] \in Seq(Frames)
         /\ \/ conn[c] = "open" /\ t \in sub[c] /\ inbox'[c] = Append(inbox[c], m)
            \/ inbox'[c] = inbox[c] /\ ~(conn[c] = "open" /\ t \in sub[c])
<1>1. inbox' = [d \in Clients |-> IF conn[d] = "open" /\ t \in sub[d] THEN Append(inbox[d], m) ELSE inbox[d]]
  BY DEF Notify
<1>2. \A d \in Clients : inbox[d] \in Seq(Frames) /\ Append(inbox[d], m) \in Seq(Frames)
  BY DEF TypeInv, QueuesTyped
<1>. QED BY <1>1, <1>2

LEMMA NotifyTyped ==
  ASSUME TypeInv, NEW t \in Threads, NEW m \in Frames, m.kind # "reply", Notify(t, m),
         sent' \in [Threads -> Nat], \A u \in Threads : sent'[u] >= sent[u],
         \A u \in Threads : IsEvent(m, u) => m.n \in 1 .. sent'[u]
  PROVE  TypeInv'
<1>1. UNCHANGED <<lock, conn, ended, notes, channel, runner, goroutines, sub, active, history, ops, breaks, faults>>
  BY DEF Notify
<1>2. QueuesTyped' /\ ConsumersTyped' /\ BlockedOnEvent'
  <2>1. inbox' = [d \in Clients |-> IF conn[d] = "open" /\ t \in sub[d] THEN Append(inbox[d], m) ELSE inbox[d]]
    BY DEF Notify
  <2>2. \A d \in Clients : inbox[d] \in Seq(Frames) /\ Append(inbox[d], m) \in Seq(Frames)
    BY DEF TypeInv, QueuesTyped
  <2>3. inbox' \in [Clients -> Seq(Frames)]
    BY <2>1, <2>2
  <2>. QED BY <1>1, <2>3, ConsumersSame DEF TypeInv, QueuesTyped, goroutines, history
<1>3. StateTyped' /\ CallersTyped' /\ LockHeld' /\ OwnedClients'
  BY <1>1, StateSame, CallersSame DEF TypeInv, lock, goroutines
<1>4. EndedEmpty'
  BY <1>1, NotifyIs DEF TypeInv, EndedEmpty, StateTyped
<1>5. ASSUME NEW c \in Clients, NEW i \in DOMAIN inbox'[c], NEW p \in AllCallers, ReplyTo(inbox'[c][i], p)
      PROVE  i \in DOMAIN inbox[c] /\ inbox'[c][i] = inbox[c][i]
  <2>1. CASE inbox'[c] = inbox[c]
    BY <1>5, <2>1
  <2>2. CASE inbox'[c] = Append(inbox[c], m)
    <3>1. i \in 1 .. Len(inbox[c]) + 1 /\ Len(inbox[c]) \in Nat /\ DOMAIN inbox[c] = 1 .. Len(inbox[c])
          /\ inbox'[c][Len(inbox[c]) + 1] = m /\ \A j \in 1 .. Len(inbox[c]) : inbox'[c][j] = inbox[c][j]
      BY <1>5, <2>2, NotifyIs
    <3>2. i # Len(inbox[c]) + 1
      BY <1>5, <3>1 DEF ReplyTo
    <3>. QED BY <3>1, <3>2
  <2>. QED BY <2>1, <2>2, NotifyIs
<1>6. RepliesMatch'
  <2>1. caller' = caller
    BY <1>1 DEF goroutines
  <2>2. ASSUME NEW c \in Clients, NEW i \in DOMAIN inbox'[c], NEW p \in AllCallers, ReplyTo(inbox'[c][i], p)
        PROVE  caller'[p].at = "replied" /\ caller'[p].client = c
    BY <1>5, <2>1, <2>2 DEF TypeInv, RepliesMatch
  <2>3. ASSUME NEW c \in Clients, NEW i \in DOMAIN inbox'[c], NEW j \in DOMAIN inbox'[c], NEW p \in AllCallers,
               ReplyTo(inbox'[c][i], p), ReplyTo(inbox'[c][j], p)
        PROVE  i = j
    <3>1. /\ i \in DOMAIN inbox[c] /\ ReplyTo(inbox[c][i], p)
          /\ j \in DOMAIN inbox[c] /\ ReplyTo(inbox[c][j], p)
      BY <1>5, <2>3
    <3>. QED BY <3>1 DEF TypeInv, RepliesMatch
  <2>. QED BY <2>2, <2>3 DEF RepliesMatch
<1>7. Numbered'
  <2>1. UNCHANGED <<runner, notes, channel, got, lost>>
    BY <1>1 DEF history
  <2>2. ASSUME NEW c \in Clients, NEW u \in Threads
        PROVE  EventsOf(inbox'[c], u) \subseteq 1 .. sent'[u]
    <3>1. EventsOf(inbox[c], u) \subseteq 1 .. sent'[u] /\ sent'[u] \in Nat
      BY SMTT(60) DEF TypeInv, Numbered
    <3>2. CASE inbox'[c] = Append(inbox[c], m)
      <4>1. EventsOf(inbox'[c], u) = EventsOf(inbox[c], u) \cup (IF IsEvent(m, u) THEN {m.n} ELSE {})
        BY <3>2, NotifyIs, AppendEvents
      <4>. QED BY <3>1, <4>1
    <3>3. CASE inbox'[c] = inbox[c]
      BY <3>1, <3>3
    <3>. QED BY <3>2, <3>3, NotifyIs
  <2>3. ASSUME NEW u \in Threads
        PROVE  /\ sent'[u] \in Nat /\ sent[u] \in Nat /\ got'[u] <= sent'[u]
               /\ 1 .. sent[u] \subseteq 1 .. sent'[u]
    BY <2>1 DEF TypeInv, Numbered
  <2>. QED BY <2>1, <2>2, <2>3 DEF TypeInv, Numbered
<1>. QED BY <1>2, <1>3, <1>4, <1>6, <1>7 DEF TypeInv

EventFrame(t) == [kind |-> "event", thread |-> t, n |-> sent'[t]]
DeltaFrame(t) == [kind |-> "delta", thread |-> t]

LEMMA EventIs ==
  ASSUME TypeInv, NEW t \in Threads, Event(t)
  PROVE  /\ sent' \in [Threads -> Nat] /\ sent'[t] = sent[t] + 1 /\ \A u \in Threads : u # t => sent'[u] = sent[u]
         /\ EventFrame(t) \in Frames /\ EventFrame(t).kind = "event" /\ EventFrame(t).n = sent[t] + 1
         /\ \A u \in Threads : IsEvent(EventFrame(t), u) <=> u = t
         /\ Notify(t, EventFrame(t))
<1>1. sent' \in [Threads -> Nat] /\ sent'[t] = sent[t] + 1 /\ \A u \in Threads : u # t => sent'[u] = sent[u]
  BY DEF Event, TypeInv, Numbered
<1>2. EventFrame(t) \in Frames /\ EventFrame(t).kind = "event" /\ EventFrame(t).n = sent[t] + 1 /\ EventFrame(t).thread = t
  BY <1>1 DEF EventFrame, Frames, EventsFor
<1>3. Notify(t, EventFrame(t))
  BY DEF Event, EventFrame
<1>. QED BY <1>1, <1>2, <1>3 DEF IsEvent

LEMMA EventTyped ==
  ASSUME TypeInv, NEW t \in Threads, Event(t)
  PROVE  TypeInv'
<1>. DEFINE m == EventFrame(t)
<1>1. /\ sent' \in [Threads -> Nat] /\ sent'[t] = sent[t] + 1 /\ \A u \in Threads : u # t => sent'[u] = sent[u]
      /\ m \in Frames /\ m.kind = "event" /\ m.n = sent[t] + 1
      /\ \A u \in Threads : IsEvent(m, u) <=> u = t
      /\ Notify(t, m)
  BY EventIs
<1>2. \A u \in Threads : sent[u] \in Nat
  BY DEF TypeInv, Numbered
<1>. HIDE DEF m
<1>. QED BY <1>1, <1>2, NotifyTyped

LEMMA DeltaIs ==
  ASSUME NEW t \in Threads, Delta(t)
  PROVE  /\ DeltaFrame(t) \in Frames /\ DeltaFrame(t).kind = "delta"
         /\ \A u : ~IsEvent(DeltaFrame(t), u)
         /\ Notify(t, DeltaFrame(t)) /\ sent' = sent
<1>1. DeltaFrame(t) \in Frames /\ DeltaFrame(t).kind = "delta"
  BY DEF DeltaFrame, Frames, Deltas
<1>2. Notify(t, DeltaFrame(t)) /\ sent' = sent
  BY DEF Delta, DeltaFrame
<1>. QED BY <1>1, <1>2 DEF IsEvent

LEMMA DeltaTyped ==
  ASSUME TypeInv, NEW t \in Threads, Delta(t)
  PROVE  TypeInv'
<1>1. \A u \in Threads : sent[u] \in Nat
  BY DEF TypeInv, Numbered
<1>. QED BY <1>1, DeltaIs, NotifyTyped DEF TypeInv, Numbered

LEMMA BreakTyped ==
  ASSUME TypeInv, NEW c \in Clients, Break(c)
  PROVE  TypeInv'
<1>. DEFINE s == inbox[c]
<1>1. PICK n \in 0 .. Len(s) :
        /\ inbox' = [inbox EXCEPT ![c] = SubSeq(@, 1, n)]
        /\ lost' = [t \in Threads |-> lost[t] \cup EventsOf(SubSeq(s, n + 1, Len(s)), t)]
  BY DEF Break
<1>2. /\ conn[c] = "open" /\ conn' = [conn EXCEPT ![c] = "broken"]
      /\ UNCHANGED <<lock, ended, notes, channel, runner, goroutines, codex, got, raced, panicked, ops, notified, faults>>
  BY DEF Break
<1>. DEFINE u == SubSeq(s, 1, n)
            v == SubSeq(s, n + 1, Len(s))
<1>3. s \in Seq(Frames)
  BY DEF TypeInv, QueuesTyped
<1>4. /\ u \in Seq(Frames) /\ DOMAIN s = 1 .. Len(s) /\ Len(s) \in Nat
      /\ DOMAIN u = 1 .. n /\ \A i \in 1 .. n : u[i] = s[i]
  BY <1>3, CutIs
<1>5. ASSUME NEW t PROVE EventsOf(s, t) = EventsOf(u, t) \cup EventsOf(v, t)
  <2>. HIDE DEF s
  <2>. QED BY <1>3, CutEvents
<1>6. /\ inbox' = [inbox EXCEPT ![c] = u]
      /\ lost' = [t \in Threads |-> lost[t] \cup EventsOf(v, t)]
  BY <1>1
<1>. HIDE DEF u, v
<1>7. /\ inbox' \in [Clients -> Seq(Frames)] /\ inbox'[c] = u
      /\ \A d \in Clients : d # c => inbox'[d] = inbox[d]
  BY <1>4, <1>6 DEF TypeInv, QueuesTyped
<1>8. /\ conn' \in [Clients -> {"unused", "open", "broken"}]
      /\ conn'[c] = "broken" /\ \A d \in Clients : d # c => conn'[d] = conn[d]
  BY <1>2 DEF TypeInv, StateTyped
<1>9. StateTyped'
  BY <1>2, <1>8 DEF TypeInv, StateTyped, lock, codex, goroutines
<1>10. QueuesTyped' /\ ConsumersTyped' /\ BlockedOnEvent' /\ CallersTyped' /\ LockHeld'
  BY <1>2, <1>7, ConsumersSame DEF TypeInv, QueuesTyped, CallersTyped, LockHeld, goroutines, lock
<1>11. OwnedClients'
  <2>. UNCHANGED <<caller, consumer, machine>>
    BY <1>2 DEF goroutines, lock
  <2>. QED BY <1>2, <1>8 DEF TypeInv, OwnedClients
<1>12. RepliesMatch'
  <2>1. caller' = caller
    BY <1>2 DEF goroutines
  <2>2. \A d \in Clients : \A i \in DOMAIN inbox'[d] : i \in DOMAIN inbox[d] /\ inbox'[d][i] = inbox[d][i]
    BY <1>4, <1>7
  <2>. QED BY <2>1, <2>2 DEF TypeInv, RepliesMatch
<1>13. EndedEmpty'
  <2>1. c \notin ended
    BY <1>2 DEF TypeInv, EndedEmpty
  <2>. QED BY <1>2, <1>7, <1>8, <2>1 DEF TypeInv, EndedEmpty, StateTyped
<1>14. Numbered'
  <2>1. UNCHANGED <<sent, got, notes, channel, runner>>
    BY <1>2 DEF codex
  <2>2. \A t \in Threads : EventsOf(s, t) \subseteq 1 .. sent[t] /\ sent[t] \in Nat /\ lost[t] \subseteq 1 .. sent[t]
    BY DEF TypeInv, Numbered
  <2>. HIDE DEF s
  <2>3. lost' \in [Threads -> SUBSET Nat] /\ \A t \in Threads : lost'[t] \subseteq 1 .. sent[t]
    BY <1>5, <1>6, <2>2
  <2>4. \A t \in Threads : EventsOf(inbox'[c], t) \subseteq 1 .. sent[t]
    BY <1>5, <1>7, <2>2
  <2>. QED BY <1>7, <2>1, <2>3, <2>4 DEF TypeInv, Numbered
<1>. QED BY <1>9, <1>10, <1>11, <1>12, <1>13, <1>14 DEF TypeInv

-------------------------------------------------------------------------------
(* Most steps leave the calls that were given up alone.                    *)
GivenSame == abandoned' = abandoned /\ forsaken' = forsaken

LEMMA StepsGive == ASSUME NEW p \in AllCallers, Steps(p) PROVE GivenSame
<1>1. CASE EnsureAlive(p) BY <1>1 DEF EnsureAlive, codex, history, GivenSame
<1>2. CASE Dial(p) BY <1>2 DEF Dial, codex, history, GivenSame
<1>3. CASE DialFails(p) BY <1>3 DEF DialFails, codex, history, GivenSame
<1>4. CASE Install(p) BY <1>4 DEF Install, codex, GivenSame
<1>5. CASE Reinstall(p) BY <1>5 DEF Reinstall, codex, GivenSame
<1>6. CASE ResumeNext(p) BY <1>6 DEF ResumeNext, codex, history, GivenSame
<1>7. CASE ResumeFails(p) BY <1>7 DEF ResumeFails, codex, history, GivenSame
<1>8. CASE ResumedAll(p) BY <1>8 DEF ResumedAll, codex, history, GivenSame
<1>9. CASE CallMethod(p) BY <1>9 DEF CallMethod, codex, history, GivenSame
<1>10. CASE Respond(p) BY <1>10 DEF Respond, codex, history, GivenSame
<1>11. CASE Watch(p) BY <1>11 DEF Watch, codex, history, GivenSame
<1>12. CASE ResumeWatched(p) BY <1>12 DEF ResumeWatched, codex, history, GivenSame
<1>13. CASE Resume(p) BY <1>13 DEF Resume, codex, history, GivenSame
<1>14. CASE ResumeReturns(p) BY <1>14 DEF ResumeReturns, codex, history, GivenSame
<1>15. CASE Mark(p) BY <1>15 DEF Mark, codex, history, GivenSame
<1>16. CASE StartBridge(p) BY <1>16 DEF StartBridge, codex, history, GivenSame
<1>17. CASE Forget(p) BY <1>17 DEF Forget, codex, history, GivenSame
<1>18. CASE Snapshot(p) BY <1>18 DEF Snapshot, codex, history, GivenSame
<1>19. CASE NilClient(p) BY <1>19 DEF NilClient, codex, GivenSame
<1>. QED BY <1>1, <1>2, <1>3, <1>4, <1>5, <1>6, <1>7, <1>8, <1>9, <1>10, <1>11, <1>12, <1>13, <1>14, <1>15, <1>16, <1>17,
            <1>18, <1>19 DEF Steps, Ensure

LEMMA MovesGive == ASSUME Moves PROVE GivenSame
<1>1. ASSUME NEW c \in Clients, Publish(c) PROVE GivenSame BY <1>1 DEF Publish, codex, history, GivenSame
<1>2. ASSUME NEW c \in Clients, RouteResponse(c) PROVE GivenSame BY <1>2 DEF RouteResponse, codex, history, GivenSame
<1>3. ASSUME NEW c \in Clients, ReadEnds(c) PROVE GivenSame BY <1>3 DEF ReadEnds, codex, history, GivenSame
<1>4. ASSUME NEW c \in Clients, StartConsumer(c) PROVE GivenSame BY <1>4 DEF StartConsumer, codex, GivenSame
<1>5. ASSUME NEW c \in Clients, Apply(c) PROVE GivenSame BY <1>5 DEF Apply, codex, history, GivenSame
<1>6. ASSUME NEW c \in Clients, ApplyBlocks(c) PROVE GivenSame BY <1>6 DEF ApplyBlocks, codex, history, GivenSame
<1>7. ASSUME NEW c \in Clients, ApplyUnblocks(c) PROVE GivenSame BY <1>7 DEF ApplyUnblocks, codex, history, GivenSame
<1>8. ASSUME NEW c \in Clients, EndConsumer(c) PROVE GivenSame BY <1>8 DEF EndConsumer, codex, GivenSame
<1>9. ASSUME NEW t \in Threads, BridgeEvent(t) PROVE GivenSame BY <1>9 DEF BridgeEvent, codex, history, GivenSame
<1>10. CASE Receive BY <1>10 DEF Receive, codex, GivenSame
<1>. QED BY <1>1, <1>2, <1>3, <1>4, <1>5, <1>6, <1>7, <1>8, <1>9, <1>10 DEF Moves

LEMMA CodexGives == ASSUME CodexSteps PROVE abandoned' \subseteq abandoned /\ forsaken' = forsaken
<1>. DEFINE G == abandoned' \subseteq abandoned /\ forsaken' = forsaken
<1>1. ASSUME NEW p \in AllCallers, NEW how, Reply(p, how) PROVE G
  BY <1>1 DEF Reply, history
<1>2. ASSUME NEW p \in AllCallers, Serve(p) \/ Refuse(p) PROVE G
  BY <1>1, <1>2 DEF Serve, Refuse
<1>3. ASSUME NEW a \in abandoned, ServeAbandoned(a) PROVE G
  BY <1>3 DEF ServeAbandoned, history
<1>4. ASSUME NEW t \in Threads, NEW m, Notify(t, m) PROVE G
  BY <1>4 DEF Notify, history
<1>5. ASSUME NEW t \in Threads, Event(t) \/ Delta(t) PROVE G
  BY <1>4, <1>5 DEF Event, Delta
<1>6. ASSUME NEW c \in Clients, Break(c) PROVE G
  BY <1>6 DEF Break, codex
<1>. QED BY <1>2, <1>3, <1>5, <1>6 DEF CodexSteps

LEMMA InitTyped == Init => TypeInv
<1>. SUFFICES ASSUME Init PROVE TypeInv
  OBVIOUS
<1>1. StateTyped
  BY OldAreThreads DEF Init, StateTyped
<1>2. QueuesTyped
  BY CapacitiesArePositive DEF Init, QueuesTyped
<1>3. ConsumersTyped /\ BlockedOnEvent
  BY DEF Init, ConsumersTyped, BlockedOnEvent, Consumers
<1>4. \A p \in AllCallers : caller[p] = Idle
  BY DEF Init
<1>5. CallersTyped
  BY <1>4, IdleOk DEF Init, CallersTyped, CallerOk
<1>6. LockHeld
  BY <1>4, IdleOk, LoopIsNoCaller DEF Init, LockHeld
<1>7. OwnedClients
  BY <1>4, IdleOk DEF Init, OwnedClients, Owns
<1>8. RepliesMatch /\ EndedEmpty
  BY DEF Init, RepliesMatch, EndedEmpty
<1>9. Numbered
  BY EmptyQueue DEF Init, Numbered
<1>. QED BY <1>1, <1>2, <1>3, <1>5, <1>6, <1>7, <1>8, <1>9 DEF TypeInv

LEMMA GivenKept == TypeInv /\ GivenTyped /\ [Next]_vars => GivenTyped'
<1>. SUFFICES ASSUME TypeInv, GivenTyped, [Next]_vars PROVE GivenTyped'
  OBVIOUS
<1>1. ASSUME NEW p \in AllCallers, NEW op \in Ops, NEW t \in Threads, Begin(p, op, t) PROVE GivenTyped'
  BY <1>1 DEF Begin, GivenTyped, codex, history
<1>2. ASSUME NEW p \in AllCallers, Steps(p) PROVE GivenTyped'
  BY <1>2, StepsGive DEF GivenTyped, GivenSame
<1>3. ASSUME NEW p \in Callers, Cancel(p) PROVE GivenTyped'
  <2>1. /\ caller[p].client \in Clients /\ caller[p].about \in Threads /\ caller[p].thread \in Threads
        /\ Step(p) \in Methods \cup {"ensure", "resume"}
    BY <1>3, CancelIs DEF AllCallers, StepOf, Step
  <2>2. [client |-> caller[p].client, step |-> Step(p), about |-> caller[p].about] \in Given
    BY <2>1 DEF Given
  <2>. QED BY <1>3, <2>1, <2>2 DEF Cancel, GivenTyped
<1>4. CASE Moves
  BY <1>4, MovesGive DEF GivenTyped, GivenSame
<1>5. CASE CodexSteps
  BY <1>5, CodexGives DEF GivenTyped
<1>6. CASE UNCHANGED vars
  BY <1>6 DEF GivenTyped, vars, codex, history
<1>. QED BY <1>1, <1>2, <1>3, <1>4, <1>5, <1>6 DEF Next

LEMMA NextTyped == TypeInv /\ GivenTyped /\ [Next]_vars => TypeInv' /\ GivenTyped'
<1>. SUFFICES ASSUME TypeInv, GivenTyped, [Next]_vars PROVE TypeInv'
  BY GivenKept
<1>1. ASSUME NEW p \in AllCallers, NEW op \in Ops, NEW t \in Threads, Begin(p, op, t) PROVE TypeInv'
  BY <1>1, BeginTyped
<1>2. ASSUME NEW p \in AllCallers, Steps(p) PROVE TypeInv'
  BY <1>2, StepsTyped
<1>3. CASE Moves
  BY <1>3, MovesTyped
<1>4. CASE CodexSteps
  BY <1>4, ServeTyped, RefuseTyped, ServeAbandonedTyped, EventTyped, DeltaTyped, BreakTyped DEF CodexSteps, GivenTyped
<1>5. CASE UNCHANGED vars
  <2>1. /\ StateTyped' /\ QueuesTyped' /\ EndedEmpty' /\ Numbered'
        /\ ConsumersTyped' /\ BlockedOnEvent' /\ CallersTyped' /\ LockHeld' /\ OwnedClients'
    BY <1>5, StateSame, QueuesSame, ConsumersSame, CallersSame
    DEF TypeInv, vars, lock, pipe, goroutines, codex, history, budget
  <2>2. RepliesMatch'
    BY <1>5 DEF TypeInv, RepliesMatch, vars, pipe, goroutines
  <2>. QED BY <2>1, <2>2 DEF TypeInv
<1>6. ASSUME NEW p \in Callers, Cancel(p) PROVE TypeInv'
  BY <1>6, CancelTyped DEF AllCallers
<1>. QED BY <1>1, <1>2, <1>3, <1>4, <1>5, <1>6 DEF Next

LEMMA ManagerInvariant == Spec => [](TypeInv /\ GivenTyped)
<1>1. Init => GivenTyped
  BY DEF Init, GivenTyped
<1>. QED BY <1>1, InitTyped, NextTyped, PTL DEF Spec

(* Whatever is called, dialled, sent and broken, and in whatever order:    *)
(* every part of the manager's state has its type, the loop has not        *)
(* received what was not sent, and no channel of client.go, snapshot.go or *)
(* appserver_runner.go holds more than make gave it room for.              *)
THEOREM ManagerIsTyped == Spec => []TypeOK
<1>1. TypeInv /\ GivenTyped => TypeOK
  BY DEF TypeInv, StateTyped, QueuesTyped, Numbered, GivenTyped, TypeOK
<1>. QED BY <1>1, ManagerInvariant, PTL

-------------------------------------------------------------------------------
(* How the events of a thread move along.  Each lemma is about one move.   *)
LEMMA EventNumbers ==
  ASSUME NEW t, NEW s, s \in Seq(Frames) \/ s \in Seq(EventsFor(Threads)) \/ s \in Seq(EventsFor({t}))
  PROVE  EventsOf(s, t) \in SUBSET Nat
<1>1. SUFFICES ASSUME NEW i \in DOMAIN s, IsEvent(s[i], t) PROVE s[i].n \in Nat
  BY DEF EventsOf
<1>2. s[i] \in Frames \/ s[i] \in EventsFor(Threads) \/ s[i] \in EventsFor({t})
  BY <1>1
<1>. QED BY <1>1, <1>2 DEF IsEvent, Frames, Replies, EventsFor, Deltas

LEMMA PublishedPipe ==
  ASSUME NEW a, NEW b, NEW c \in Seq(Frames), NEW d \in Seq(Frames), d # <<>>,
         NEW t, NEW g, NEW s, NEW l, Pipeline(a, b, c, d, t, g, s, l)
  PROVE  Pipeline(a, b, Append(c, Head(d)), Tail(d), t, g, s, l)
<1>. DEFINE m == Head(d)
            c1 == Append(c, m)
            d1 == Tail(d)
<1>1. m \in Frames
  BY TailIs
<1>2. EventsOf(c1, t) = EventsOf(c, t) \cup (IF IsEvent(m, t) THEN {m.n} ELSE {})
  BY <1>1, AppendEvents
<1>3. EventsOf(d, t) = EventsOf(d1, t) \cup (IF IsEvent(m, t) THEN {m.n} ELSE {})
  BY TailEvents
<1>4. InOrder(d1, t) /\ (IsEvent(m, t) => Below({m.n}, EventsOf(d1, t)))
  BY TailInOrder DEF Pipeline
<1>5. InOrder(c1, t)
  BY <1>1, <1>3, AppendInOrder DEF Pipeline, Below
<1>. HIDE DEF c1, d1, m
<1>6. Pipeline(a, b, c1, d1, t, g, s, l)
  BY <1>2, <1>3, <1>4, <1>5 DEF Pipeline, Below
<1>. QED BY <1>6 DEF c1, d1, m

LEMMA RoutedPipe ==
  ASSUME NEW a, NEW b, NEW c, NEW d \in Seq(Frames), d # <<>>,
         NEW t, NEW g, NEW s, NEW l, Pipeline(a, b, c, d, t, g, s, l), ~IsEvent(Head(d), t)
  PROVE  Pipeline(a, b, c, Tail(d), t, g, s, l)
<1>. DEFINE d1 == Tail(d)
<1>1. EventsOf(d, t) = EventsOf(d1, t)
  BY ZenonT(60), TailEvents
<1>2. InOrder(d1, t)
  BY TailInOrder DEF Pipeline
<1>. HIDE DEF d1
<1>3. Pipeline(a, b, c, d1, t, g, s, l)
  BY <1>1, <1>2 DEF Pipeline
<1>. QED BY <1>3 DEF d1

LEMMA AppliedPipe ==
  ASSUME NEW t, NEW a, NEW b \in Seq(EventsFor({t})), NEW c \in Seq(Frames), c # <<>>, NEW d,
         NEW g, NEW s, NEW l, Pipeline(a, b, c, d, t, g, s, l)
  PROVE  /\ IsEvent(Head(c), t) /\ Head(c) \in EventsFor({t}) => Pipeline(a, Append(b, Head(c)), Tail(c), d, t, g, s, l)
         /\ ~IsEvent(Head(c), t) => Pipeline(a, b, Tail(c), d, t, g, s, l)
<1>. DEFINE m == Head(c)
            b1 == Append(b, m)
            c1 == Tail(c)
<1>1. EventsOf(c, t) = EventsOf(c1, t) \cup (IF IsEvent(m, t) THEN {m.n} ELSE {})
  BY TailEvents
<1>2. InOrder(c1, t) /\ (IsEvent(m, t) => Below({m.n}, EventsOf(c1, t)))
  BY TailInOrder DEF Pipeline
<1>3. CASE IsEvent(m, t) /\ m \in EventsFor({t})
  <2>1. EventsOf(b1, t) = EventsOf(b, t) \cup {m.n}
    BY <1>3, AppendEvents
  <2>2. InOrder(b1, t)
    BY <1>1, <1>3, AppendInOrder DEF Pipeline, Below
  <2>. HIDE DEF b1, c1, m
  <2>3. Pipeline(a, b1, c1, d, t, g, s, l)
    BY <2>1, <2>2, <1>1, <1>2, <1>3 DEF Pipeline, Below
  <2>. QED BY <2>3, <1>3 DEF b1, c1, m
<1>4. CASE ~IsEvent(m, t)
  <2>. HIDE DEF b1, c1, m
  <2>1. Pipeline(a, b, c1, d, t, g, s, l)
    BY <1>1, <1>2, <1>4 DEF Pipeline
  <2>. QED BY <2>1, <1>4 DEF b1, c1, m
<1>. QED BY <1>3, <1>4

LEMMA BridgedPipe ==
  ASSUME NEW t \in Threads, NEW a \in Seq(EventsFor(Threads)), NEW b \in Seq(EventsFor({t})), b # <<>>, NEW c, NEW d,
         NEW g, NEW s, NEW l, Pipeline(a, b, c, d, t, g, s, l)
  PROVE  Pipeline(Append(a, Head(b)), Tail(b), c, d, t, g, s, l)
<1>. DEFINE m == Head(b)
            a1 == Append(a, m)
            b1 == Tail(b)
<1>1. m \in EventsFor({t}) /\ m \in EventsFor(Threads)
  <2>1. m \in EventsFor({t})
    BY TailIs
  <2>. QED BY <2>1 DEF EventsFor
<1>2. IsEvent(m, t)
  BY <1>1 DEF IsEvent, EventsFor
<1>3. EventsOf(b, t) = EventsOf(b1, t) \cup {m.n}
  BY <1>2, TailEvents
<1>4. InOrder(b1, t) /\ Below({m.n}, EventsOf(b1, t))
  BY <1>2, TailInOrder DEF Pipeline
<1>5. EventsOf(a1, t) = EventsOf(a, t) \cup {m.n}
  BY <1>1, <1>2, AppendEvents
<1>6. InOrder(a1, t)
  BY <1>1, <1>3, AppendInOrder DEF Pipeline, Below
<1>. HIDE DEF a1, b1, m
<1>7. Pipeline(a1, b1, c, d, t, g, s, l)
  BY <1>3, <1>4, <1>5, <1>6 DEF Pipeline, Below
<1>. QED BY <1>7 DEF a1, b1, m

LEMMA ReceivedPipe ==
  ASSUME NEW t, NEW a \in Seq(EventsFor(Threads)), a # <<>>, NEW b, NEW c, NEW d,
         NEW g \in Nat, NEW s \in Nat, NEW l, Pipeline(a, b, c, d, t, g, s, l)
  PROVE  /\ IsEvent(Head(a), t) => Pipeline(Tail(a), b, c, d, t, Head(a).n, s, l)
         /\ ~IsEvent(Head(a), t) => Pipeline(Tail(a), b, c, d, t, g, s, l)
<1>. DEFINE m == Head(a)
            a1 == Tail(a)
<1>1. EventsOf(a, t) = EventsOf(a1, t) \cup (IF IsEvent(m, t) THEN {m.n} ELSE {})
  BY TailEvents
<1>2. InOrder(a1, t) /\ (IsEvent(m, t) => Below({m.n}, EventsOf(a1, t)))
  BY TailInOrder DEF Pipeline
<1>. HIDE DEF a1, m
<1>3. CASE IsEvent(m, t)
  <2>. DEFINE R == EventsOf(a1, t) \cup EventsOf(b, t) \cup EventsOf(c, t) \cup EventsOf(d, t)
  <2>1. R \cup {m.n} = (g + 1 .. s) \ l
    BY <1>1, <1>3 DEF Pipeline
  <2>2. \A n \in R : m.n < n
    BY <1>1, <1>2, <1>3 DEF Pipeline, Below
  <2>. HIDE DEF R
  <2>3. m.n \in g + 1 .. s
    BY <2>1
  <2>4. R = (m.n + 1 .. s) \ l
    BY <2>1, <2>2, <2>3
  <2>5. Pipeline(a1, b, c, d, t, m.n, s, l)
    BY <2>4, <1>1, <1>2, <1>3 DEF Pipeline, Below, R
  <2>. QED BY <2>5, <1>3 DEF a1, m
<1>4. CASE ~IsEvent(m, t)
  <2>1. Pipeline(a1, b, c, d, t, g, s, l)
    BY <1>1, <1>2, <1>4 DEF Pipeline
  <2>. QED BY <2>1, <1>4 DEF a1, m
<1>. QED BY <1>3, <1>4

LEMMA NotifiedPipe ==
  ASSUME NEW t, NEW a, NEW b, NEW c, NEW d \in Seq(Frames), NEW m \in Frames,
         NEW g \in Nat, NEW s \in Nat, NEW l \in SUBSET (1 .. s), g <= s, Pipeline(a, b, c, d, t, g, s, l)
  PROVE  /\ IsEvent(m, t) /\ m.n = s + 1 => Pipeline(a, b, c, Append(d, m), t, g, s + 1, l)
         /\ ~IsEvent(m, t) => Pipeline(a, b, c, Append(d, m), t, g, s, l)
<1>. DEFINE d1 == Append(d, m)
<1>1. EventsOf(d1, t) = EventsOf(d, t) \cup (IF IsEvent(m, t) THEN {m.n} ELSE {})
  BY AppendEvents
<1>2. EventsOf(a, t) \cup EventsOf(b, t) \cup EventsOf(c, t) \cup EventsOf(d, t) = (g + 1 .. s) \ l
  BY DEF Pipeline
<1>3. CASE IsEvent(m, t) /\ m.n = s + 1
  <2>1. \A n \in EventsOf(a, t) \cup EventsOf(b, t) \cup EventsOf(c, t) \cup EventsOf(d, t) : n < m.n
    BY <1>2, <1>3
  <2>2. (g + 1 .. s + 1) \ l = ((g + 1 .. s) \ l) \cup {s + 1}
    BY <1>3
  <2>3. InOrder(d1, t)
    BY <2>1, <1>3, AppendInOrder DEF Pipeline, Below
  <2>. HIDE DEF d1
  <2>4. Pipeline(a, b, c, d1, t, g, s + 1, l)
    BY <2>1, <2>2, <2>3, <1>1, <1>3 DEF Pipeline, Below
  <2>. QED BY <2>4, <1>3 DEF d1
<1>4. CASE ~IsEvent(m, t)
  <2>1. InOrder(d1, t)
    BY <1>4, AppendInOrder DEF Pipeline
  <2>. HIDE DEF d1
  <2>2. Pipeline(a, b, c, d1, t, g, s, l)
    BY <2>1, <1>1, <1>4 DEF Pipeline
  <2>. QED BY <2>2, <1>4 DEF d1
<1>. QED BY <1>3, <1>4

LEMMA BrokenPipe ==
  ASSUME NEW t, NEW a, NEW b, NEW c, NEW d \in Seq(Frames), NEW n \in 0 .. Len(d),
         NEW g, NEW s, NEW l, Pipeline(a, b, c, d, t, g, s, l)
  PROVE  Pipeline(a, b, c, SubSeq(d, 1, n), t, g, s, l \cup EventsOf(SubSeq(d, n + 1, Len(d)), t))
<1>. DEFINE u == SubSeq(d, 1, n)
            v == SubSeq(d, n + 1, Len(d))
<1>1. EventsOf(d, t) = EventsOf(u, t) \cup EventsOf(v, t) /\ InOrder(u, t) /\ Below(EventsOf(u, t), EventsOf(v, t))
  BY CutEvents DEF Pipeline
<1>. HIDE DEF u, v
<1>2. EventsOf(d, t) \in SUBSET Nat
  BY EventNumbers
<1>3. Pipeline(a, b, c, u, t, g, s, l \cup EventsOf(v, t))
  <2>. DEFINE A == EventsOf(a, t) \cup EventsOf(b, t) \cup EventsOf(c, t)
  <2>1. \A x \in A, y \in EventsOf(v, t) : x < y
    BY <1>1 DEF Pipeline, Below
  <2>2. A \cup EventsOf(u, t) \cup EventsOf(v, t) = (g + 1 .. s) \ l
    BY <1>1 DEF Pipeline
  <2>3. \A x \in EventsOf(v, t) : x \notin A /\ x \notin EventsOf(u, t)
    <3>1. \A x \in EventsOf(v, t) : ~(x < x)
      BY <1>1, <1>2
    <3>. QED BY <2>1, <1>1, <3>1 DEF Below
  <2>4. A \cup EventsOf(u, t) = (g + 1 .. s) \ (l \cup EventsOf(v, t))
    BY <2>2, <2>3
  <2>. QED BY <2>4, <1>1 DEF Pipeline, Below
<1>. QED BY <1>3 DEF u, v

-------------------------------------------------------------------------------
(* Where a caller is after its step.                                       *)
LEMMA OnItsWayFits ==
  ASSUME NEW p \in AllCallers, OnItsWay(p)',
         (~Holding(caller[p]) /\ ~Waiting(caller[p]) /\ ~Dialled(caller[p]))'
  PROVE  Fits(p)'
  BY DEF Fits, Uses, WorksOn, Resumes, Redials, Holding

LEMMA IdleFits ==
  ASSUME NEW p \in AllCallers, caller'[p] = Idle
  PROVE  Fits(p)' /\ ~Holding(caller[p])' /\ ~Pending(caller[p])' /\ ~Attaches(caller[p])'
<1>1. OnItsWay(p)'
  BY DEF OnItsWay, Idle, Attaches
<1>2. (~Holding(caller[p]) /\ ~Waiting(caller[p]) /\ ~Dialled(caller[p]))' /\ ~Pending(caller[p])' /\ ~Attaches(caller[p])'
  BY DEF Idle, Holding, Redialling, Resuming, Waiting, Dialled, Pending, Attaches
<1>. QED BY <1>1, <1>2, OnItsWayFits

WatchedNext(t) == machine' # 0 /\ t \in Watchers(machine)'

LEMMA AfterFits ==
  ASSUME NEW p \in AllCallers, NEW x, CallerOk(x), x.op # "none", x.home # 0, x.runtime # 0,
         caller'[p] = After(x),
         x.home \in {0, machine'}, x.runtime \in {0, machine'},
         x.op = "start" => x.thread \notin Old,
         x.op = "attach" => x.thread \in Old,
         x.op \in {"input", "respond"} => x.thread \in active',
         x.op = "start" /\ (x.step > 4 \/ StepOf(x) = "watch") => WatchedNext(x.thread),
         Attaches(x) \/ StepOf(x) = "resume" => WatchedNext(x.thread)
  PROVE  /\ Fits(p)' /\ ~Holding(caller[p])' /\ ~Pending(caller[p])'
         /\ Attaches(caller[p])' => caller'[p].thread = x.thread /\ (Attaches(x) \/ StepOf(x) = "resume")
<1>1. CASE After(x) = Idle
  BY <1>1, IdleFits
<1>2. CASE After(x) # Idle
  <2>. DEFINE y == After(x)
  <2>1. /\ y.op = x.op /\ y.step = x.step + 1 /\ y.at = "go" /\ y.thread = x.thread
        /\ y.home = x.home /\ y.runtime = x.runtime
    BY <1>2, AfterIs
  <2>. HIDE DEF y
  <2>2. x.op \in DOMAIN Script /\ x.step \in 1 .. Len(Script[x.op]) /\ x.step \in Nat
    BY OpsAreScripts, ScriptLengths DEF CallerOk, Records
  <2>3. x.op = "start" /\ x.step + 1 > 4 => x.step > 4 \/ StepOf(x) = "watch"
    BY <2>2, ScriptSteps DEF StepOf
  <2>4. x.op = "attach" /\ x.step + 1 > 2 => x.step > 2 \/ StepOf(x) = "resume"
    BY <2>2, ScriptSteps DEF StepOf
  <2>5. caller'[p] = y
    BY DEF y
  <2>6. OnItsWay(p)'
    BY <2>1, <2>3, <2>4, <2>5 DEF OnItsWay, Attaches, Watched, WatchedNext
  <2>7. (~Holding(caller[p]) /\ ~Waiting(caller[p]) /\ ~Dialled(caller[p]))' /\ ~Pending(caller[p])'
    BY <2>1, <2>5 DEF Holding, Redialling, Resuming, Waiting, Dialled, Pending
  <2>8. Attaches(caller[p])' => caller'[p].thread = x.thread /\ (Attaches(x) \/ StepOf(x) = "resume")
    BY <2>1, <2>4, <2>5 DEF Attaches
  <2>. QED BY <2>6, <2>7, <2>8, OnItsWayFits
<1>. QED BY <1>1, <1>2

LEMMA FitsUnlocked ==
  ASSUME NEW q \in AllCallers, Fits(q), CallerOk(caller[q]), caller'[q] = caller[q], ~Holding(caller[q]),
         machine' = machine, machine # 0 => Client(machine)' = Client(machine),
         \A c \in Clients : conn[c] = "broken" => conn'[c] = "broken",
         \A t \in Threads : t \in active => t \in active',
         \A t \in Threads : Watched(t) => Watched(t)'
  PROVE  Fits(q)'
<1>1. caller[q].op # "none" => caller[q].thread \in Threads
  BY DEF CallerOk
<1>2. Waiting(caller[q]) => caller[q].client \in Clients
  BY DEF CallerOk, Records, Idle, Waiting
<1>3. OnItsWay(q)'
  BY <1>1 DEF Fits, OnItsWay, Attaches
<1>4. Uses(q)'
  BY <1>2 DEF Fits, Uses, Cur, Holding
<1>5. WorksOn(q)' /\ Resumes(q)' /\ Redials(q)'
  BY DEF WorksOn, Resumes, Redials, Holding
<1>. QED BY <1>3, <1>4, <1>5 DEF Fits

LEMMA FitsSame ==
  ASSUME NEW q \in AllCallers, Fits(q), caller'[q] = caller[q],
         UNCHANGED <<machine, runtimes, conn, pipe, sub, active, forsaken>>
  PROVE  Fits(q)'
  BY DEF Fits, OnItsWay, Uses, WorksOn, Resumes, Redials, Watched, Cur, Client, Watchers, NoneUnderWay, NoneTaken,
         Subscribed, pipe

(* One holds the lock at a time.                                           *)
LEMMA OneHolder ==
  ASSUME TypeInv
  PROVE  /\ \A p, q \in AllCallers : Holding(caller[p]) /\ Holding(caller[q]) => p = q
         /\ Free => \A p \in AllCallers : ~Holding(caller[p])
         /\ \A k \in Clients : consumer[k].at = "blocked" => \A p \in AllCallers : ~Holding(caller[p])
         /\ \A p \in AllCallers : Pending(caller[p]) => Holding(caller[p]) /\ Resuming(caller[p])
  BY LoopIsNoCaller DEF TypeInv, LockHeld, Free, Pending, Holding

(* The step of a caller that changes nothing but where it is.              *)
LEMMA CallerStep ==
  ASSUME TypeInv, OrderParts, NEW p \in AllCallers, NEW r, CallerOk(r), Move(p, r),
         UNCHANGED <<machine, runtimes, conn, pipe, consumer, bridge, sub, active, sent, got, lost, forsaken>>,
         Fits(p)',
         Pending(r) <=> Pending(caller[p]),
         Pending(r) => r.thread = caller[p].thread,
         Attaches(r) => \/ Attaches(caller[p]) /\ r.thread = caller[p].thread
                        \/ \A q \in AllCallers : q # p => ~Pending(caller[q])
  PROVE  OrderParts'
<1>1. caller'[p] = r /\ \A q \in AllCallers : q # p => caller'[q] = caller[q]
  BY MoveIs DEF TypeInv
<1>2. \A q \in AllCallers : Fits(q)'
  BY <1>1, FitsSame DEF OrderParts
<1>3. OneRuntime' /\ OneClient' /\ ActiveWatched' /\ UnwatchedQuiet'
  <2>1. OneRuntime'
    BY DEF OrderParts, OneRuntime, Cur, Client, pipe
  <2>2. OneClient'
    BY DEF OrderParts, OneClient, Cur, Client, pipe
  <2>3. ActiveWatched'
    BY DEF OrderParts, ActiveWatched, Watched, Watchers
  <2>4. UnwatchedQuiet'
    BY DEF OrderParts, UnwatchedQuiet, Watched, Watchers, NoneUnderWay, NoneTaken, Subscribed, pipe
  <2>. QED BY <2>1, <2>2, <2>3, <2>4
<1>4. Ordered'
  BY DEF OrderParts, Ordered, GivenUp, Noted, Arriving, Client, pipe
<1>5. \A q \in AllCallers : (Pending(caller[q])' <=> Pending(caller[q])) /\ (Pending(caller[q]) => caller'[q].thread = caller[q].thread)
  BY <1>1
<1>6. Attached'
  BY <1>5 DEF OrderParts, Attached, Cur, Client, Watchers
<1>7. PendingApart'
  <2>1. SUFFICES ASSUME NEW a \in AllCallers, NEW b \in AllCallers, Pending(caller[a]), Attaches(caller[b])'
                 PROVE  caller'[b].thread # caller'[a].thread
    BY <1>5 DEF PendingApart
  <2>2. CASE b # p \/ (Attaches(caller[b]) /\ caller'[b].thread = caller[b].thread)
    BY <1>1, <1>5, <2>1, <2>2 DEF OrderParts, PendingApart
  <2>3. CASE b = p /\ ~(Attaches(caller[p]) /\ r.thread = caller[p].thread)
    <3>1. a = p
      BY <1>1, <2>1, <2>3
    <3>2. Pending(r) /\ Attaches(r)
      BY <1>1, <2>1, <2>3, <3>1
    <3>3. r.op = "attach" /\ StepOf(r) = "resume" /\ r.step > 2
      BY <3>2 DEF Pending, Attaches, Resuming
    <3>4. r.step = 2
      BY <3>3, ScriptSteps, OpsAreScripts DEF CallerOk, StepOf
    <3>. QED BY <3>3, <3>4
  <2>. QED BY <1>1, <2>2, <2>3
<1>. QED BY <1>2, <1>3, <1>4, <1>6, <1>7 DEF OrderParts

LEMMA OrderFits == ASSUME OrderParts, NEW p \in AllCallers PROVE Fits(p) /\ OnItsWay(p) /\ Uses(p) /\ WorksOn(p) /\ Resumes(p) /\ Redials(p)
  BY DEF OrderParts, Fits

LEMMA NotPending == ASSUME NEW r, r.op = "none" \/ StepOf(r) # "resume" \/ r.at = "go" PROVE ~Pending(r)
  BY DEF Pending, Resuming

LEMMA BeginOrdered ==
  ASSUME "cleanup" \notin Ops, TypeInv, OrderParts, NEW p \in AllCallers, NEW op \in Ops, NEW t \in Threads, Begin(p, op, t)
  PROVE  OrderParts'
<1>. DEFINE r == [Idle EXCEPT !.op = op, !.step = 1, !.at = "go", !.thread = t]
<1>1. /\ r.op = op /\ r.step = 1 /\ r.at = "go" /\ r.thread = t /\ r \in Records /\ r.home = 0 /\ r.runtime = 0
  BY OpsAreScripts DEF Idle, Records, AllPlaces
<1>2. Move(p, r) /\ caller[p].op = "none"
  BY DEF Begin
<1>. HIDE DEF r
<1>3. op \in DOMAIN Script /\ 1 \in 1 .. Len(Script[op]) /\ op # "none"
  BY ScriptLengths, ScriptNames, OpsAreScripts
<1>4. ~Holding(r) /\ ~Waiting(r) /\ ~Dialled(r) /\ ~Owns(r)
  BY <1>1, GoIs
<1>5. CallerOk(r)
  BY <1>1, <1>3, <1>4 DEF CallerOk
<1>6. caller'[p] = r
  BY <1>2, <1>5, MoveIs DEF TypeInv
<1>7. /\ op = "start" => t \notin Old
      /\ op = "attach" => t \in Old
      /\ op \in {"input", "respond"} => t \in active'
  BY DEF Begin, MayBegin, codex
<1>8. OnItsWay(p)'
  BY <1>1, <1>6, <1>7 DEF OnItsWay, Attaches
<1>9. Fits(p)' /\ ~Pending(r) /\ ~Pending(caller[p]) /\ ~Attaches(r)
  BY <1>1, <1>2, <1>4, <1>6, <1>8, OnItsWayFits, NotPending DEF Attaches
<1>. QED BY <1>2, <1>5, <1>9, CallerStep DEF Begin, lock, codex, history

LEMMA EnsureAliveOrdered ==
  ASSUME TypeInv, OrderParts, NEW p \in AllCallers, EnsureAlive(p)
  PROVE  OrderParts'
<1>1. /\ CallerOk(caller[p]) /\ caller[p].op # "none"
      /\ StepOf(caller[p]) = "ensure" /\ caller[p].at = "go"
  BY AtIs DEF EnsureAlive, TypeInv
<1>2. machine \in Clients /\ machine # 0
  BY DEF EnsureAlive, TypeInv, StateTyped
<1>. DEFINE x == InRuntime(p, machine)
<1>3. /\ CallerOk(x) /\ x.op # "none" /\ x.home # 0 /\ x.runtime # 0
      /\ x.op = caller[p].op /\ x.step = caller[p].step /\ x.thread = caller[p].thread
      /\ x.runtime = machine /\ x.home \in {machine, caller[p].home}
  BY <1>1, <1>2, GoIs, EnsuredIs DEF TypeInv
<1>4. CallerOk(After(x)) /\ Move(p, After(x))
  BY <1>3, AfterOk DEF EnsureAlive, Advance
<1>. HIDE DEF x
<1>5. caller'[p] = After(x) /\ UNCHANGED <<machine, runtimes, active>>
  BY <1>4, MoveIs DEF TypeInv, EnsureAlive, lock, codex
<1>6. StepOf(x) = "ensure" /\ (Attaches(x) <=> Attaches(caller[p]))
  BY <1>1, <1>3 DEF StepOf, Attaches
<1>7. Fits(p)' /\ ~Pending(caller[p])' /\ (Attaches(caller[p])' => caller'[p].thread = x.thread /\ Attaches(x))
  BY <1>2, <1>3, <1>5, <1>6, OrderFits, AfterFits DEF OnItsWay, Watched, Watchers, WatchedNext
<1>. QED BY <1>1, <1>3, <1>4, <1>5, <1>6, <1>7, NotPending, CallerStep DEF EnsureAlive, lock, codex, history

LEMMA FinishOrdered ==
  ASSUME TypeInv, OrderParts, NEW p \in AllCallers, Finish(p), ~Pending(caller[p]),
         UNCHANGED <<machine, runtimes, conn, pipe, consumer, bridge, sub, active, sent, got, lost, forsaken>>
  PROVE  OrderParts'
<1>1. CallerOk(Idle) /\ Move(p, Idle)
  BY IdleOk DEF Finish
<1>2. caller'[p] = Idle
  BY <1>1, MoveIs DEF TypeInv
<1>3. Fits(p)' /\ ~Pending(Idle) /\ ~Attaches(Idle)
  BY <1>2, IdleFits
<1>. QED BY <1>1, <1>3, CallerStep

LEMMA DialFailsOrdered ==
  ASSUME TypeInv, OrderParts, NEW p \in AllCallers, DialFails(p)
  PROVE  OrderParts'
<1>1. caller[p].at = "go"
  BY AtIs DEF DialFails, TypeInv
<1>. QED BY <1>1, NotPending, FinishOrdered DEF DialFails, lock, codex, history

LEMMA RespondOrdered ==
  ASSUME TypeInv, OrderParts, NEW p \in AllCallers, Respond(p)
  PROVE  OrderParts'
<1>1. caller[p].at = "go"
  BY AtIs DEF Respond, TypeInv
<1>. QED BY <1>1, NotPending, FinishOrdered DEF Respond, lock, codex, history

LEMMA SnapshotOrdered ==
  ASSUME TypeInv, OrderParts, NEW p \in AllCallers, Snapshot(p)
  PROVE  OrderParts'
<1>1. caller[p].at = "go"
  BY AtIs DEF Snapshot, TypeInv
<1>. QED BY <1>1, NotPending, FinishOrdered DEF Snapshot, lock, codex, history

LEMMA ResumeFailsOrdered ==
  ASSUME TypeInv, OrderParts, NEW p \in AllCallers, ResumeFails(p)
  PROVE  OrderParts'
<1>1. StepOf(caller[p]) = "ensure"
  BY AtIs DEF ResumeFails, TypeInv
<1>. QED BY <1>1, NotPending, FinishOrdered DEF ResumeFails, codex, history

(* A caller that goes on, where it is fit to.                              *)
LEMMA AdvanceFits ==
  ASSUME TypeInv, OrderParts, NEW p \in AllCallers, caller[p].op # "none", StepOf(caller[p]) \notin {"ensure", "snapshot"},
         Advance(p, caller[p]), machine' = machine, active' = active,
         \A t \in Threads : Watched(t) => Watched(t)',
         StepOf(caller[p]) \in {"watch", "resume"} => WatchedNext(caller[p].thread)
  PROVE  /\ CallerOk(After(caller[p])) /\ Move(p, After(caller[p])) /\ caller'[p] = After(caller[p])
         /\ Fits(p)' /\ ~Holding(caller[p])' /\ ~Pending(caller[p])'
         /\ Attaches(caller[p])' => /\ caller'[p].thread = caller[p].thread
                                    /\ Attaches(caller[p]) \/ StepOf(caller[p]) = "resume"
<1>. DEFINE x == caller[p]
<1>1. CallerOk(x) /\ x.thread \in Threads
  BY DEF TypeInv, CallersTyped, CallerOk
<1>2. x.home # 0 /\ x.runtime # 0
  BY <1>1, PastEnsure
<1>3. CallerOk(After(x)) /\ Move(p, After(x))
  BY <1>1, <1>2, AfterOk DEF Advance
<1>4. caller'[p] = After(x)
  BY <1>3, MoveIs DEF TypeInv
<1>5. OnItsWay(p)
  BY OrderFits
<1>6. /\ x.home \in {0, machine'} /\ x.runtime \in {0, machine'}
      /\ x.op = "start" => x.thread \notin Old
      /\ x.op = "attach" => x.thread \in Old
      /\ x.op \in {"input", "respond"} => x.thread \in active'
      /\ x.op = "start" /\ (x.step > 4 \/ StepOf(x) = "watch") => Watched(x.thread)
                                                          \/ StepOf(x) = "watch"
      /\ Attaches(x) \/ StepOf(x) = "resume" => Watched(x.thread) \/ StepOf(x) = "resume"
  BY <1>5 DEF OnItsWay
<1>9. StepOf(x) \in {"watch", "resume"} => WatchedNext(x.thread)
  OBVIOUS
<1>7. Watched(x.thread) => WatchedNext(x.thread)
  BY <1>1 DEF Watched, WatchedNext
<1>. HIDE DEF x
<1>8. /\ x.op = "start" /\ (x.step > 4 \/ StepOf(x) = "watch") => WatchedNext(x.thread)
      /\ Attaches(x) \/ StepOf(x) = "resume" => WatchedNext(x.thread)
  BY <1>6, <1>7, <1>9
<1>. QED BY <1>1, <1>2, <1>3, <1>4, <1>6, <1>8, AfterFits DEF x

LEMMA AdvanceOrdered ==
  ASSUME TypeInv, OrderParts, NEW p \in AllCallers, caller[p].op # "none", StepOf(caller[p]) \notin {"ensure", "snapshot"},
         caller[p].at = "go", Advance(p, caller[p]),
         UNCHANGED <<machine, runtimes, conn, pipe, consumer, bridge, sub, active, sent, got, lost, forsaken>>,
         StepOf(caller[p]) \in {"watch", "resume"} => WatchedNext(caller[p].thread) /\ Free
  PROVE  OrderParts'
<1>. DEFINE x == After(caller[p])
<1>1. \A t \in Threads : Watched(t) => Watched(t)'
  BY DEF Watched, Watchers
<1>2. /\ CallerOk(x) /\ Move(p, x) /\ caller'[p] = x
      /\ Fits(p)' /\ ~Pending(caller[p])'
      /\ Attaches(caller[p])' => /\ caller'[p].thread = caller[p].thread
                                 /\ Attaches(caller[p]) \/ StepOf(caller[p]) = "resume"
  BY <1>1, AdvanceFits
<1>. HIDE DEF x
<1>3. ~Pending(caller[p]) /\ ~Pending(x)
  BY <1>2, NotPending
<1>4. Free => \A q \in AllCallers : ~Pending(caller[q])
  BY OneHolder
<1>5. Attaches(x) => \/ Attaches(caller[p]) /\ x.thread = caller[p].thread
                     \/ \A q \in AllCallers : q # p => ~Pending(caller[q])
  BY <1>2, <1>4
<1>. QED BY <1>2, <1>3, <1>5, CallerStep

LEMMA RuntimeIs ==
  ASSUME TypeInv, OrderParts, NEW p \in AllCallers, caller[p].op # "none", StepOf(caller[p]) \notin {"ensure", "snapshot"}
  PROVE  /\ machine \in Clients /\ machine # 0 /\ caller[p].home = machine /\ caller[p].runtime = machine
         /\ caller[p].thread \in Threads /\ CallerOk(caller[p]) /\ caller[p] \in Records
<1>1. CallerOk(caller[p]) /\ caller[p] \in Records /\ caller[p].thread \in Threads
  BY DEF TypeInv, CallersTyped, CallerOk
<1>2. caller[p].home # 0 /\ caller[p].runtime # 0
  BY <1>1, PastEnsure
<1>. QED BY <1>1, <1>2, OrderFits DEF OnItsWay, Records

LEMMA ResumeWatchedOrdered ==
  ASSUME TypeInv, OrderParts, NEW p \in AllCallers, ResumeWatched(p)
  PROVE  OrderParts'
<1>1. caller[p].at = "go" /\ caller[p].op # "none" /\ StepOf(caller[p]) = "resume"
  BY AtIs DEF ResumeWatched, TypeInv
<1>2. /\ Advance(p, caller[p]) /\ Free /\ caller[p].thread \in Watchers(caller[p].runtime)
      /\ UNCHANGED <<machine, runtimes, conn, pipe, consumer, bridge, sub, active, sent, got, lost, forsaken>>
  BY DEF ResumeWatched, lock, codex, history
<1>3. WatchedNext(caller[p].thread)
  BY <1>1, <1>2, RuntimeIs DEF WatchedNext, Watchers
<1>. QED BY <1>1, <1>2, <1>3, AdvanceOrdered

LEMMA MarkOrdered ==
  ASSUME TypeInv, OrderParts, NEW p \in AllCallers, Mark(p)
  PROVE  OrderParts'
<1>1. caller[p].at = "go" /\ caller[p].op # "none" /\ StepOf(caller[p]) = "mark"
  BY AtIs DEF Mark, TypeInv
<1>2. /\ Finish(p) \/ Advance(p, caller[p])
      /\ UNCHANGED <<machine, runtimes, conn, pipe, consumer, bridge, sub, active, sent, got, lost, forsaken>>
  BY DEF Mark, lock, codex, history
<1>3. CASE Finish(p)
  BY <1>1, <1>2, <1>3, NotPending, FinishOrdered
<1>4. CASE Advance(p, caller[p])
  BY <1>1, <1>2, <1>4, AdvanceOrdered
<1>. QED BY <1>2, <1>3, <1>4

LEMMA CallMethodOrdered ==
  ASSUME TypeInv, OrderParts, NEW p \in AllCallers, CallMethod(p)
  PROVE  OrderParts'
<1>1. /\ CallerOk(caller[p]) /\ caller[p].op # "none" /\ caller[p] \in Records
      /\ StepOf(caller[p]) \in Methods /\ caller[p].at = "go"
      /\ StepOf(caller[p]) \notin {"ensure", "resume", "snapshot"}
  BY DEF CallMethod, TypeInv, CallersTyped, CallerOk, Runs, Step, StepOf, Methods
<1>. DEFINE r == [caller[p] EXCEPT !.about = caller[p].thread]
            c == Client(caller[p].home)
<1>2. machine \in Clients /\ machine # 0 /\ c = Client(machine) /\ c \in Clients /\ c # 0 /\ caller[p].thread \in Threads
  BY <1>1, RuntimeIs DEF CallMethod, TypeInv, StateTyped, Client
<1>3. /\ r.op = caller[p].op /\ r.step = caller[p].step /\ r.at = caller[p].at /\ r.thread = caller[p].thread
      /\ r.about = caller[p].thread /\ r.home = caller[p].home /\ r.runtime = caller[p].runtime
      /\ r.client = caller[p].client /\ r.todo = caller[p].todo
      /\ r \in Records
  BY <1>1, <1>2 DEF Records
<1>4. Call(p, c, r) /\ UNCHANGED <<machine, runtimes, conn, pipe, consumer, bridge, sub, active, sent, got, lost, forsaken>>
  BY DEF CallMethod, lock, codex, history
<1>. HIDE DEF r, c
<1>5. StepOf(r) = StepOf(caller[p]) /\ CallerOk(r)
  BY <1>1, <1>3 DEF StepOf, CallerOk, Waiting, Dialled
<1>6. PICK x :
           /\ CallerOk(x) /\ Move(p, x)
           /\ Holding(x) <=> StepOf(r) \in {"ensure", "resume"}
           /\ ~Dialled(x)
           /\ \/ /\ x.op = r.op /\ x.step = r.step /\ x.at = "sent" /\ x.thread = r.thread /\ x.about = r.about
                 /\ x.home = r.home /\ x.runtime = r.runtime /\ x.client = c /\ x.todo = r.todo
              \/ x = Returned(r, "failed")
  BY <1>1, <1>2, <1>3, <1>4, <1>5, CallIs
<1>7. caller'[p] = x /\ ~Holding(x)
  BY <1>1, <1>5, <1>6, MoveIs DEF TypeInv
<1>8. CASE x = Returned(r, "failed")
  <2>1. x = Idle
    BY <1>1, <1>5, <1>8 DEF Returned, StepOf
  <2>. QED BY <1>1, <1>4, <1>6, <2>1, NotPending, FinishOrdered DEF Finish
<1>9. CASE /\ x.op = r.op /\ x.step = r.step /\ x.at = "sent" /\ x.thread = r.thread /\ x.about = r.about
           /\ x.home = r.home /\ x.runtime = r.runtime /\ x.client = c /\ x.todo = r.todo
  <2>1. OnItsWay(p)
    BY OrderFits
  <2>2. OnItsWay(p)'
    BY <1>3, <1>4, <1>7, <1>9, <2>1 DEF OnItsWay, Attaches, Watched, Watchers
  <2>3. Uses(p)'
    BY <1>2, <1>3, <1>4, <1>6, <1>7, <1>9 DEF Uses, Cur, Holding, Client
  <2>4. Fits(p)'
    BY <1>7, <2>2, <2>3 DEF Fits, WorksOn, Resumes, Redials, Holding
  <2>5. ~Pending(x) /\ ~Pending(caller[p])
    BY <1>1, <1>7, NotPending DEF Pending, Holding
  <2>6. Attaches(x) => Attaches(caller[p]) /\ x.thread = caller[p].thread
    BY <1>3, <1>9 DEF Attaches
  <2>. QED BY <1>4, <1>6, <2>4, <2>5, <2>6, CallerStep
<1>. QED BY <1>6, <1>8, <1>9

LEMMA ResumeNextOrdered ==
  ASSUME TypeInv, OrderParts, NEW p \in AllCallers, ResumeNext(p)
  PROVE  OrderParts'
<1>1. /\ CallerOk(caller[p]) /\ caller[p].op # "none" /\ caller[p] \in Records
      /\ StepOf(caller[p]) = "ensure" /\ caller[p].at = "resume_next"
  BY AtIs DEF ResumeNext, TypeInv, CallerOk
<1>2. PICK t \in caller[p].todo :
        Call(p, caller[p].client, [caller[p] EXCEPT !.about = t, !.todo = @ \ {t}])
  BY DEF ResumeNext
<1>. DEFINE r == [caller[p] EXCEPT !.about = t, !.todo = @ \ {t}]
            c == caller[p].client
<1>3. t \in Threads /\ c \in Clients /\ c # 0
  BY <1>1 DEF CallerOk, Records
<1>4. /\ r.op = caller[p].op /\ r.step = caller[p].step /\ r.at = caller[p].at /\ r.thread = caller[p].thread
      /\ r.about = t /\ r.home = caller[p].home /\ r.runtime = caller[p].runtime
      /\ r.client = c /\ r.todo = caller[p].todo \ {t}
      /\ r \in Records
  BY <1>1, <1>3 DEF Records
<1>5. Call(p, c, r) /\ UNCHANGED <<machine, runtimes, conn, pipe, consumer, bridge, sub, active, sent, got, lost, forsaken>>
  BY <1>2 DEF ResumeNext, lock, codex, history
<1>. HIDE DEF r
<1>6. StepOf(r) = "ensure" /\ CallerOk(r)
  BY <1>1, <1>4 DEF StepOf, CallerOk, Waiting, Dialled
<1>7. PICK x :
        /\ CallerOk(x) /\ Move(p, x) /\ Holding(x) /\ ~Dialled(x)
        /\ \/ /\ x.op = r.op /\ x.step = r.step /\ x.at = "sent" /\ x.thread = r.thread /\ x.about = r.about
              /\ x.home = r.home /\ x.runtime = r.runtime /\ x.client = c /\ x.todo = r.todo
           \/ x = Returned(r, "failed")
  BY <1>1, <1>3, <1>4, <1>5, <1>6, CallIs
<1>8. /\ x.op = r.op /\ x.step = r.step /\ x.at \in {"sent", "failed"} /\ x.thread = r.thread /\ x.about = r.about
      /\ x.home = r.home /\ x.runtime = r.runtime /\ x.client = c /\ x.todo = r.todo
  BY <1>1, <1>3, <1>4, <1>6, <1>7, ReturnedIs DEF Methods
<1>9. caller'[p] = x /\ StepOf(x) = "ensure"
  BY <1>6, <1>7, <1>8, MoveIs DEF TypeInv, StepOf
<1>10. Redialling(caller[p]) /\ ~Waiting(caller[p])
  BY <1>1 DEF Redialling, Waiting
<1>11. Redialling(x) /\ ~Resuming(x) /\ x.at # "resume_next"
  BY <1>4, <1>1, <1>8, <1>9 DEF Redialling, Resuming
<1>12. OnItsWay(p) /\ Uses(p) /\ WorksOn(p) /\ Redials(p)
  BY OrderFits
<1>13. OnItsWay(p)'
  BY <1>4, <1>5, <1>8, <1>9, <1>12 DEF OnItsWay, Attaches, Watched, Watchers
<1>14. Uses(p)'
  BY <1>4, <1>5, <1>7, <1>8, <1>9, <1>10, <1>11, <1>12 DEF Uses, Cur, Client
<1>15. WorksOn(p)'
  BY <1>2, <1>4, <1>5, <1>8, <1>9, <1>10, <1>11, <1>12 DEF WorksOn, Watched, Watchers
<1>16. Resumes(p)'
  BY <1>9, <1>11 DEF Resumes
<1>17. Redials(p)'
  BY <1>1, <1>4, <1>5, <1>8, <1>9, <1>10, <1>11, <1>12 DEF Redials, Watchers, Waiting
<1>18. ~Pending(x) /\ ~Pending(caller[p])
  BY <1>1, <1>9, NotPending
<1>19. Attaches(x) => Attaches(caller[p]) /\ x.thread = caller[p].thread
  BY <1>4, <1>8 DEF Attaches
<1>. QED BY <1>5, <1>7, <1>13, <1>14, <1>15, <1>16, <1>17, <1>18, <1>19, CallerStep DEF Fits

LEMMA ApartKept ==
  ASSUME PendingApart,
         \A q \in AllCallers : Pending(caller[q])' => Pending(caller[q]) /\ caller'[q].thread = caller[q].thread,
         \A q \in AllCallers : Attaches(caller[q])' => Attaches(caller[q]) /\ caller'[q].thread = caller[q].thread
  PROVE  PendingApart'
  BY DEF PendingApart

LEMMA DialOrdered ==
  ASSUME TypeInv, OrderParts, NEW p \in AllCallers, Dial(p)
  PROVE  OrderParts'
<1>1. /\ CallerOk(caller[p]) /\ caller[p].op # "none" /\ caller[p] \in Records
      /\ StepOf(caller[p]) = "ensure" /\ caller[p].at = "go"
  BY AtIs DEF Dial, TypeInv, CallerOk
<1>. DEFINE l == IF machine = 0 THEN "install" ELSE "reinstall"
<1>2. PICK c \in Clients :
        /\ conn[c] = "unused"
        /\ conn' = [conn EXCEPT ![c] = "open"]
        /\ Move(p, [caller[p] EXCEPT !.client = c, !.at = l])
  BY DEF Dial
<1>. DEFINE x == [caller[p] EXCEPT !.client = c, !.at = l]
<1>3. l \in {"install", "reinstall"} /\ l \in AllPlaces
  BY DEF AllPlaces
<1>. HIDE DEF l
<1>4. /\ x.op = caller[p].op /\ x.step = caller[p].step /\ x.at = l /\ x.thread = caller[p].thread
      /\ x.home = caller[p].home /\ x.runtime = caller[p].runtime /\ x.client = c
      /\ x \in Records
  BY <1>1, <1>3 DEF Records
<1>5. caller' = [caller EXCEPT ![p] = x]
  BY <1>2 DEF Move
<1>. HIDE DEF x
<1>6. caller'[p] = x /\ \A q \in AllCallers : q # p => caller'[q] = caller[q]
  BY <1>5 DEF TypeInv, CallersTyped
<1>7. UNCHANGED <<machine, runtimes, pipe, consumer, bridge, sub, active, sent, got, lost, forsaken>>
  BY DEF Dial, lock, codex, history
<1>8. /\ conn'[c] = "open" /\ \A d \in Clients : d # c => conn'[d] = conn[d]
      /\ \A d \in Clients : conn[d] = "broken" => conn'[d] = "broken"
  BY <1>2 DEF TypeInv, StateTyped
<1>9. ~Cur(c) /\ sub[c] = {}
  BY <1>2 DEF OrderParts, OneClient
<1>10. \A t \in Threads : Subscribed(t)' <=> Subscribed(t)
  BY <1>2, <1>7, <1>8, <1>9 DEF Subscribed
<1>11. ~Holding(x) /\ ~Waiting(x) /\ ~Pending(x) /\ ~Pending(caller[p]) /\ (Attaches(x) <=> Attaches(caller[p]))
  BY <1>1, <1>3, <1>4 DEF Holding, Redialling, Resuming, Waiting, Pending, Attaches
<1>12. OneRuntime' /\ OneClient' /\ ActiveWatched'
  <2>1. OneRuntime'
    BY <1>7 DEF OrderParts, OneRuntime, Cur, Client, pipe
  <2>2. OneClient'
    BY <1>7, <1>8, <1>9 DEF OrderParts, OneClient, Cur, Client, pipe
  <2>3. ActiveWatched'
    BY <1>7 DEF OrderParts, ActiveWatched, Watched, Watchers
  <2>. QED BY <2>1, <2>2, <2>3
<1>13. UnwatchedQuiet' /\ Ordered'
  <2>1. \A t \in Threads : (NoneUnderWay(t)' <=> NoneUnderWay(t)) /\ (Watched(t)' <=> Watched(t))
    BY <1>7 DEF NoneUnderWay, NoneTaken, Watched, Watchers, pipe
  <2>2. UnwatchedQuiet'
    BY <2>1, <1>7, <1>10, OldAreThreads DEF OrderParts, UnwatchedQuiet
  <2>3. Ordered'
    BY <1>7 DEF OrderParts, Ordered, GivenUp, Noted, Arriving, Client, pipe
  <2>. QED BY <2>2, <2>3
<1>14. Attached'
  BY <1>6, <1>7, <1>8, <1>9, <1>11 DEF OrderParts, Attached, Cur, Client, Watchers
<1>15. PendingApart'
  BY <1>4, <1>6, <1>11, ApartKept DEF OrderParts
<1>16. ASSUME NEW q \in AllCallers PROVE Fits(q)'
  <2>1. OnItsWay(q) /\ Uses(q) /\ WorksOn(q) /\ Resumes(q) /\ Redials(q)
    BY OrderFits
  <2>2. CASE q = p
    <3>1. OnItsWay(p)'
      BY <1>4, <1>6, <1>7, <2>1, <2>2 DEF OnItsWay, Attaches, Watched, Watchers
    <3>2. Uses(p)'
      BY <1>4, <1>6, <1>7, <1>9, <1>11 DEF Uses, Cur, Client, Holding
    <3>3. WorksOn(p)' /\ Resumes(p)' /\ Redials(p)'
      BY <1>6, <1>11 DEF WorksOn, Resumes, Redials, Holding
    <3>. QED BY <2>2, <3>1, <3>2, <3>3 DEF Fits
  <2>3. CASE q # p
    <3>1. caller'[q] = caller[q] /\ CallerOk(caller[q])
      BY <1>6, <2>3 DEF TypeInv, CallersTyped
    <3>2. Holding(caller[q]) => \/ Redialling(caller[q]) /\ conn'[caller[q].client] = conn[caller[q].client]
                                \/ ~Redialling(caller[q])
      <4>1. Redialling(caller[q]) => caller[q].client \in Clients /\ caller[q].client # c
        BY <1>9, <2>1 DEF TypeInv, OwnedClients, Owns, Uses
      <4>. QED BY <4>1, <1>8
    <3>3. OnItsWay(q)' /\ WorksOn(q)'
      BY <1>7, <2>1, <3>1 DEF OnItsWay, WorksOn, Watched, Watchers
    <3>4. Uses(q)'
      <4>1. Waiting(caller[q]) => caller[q].client \in Clients
        BY <3>1 DEF CallerOk, Records, Idle, Waiting
      <4>. QED BY <4>1, <1>7, <1>8, <2>1, <3>1 DEF Uses, Cur, Client
    <3>5. Resumes(q)'
      <4>1. Resuming(caller[q]) => caller[q].thread \in Threads
        BY <3>1 DEF CallerOk, Resuming
      <4>. QED BY <4>1, <1>7, <1>10, <2>1, <3>1 DEF Resumes, NoneUnderWay, NoneTaken, pipe
    <3>6. Redials(q)'
      BY <1>7, <2>1, <3>1, <3>2 DEF Redials, Watchers, Holding, pipe
    <3>. QED BY <3>3, <3>4, <3>5, <3>6 DEF Fits
  <2>. QED BY <2>2, <2>3
<1>. QED BY <1>12, <1>13, <1>14, <1>15, <1>16 DEF OrderParts

LEMMA InstallOrdered ==
  ASSUME TypeInv, OrderParts, NEW p \in AllCallers, Install(p), ~raced'
  PROVE  OrderParts'
<1>. DEFINE r == caller[p].client
            x == InRuntime(p, r)
<1>1. /\ CallerOk(caller[p]) /\ caller[p].op # "none" /\ caller[p] \in Records
      /\ StepOf(caller[p]) = "ensure" /\ caller[p].at = "install"
  BY AtIs DEF Install, TypeInv, CallerOk
<1>2. ~Holding(caller[p]) /\ ~Waiting(caller[p]) /\ Owns(caller[p]) /\ Dialled(caller[p]) /\ ~Pending(caller[p])
  BY <1>1 DEF Owns, Holding, Redialling, Resuming, Waiting, Dialled, Pending
<1>3. r \in Clients /\ r # 0 /\ conn[r] # "unused" /\ consumer[r].at = "off"
  BY <1>2 DEF TypeInv, OwnedClients, Clients
<1>4. machine = 0 /\ machine' = r /\ Consume(r, r) /\ Advance(p, x)
      /\ runtimes' = [runtimes EXCEPT ![r] = [client |-> r, watchers |-> {}]]
      /\ UNCHANGED <<conn, pipe, bridge, sub, active, sent, got, lost, forsaken>>
  BY DEF Install, codex
<1>5. /\ CallerOk(x) /\ x.op # "none" /\ x.home # 0 /\ x.runtime # 0
      /\ x.op = caller[p].op /\ x.step = caller[p].step /\ x.thread = caller[p].thread
      /\ x.runtime = r /\ x.home \in {r, caller[p].home}
  BY <1>1, <1>2, <1>3, EnsuredIs DEF TypeInv
<1>6. CallerOk(After(x)) /\ Move(p, After(x))
  BY <1>4, <1>5, AfterOk DEF Advance
<1>. HIDE DEF x
<1>7. caller'[p] = After(x) /\ \A q \in AllCallers : q # p => caller'[q] = caller[q]
  BY <1>6, MoveIs DEF TypeInv
<1>8. /\ Client(machine)' = r /\ Watchers(machine)' = {}
      /\ \A c \in Clients : Cur(c)' <=> c = r
      /\ \A t \in Threads : ~Watched(t)'
  BY <1>3, <1>4 DEF Cur, Client, Watchers, Watched, TypeInv, StateTyped
<1>9. /\ \A c \in Clients : ~Cur(c) /\ inbox[c] = <<>> /\ notes[c] = <<>> /\ (conn[c] = "broken" \/ sub[c] = {})
      /\ \A c \in Clients, t \in Threads : channel[c][t] = <<>>
      /\ runner = <<>> /\ \A t \in Threads : sent[t] = 0 /\ bridge[t] = 0
      /\ \A k \in Clients : consumer[k].at = "off"
  BY <1>4 DEF OrderParts, OneRuntime, OneClient, Cur, TypeInv, StateTyped, Clients
<1>10. /\ consumer'[r].at = "start" /\ consumer'[r].runtime = r
       /\ \A k \in Clients : k # r => consumer'[k] = consumer[k]
  BY <1>3, <1>4, ConsumeIs DEF Install, pipe
<1>11. \A t \in Threads : ~Watched(t)
  BY <1>4 DEF Watched
<1>12. OneRuntime' /\ OneClient' /\ ActiveWatched'
  <2>1. OneRuntime'
    BY <1>3, <1>4, <1>8, <1>9, <1>10 DEF OneRuntime, pipe
  <2>2. OneClient'
    BY <1>3, <1>4, <1>8, <1>9 DEF OneClient, pipe
  <2>3. ActiveWatched'
    BY <1>4, <1>8, <1>9, <1>11, OldAreThreads DEF OrderParts, ActiveWatched, TypeInv, StateTyped
  <2>. QED BY <2>1, <2>2, <2>3
<1>13. \A t \in Threads : NoneUnderWay(t)' /\ ~Subscribed(t)
  <2>2. \A t \in Threads : ~Subscribed(t)
    BY <1>9 DEF Subscribed
  <2>3. \A t \in Threads : NoneUnderWay(t)'
    BY <1>3, <1>4, <1>9, EmptyQueue DEF NoneUnderWay, NoneTaken, pipe
  <2>. QED BY <2>2, <2>3
<1>14. UnwatchedQuiet'
  <2>1. \A t \in Threads : ~Subscribed(t)'
    BY <1>4, <1>13 DEF Subscribed
  <2>. QED BY <2>1, <1>13, OldAreThreads DEF UnwatchedQuiet
<1>15. Ordered'
  <2>1. SUFFICES ASSUME NEW t \in Threads
                 PROVE  Pipeline(runner, channel[machine][t], Noted, Arriving, t, got[t], sent[t], lost[t])'
    BY DEF Ordered
  <2>2. runner' = <<>> /\ channel'[machine'][t] = <<>> /\ Noted' = <<>> /\ Arriving' = <<>> /\ sent'[t] = 0
    BY <1>3, <1>4, <1>8, <1>9 DEF Noted, Arriving, pipe
  <2>3. got[t] = 0 /\ got'[t] = 0
    BY <1>4, <1>9 DEF TypeInv, Numbered
  <2>4. (0 + 1 .. 0) \ lost[t] = {}
    OBVIOUS
  <2>. QED BY <2>2, <2>3, <2>4, EmptyQueue DEF Pipeline, Below
<1>16. Attached'
  BY <1>8 DEF Attached
<1>17. \A q \in AllCallers : ~Holding(caller[q])
  <2>1. SUFFICES ASSUME NEW q \in AllCallers, Holding(caller[q]) PROVE FALSE
    OBVIOUS
  <2>2. Uses(q) /\ WorksOn(q)
    BY OrderFits
  <2>. QED BY <1>4, <2>1, <2>2 DEF Uses, WorksOn, Holding, Cur, Watched
<1>18. ASSUME NEW q \in AllCallers PROVE Fits(q)' /\ ~Pending(caller[q])'
  <2>1. OnItsWay(q) /\ Uses(q) /\ CallerOk(caller[q])
    BY OrderFits DEF TypeInv, CallersTyped
  <2>2. CASE q = p
    <3>1. StepOf(x) = "ensure" /\ (Attaches(x) <=> Attaches(caller[p]))
      BY <1>1, <1>5 DEF StepOf, Attaches
    <3>2. x.home \in {0, machine'} /\ x.runtime \in {0, machine'}
      BY <1>4, <1>5, <2>1, <2>2 DEF OnItsWay
    <3>3. ~Watched(caller[p].thread)
      BY <1>4 DEF Watched
    <3>. QED BY <1>4, <1>5, <1>7, <2>1, <2>2, <3>1, <3>2, <3>3, AfterFits DEF OnItsWay
  <2>3. CASE q # p
    <3>1. caller'[q] = caller[q] /\ ~Watched(caller[q].thread)
      BY <1>4, <1>7, <2>3 DEF Watched
    <3>2. OnItsWay(q)'
      BY <1>4, <2>1, <3>1 DEF OnItsWay
    <3>3. ~Waiting(caller[q])
      <4>1. Waiting(caller[q]) => (caller[q].op # "none" /\ StepOf(caller[q]) \in Methods) \/ Holding(caller[q])
        BY <2>1 DEF CallerOk, Waiting, Holding, Redialling, Resuming, Idle
      <4>2. ASSUME caller[q].op # "none", StepOf(caller[q]) \in Methods PROVE FALSE
        BY <1>4, <4>2, RuntimeIs DEF Methods
      <4>. QED BY <4>1, <4>2, <1>17
    <3>4. Dialled(caller[q]) => caller[q].client \in Clients /\ caller[q].client # r
      BY <1>2, <2>3 DEF TypeInv, OwnedClients, Owns
    <3>5. Uses(q)'
      BY <1>8, <1>17, <3>1, <3>3, <3>4 DEF Uses, Holding
    <3>. QED BY <1>17, <3>1, <3>2, <3>3, <3>5 DEF Fits, WorksOn, Resumes, Redials, Holding, Pending
  <2>. QED BY <2>2, <2>3
<1>19. PendingApart'
  BY <1>18 DEF PendingApart
<1>. QED BY <1>12, <1>14, <1>15, <1>16, <1>18, <1>19 DEF OrderParts

LEMMA ReinstallOrdered ==
  ASSUME TypeInv, OrderParts, NEW p \in AllCallers, Reinstall(p), ~raced'
  PROVE  OrderParts'
<1>1. /\ CallerOk(caller[p]) /\ caller[p].op # "none" /\ caller[p] \in Records
      /\ StepOf(caller[p]) = "ensure" /\ caller[p].at = "reinstall"
  BY AtIs DEF Reinstall, TypeInv, CallerOk
<1>. DEFINE d == caller[p].client
            x == [caller[p] EXCEPT !.at = "resume_next", !.todo = Watchers(machine)]
<1>2. Owns(caller[p]) /\ Dialled(caller[p]) /\ d \in Clients /\ d # 0 /\ machine # 0 /\ machine \in Clients
      /\ conn[d] # "unused"
  BY <1>1 DEF Owns, Dialled, TypeInv, OwnedClients, Clients, StateTyped
<1>3. /\ x.op = caller[p].op /\ x.step = caller[p].step /\ x.at = "resume_next" /\ x.thread = caller[p].thread
      /\ x.home = caller[p].home /\ x.runtime = caller[p].runtime /\ x.client = d /\ x.todo = Watchers(machine)
  BY <1>1 DEF Records
<1>4. caller' = [caller EXCEPT ![p] = x]
  BY DEF Move, Reinstall
<1>. HIDE DEF x
<1>5. caller'[p] = x /\ \A q \in AllCallers : q # p => caller'[q] = caller[q]
  BY <1>4 DEF TypeInv, CallersTyped
<1>6. /\ UNCHANGED <<machine, conn, pipe, consumer, bridge, sub, active, sent, got, lost, forsaken>>
      /\ runtimes' = [runtimes EXCEPT ![machine].client = d]
      /\ Client(machine) = 0 /\ Free
  BY DEF Reinstall, codex
<1>7. /\ Client(machine)' = d /\ Watchers(machine)' = Watchers(machine)
      /\ \A c \in Clients : Cur(c)' <=> c = d
      /\ \A t \in Threads : Watched(t)' <=> Watched(t)
  BY <1>2, <1>6 DEF Cur, Client, Watchers, Watched, TypeInv, StateTyped
<1>8. \A c \in Clients : ~Cur(c)
  BY <1>2, <1>6 DEF Cur, Clients
<1>9. /\ \A c \in Clients : inbox[c] = <<>> /\ notes[c] = <<>> /\ (conn[c] = "broken" \/ sub[c] = {})
      /\ \A k \in Clients : consumer[k].at = "off"
  BY <1>8 DEF OrderParts, OneClient, OneRuntime
<1>10. OneRuntime' /\ OneClient' /\ ActiveWatched'
  <2>1. OneRuntime'
    BY <1>2, <1>6, <1>9 DEF OrderParts, OneRuntime, pipe
  <2>2. OneClient'
    BY <1>2, <1>6, <1>7, <1>9 DEF OneClient, pipe
  <2>3. ActiveWatched'
    BY <1>6, <1>7 DEF OrderParts, ActiveWatched, TypeInv, StateTyped
  <2>. QED BY <2>1, <2>2, <2>3
<1>11. UnwatchedQuiet'
  <2>1. \A t \in Threads : (NoneUnderWay(t)' <=> NoneUnderWay(t)) /\ (Subscribed(t)' <=> Subscribed(t))
    BY <1>6 DEF NoneUnderWay, NoneTaken, Subscribed, pipe
  <2>. QED BY <2>1, <1>6, <1>7, OldAreThreads DEF OrderParts, UnwatchedQuiet
<1>12. Ordered'
  <2>1. Noted' = Noted /\ Arriving' = Arriving
    BY <1>2, <1>6, <1>7, <1>9 DEF Noted, Arriving, pipe
  <2>. QED BY <2>1, <1>6 DEF OrderParts, Ordered, GivenUp, pipe
<1>13. Attached'
  BY <1>6, <1>9 DEF Attached
<1>14. \A q \in AllCallers : ~Holding(caller[q]) /\ ~Pending(caller[q])
  BY <1>6, OneHolder
<1>15. StepOf(x) = "ensure" /\ Redialling(x) /\ ~Resuming(x) /\ ~Pending(x) /\ ~Waiting(x) /\ ~Dialled(x)
  BY <1>1, <1>3 DEF StepOf, Redialling, Resuming, Pending, Waiting, Dialled
<1>16. \A q \in AllCallers : ~Pending(caller[q])'
  BY <1>5, <1>14, <1>15
<1>17. ASSUME NEW q \in AllCallers PROVE Fits(q)'
  <2>1. OnItsWay(q) /\ Uses(q) /\ CallerOk(caller[q])
    BY OrderFits DEF TypeInv, CallersTyped
  <2>2. CASE q = p
    <3>1. OnItsWay(p)'
      BY <1>2, <1>3, <1>5, <1>6, <1>7, <2>1, <2>2 DEF OnItsWay, Attaches, Watched
    <3>2. Uses(p)'
      BY <1>2, <1>3, <1>5, <1>7, <1>15 DEF Uses
    <3>3. WorksOn(p)'
      <4>1. \A t \in Watchers(machine) : Watched(t)'
        BY <1>2, <1>6, <1>7 DEF Watched
      <4>. QED BY <4>1, <1>3, <1>5, <1>15 DEF WorksOn
    <3>4. Resumes(p)' /\ Redials(p)'
      BY <1>3, <1>5, <1>6, <1>7, <1>15 DEF Resumes, Redials
    <3>. QED BY <2>2, <3>1, <3>2, <3>3, <3>4 DEF Fits
  <2>3. CASE q # p
    <3>1. caller'[q] = caller[q] /\ ~Holding(caller[q])
      BY <1>5, <1>14, <2>3
    <3>2. OnItsWay(q)'
      <4>1. caller[q].op # "none" => caller[q].thread \in Threads
        BY <2>1 DEF CallerOk
      <4>. QED BY <4>1, <1>6, <1>7, <2>1, <3>1 DEF OnItsWay, Attaches
    <3>3. Waiting(caller[q]) => caller[q].client \in Clients
      BY <2>1 DEF CallerOk, Records, Idle, Waiting
    <3>4. Dialled(caller[q]) => caller[q].client \in Clients /\ caller[q].client # d
      BY <1>2, <2>3 DEF TypeInv, OwnedClients, Owns
    <3>5. Uses(q)'
      BY <1>6, <1>7, <1>8, <2>1, <3>1, <3>3, <3>4 DEF Uses, Holding
    <3>. QED BY <3>1, <3>2, <3>5 DEF Fits, WorksOn, Resumes, Redials, Holding
  <2>. QED BY <2>2, <2>3
<1>18. PendingApart'
  BY <1>16 DEF PendingApart
<1>. QED BY <1>10, <1>11, <1>12, <1>13, <1>17, <1>18 DEF OrderParts

LEMMA ResumedAllOrdered ==
  ASSUME TypeInv, OrderParts, NEW p \in AllCallers, ResumedAll(p)
  PROVE  OrderParts'
<1>. DEFINE c == caller[p].client
            x == InRuntime(p, machine)
<1>1. /\ CallerOk(caller[p]) /\ caller[p].op # "none" /\ caller[p] \in Records
      /\ StepOf(caller[p]) = "ensure" /\ caller[p].at = "resume_next" /\ caller[p].todo = {}
  BY AtIs DEF ResumedAll, TypeInv, CallerOk
<1>2. Holding(caller[p]) /\ ~Waiting(caller[p]) /\ Owns(caller[p]) /\ Redialling(caller[p]) /\ ~Pending(caller[p])
  BY <1>1 DEF Owns, Holding, Redialling, Waiting, Pending, Resuming
<1>3. c \in Clients /\ consumer[c].at = "off" /\ machine # 0 /\ machine \in Clients
  BY <1>1, <1>2 DEF TypeInv, StateTyped, OwnedClients, Clients
<1>4. Cur(c) /\ OnItsWay(p) /\ Redials(p)
  BY <1>2, OrderFits DEF Uses
<1>5. /\ CallerOk(x) /\ x.op # "none" /\ x.home # 0 /\ x.runtime # 0
      /\ x.op = caller[p].op /\ x.step = caller[p].step /\ x.thread = caller[p].thread
      /\ x.runtime = machine /\ x.home \in {machine, caller[p].home}
  BY <1>1, <1>2, <1>3, EnsuredIs DEF TypeInv
<1>6. CallerOk(After(x)) /\ Move(p, After(x)) /\ Consume(c, machine)
  BY <1>5, AfterOk DEF ResumedAll, Advance
<1>. HIDE DEF x
<1>7. caller'[p] = After(x) /\ \A q \in AllCallers : q # p => caller'[q] = caller[q]
  BY <1>6, MoveIs DEF TypeInv
<1>8. UNCHANGED <<machine, runtimes, conn, pipe, bridge, sub, active, sent, got, lost, forsaken>>
  BY DEF ResumedAll, codex, history
<1>9. /\ consumer'[c].at = "start" /\ consumer'[c].runtime = machine
      /\ \A k \in Clients : k # c => consumer'[k] = consumer[k]
  BY <1>3, <1>6, ConsumeIs DEF ResumedAll, history, pipe
<1>10. OneRuntime' /\ OneClient' /\ ActiveWatched'
  <2>1. OneRuntime'
    BY <1>4, <1>8, <1>9 DEF OrderParts, OneRuntime, Cur, Client, pipe
  <2>2. OneClient'
    BY <1>8 DEF OrderParts, OneClient, Cur, Client, pipe
  <2>3. ActiveWatched'
    BY <1>8 DEF OrderParts, ActiveWatched, Watched, Watchers
  <2>. QED BY <2>1, <2>2, <2>3
<1>11. UnwatchedQuiet' /\ Ordered'
  <2>1. UnwatchedQuiet'
    BY <1>8 DEF OrderParts, UnwatchedQuiet, Watched, Watchers, NoneUnderWay, NoneTaken, Subscribed, pipe
  <2>2. Ordered'
    BY <1>8 DEF OrderParts, Ordered, GivenUp, Noted, Arriving, Client, pipe
  <2>. QED BY <2>1, <2>2
<1>12. \A q \in AllCallers : q # p => ~Holding(caller[q]) /\ ~Pending(caller[q])
  BY <1>2, OneHolder
<1>13. StepOf(x) = "ensure" /\ (Attaches(x) <=> Attaches(caller[p]))
  BY <1>1, <1>5 DEF StepOf, Attaches
<1>14. Fits(p)' /\ ~Pending(caller[p])'
  <2>1. x.home \in {0, machine'} /\ x.runtime \in {0, machine'}
    BY <1>4, <1>5, <1>8 DEF OnItsWay
  <2>2. Watched(caller[p].thread) => WatchedNext(caller[p].thread)
    BY <1>8 DEF Watched, WatchedNext, Watchers
  <2>. QED BY <1>4, <1>5, <1>7, <1>8, <1>13, <2>1, <2>2, AfterFits DEF OnItsWay
<1>15. \A q \in AllCallers : ~Pending(caller[q])'
  BY <1>7, <1>12, <1>14
<1>16. \A q \in AllCallers : Fits(q)'
  BY <1>7, <1>8, <1>14, OrderFits, FitsSame
<1>17. Attached'
  <2>1. SUFFICES ASSUME NEW d \in Clients, Cur(d), conn[d] = "open", NEW t \in Watchers(machine) \cap Old
                 PROVE  t \in sub[d]
    BY <1>8 DEF Attached, Cur, Client, Watchers
  <2>2. d = c
    BY <2>1, <1>4 DEF Cur
  <2>. QED BY <2>1, <2>2, <1>1, <1>2, <1>4 DEF Redials
<1>18. PendingApart'
  BY <1>15 DEF PendingApart
<1>. QED BY <1>10, <1>11, <1>16, <1>17, <1>18 DEF OrderParts

(* What does not look at the watchers.                                     *)
LEMMA WatchingFrame ==
  ASSUME TypeInv, OrderParts, NEW ws \in SUBSET Threads, machine # 0, machine \in Clients, SetWatchers(machine, ws),
         UNCHANGED <<machine, conn, pipe, consumer, sub, active, sent, got, lost, forsaken>>,
         \A t \in Threads : bridge'[t] \in {0, machine}
  PROVE  /\ OneRuntime' /\ OneClient' /\ Ordered'
         /\ Client(machine)' = Client(machine) /\ Watchers(machine)' = ws
         /\ \A t : Watched(t)' <=> t \in ws
         /\ \A t \in Threads : (NoneUnderWay(t)' <=> NoneUnderWay(t)) /\ (NoneTaken(t)' <=> NoneTaken(t)) /\ (Subscribed(t)' <=> Subscribed(t))
<1>1. Client(machine)' = Client(machine) /\ Watchers(machine)' = ws
  BY SetWatchersIs DEF TypeInv, Client, Watchers
<1>2. \A c \in Clients : Cur(c)' <=> Cur(c)
  BY <1>1 DEF Cur
<1>3. OneRuntime'
  BY <1>2 DEF OrderParts, OneRuntime, pipe
<1>4. OneClient'
  BY <1>2 DEF OrderParts, OneClient, pipe
<1>5. Noted' = Noted /\ Arriving' = Arriving
  BY <1>1 DEF Noted, Arriving, pipe
<1>6. Ordered'
  BY <1>1, <1>5 DEF OrderParts, Ordered, GivenUp, pipe
<1>7. \A t : Watched(t)' <=> t \in ws
  BY <1>1 DEF Watched
<1>8. \A t \in Threads : (NoneUnderWay(t)' <=> NoneUnderWay(t)) /\ (NoneTaken(t)' <=> NoneTaken(t)) /\ (Subscribed(t)' <=> Subscribed(t))
  BY DEF NoneUnderWay, NoneTaken, Subscribed, pipe
<1>. QED BY <1>1, <1>3, <1>4, <1>6, <1>7, <1>8

(* A thread that codex can send nothing for yet is watched.                *)
LEMMA WatchOrdered ==
  ASSUME TypeInv, OrderParts, NEW p \in AllCallers, Watch(p)
  PROVE  OrderParts'
<1>1. caller[p].at = "go" /\ caller[p].op # "none" /\ StepOf(caller[p]) = "watch"
  BY AtIs DEF Watch, TypeInv
<1>. DEFINE t == caller[p].thread
            ws == Watchers(machine) \cup {t}
<1>2. /\ machine \in Clients /\ machine # 0 /\ caller[p].runtime = machine /\ t \in Threads
      /\ CallerOk(caller[p])
  BY <1>1, RuntimeIs
<1>3. /\ SetWatchers(machine, ws) /\ Advance(p, caller[p]) /\ Free
      /\ UNCHANGED <<machine, conn, pipe, consumer, bridge, sub, active, sent, got, lost, forsaken>>
  BY <1>2 DEF Watch, codex, history
<1>4. t \notin Old
  <2>1. caller[p].op \in DOMAIN Script /\ caller[p].step \in 1 .. Len(Script[caller[p].op])
    BY <1>1, <1>2, OpsAreScripts DEF CallerOk
  <2>2. caller[p].op = "start"
    BY <2>1, <1>1, ScriptSteps DEF StepOf
  <2>. QED BY <2>2, OrderFits DEF OnItsWay
<1>5. ws \in SUBSET Threads
  BY <1>2 DEF TypeInv, StateTyped, Watchers
<1>6. \A u \in Threads : bridge'[u] \in {0, machine}
  BY <1>3 DEF OrderParts, OneRuntime
<1>. HIDE DEF ws
<1>7. /\ OneRuntime' /\ OneClient' /\ Ordered'
      /\ Client(machine)' = Client(machine) /\ Watchers(machine)' = ws
      /\ \A u : Watched(u)' <=> u \in ws
      /\ \A u \in Threads : (NoneUnderWay(u)' <=> NoneUnderWay(u)) /\ (Subscribed(u)' <=> Subscribed(u))
  BY <1>2, <1>3, <1>5, <1>6, WatchingFrame
<1>8. \A u : Watched(u)' <=> Watched(u) \/ u = t
  BY <1>2, <1>7 DEF ws, Watched
<1>9. ActiveWatched' /\ UnwatchedQuiet'
  <2>1. ActiveWatched'
    BY <1>3, <1>8 DEF OrderParts, ActiveWatched
  <2>2. UnwatchedQuiet'
    BY <1>3, <1>4, <1>7, <1>8, OldAreThreads DEF OrderParts, UnwatchedQuiet
  <2>. QED BY <2>1, <2>2
<1>10. WatchedNext(t)
  BY <1>2, <1>3, <1>7 DEF WatchedNext, ws
<1>. HIDE DEF t
<1>11. /\ CallerOk(After(caller[p])) /\ Move(p, After(caller[p])) /\ caller'[p] = After(caller[p])
       /\ Fits(p)' /\ ~Pending(caller[p])'
  BY <1>1, <1>3, <1>8, <1>10, AdvanceFits DEF t
<1>12. \A q \in AllCallers : q # p => caller'[q] = caller[q]
  BY <1>11, MoveIs DEF TypeInv
<1>13. \A q \in AllCallers : ~Holding(caller[q]) /\ ~Pending(caller[q])
  BY <1>3, OneHolder
<1>14. \A q \in AllCallers : ~Pending(caller[q])'
  BY <1>11, <1>12, <1>13
<1>15. \A q \in AllCallers : q # p => Fits(q)'
  <2>1. ASSUME NEW q \in AllCallers, q # p PROVE Fits(q)'
    <3>1. CallerOk(caller[q]) /\ Fits(q)
      BY OrderFits DEF TypeInv, CallersTyped
    <3>. QED BY <2>1, <3>1, <1>3, <1>7, <1>8, <1>12, <1>13, FitsUnlocked
  <2>. QED BY <2>1
<1>16. Attached'
  <2>1. \A u \in Old : u \in ws => u \in Watchers(machine)
    BY <1>4 DEF ws, t
  <2>2. \A c \in Clients : Cur(c)' <=> Cur(c)
    BY <1>3, <1>7 DEF Cur
  <2>. QED BY <1>3, <1>7, <1>13, <2>1, <2>2 DEF OrderParts, Attached
<1>17. PendingApart'
  BY <1>14 DEF PendingApart
<1>. QED BY <1>7, <1>9, <1>11, <1>15, <1>16, <1>17 DEF OrderParts

(* The thread that is bridged is watched already.                          *)
LEMMA StartBridgeOrdered ==
  ASSUME TypeInv, OrderParts, NEW p \in AllCallers, StartBridge(p)
  PROVE  OrderParts'
<1>1. caller[p].at = "go" /\ caller[p].op # "none" /\ StepOf(caller[p]) = "bridge"
  BY AtIs DEF StartBridge, TypeInv
<1>. DEFINE t == caller[p].thread
            ws == Watchers(machine) \cup {t}
<1>2. /\ machine \in Clients /\ machine # 0 /\ caller[p].runtime = machine /\ t \in Threads
      /\ CallerOk(caller[p])
  BY <1>1, RuntimeIs
<1>3. /\ SetWatchers(machine, ws) /\ Advance(p, caller[p]) /\ Free
      /\ bridge' = [bridge EXCEPT ![t] = machine]
      /\ UNCHANGED <<machine, conn, pipe, consumer, sub, active, sent, got, lost, forsaken>>
  BY <1>2 DEF StartBridge, codex, history
<1>4. Watched(t)
  <2>1. caller[p].op \in DOMAIN Script /\ caller[p].step \in 1 .. Len(Script[caller[p].op])
    BY <1>1, <1>2, OpsAreScripts DEF CallerOk
  <2>2. (caller[p].op = "start" /\ caller[p].step = 8) \/ (caller[p].op = "attach" /\ caller[p].step = 5)
    BY <2>1, <1>1, ScriptSteps DEF StepOf
  <2>. QED BY <2>2, OrderFits DEF OnItsWay, Attaches
<1>5. ws \in SUBSET Threads /\ ws = Watchers(machine)
  BY <1>2, <1>4 DEF TypeInv, StateTyped, Watchers, Watched
<1>6. \A u \in Threads : bridge'[u] \in {0, machine}
  BY <1>2, <1>3 DEF OrderParts, OneRuntime, TypeInv, StateTyped
<1>. HIDE DEF ws
<1>7. /\ OneRuntime' /\ OneClient' /\ Ordered'
      /\ Client(machine)' = Client(machine) /\ Watchers(machine)' = ws
      /\ \A u : Watched(u)' <=> u \in ws
      /\ \A u \in Threads : (NoneUnderWay(u)' <=> NoneUnderWay(u)) /\ (Subscribed(u)' <=> Subscribed(u))
  BY <1>2, <1>3, <1>5, <1>6, WatchingFrame
<1>8. \A u : Watched(u)' <=> Watched(u)
  BY <1>2, <1>5, <1>7 DEF Watched
<1>9. ActiveWatched' /\ UnwatchedQuiet'
  <2>1. ActiveWatched'
    BY <1>3, <1>8 DEF OrderParts, ActiveWatched
  <2>2. UnwatchedQuiet'
    BY <1>3, <1>7, <1>8, OldAreThreads DEF OrderParts, UnwatchedQuiet
  <2>. QED BY <2>1, <2>2
<1>. HIDE DEF t
<1>11. /\ CallerOk(After(caller[p])) /\ Move(p, After(caller[p])) /\ caller'[p] = After(caller[p])
       /\ Fits(p)' /\ ~Pending(caller[p])'
  BY <1>1, <1>3, <1>8, AdvanceFits
<1>12. \A q \in AllCallers : q # p => caller'[q] = caller[q]
  BY <1>11, MoveIs DEF TypeInv
<1>13. \A q \in AllCallers : ~Holding(caller[q]) /\ ~Pending(caller[q])
  BY <1>3, OneHolder
<1>14. \A q \in AllCallers : ~Pending(caller[q])'
  BY <1>11, <1>12, <1>13
<1>15. \A q \in AllCallers : q # p => Fits(q)'
  <2>1. ASSUME NEW q \in AllCallers, q # p PROVE Fits(q)'
    <3>1. CallerOk(caller[q]) /\ Fits(q)
      BY OrderFits DEF TypeInv, CallersTyped
    <3>. QED BY <2>1, <3>1, <1>3, <1>7, <1>8, <1>12, <1>13, FitsUnlocked
  <2>. QED BY <2>1
<1>16. Attached'
  <2>1. \A c \in Clients : Cur(c)' <=> Cur(c)
    BY <1>3, <1>7 DEF Cur
  <2>. QED BY <1>3, <1>5, <1>7, <1>13, <2>1 DEF OrderParts, Attached
<1>17. PendingApart'
  BY <1>14 DEF PendingApart
<1>. QED BY <1>7, <1>9, <1>11, <1>15, <1>16, <1>17 DEF OrderParts

(* Nothing of a thread is under way when it begins to be watched.          *)
LEMMA ResumeOrdered ==
  ASSUME TypeInv, OrderParts, NEW p \in AllCallers, Resume(p)
  PROVE  OrderParts'
<1>1. /\ CallerOk(caller[p]) /\ caller[p].op # "none" /\ caller[p] \in Records
      /\ StepOf(caller[p]) = "resume" /\ caller[p].at = "go"
  BY AtIs DEF Resume, TypeInv, CallerOk
<1>. DEFINE t == caller[p].thread
            r == [caller[p] EXCEPT !.about = t]
            c == Client(machine)
            ws == Watchers(machine) \cup {t}
<1>2. /\ machine \in Clients /\ machine # 0 /\ caller[p].runtime = machine /\ t \in Threads
  BY <1>1, RuntimeIs
<1>3. /\ SetWatchers(machine, ws) /\ Call(p, c, r) /\ Free /\ c # 0 /\ c \in Clients
      /\ t \notin Watchers(machine)
      /\ UNCHANGED <<machine, conn, pipe, consumer, bridge, sub, active, sent, got, lost, forsaken>>
  BY <1>2 DEF Resume, codex, history, TypeInv, StateTyped, Client
<1>4. /\ r.op = caller[p].op /\ r.step = caller[p].step /\ r.at = caller[p].at /\ r.thread = t
      /\ r.about = t /\ r.home = caller[p].home /\ r.runtime = caller[p].runtime
      /\ r.client = caller[p].client /\ r.todo = caller[p].todo
      /\ r \in Records
  BY <1>1, <1>2 DEF Records
<1>. HIDE DEF r
<1>5. StepOf(r) = "resume" /\ CallerOk(r)
  BY <1>1, <1>4 DEF StepOf, CallerOk, Waiting, Dialled
<1>6. PICK x :
        /\ CallerOk(x) /\ Move(p, x) /\ Holding(x) /\ ~Dialled(x)
        /\ \/ /\ x.op = r.op /\ x.step = r.step /\ x.at = "sent" /\ x.thread = r.thread /\ x.about = r.about
              /\ x.home = r.home /\ x.runtime = r.runtime /\ x.client = c
           \/ x = Returned(r, "failed")
  BY <1>1, <1>2, <1>3, <1>4, <1>5, CallIs
<1>7. /\ x.op = caller[p].op /\ x.step = caller[p].step /\ x.at \in {"sent", "failed"} /\ x.thread = t /\ x.about = t
      /\ x.home = caller[p].home /\ x.runtime = caller[p].runtime /\ (x.at = "sent" => x.client = c)
  <2>1. CASE x = Returned(r, "failed")
    <3>1. /\ x.op = r.op /\ x.step = r.step /\ x.thread = r.thread /\ x.about = r.about
          /\ x.home = r.home /\ x.runtime = r.runtime /\ x.at = "failed"
      BY <1>1, <1>4, <1>5, <2>1, ReturnedIs DEF Methods
    <3>. QED BY <3>1, <1>4
  <2>2. CASE x # Returned(r, "failed")
    BY <1>4, <1>6, <2>2
  <2>. QED BY <2>1, <2>2
<1>8. caller'[p] = x /\ \A q \in AllCallers : q # p => caller'[q] = caller[q]
  BY <1>6, MoveIs DEF TypeInv
<1>9. StepOf(x) = "resume" /\ Resuming(x) /\ Pending(x) /\ ~Redialling(x)
  BY <1>1, <1>7 DEF StepOf, Resuming, Pending, Redialling
<1>10. t \in Old /\ ~Attaches(x) /\ OnItsWay(p) /\ caller[p].op = "attach"
  <2>1. caller[p].op \in DOMAIN Script /\ caller[p].step \in 1 .. Len(Script[caller[p].op])
    BY <1>1, OpsAreScripts DEF CallerOk
  <2>2. caller[p].op = "attach" /\ caller[p].step = 2
    BY <2>1, <1>1, ScriptSteps DEF StepOf
  <2>. QED BY <2>2, <1>7, OrderFits DEF OnItsWay, Attaches
<1>11. t \notin forsaken => NoneUnderWay(t) /\ ~Subscribed(t)
  BY <1>3, <1>10 DEF OrderParts, UnwatchedQuiet, Watched
<1>12. ws \in SUBSET Threads
  BY <1>2 DEF TypeInv, StateTyped, Watchers
<1>13. \A u \in Threads : bridge'[u] \in {0, machine}
  BY <1>3 DEF OrderParts, OneRuntime
<1>. HIDE DEF ws, t, c
<1>14. /\ OneRuntime' /\ OneClient' /\ Ordered'
       /\ Client(machine)' = Client(machine) /\ Watchers(machine)' = ws
       /\ \A u : Watched(u)' <=> u \in ws
       /\ \A u \in Threads : (NoneUnderWay(u)' <=> NoneUnderWay(u)) /\ (Subscribed(u)' <=> Subscribed(u))
  BY <1>2, <1>3, <1>12, <1>13, WatchingFrame
<1>15. \A u : Watched(u)' <=> Watched(u) \/ u = t
  BY <1>2, <1>14 DEF ws, Watched
<1>16. ActiveWatched' /\ UnwatchedQuiet'
  <2>1. ActiveWatched'
    BY <1>3, <1>15 DEF OrderParts, ActiveWatched
  <2>2. UnwatchedQuiet'
    BY <1>3, <1>14, <1>15, OldAreThreads DEF OrderParts, UnwatchedQuiet
  <2>. QED BY <2>1, <2>2
<1>17. \A q \in AllCallers : ~Holding(caller[q]) /\ ~Pending(caller[q])
  BY <1>3, OneHolder
<1>18. Fits(p)'
  <2>1. OnItsWay(p)'
    BY <1>3, <1>7, <1>8, <1>10, <1>15 DEF OnItsWay
  <2>2. Uses(p)'
    <3>1. x.at = "sent" => Cur(x.client)'
      BY <1>2, <1>3, <1>7, <1>14 DEF Cur, c
    <3>. QED BY <3>1, <1>6, <1>7, <1>8, <1>9 DEF Uses, Waiting
  <2>3. WorksOn(p)'
    BY <1>7, <1>8, <1>9, <1>15 DEF WorksOn
  <2>4. Resumes(p)'
    <3>1. \A u \in Threads : u = t /\ u \notin forsaken => NoneUnderWay(u)' /\ ~Subscribed(u)'
      BY <1>11, <1>14
    <3>2. t \in Threads
      BY <1>2 DEF t
    <3>. QED BY <1>3, <1>7, <1>8, <3>1, <3>2 DEF Resumes, NoneUnderWay, NoneTaken, Subscribed
  <2>5. Redials(p)'
    BY <1>7, <1>8, <1>9 DEF Redials
  <2>. QED BY <2>1, <2>2, <2>3, <2>4, <2>5 DEF Fits
<1>19. \A q \in AllCallers : q # p => Fits(q)'
  <2>1. ASSUME NEW q \in AllCallers, q # p PROVE Fits(q)'
    <3>1. CallerOk(caller[q]) /\ Fits(q)
      BY OrderFits DEF TypeInv, CallersTyped
    <3>. QED BY <2>1, <3>1, <1>3, <1>8, <1>14, <1>15, <1>17, FitsUnlocked
  <2>. QED BY <2>1
<1>20. Attached'
  <2>1. SUFFICES ASSUME NEW d \in Clients, Cur(d)', conn[d] = "open", consumer[d].at # "off", NEW u \in ws \cap Old
                 PROVE  u \in sub[d] \/ \E q \in AllCallers : Pending(caller[q])' /\ caller'[q].thread = u
    BY <1>3, <1>14 DEF Attached
  <2>2. CASE u = t
    BY <2>2, <1>7, <1>8, <1>9
  <2>3. CASE u # t
    <3>1. Cur(d) /\ u \in Watchers(machine) \cap Old
      BY <2>1, <2>3, <1>3, <1>14 DEF Cur, ws
    <3>. QED BY <2>1, <3>1, <1>17 DEF OrderParts, Attached
  <2>. QED BY <2>2, <2>3
<1>21. PendingApart'
  <2>1. SUFFICES ASSUME NEW a \in AllCallers, NEW b \in AllCallers, Pending(caller[a])', Attaches(caller[b])'
                 PROVE  caller'[b].thread # caller'[a].thread
    BY DEF PendingApart
  <2>2. a = p /\ b # p /\ caller'[b] = caller[b] /\ caller'[a].thread = t
    BY <2>1, <1>7, <1>8, <1>10, <1>17
  <2>3. Watched(caller[b].thread)
    BY <2>1, <2>2, OrderFits DEF OnItsWay
  <2>. QED BY <2>2, <2>3, <1>3 DEF Watched
<1>. QED BY <1>14, <1>16, <1>18, <1>19, <1>20, <1>21 DEF OrderParts
(* A thread that could not be resumed is not watched any more.             *)
LEMMA ResumeReturnsOrdered ==
  ASSUME TypeInv, OrderParts, NEW p \in AllCallers, ResumeReturns(p)
  PROVE  OrderParts'
<1>1. /\ CallerOk(caller[p]) /\ caller[p].op # "none" /\ caller[p] \in Records
      /\ StepOf(caller[p]) = "resume" /\ caller[p].at \in {"answered", "failed", "refused"}
  BY AtIs DEF ResumeReturns, TypeInv, CallerOk
<1>2. Holding(caller[p]) /\ Resuming(caller[p])
  BY <1>1 DEF Holding, Resuming
<1>3. \A q \in AllCallers : q # p => ~Holding(caller[q]) /\ ~Pending(caller[q])
  BY <1>2, OneHolder
<1>4. UNCHANGED <<machine, conn, pipe, consumer, bridge, sub, active, sent, got, lost, forsaken>>
  BY DEF ResumeReturns, codex, history
<1>5. /\ machine \in Clients /\ machine # 0 /\ caller[p].runtime = machine /\ caller[p].thread \in Threads
  BY <1>1, RuntimeIs
<1>6. CASE Advance(p, caller[p]) /\ runtimes' = runtimes /\ caller[p].at = "answered"
  <2>1. Watched(caller[p].thread)
    BY <1>2, OrderFits DEF WorksOn
  <2>2. WatchedNext(caller[p].thread)
    BY <1>4, <1>6, <2>1 DEF Watched, WatchedNext, Watchers
  <2>3. \A t \in Threads : Watched(t) => Watched(t)'
    BY <1>4, <1>6 DEF Watched, Watchers
  <2>. DEFINE x == After(caller[p])
  <2>4. CallerOk(x) /\ Move(p, x) /\ caller'[p] = x /\ Fits(p)' /\ ~Pending(caller[p])'
    BY <1>1, <1>4, <1>6, <2>2, <2>3, AdvanceFits
  <2>. HIDE DEF x
  <2>5. ~Pending(caller[p]) /\ ~Pending(x)
    BY <1>6, <2>4 DEF Pending
  <2>. QED BY <1>3, <1>4, <1>6, <2>4, <2>5, CallerStep
<1>7. CASE Finish(p) /\ SetWatchers(machine, Watchers(machine) \ {caller[p].thread}) /\ caller[p].at \in {"failed", "refused"}
  <2>. DEFINE t == caller[p].thread
              ws == Watchers(machine) \ {t}
  <2>1. t \in Old /\ Pending(caller[p]) /\ (t \notin forsaken => NoneUnderWay(t) /\ ~Subscribed(t))
    <3>1. caller[p].op \in DOMAIN Script /\ caller[p].step \in 1 .. Len(Script[caller[p].op])
      BY <1>1, OpsAreScripts DEF CallerOk
    <3>2. caller[p].op = "attach"
      BY <3>1, <1>1, ScriptSteps DEF StepOf
    <3>. QED BY <3>2, <1>2, <1>7, OrderFits DEF OnItsWay, Resumes, Pending
  <2>2. ws \in SUBSET Threads
    BY <1>5 DEF TypeInv, StateTyped, Watchers
  <2>3. \A u \in Threads : bridge'[u] \in {0, machine}
    BY <1>4 DEF OrderParts, OneRuntime
  <2>4. SetWatchers(machine, ws)
    BY <1>7
  <2>5. caller'[p] = Idle /\ \A q \in AllCallers : q # p => caller'[q] = caller[q]
    BY <1>7, IdleOk, MoveIs DEF TypeInv, Finish
  <2>. HIDE DEF ws, t
  <2>6. /\ OneRuntime' /\ OneClient' /\ Ordered'
        /\ Client(machine)' = Client(machine) /\ Watchers(machine)' = ws
        /\ \A u : Watched(u)' <=> u \in ws
        /\ \A u \in Threads : (NoneUnderWay(u)' <=> NoneUnderWay(u)) /\ (Subscribed(u)' <=> Subscribed(u))
    BY <1>4, <1>5, <2>2, <2>3, <2>4, WatchingFrame
  <2>7. \A u : Watched(u)' <=> Watched(u) /\ u # t
    BY <1>5, <2>6 DEF ws, Watched
  <2>8. ActiveWatched' /\ UnwatchedQuiet'
    <3>1. ActiveWatched'
      BY <1>4, <2>1, <2>7 DEF OrderParts, ActiveWatched
    <3>2. UnwatchedQuiet'
      BY <1>4, <2>1, <2>6, <2>7, OldAreThreads DEF OrderParts, UnwatchedQuiet
    <3>. QED BY <3>1, <3>2
  <2>9. Fits(p)' /\ ~Pending(caller[p])'
    BY <2>5, IdleFits
  <2>10. ASSUME NEW q \in AllCallers, q # p PROVE Fits(q)'
    <3>1. /\ OnItsWay(q) /\ Uses(q) /\ ~Holding(caller[q]) /\ caller'[q] = caller[q]
      BY <1>3, <2>5, <2>10, OrderFits
    <3>2. caller[q].thread # t \/ ~(Attaches(caller[q]) \/ caller[q].op = "start")
      BY <2>1, <3>1 DEF OrderParts, PendingApart, OnItsWay, t
    <3>3. OnItsWay(q)'
      BY <1>4, <2>7, <3>1, <3>2 DEF OnItsWay
    <3>4. Uses(q)'
      BY <1>4, <2>6, <3>1 DEF Uses, Cur
    <3>. QED BY <3>1, <3>3, <3>4 DEF Fits, WorksOn, Resumes, Redials, Holding
  <2>11. Attached'
    <3>1. SUFFICES ASSUME NEW d \in Clients, Cur(d)', conn[d] = "open", consumer[d].at # "off", NEW u \in ws \cap Old
                   PROVE  u \in sub[d]
      BY <1>4, <2>6 DEF Attached
    <3>2. Cur(d) /\ u \in Watchers(machine) \cap Old /\ u # t
      BY <1>4, <2>6, <3>1 DEF Cur, ws
    <3>. QED BY <1>3, <3>1, <3>2 DEF OrderParts, Attached, t
  <2>12. PendingApart'
    BY <1>3, <2>5, <2>9 DEF PendingApart
  <2>. QED BY <2>6, <2>8, <2>9, <2>10, <2>11, <2>12 DEF OrderParts
<1>8. \/ Advance(p, caller[p]) /\ runtimes' = runtimes /\ caller[p].at = "answered"
      \/ Finish(p) /\ SetWatchers(machine, Watchers(machine) \ {caller[p].thread}) /\ caller[p].at \in {"failed", "refused"}
  BY <1>5 DEF ResumeReturns, At
<1>. QED BY <1>6, <1>7, <1>8

LEMMA StepsOrdered ==
  ASSUME "cleanup" \notin Ops, TypeInv, OrderParts, NEW p \in AllCallers, Steps(p), ~raced', ~panicked'
  PROVE  OrderParts'
<1>1. ~Forget(p)
  <2>1. SUFFICES ASSUME Forget(p) PROVE FALSE
    OBVIOUS
  <2>2. CallerOk(caller[p]) /\ caller[p].op # "none" /\ StepOf(caller[p]) = "forget"
    BY <2>1, AtIs DEF Forget, TypeInv
  <2>3. caller[p].op \in DOMAIN Script /\ caller[p].step \in 1 .. Len(Script[caller[p].op])
    BY <2>2, OpsAreScripts DEF CallerOk
  <2>. QED BY <2>2, <2>3, ScriptSteps DEF StepOf, CallerOk
<1>2. ~NilClient(p)
  BY DEF NilClient
<1>. QED BY <1>1, <1>2, EnsureAliveOrdered, DialOrdered, DialFailsOrdered, InstallOrdered, ReinstallOrdered, ResumeNextOrdered,
            ResumeFailsOrdered, ResumedAllOrdered, CallMethodOrdered, RespondOrdered, WatchOrdered, ResumeWatchedOrdered,
            ResumeOrdered, ResumeReturnsOrdered, MarkOrdered, StartBridgeOrdered, SnapshotOrdered DEF Steps, Ensure

-------------------------------------------------------------------------------
(* A message moves on behind the inbox.                                    *)
LEMMA MovedFrame ==
  ASSUME TypeInv, OrderParts, UNCHANGED <<machine, runtimes, conn, caller, bridge, sub, active, inbox, sent, lost, forsaken>>,
         \A k \in Clients : consumer'[k].at # "off" => consumer[k].at # "off",
         \A t \in Threads : NoneTaken(t) => NoneTaken(t)',
         OneRuntime', OneClient', Ordered'
  PROVE  OrderParts'
<1>1. ActiveWatched' /\ PendingApart'
  BY DEF OrderParts, ActiveWatched, PendingApart, Watched, Watchers
<1>2. Attached'
  BY DEF OrderParts, Attached, Cur, Client, Watchers
<1>3. \A t \in Threads : NoneUnderWay(t) => NoneUnderWay(t)'
  BY DEF NoneUnderWay
<1>4. \A t \in Threads : (Subscribed(t)' <=> Subscribed(t)) /\ (Watched(t)' <=> Watched(t))
  BY DEF Subscribed, Watched, Watchers
<1>5. UnwatchedQuiet'
  BY <1>3, <1>4, OldAreThreads DEF OrderParts, UnwatchedQuiet
<1>6. ASSUME NEW q \in AllCallers PROVE Fits(q)'
  <2>1. OnItsWay(q) /\ Uses(q) /\ WorksOn(q) /\ Resumes(q) /\ Redials(q) /\ CallerOk(caller[q])
    BY OrderFits DEF TypeInv, CallersTyped
  <2>2. OnItsWay(q)' /\ WorksOn(q)'
    BY <2>1 DEF OnItsWay, WorksOn, Watched, Watchers
  <2>3. Uses(q)' /\ Redials(q)'
    BY <2>1 DEF Uses, Redials, Cur, Client, Watchers
  <2>4. Resumes(q)'
    <3>1. SUFFICES ASSUME Resuming(caller[q]), caller[q].thread \notin forsaken PROVE Resumes(q)'
      BY DEF Resumes
    <3>2. caller[q].thread \in Threads
      BY <2>1, <3>1 DEF CallerOk, Resuming
    <3>3. \A t \in Threads : t = caller[q].thread =>
            /\ NoneUnderWay(t) => NoneUnderWay(t)'
            /\ NoneTaken(t) => NoneTaken(t)'
            /\ Subscribed(t)' <=> Subscribed(t)
      BY <1>3, <1>4
    <3>4. /\ caller[q].at \in {"sent", "failed", "refused"} => NoneUnderWay(caller[q].thread) /\ ~Subscribed(caller[q].thread)
          /\ caller[q].at = "replied" =>
               /\ NoneTaken(caller[q].thread) /\ Heralded(inbox[caller[q].client], q, caller[q].thread)
               /\ Subscribed(caller[q].thread) => HasAnswer(inbox[caller[q].client], q)
      BY <2>1, <3>1 DEF Resumes
    <3>5. PICK t \in Threads : t = caller[q].thread
      BY <3>2
    <3>6. /\ caller[q].at \in {"sent", "failed", "refused"} => NoneUnderWay(t)' /\ ~Subscribed(t)'
          /\ caller[q].at = "replied" =>
               /\ NoneTaken(t)' /\ Heralded(inbox[caller[q].client], q, t)
               /\ Subscribed(t)' => HasAnswer(inbox[caller[q].client], q)
      BY <3>3, <3>4, <3>5
    <3>7. caller'[q].thread = t /\ caller' = caller /\ inbox' = inbox
      BY <3>5
    <3>. QED BY <3>6, <3>7 DEF Resumes, NoneUnderWay, NoneTaken, Subscribed, Heralded
  <2>. QED BY <2>2, <2>3, <2>4 DEF Fits
<1>. QED BY <1>1, <1>2, <1>5, <1>6 DEF OrderParts

LEMMA StartConsumerOrdered ==
  ASSUME TypeInv, OrderParts, NEW k \in Clients, StartConsumer(k), ~panicked'
  PROVE  OrderParts'
<1>1. /\ consumer[k].at = "start" /\ consumer[k] \in Consumers
      /\ consumer' = [consumer EXCEPT ![k].at = "ready", ![k].client = Client(consumer[k].runtime)]
      /\ UNCHANGED <<machine, runtimes, conn, pipe, caller, bridge, sub, active, sent, got, lost, forsaken>>
  BY DEF StartConsumer, On, TypeInv, ConsumersTyped, lock, codex
<1>2. Client(consumer[k].runtime) = k
  BY <1>1 DEF OrderParts, OneRuntime, Cur
<1>3. /\ consumer'[k].at = "ready" /\ consumer'[k].client = k /\ consumer'[k].runtime = consumer[k].runtime
      /\ \A d \in Clients : d # k => consumer'[d] = consumer[d]
  BY <1>1, <1>2 DEF TypeInv, ConsumersTyped, Consumers
<1>4. OneRuntime'
  BY <1>1, <1>3 DEF OrderParts, OneRuntime, Cur, Client, pipe
<1>5. OneClient' /\ Ordered'
  BY <1>1 DEF OrderParts, OneClient, Ordered, GivenUp, Noted, Arriving, Cur, Client, pipe
<1>6. \A t \in Threads : NoneTaken(t) => NoneTaken(t)'
  BY <1>1 DEF NoneTaken, pipe
<1>7. \A d \in Clients : consumer'[d].at # "off" => consumer[d].at # "off"
  BY <1>1, <1>3
<1>. QED BY <1>1, <1>4, <1>5, <1>6, <1>7, MovedFrame DEF pipe

LEMMA ApplyBlocksOrdered ==
  ASSUME TypeInv, OrderParts, NEW k \in Clients, ApplyBlocks(k)
  PROVE  OrderParts'
<1>1. /\ consumer[k].at = "ready"
      /\ consumer' = [consumer EXCEPT ![k].at = "blocked"]
      /\ UNCHANGED <<machine, runtimes, conn, pipe, caller, bridge, sub, active, sent, got, lost, forsaken>>
  BY DEF ApplyBlocks, On, codex, history
<1>3. /\ consumer'[k].at = "blocked" /\ consumer'[k].client = consumer[k].client /\ consumer'[k].runtime = consumer[k].runtime
      /\ \A d \in Clients : d # k => consumer'[d] = consumer[d]
  BY <1>1 DEF TypeInv, ConsumersTyped, Consumers
<1>4. OneRuntime'
  BY <1>1, <1>3 DEF OrderParts, OneRuntime, Cur, Client, pipe
<1>5. OneClient' /\ Ordered'
  BY <1>1 DEF OrderParts, OneClient, Ordered, GivenUp, Noted, Arriving, Cur, Client, pipe
<1>6. \A t \in Threads : NoneTaken(t) => NoneTaken(t)'
  BY <1>1 DEF NoneTaken, pipe
<1>7. \A d \in Clients : consumer'[d].at # "off" => consumer[d].at # "off"
  BY <1>1, <1>3
<1>. QED BY <1>1, <1>4, <1>5, <1>6, <1>7, MovedFrame DEF pipe

(* An event on its way is of a thread that is watched, or was given up.    *)
LEMMA EventWatched ==
  ASSUME TypeInv, OrderParts, NEW c \in Clients, notes[c] # <<>>, NEW t \in Threads, IsEvent(Head(notes[c]), t)
  PROVE  (Watched(t) \/ t \in GivenUp) /\ ~NoneTaken(t)
<1>1. notes[c] \in Seq(Frames)
  BY DEF TypeInv, QueuesTyped
<1>2. Head(notes[c]).n \in EventsOf(notes[c], t)
  BY <1>1, TailEvents
<1>3. sent[t] # 0
  <2>1. EventsOf(notes[c], t) \subseteq 1 .. sent[t] /\ sent[t] \in Nat
    BY DEF TypeInv, Numbered
  <2>. QED BY <1>2, <2>1
<1>4. t \in active
  BY <1>3 DEF OrderParts, ActiveWatched
<1>5. ~NoneTaken(t)
  BY <1>2 DEF NoneTaken
<1>. QED BY <1>4, <1>5 DEF OrderParts, ActiveWatched, UnwatchedQuiet, NoneUnderWay, GivenUp

LEMMA TakenOrdered ==
  ASSUME TypeInv, OrderParts, NEW k \in Clients, ~panicked, consumer[k].at \in {"ready", "blocked"},
         notes[consumer[k].client] # <<>>, Taken(k),
         \/ Message(k).kind = "event" /\ Room(k) /\ Passed(k)
         \/ ~ForWatcher(k) /\ channel' = channel,
         consumer' = consumer \/ consumer' = [consumer EXCEPT ![k].at = "ready"],
         UNCHANGED <<machine, runtimes, conn, caller, bridge, sub, active, inbox, runner, sent, got, lost, forsaken>>
  PROVE  OrderParts'
<1>. DEFINE m == Message(k)
<1>1. /\ Cur(k) /\ consumer[k].client = k /\ consumer[k].runtime = machine /\ machine # 0 /\ machine \in Clients
  BY DEF OrderParts, OneRuntime, Cur, TypeInv, StateTyped
<1>2. /\ notes[k] \in Seq(Frames) /\ m \in Frames /\ notes[k] # <<>> /\ m = Head(notes[k])
      /\ m.kind = "event" => m.thread \in Threads /\ m \in EventsFor({m.thread})
      /\ notes' = [notes EXCEPT ![k] = Tail(@)]
  BY <1>1, WorkIs DEF Taken, Message
<1>3. notes'[k] = Tail(notes[k]) /\ \A d \in Clients : d # k => notes'[d] = notes[d]
  BY <1>2 DEF TypeInv, QueuesTyped
<1>4. \A t \in Threads : IsEvent(m, t) => (Watched(t) \/ t \in GivenUp) /\ ~NoneTaken(t)
  BY <1>2, EventWatched
<1>. HIDE DEF m
<1>. DEFINE Passes == /\ m.kind = "event" /\ m.thread \in Threads
                      /\ Len(channel[machine][m.thread]) < WatcherCap
                      /\ channel' = [channel EXCEPT ![machine][m.thread] = Append(@, m)]
<1>5. \/ Passes
      \/ channel' = channel /\ (m.kind = "event" => m.thread \in GivenUp)
  <2>1. ForWatcher(k) <=> m.kind = "event" /\ m.thread \in Watchers(machine)
    BY <1>1 DEF ForWatcher, m
  <2>2. m.kind = "event" => m.thread \in Threads /\ IsEvent(m, m.thread)
    BY <1>2 DEF IsEvent
  <2>3. m.kind = "event" => m.thread \in Watchers(machine) \cup GivenUp
    BY <1>4, <2>2 DEF Watched
  <2>. QED BY <1>1, <2>1, <2>2, <2>3 DEF Room, Passed, m
<1>6. \A t \in Threads :
        /\ IsEvent(m, t) /\ t \notin GivenUp =>
             channel'[machine][t] = Append(channel[machine][t], m) /\ m \in EventsFor({t})
        /\ ~IsEvent(m, t) => channel'[machine][t] = channel[machine][t]
  <2>1. CASE Passes
    <3>1. m.thread \in Threads /\ m \in EventsFor({m.thread}) /\ Len(channel[machine][m.thread]) < WatcherCap
          /\ channel' = [channel EXCEPT ![machine][m.thread] = Append(@, m)]
      BY <1>2, <2>1
    <3>. DEFINE t == m.thread
    <3>3. t \in Threads /\ m \in EventsFor({t}) /\ Len(channel[machine][t]) < WatcherCap
          /\ channel' = [channel EXCEPT ![machine][t] = Append(@, m)] /\ t = m.thread
      BY <3>1
    <3>. HIDE DEF t
    <3>4. /\ channel'[machine][t] = Append(channel[machine][t], m)
          /\ \A s \in Clients, u \in Threads : s # machine \/ u # t => channel'[s][u] = channel[s][u]
      BY <1>1, <3>3 DEF TypeInv, QueuesTyped
    <3>2. /\ channel'[machine][m.thread] = Append(channel[machine][m.thread], m)
          /\ \A u \in Threads : u # m.thread => channel'[machine][u] = channel[machine][u]
      BY <1>1, <3>3, <3>4
    <3>. QED BY <3>1, <3>2, <2>1 DEF IsEvent
  <2>2. CASE channel' = channel /\ (m.kind = "event" => m.thread \in GivenUp)
    BY <2>2 DEF IsEvent
  <2>. QED BY <1>5, <2>1, <2>2
<1>7. \A s \in Clients, u \in Threads : s # machine => channel'[s][u] = channel[s][u]
  <2>1. CASE Passes
    <3>1. m.thread \in Threads /\ m \in EventsFor({m.thread}) /\ Len(channel[machine][m.thread]) < WatcherCap
          /\ channel' = [channel EXCEPT ![machine][m.thread] = Append(@, m)]
      BY <1>2, <2>1
    <3>. QED BY <1>1, <3>1, PassedIs
  <2>2. CASE channel' = channel
    BY <2>2
  <2>. QED BY <1>5, <2>1, <2>2
<1>. HIDE DEF Passes
<1>8. /\ consumer'[k].at \in {"ready", consumer[k].at} /\ consumer'[k].client = consumer[k].client /\ consumer'[k].runtime = consumer[k].runtime
      /\ \A d \in Clients : d # k => consumer'[d] = consumer[d]
  BY DEF TypeInv, ConsumersTyped, Consumers
<1>9. OneRuntime'
  BY <1>1, <1>7, <1>8 DEF OrderParts, OneRuntime, Cur, Client
<1>10. OneClient'
  BY <1>1, <1>3 DEF OrderParts, OneClient, Cur, Client
<1>11. Client(machine) = k /\ Noted = notes[k] /\ Noted' = Tail(notes[k]) /\ Arriving' = Arriving
  <2>1. Client(machine) = k /\ k # 0 /\ Client(machine)' = k
    BY <1>1 DEF Cur, Client, Clients
  <2>. QED BY <2>1, <1>3 DEF Noted, Arriving
<1>12. Ordered'
  <2>1. SUFFICES ASSUME NEW t \in Threads \ GivenUp
                 PROVE  Pipeline(runner, channel'[machine][t], Tail(notes[k]), Arriving, t, got[t], sent[t], lost[t])
    BY <1>11 DEF Ordered, GivenUp
  <2>2. Pipeline(runner, channel[machine][t], notes[k], Arriving, t, got[t], sent[t], lost[t])
    BY <1>1, <1>11 DEF OrderParts, Ordered
  <2>3. channel[machine][t] \in Seq(EventsFor({t}))
    BY <1>1 DEF TypeInv, QueuesTyped
  <2>. DEFINE P(b, c) == Pipeline(runner, b, c, Arriving, t, got[t], sent[t], lost[t])
  <2>4. /\ IsEvent(m, t) /\ m \in EventsFor({t}) => P(Append(channel[machine][t], m), Tail(notes[k]))
        /\ ~IsEvent(m, t) => P(channel[machine][t], Tail(notes[k]))
    BY <1>2, <2>2, <2>3, AppliedPipe
  <2>. HIDE DEF P
  <2>5. P(channel'[machine][t], Tail(notes[k]))
    BY <1>6, <2>4
  <2>. QED BY <2>5 DEF P
<1>13. ASSUME NEW t \in Threads, NoneTaken(t) PROVE NoneTaken(t)'
  <2>1. ~IsEvent(m, t)
    BY <1>4, <1>13
  <2>2. channel'[machine][t] = channel[machine][t]
    BY <1>6, <2>1
  <2>3. EventsOf(notes[k], t) = EventsOf(Tail(notes[k]), t) \cup (IF IsEvent(m, t) THEN {m.n} ELSE {})
    BY <1>2, TailEvents
  <2>4. EventsOf(notes'[k], t) = {}
    BY <1>3, <1>13, <2>3 DEF NoneTaken
  <2>. QED BY <1>3, <1>13, <2>2, <2>4 DEF NoneTaken
<1>14. \A d \in Clients : consumer'[d].at # "off" => consumer[d].at # "off"
  BY <1>8
<1>. QED BY <1>9, <1>10, <1>12, <1>13, <1>14, MovedFrame

LEMMA ApplyOrdered ==
  ASSUME TypeInv, OrderParts, NEW k \in Clients, Apply(k)
  PROVE  OrderParts'
  BY TakenOrdered DEF Apply, ForWatcher, On, lock, goroutines, codex, history

LEMMA ApplyUnblocksOrdered ==
  ASSUME TypeInv, OrderParts, NEW k \in Clients, ApplyUnblocks(k)
  PROVE  OrderParts'
<1>1. /\ ~panicked /\ consumer[k].at = "blocked" /\ Room(k) /\ Passed(k) /\ Taken(k)
      /\ consumer' = [consumer EXCEPT ![k].at = "ready"]
      /\ UNCHANGED <<machine, runtimes, conn, inbox, runner, bridge, caller, sub, active, sent, got, lost, forsaken>>
  BY DEF ApplyUnblocks, On, codex, history
<1>2. notes[consumer[k].client] # <<>> /\ Message(k).kind = "event"
  BY <1>1 DEF TypeInv, BlockedOnEvent
<1>. QED BY <1>1, <1>2, TakenOrdered

LEMMA BridgeEventOrdered ==
  ASSUME TypeInv, OrderParts, NEW t \in Threads, BridgeEvent(t)
  PROVE  OrderParts'
<1>. DEFINE m == Head(channel[machine][t])
<1>1. /\ machine \in Clients /\ machine # 0 /\ channel[machine][t] # <<>>
      /\ runner' = Append(runner, m)
      /\ channel' = [channel EXCEPT ![machine][t] = Tail(@)]
      /\ UNCHANGED <<machine, runtimes, conn, inbox, notes, consumer, caller, bridge, sub, active, sent, got, lost, forsaken>>
  <2>1. bridge[t] = machine /\ machine # 0
    BY DEF BridgeEvent, OrderParts, OneRuntime
  <2>. QED BY <2>1 DEF BridgeEvent, TypeInv, StateTyped, lock, goroutines, codex, history
<1>2. /\ channel[machine][t] \in Seq(EventsFor({t})) /\ runner \in Seq(EventsFor(Threads))
  BY <1>1 DEF TypeInv, QueuesTyped
<1>3. m \in EventsFor({t}) /\ m \in EventsFor(Threads) /\ \A u : IsEvent(m, u) <=> u = t
  <2>1. m \in EventsFor({t})
    BY <1>1, <1>2, TailIs
  <2>. QED BY <2>1 DEF EventsFor, IsEvent
<1>4. /\ channel'[machine][t] = Tail(channel[machine][t])
      /\ \A s \in Clients, u \in Threads : s # machine \/ u # t => channel'[s][u] = channel[s][u]
  BY <1>1 DEF TypeInv, QueuesTyped
<1>. HIDE DEF m
<1>5. OneRuntime'
  BY <1>1, <1>4 DEF OrderParts, OneRuntime, Cur, Client
<1>6. OneClient'
  BY <1>1 DEF OrderParts, OneClient, Cur, Client
<1>7. Noted' = Noted /\ Arriving' = Arriving
  BY <1>1 DEF Noted, Arriving, Client
<1>8. \A u \in Threads : EventsOf(runner', u) = EventsOf(runner, u) \cup (IF IsEvent(m, u) THEN {m.n} ELSE {})
  BY <1>1, <1>2, <1>3, AppendEvents
<1>9. Ordered'
  <2>1. SUFFICES ASSUME NEW u \in Threads \ GivenUp
                 PROVE  Pipeline(runner', channel'[machine][u], Noted, Arriving, u, got[u], sent[u], lost[u])
    BY <1>1, <1>7 DEF Ordered, GivenUp
  <2>2. Pipeline(runner, channel[machine][u], Noted, Arriving, u, got[u], sent[u], lost[u])
    BY <1>1 DEF OrderParts, Ordered
  <2>3. CASE u = t
    <3>1. Pipeline(Append(runner, Head(channel[machine][u])), Tail(channel[machine][u]), Noted, Arriving, u, got[u], sent[u], lost[u])
      BY <1>1, <1>2, <2>2, <2>3, BridgedPipe
    <3>. QED BY <1>1, <1>4, <2>3, <3>1 DEF m
  <2>4. CASE u # t
    <3>1. channel'[machine][u] = channel[machine][u] /\ EventsOf(runner', u) = EventsOf(runner, u)
      BY <1>1, <1>3, <1>4, <1>8, <2>4
    <3>2. InOrder(runner', u)
      BY <1>1, <1>2, <1>3, <2>2, <2>4, AppendInOrder DEF Pipeline
    <3>. QED BY <2>2, <3>1, <3>2 DEF Pipeline
  <2>. QED BY <2>3, <2>4
<1>10. ASSUME NEW u \in Threads, NoneTaken(u) PROVE NoneTaken(u)'
  <2>1. u # t
    <3>1. EventsOf(channel[machine][t], t) # {}
      BY <1>1, <1>2, <1>3, TailEvents DEF m
    <3>. QED BY <1>1, <1>10, <3>1 DEF NoneTaken
  <2>2. channel'[machine][u] = channel[machine][u] /\ EventsOf(runner', u) = {}
    BY <1>1, <1>3, <1>4, <1>8, <1>10, <2>1 DEF NoneTaken
  <2>. QED BY <1>1, <1>10, <2>2 DEF NoneTaken
<1>. QED BY <1>1, <1>5, <1>6, <1>9, <1>10, MovedFrame

LEMMA ReceiveOrdered ==
  ASSUME TypeInv, OrderParts, Receive
  PROVE  OrderParts'
<1>. DEFINE m == Head(runner)
<1>1. /\ runner # <<>> /\ runner \in Seq(EventsFor(Threads))
      /\ got' = [got EXCEPT ![m.thread] = m.n] /\ runner' = Tail(runner)
      /\ UNCHANGED <<machine, runtimes, conn, inbox, notes, channel, consumer, caller, bridge, sub, active, sent, lost, forsaken>>
  BY DEF Receive, TypeInv, QueuesTyped, lock, goroutines, codex
<1>2. m \in EventsFor(Threads)
  BY <1>1, TailIs
<1>3. m.thread \in Threads /\ \A u : IsEvent(m, u) <=> u = m.thread
  BY <1>2 DEF EventsFor, IsEvent
<1>4. \A u \in Threads : EventsOf(runner, u) = EventsOf(runner', u) \cup (IF IsEvent(m, u) THEN {m.n} ELSE {})
  BY <1>1, TailEvents
<1>5. got'[m.thread] = m.n /\ \A u \in Threads : u # m.thread => got'[u] = got[u]
  BY <1>1, <1>3 DEF TypeInv, Numbered
<1>6. machine # 0
  BY <1>1 DEF OrderParts, OneRuntime
<1>. HIDE DEF m
<1>7. OneRuntime'
  BY <1>1, <1>6 DEF OrderParts, OneRuntime, Cur, Client
<1>8. OneClient'
  BY <1>1 DEF OrderParts, OneClient, Cur, Client
<1>9. Noted' = Noted /\ Arriving' = Arriving
  BY <1>1 DEF Noted, Arriving, Client
<1>10. Ordered'
  <2>1. SUFFICES ASSUME NEW u \in Threads \ GivenUp
                 PROVE  Pipeline(runner', channel[machine][u], Noted, Arriving, u, got'[u], sent[u], lost[u])
    BY <1>1, <1>9 DEF Ordered, GivenUp
  <2>2. Pipeline(runner, channel[machine][u], Noted, Arriving, u, got[u], sent[u], lost[u])
    BY <1>6 DEF OrderParts, Ordered
  <2>3. got[u] \in Nat /\ sent[u] \in Nat
    BY DEF TypeInv, Numbered
  <2>4. /\ IsEvent(Head(runner), u) => Pipeline(Tail(runner), channel[machine][u], Noted, Arriving, u, Head(runner).n, sent[u], lost[u])
        /\ ~IsEvent(Head(runner), u) => Pipeline(Tail(runner), channel[machine][u], Noted, Arriving, u, got[u], sent[u], lost[u])
    BY <1>1, <2>2, <2>3, ReceivedPipe
  <2>5. CASE u = m.thread
    <3>1. IsEvent(Head(runner), u) /\ got'[u] = Head(runner).n
      BY <1>3, <1>5, <2>5 DEF m
    <3>. QED BY <1>1, <2>4, <3>1
  <2>6. CASE u # m.thread
    <3>1. ~IsEvent(Head(runner), u) /\ got'[u] = got[u]
      BY <1>3, <1>5, <2>6 DEF m
    <3>. QED BY <1>1, <2>4, <3>1
  <2>. QED BY <2>5, <2>6
<1>11. \A u \in Threads : NoneTaken(u) => NoneTaken(u)'
  BY <1>1, <1>4 DEF NoneTaken
<1>. QED BY <1>1, <1>7, <1>8, <1>10, <1>11, MovedFrame

(* The connection that ends has nothing under way, and is in use.          *)
LEMMA EndConsumerOrdered ==
  ASSUME TypeInv, OrderParts, NEW k \in Clients, EndConsumer(k), ~raced'
  PROVE  OrderParts'
<1>1. /\ consumer[k].at = "ready" /\ Free /\ consumer[k].client \in ended /\ notes[consumer[k].client] = <<>>
      /\ consumer' = [consumer EXCEPT ![k].at = "off"]
      /\ UNCHANGED <<machine, conn, pipe, bridge, caller, sub, active, sent, got, lost, forsaken>>
  BY DEF EndConsumer, On, codex
<1>2. /\ consumer[k].client = k /\ consumer[k].runtime = machine /\ Cur(k) /\ machine # 0 /\ machine \in Clients
  BY <1>1 DEF OrderParts, OneRuntime, Cur, TypeInv, StateTyped
<1>3. runtimes' = [runtimes EXCEPT ![machine].client = 0]
  BY <1>2 DEF EndConsumer
<1>4. /\ Client(machine)' = 0 /\ Watchers(machine)' = Watchers(machine)
      /\ \A c \in Clients : ~Cur(c)'
      /\ \A t : Watched(t)' <=> Watched(t)
  BY <1>1, <1>2, <1>3 DEF Cur, Client, Watchers, Watched, TypeInv, StateTyped, Clients
<1>5. conn[k] = "broken" /\ inbox[k] = <<>> /\ notes[k] = <<>>
  BY <1>1, <1>2 DEF TypeInv, EndedEmpty
<1>6. consumer'[k].at = "off" /\ \A d \in Clients : d # k => consumer'[d] = consumer[d]
  BY <1>1 DEF TypeInv, ConsumersTyped, Consumers
<1>7. \A d \in Clients : consumer'[d].at = "off"
  BY <1>2, <1>6 DEF OrderParts, OneRuntime, Cur
<1>8. OneRuntime'
  BY <1>1, <1>7 DEF OrderParts, OneRuntime, pipe
<1>9. OneClient'
  BY <1>1, <1>2, <1>4, <1>5 DEF OrderParts, OneClient, Cur, pipe
<1>10. ActiveWatched'
  BY <1>1, <1>4 DEF OrderParts, ActiveWatched
<1>11. UnwatchedQuiet'
  <2>1. \A t \in Threads : (NoneUnderWay(t)' <=> NoneUnderWay(t)) /\ (Subscribed(t)' <=> Subscribed(t))
    BY <1>1 DEF NoneUnderWay, NoneTaken, Subscribed, pipe
  <2>. QED BY <2>1, <1>1, <1>4, OldAreThreads DEF OrderParts, UnwatchedQuiet
<1>12. Ordered'
  <2>1. Noted = <<>> /\ Arriving = <<>>
    BY <1>2, <1>5 DEF Noted, Arriving, Cur
  <2>2. Noted' = <<>> /\ Arriving' = <<>>
    BY <1>4 DEF Noted, Arriving
  <2>. QED BY <2>1, <2>2, <1>1 DEF OrderParts, Ordered, GivenUp, pipe
<1>13. Attached'
  BY <1>4 DEF Attached
<1>14. PendingApart'
  BY <1>1 DEF OrderParts, PendingApart
<1>15. ASSUME NEW q \in AllCallers PROVE Fits(q)'
  <2>1. OnItsWay(q) /\ Uses(q) /\ ~Holding(caller[q]) /\ caller'[q] = caller[q] /\ CallerOk(caller[q])
    BY <1>1, OrderFits, OneHolder DEF TypeInv, CallersTyped
  <2>2. OnItsWay(q)'
    BY <1>1, <1>4, <2>1 DEF OnItsWay
  <2>3. Waiting(caller[q]) => caller[q].client \in Clients
    BY <2>1 DEF CallerOk, Records, Idle, Waiting
  <2>4. Waiting(caller[q]) => conn[caller[q].client] = "broken"
    BY <1>2, <1>5, <2>1, <2>3 DEF Uses, Cur
  <2>5. Dialled(caller[q]) => ~Cur(caller[q].client)'
    <3>1. Dialled(caller[q]) => caller[q].client \in Clients
      BY DEF TypeInv, OwnedClients, Owns
    <3>. QED BY <3>1, <1>1, <1>4 DEF Cur
  <2>6. Uses(q)'
    BY <1>1, <2>1, <2>4, <2>5 DEF Uses, Holding
  <2>. QED BY <2>1, <2>2, <2>6 DEF Fits, WorksOn, Resumes, Redials, Holding
<1>. QED BY <1>8, <1>9, <1>10, <1>11, <1>12, <1>13, <1>14, <1>15 DEF OrderParts

-------------------------------------------------------------------------------
(* Answers in a queue.                                                     *)
LEMMA TailAnswers ==
  ASSUME NEW s \in Seq(Frames), s # <<>>, NEW q, ~Answers(Head(s), q)
  PROVE  /\ HasAnswer(Tail(s), q) <=> HasAnswer(s, q)
         /\ \A t : Heralded(s, q, t) => Heralded(Tail(s), q, t)
<1>. DEFINE u == Tail(s)
<1>1. /\ Head(s) = s[1] /\ 1 \in DOMAIN s
      /\ \A i \in DOMAIN u : i + 1 \in DOMAIN s /\ u[i] = s[i + 1] /\ i \in Nat /\ i > 0
      /\ \A i \in DOMAIN s : i # 1 => i - 1 \in DOMAIN u /\ u[i - 1] = s[i]
  BY TailIs
<1>2. DOMAIN s \subseteq Nat
  OBVIOUS
<1>. HIDE DEF u
<1>3. HasAnswer(u, q) => HasAnswer(s, q)
  BY <1>1 DEF HasAnswer
<1>4. HasAnswer(s, q) => HasAnswer(u, q)
  BY <1>1 DEF HasAnswer
<1>5. ASSUME NEW t, Heralded(s, q, t), NEW j \in DOMAIN u, IsEvent(u[j], t)
      PROVE  \E i \in DOMAIN u : i < j /\ Answers(u[i], q)
  <2>1. j + 1 \in DOMAIN s /\ IsEvent(s[j + 1], t) /\ j \in Nat
    BY <1>1, <1>5
  <2>2. PICK i \in DOMAIN s : i < j + 1 /\ Answers(s[i], q)
    BY <2>1, <1>5 DEF Heralded
  <2>3. i # 1
    BY <2>2, <1>1
  <2>4. i - 1 \in DOMAIN u /\ u[i - 1] = s[i] /\ i \in Nat
    BY <2>3, <1>1, <1>2
  <2>5. i - 1 < j
    BY <2>1, <2>2, <2>4
  <2>. QED BY <2>2, <2>4, <2>5
<1>6. \A t : Heralded(s, q, t) => Heralded(u, q, t)
  BY <1>5 DEF Heralded
<1>. QED BY <1>3, <1>4, <1>6 DEF u

LEMMA HeadHeralded ==
  ASSUME NEW s \in Seq(Frames), s # <<>>, NEW q, NEW t, Heralded(s, q, t)
  PROVE  ~IsEvent(Head(s), t)
<1>1. Head(s) = s[1] /\ 1 \in DOMAIN s /\ DOMAIN s = 1 .. Len(s)
  OBVIOUS
<1>. QED BY <1>1 DEF Heralded

LEMMA TailQuiet ==
  ASSUME TypeInv, NEW c \in Clients, inbox[c] # <<>>, inbox' = [inbox EXCEPT ![c] = Tail(@)]
  PROVE  /\ inbox[c] \in Seq(Frames)
         /\ inbox'[c] = Tail(inbox[c]) /\ \A d \in Clients : d # c => inbox'[d] = inbox[d]
         /\ \A d \in Clients, t \in Threads : EventsOf(inbox[d], t) = {} => EventsOf(inbox'[d], t) = {}
<1>1. inbox[c] \in Seq(Frames) /\ inbox'[c] = Tail(inbox[c]) /\ \A d \in Clients : d # c => inbox'[d] = inbox[d]
  BY DEF TypeInv, QueuesTyped
<1>2. \A t \in Threads : EventsOf(inbox[c], t) = {} => EventsOf(Tail(inbox[c]), t) = {}
  BY <1>1, TailEvents
<1>. QED BY <1>1, <1>2

LEMMA CurrentIs ==
  ASSUME TypeInv, OrderParts, NEW c \in Clients, Cur(c)
  PROVE  /\ machine # 0 /\ machine \in Clients /\ Client(machine) = c /\ c # 0
         /\ Noted = notes[c] /\ Arriving = inbox[c]
         /\ \A q \in AllCallers : Holding(caller[q]) /\ Waiting(caller[q]) => caller[q].client = c
<1>1. /\ machine # 0 /\ machine \in Clients /\ Client(machine) = c /\ c # 0
  BY DEF Cur, TypeInv, StateTyped, Clients
<1>2. ASSUME NEW q \in AllCallers, Holding(caller[q]), Waiting(caller[q]) PROVE caller[q].client = c
  <2>1. Cur(caller[q].client)
    BY <1>2, OrderFits DEF Uses, Holding
  <2>. QED BY <2>1, <1>1 DEF Cur
<1>. QED BY <1>1, <1>2 DEF Noted, Arriving

LEMMA PublishOrdered ==
  ASSUME TypeInv, OrderParts, NEW c \in Clients, Publish(c)
  PROVE  OrderParts'
<1>. DEFINE m == Head(inbox[c])
<1>1. /\ inbox[c] # <<>> /\ m.kind # "reply"
      /\ inbox' = [inbox EXCEPT ![c] = Tail(@)] /\ notes' = [notes EXCEPT ![c] = Append(@, m)]
      /\ UNCHANGED <<machine, runtimes, conn, channel, runner, consumer, bridge, caller, sub, active, sent, got, lost, forsaken>>
  BY DEF Publish, lock, goroutines, codex, history
<1>2. /\ inbox[c] \in Seq(Frames) /\ notes[c] \in Seq(Frames) /\ m \in Frames
      /\ notes'[c] = Append(notes[c], m) /\ \A d \in Clients : d # c => notes'[d] = notes[d]
  BY <1>1 DEF TypeInv, QueuesTyped
<1>3. /\ inbox'[c] = Tail(inbox[c]) /\ \A d \in Clients : d # c => inbox'[d] = inbox[d]
      /\ \A d \in Clients, t \in Threads : EventsOf(inbox[d], t) = {} => EventsOf(inbox'[d], t) = {}
  BY <1>1, TailQuiet
<1>4. Cur(c)
  BY <1>1 DEF OrderParts, OneClient
<1>5. /\ machine # 0 /\ machine \in Clients /\ Client(machine) = c /\ c # 0
      /\ Noted = notes[c] /\ Arriving = inbox[c]
      /\ \A q \in AllCallers : Holding(caller[q]) /\ Waiting(caller[q]) => caller[q].client = c
  BY <1>4, CurrentIs
<1>6. Noted' = Append(notes[c], m) /\ Arriving' = Tail(inbox[c])
  BY <1>1, <1>2, <1>3, <1>5 DEF Noted, Arriving, Client
<1>7. \A q : ~Answers(m, q)
  BY <1>1 DEF Answers, ReplyTo
<1>8. \A t \in Threads : EventsOf(notes'[c], t) = EventsOf(notes[c], t) \cup (IF IsEvent(m, t) THEN {m.n} ELSE {})
  BY <1>2, AppendEvents
<1>9. \A t \in Threads : NoneTaken(t) /\ ~IsEvent(m, t) => NoneTaken(t)'
  BY <1>1, <1>2, <1>8 DEF NoneTaken
<1>10. \A t \in Threads : EventsOf(inbox[c], t) = {} => ~IsEvent(m, t)
  BY <1>1, <1>2, TailEvents
<1>11. \A t \in Threads : NoneUnderWay(t) => NoneUnderWay(t)'
  BY <1>3, <1>9, <1>10 DEF NoneUnderWay
<1>. HIDE DEF m
<1>12. \A t \in Threads : (Subscribed(t)' <=> Subscribed(t)) /\ (Watched(t)' <=> Watched(t))
  BY <1>1 DEF Subscribed, Watched, Watchers
<1>13. OneRuntime' /\ OneClient'
  <2>1. OneRuntime'
    BY <1>1 DEF OrderParts, OneRuntime, Cur, Client
  <2>2. OneClient'
    BY <1>1, <1>2, <1>3, <1>4 DEF OrderParts, OneClient, Cur, Client
  <2>. QED BY <2>1, <2>2
<1>14. ActiveWatched' /\ UnwatchedQuiet' /\ PendingApart'
  BY <1>1, <1>11, <1>12, OldAreThreads DEF OrderParts, ActiveWatched, UnwatchedQuiet, PendingApart, Watched, Watchers
<1>15. Attached'
  BY <1>1 DEF OrderParts, Attached, Cur, Client, Watchers
<1>16. Ordered'
  <2>1. SUFFICES ASSUME NEW t \in Threads \ GivenUp
                 PROVE  Pipeline(runner, channel[machine][t], Append(notes[c], Head(inbox[c])), Tail(inbox[c]), t, got[t], sent[t], lost[t])
    BY <1>1, <1>6 DEF Ordered, GivenUp, m
  <2>2. Pipeline(runner, channel[machine][t], notes[c], inbox[c], t, got[t], sent[t], lost[t])
    BY <1>5 DEF OrderParts, Ordered
  <2>. QED BY <1>1, <1>2, <2>2, PublishedPipe
<1>17. ASSUME NEW q \in AllCallers PROVE Fits(q)'
  <2>1. OnItsWay(q) /\ Uses(q) /\ WorksOn(q) /\ Resumes(q) /\ Redials(q) /\ CallerOk(caller[q])
    BY OrderFits DEF TypeInv, CallersTyped
  <2>2. OnItsWay(q)' /\ WorksOn(q)'
    BY <1>1, <2>1 DEF OnItsWay, WorksOn, Watched, Watchers
  <2>3. Uses(q)'
    BY <1>1, <2>1 DEF Uses, Cur, Client
  <2>4. /\ HasAnswer(Tail(inbox[c]), q) <=> HasAnswer(inbox[c], q)
        /\ \A t : Heralded(inbox[c], q, t) => Heralded(Tail(inbox[c]), q, t)
    BY <1>1, <1>2, <1>7, TailAnswers DEF m
  <2>5. Redials(q)'
    <3>1. Holding(caller[q]) /\ caller[q].at = "replied" => caller[q].client = c
      BY <1>5 DEF Waiting
    <3>. QED BY <1>1, <1>3, <2>1, <2>4, <3>1 DEF Redials, Watchers
  <2>6. Resumes(q)'
    <3>1. SUFFICES ASSUME Resuming(caller[q]), caller[q].thread \notin forsaken PROVE Resumes(q)'
      BY <1>1 DEF Resumes
    <3>2. PICK t \in Threads : t = caller[q].thread
      BY <2>1, <3>1 DEF CallerOk, Resuming
    <3>3. caller[q].at \in {"sent", "failed", "refused"} => NoneUnderWay(t)' /\ ~Subscribed(t)'
      BY <1>11, <1>12, <2>1, <3>1, <3>2 DEF Resumes
    <3>4. CASE caller[q].at = "replied"
      <4>1. caller[q].client = c
        BY <1>5, <3>1, <3>4 DEF Waiting, Holding
      <4>2. NoneTaken(t) /\ Heralded(inbox[c], q, t) /\ (Subscribed(t) => HasAnswer(inbox[c], q))
        BY <2>1, <3>1, <3>2, <3>4, <4>1 DEF Resumes
      <4>3. ~IsEvent(m, t)
        BY <1>1, <1>2, <4>2, HeadHeralded DEF m
      <4>4. NoneTaken(t)' /\ Heralded(Tail(inbox[c]), q, t) /\ (Subscribed(t)' => HasAnswer(Tail(inbox[c]), q))
        BY <1>9, <1>12, <2>4, <4>2, <4>3
      <4>. QED BY <1>1, <1>3, <3>2, <3>4, <4>1, <4>4 DEF Resumes, NoneTaken, Subscribed, Heralded
    <3>5. CASE caller[q].at # "replied"
      <4>1. caller'[q].thread = t /\ caller' = caller
        BY <1>1, <3>2
      <4>. QED BY <3>3, <3>5, <4>1 DEF Resumes, NoneUnderWay, NoneTaken, Subscribed
    <3>. QED BY <3>4, <3>5
  <2>. QED BY <2>2, <2>3, <2>5, <2>6 DEF Fits
<1>. QED BY <1>13, <1>14, <1>15, <1>16, <1>17 DEF OrderParts

(* A caller while something arrives for another.                           *)
LEMMA FitsArriving ==
  ASSUME NEW q \in AllCallers, Fits(q), CallerOk(caller[q]), caller'[q] = caller[q],
         UNCHANGED <<machine, runtimes, notes, channel, runner>>,
         active \subseteq active', forsaken \subseteq forsaken',
         \A d \in Clients : conn'[d] = conn[d] \/ (conn[d] = "open" /\ conn'[d] = "broken"),
         \A d \in Clients : sub[d] \subseteq sub'[d],
         \A d \in Clients : HasAnswer(inbox'[d], q) => HasAnswer(inbox[d], q),
         \A t \in Threads : Resuming(caller[q]) /\ t = caller[q].thread /\ t \notin forsaken' =>
           /\ NoneUnderWay(t) /\ ~Subscribed(t) => NoneUnderWay(t)' /\ ~Subscribed(t)'
           /\ \A d \in Clients : caller[q].at = "replied" /\ d = caller[q].client /\ Heralded(inbox[d], q, t) /\
                (Subscribed(t) => HasAnswer(inbox[d], q)) =>
                Heralded(inbox'[d], q, t) /\ (Subscribed(t)' => HasAnswer(inbox'[d], q))
  PROVE  Fits(q)'
<1>1. OnItsWay(q) /\ Uses(q) /\ WorksOn(q) /\ Resumes(q) /\ Redials(q)
  BY DEF Fits
<1>2. Waiting(caller[q]) \/ caller[q].at = "resume_next" => caller[q].client \in Clients
  BY DEF CallerOk, Records, Idle, Waiting
<1>3. OnItsWay(q)' /\ WorksOn(q)'
  BY <1>1 DEF OnItsWay, WorksOn, Watched, Watchers
<1>4. Uses(q)'
  BY <1>1, <1>2 DEF Uses, Cur, Client
<1>5. Redials(q)'
  <2>1. /\ Redialling(caller[q]) /\ conn[caller[q].client] = "open"
        /\ caller[q].at \in {"resume_next", "sent", "replied"}
        => \A t \in Watchers(machine) \cap Old :
             t \in sub[caller[q].client] \/ t \in caller[q].todo \/ (Waiting(caller[q]) /\ caller[q].about = t)
    BY <1>1 DEF Redials
  <2>2. Holding(caller[q]) /\ caller[q].at = "replied" /\ HasAnswer(inbox[caller[q].client], q) =>
          caller[q].about \in sub[caller[q].client]
    BY <1>1 DEF Redials
  <2>3. /\ conn'[caller[q].client] = "open" /\ caller[q].at \in {"resume_next", "sent", "replied"} =>
             conn[caller[q].client] = "open" /\ sub[caller[q].client] \subseteq sub'[caller[q].client]
    BY <1>2 DEF Waiting
  <2>4. caller[q].at = "replied" => caller[q].client \in Clients
    BY <1>2 DEF Waiting
  <2>. QED BY <1>2, <2>1, <2>2, <2>3, <2>4 DEF Redials, Watchers
<1>6. Resumes(q)'
  <2>1. SUFFICES ASSUME Resuming(caller[q]), caller[q].thread \notin forsaken' PROVE Resumes(q)'
    BY DEF Resumes
  <2>2. PICK t \in Threads : t = caller[q].thread
    BY <2>1 DEF CallerOk, Resuming
  <2>3. caller[q].at \in {"sent", "failed", "refused"} => NoneUnderWay(t)' /\ ~Subscribed(t)'
    BY <1>1, <2>1, <2>2 DEF Resumes
  <2>4. ASSUME caller[q].at = "replied"
        PROVE  /\ NoneTaken(t) /\ Heralded(inbox'[caller[q].client], q, t)
               /\ Subscribed(t)' => HasAnswer(inbox'[caller[q].client], q)
    <3>1. caller[q].client \in Clients
      BY <1>2, <2>4 DEF Waiting
    <3>2. PICK d \in Clients : d = caller[q].client
      BY <3>1
    <3>3. NoneTaken(t) /\ Heralded(inbox[d], q, t) /\ (Subscribed(t) => HasAnswer(inbox[d], q))
      BY <1>1, <2>1, <2>2, <2>4, <3>2 DEF Resumes
    <3>. QED BY <2>1, <2>2, <2>4, <3>2, <3>3
  <2>5. NoneTaken(t) => NoneTaken(t)'
    BY DEF NoneTaken
  <2>6. /\ caller'[q].at \in {"sent", "failed", "refused"} => NoneUnderWay(t)' /\ ~Subscribed(t)'
        /\ caller'[q].at = "replied" =>
             /\ NoneTaken(t)' /\ Heralded(inbox'[caller'[q].client], q, t)
             /\ Subscribed(t)' => HasAnswer(inbox'[caller'[q].client], q)
    BY <2>3, <2>4, <2>5
  <2>7. caller'[q].thread = t
    BY <2>2
  <2>. HIDE DEF NoneUnderWay, NoneTaken, Subscribed
  <2>. QED BY <2>6, <2>7 DEF Resumes, Heralded, NoneUnderWay, NoneTaken, Subscribed
<1>. QED BY <1>3, <1>4, <1>5, <1>6 DEF Fits

(* What arrives, arrives at the client in use.                             *)
LEMMA ArrivingFrame ==
  ASSUME TypeInv, OrderParts, UNCHANGED <<machine, runtimes, notes, channel, runner, consumer, bridge>>,
         forsaken \subseteq forsaken', machine = 0 => sent' = sent,
         \A d \in Clients : conn'[d] = conn[d] \/ (conn[d] = "open" /\ conn'[d] = "broken"),
         \A d \in Clients : ~Cur(d) => inbox'[d] = <<>> /\ sub'[d] = sub[d],
         \A t \in Old \ forsaken' : ~Watched(t) /\ NoneUnderWay(t) /\ ~Subscribed(t) => NoneUnderWay(t)' /\ ~Subscribed(t)'
  PROVE  OneRuntime' /\ OneClient' /\ UnwatchedQuiet'
<1>1. OneRuntime'
  BY DEF OrderParts, OneRuntime, Cur, Client
<1>2. \A d \in Clients : Cur(d)' <=> Cur(d)
  BY DEF Cur, Client
<1>3. OneClient'
  <2>1. \A d \in Clients : ~Cur(d) => notes[d] = <<>> /\ (conn[d] = "broken" \/ sub[d] = {})
    BY DEF OrderParts, OneClient
  <2>2. \A d \in Clients : Cur(d) => conn[d] # "unused"
    BY DEF OrderParts, OneClient
  <2>. QED BY <1>2, <2>1, <2>2 DEF OneClient
<1>4. UnwatchedQuiet'
  <2>1. \A t : Watched(t)' <=> Watched(t)
    BY DEF Watched, Watchers
  <2>2. \A t \in Old \ forsaken' : ~Watched(t) => NoneUnderWay(t) /\ ~Subscribed(t)
    BY DEF OrderParts, UnwatchedQuiet
  <2>. QED BY <2>1, <2>2, OldAreThreads DEF UnwatchedQuiet
<1>. QED BY <1>1, <1>3, <1>4

(* Only the answer to a call goes, to its caller or to nobody.             *)
LEMMA RoutedOthers ==
  ASSUME TypeInv, OrderParts, NEW c \in Clients, inbox[c] # <<>>, NEW p \in AllCallers \cup {NoOne},
         ReplyTo(Head(inbox[c]), p),
         inbox' = [inbox EXCEPT ![c] = Tail(@)],
         UNCHANGED <<machine, runtimes, conn, notes, channel, runner, consumer, bridge, sub, active, sent, got, lost, forsaken>>,
         \A q \in AllCallers : q # p => caller'[q] = caller[q]
  PROVE  /\ OneRuntime' /\ OneClient' /\ ActiveWatched' /\ UnwatchedQuiet' /\ Ordered'
         /\ \A q \in AllCallers : q # p => Fits(q)'
         /\ \A t \in Threads : (NoneUnderWay(t) => NoneUnderWay(t)') /\ (Subscribed(t)' <=> Subscribed(t))
<1>. DEFINE m == Head(inbox[c])
<1>1. /\ inbox[c] \in Seq(Frames) /\ inbox'[c] = Tail(inbox[c])
      /\ \A d \in Clients : d # c => inbox'[d] = inbox[d]
      /\ \A d \in Clients, t \in Threads : EventsOf(inbox[d], t) = {} => EventsOf(inbox'[d], t) = {}
  BY TailQuiet
<1>2. \A t : ~IsEvent(m, t)
  BY DEF ReplyTo, IsEvent
<1>3. \A q \in AllCallers : q # p => ~Answers(m, q)
  BY DEF ReplyTo, Answers
<1>4. Cur(c)
  BY DEF OrderParts, OneClient
<1>5. \A d \in Clients : ~Cur(d) => inbox'[d] = <<>> /\ sub'[d] = sub[d]
  BY <1>1, <1>4 DEF OrderParts, OneClient
<1>6. \A t \in Threads : (NoneTaken(t)' <=> NoneTaken(t)) /\ (Subscribed(t)' <=> Subscribed(t))
  BY DEF NoneTaken, Subscribed
<1>7. \A t \in Threads : NoneUnderWay(t) => NoneUnderWay(t)'
  BY <1>1, <1>6 DEF NoneUnderWay
<1>8. OneRuntime' /\ OneClient' /\ UnwatchedQuiet'
  BY <1>5, <1>6, <1>7, OldAreThreads, ArrivingFrame
<1>9. ActiveWatched'
  BY DEF OrderParts, ActiveWatched, Watched, Watchers
<1>10. Ordered'
  <2>1. /\ machine # 0 /\ machine \in Clients /\ Client(machine) = c /\ c # 0
        /\ Noted = notes[c] /\ Arriving = inbox[c]
    BY <1>4, CurrentIs
  <2>2. Noted' = notes[c] /\ Arriving' = Tail(inbox[c])
    BY <1>1, <2>1 DEF Noted, Arriving, Client
  <2>3. SUFFICES ASSUME NEW t \in Threads \ GivenUp
                 PROVE  Pipeline(runner, channel[machine][t], notes[c], Tail(inbox[c]), t, got[t], sent[t], lost[t])
    BY <2>2 DEF Ordered, GivenUp
  <2>4. Pipeline(runner, channel[machine][t], notes[c], inbox[c], t, got[t], sent[t], lost[t])
    BY <2>1 DEF OrderParts, Ordered
  <2>. QED BY <1>1, <1>2, <2>4, RoutedPipe
<1>. HIDE DEF m
<1>11. ASSUME NEW q \in AllCallers, q # p PROVE Fits(q)'
  <2>1. Fits(q) /\ CallerOk(caller[q]) /\ caller'[q] = caller[q]
    BY <1>11, OrderFits DEF TypeInv, CallersTyped
  <2>2. ASSUME NEW d \in Clients
        PROVE  /\ HasAnswer(inbox'[d], q) <=> HasAnswer(inbox[d], q)
               /\ \A t : Heralded(inbox[d], q, t) => Heralded(inbox'[d], q, t)
    <3>1. CASE d = c
      BY <1>1, <1>3, <1>11, <3>1, TailAnswers DEF m
    <3>2. CASE d # c
      BY <1>1, <3>2
    <3>. QED BY <3>1, <3>2
  <2>. QED BY <1>6, <1>7, <2>1, <2>2, FitsArriving
<1>. QED BY <1>6, <1>7, <1>8, <1>9, <1>10, <1>11

(* One reply to a caller is under way, so a refusal says that there is no  *)
(* answer, and nothing behind it.                                          *)
LEMMA RefusedQuiet ==
  ASSUME TypeInv, OrderParts, NEW c \in Clients, inbox[c] # <<>>, NEW p \in AllCallers,
         ReplyTo(Head(inbox[c]), p), Head(inbox[c]).result = "refused",
         Resuming(caller[p]), caller[p].at = "replied", caller[p].client = c,
         NEW t \in Threads \ forsaken, t = caller[p].thread
  PROVE  NoneUnderWay(t) /\ ~Subscribed(t)
<1>. DEFINE s == inbox[c]
<1>1. s \in Seq(Frames) /\ Head(s) = s[1] /\ 1 \in DOMAIN s
  BY TailIs DEF TypeInv, QueuesTyped
<1>2. \A i \in DOMAIN s : ReplyTo(s[i], p) => i = 1
  BY <1>1 DEF TypeInv, RepliesMatch
<1>3. ~HasAnswer(s, p)
  BY <1>1, <1>2 DEF HasAnswer, Answers
<1>4. NoneTaken(t) /\ Heralded(s, p, t) /\ ~Subscribed(t)
  BY <1>3, OrderFits DEF Resumes
<1>5. \A j \in DOMAIN s : ~IsEvent(s[j], t)
  BY <1>3, <1>4 DEF Heralded, HasAnswer
<1>6. EventsOf(s, t) = {}
  BY <1>5 DEF EventsOf
<1>7. Cur(c)
  BY DEF OrderParts, OneClient
<1>8. \A d \in Clients : d # c => inbox[d] = <<>>
  BY <1>7 DEF OrderParts, OneClient, Cur
<1>. QED BY <1>4, <1>6, <1>8, EmptyQueue DEF NoneUnderWay

LEMMA IgnoredOrdered ==
  ASSUME TypeInv, OrderParts, NEW c \in Clients, RouteResponse(c), Head(inbox[c]).to = NoOne
  PROVE  OrderParts'
<1>1. /\ inbox[c] # <<>> /\ ReplyTo(Head(inbox[c]), NoOne) /\ caller' = caller
      /\ inbox' = [inbox EXCEPT ![c] = Tail(@)]
      /\ UNCHANGED <<machine, runtimes, conn, notes, channel, runner, consumer, bridge, sub, active, sent, got, lost, forsaken>>
  BY DEF RouteResponse, ReplyTo, lock, codex, history
<1>2. OneRuntime' /\ OneClient' /\ ActiveWatched' /\ UnwatchedQuiet' /\ Ordered' /\ \A q \in AllCallers : Fits(q)'
  BY <1>1, RoutedOthers, LoopIsNoCaller
<1>3. PendingApart' /\ Attached'
  BY <1>1 DEF OrderParts, PendingApart, Attached, Cur, Client, Watchers
<1>. QED BY <1>2, <1>3 DEF OrderParts

LEMMA RouteResponseOrdered ==
  ASSUME TypeInv, OrderParts, NEW c \in Clients, RouteResponse(c), Head(inbox[c]).to # NoOne
  PROVE  OrderParts'
<1>. DEFINE m == Head(inbox[c])
<1>0. PICK p \in AllCallers : p = m.to
  <2>1. m \in Frames /\ m.kind = "reply"
    BY TailIs DEF RouteResponse, TypeInv, QueuesTyped
  <2>. QED BY <2>1, ReplyFrame
<1>. DEFINE x == Returned(caller[p], m.result)
<1>1. /\ inbox[c] \in Seq(Frames) /\ inbox[c] # <<>> /\ m \in Frames /\ m = inbox[c][1] /\ 1 \in DOMAIN inbox[c]
      /\ m.kind = "reply"
      /\ inbox' = [inbox EXCEPT ![c] = Tail(@)]
      /\ Move(p, x)
      /\ UNCHANGED <<machine, runtimes, conn, notes, channel, runner, consumer, bridge, sub, active, sent, got, lost, forsaken>>
  BY <1>0 DEF RouteResponse, TypeInv, QueuesTyped, lock, codex, history
<1>2. p \in AllCallers /\ m.result \in {"answered", "refused"} /\ ReplyTo(m, p)
  BY <1>0, <1>1, ReplyFrame DEF ReplyTo
<1>3. caller[p].at = "replied" /\ caller[p].client = c /\ CallerOk(caller[p]) /\ caller[p].op # "none" /\ c # 0
  <2>1. caller[p].at = "replied" /\ caller[p].client = c /\ CallerOk(caller[p])
    BY <1>1, <1>2 DEF TypeInv, RepliesMatch, CallersTyped
  <2>2. caller[p].op # "none"
    BY <2>1, IdleOk DEF CallerOk
  <2>. QED BY <2>1, <2>2 DEF Clients
<1>4. Cur(c)
  BY <1>1 DEF OrderParts, OneClient
<1>5. StepOf(caller[p]) \in Methods \cup {"ensure", "resume"}
  BY <1>3 DEF CallerOk, Waiting
<1>6. /\ CallerOk(x) /\ ~Waiting(x) /\ ~Dialled(x)
      /\ \/ StepOf(caller[p]) \in Methods /\ (x = Idle \/ x = After(caller[p])) /\ ~Holding(x)
         \/ /\ StepOf(caller[p]) \in {"ensure", "resume"}
            /\ x.op = caller[p].op /\ x.step = caller[p].step /\ x.thread = caller[p].thread /\ x.about = caller[p].about
            /\ x.home = caller[p].home /\ x.runtime = caller[p].runtime /\ x.client = caller[p].client
            /\ x.todo = caller[p].todo
            /\ x.at = IF StepOf(caller[p]) = "ensure" /\ m.result = "answered" THEN "resume_next" ELSE m.result
  BY <1>2, <1>3, <1>5, ReturnedIs
<1>7. caller'[p] = x /\ \A q \in AllCallers : q # p => caller'[q] = caller[q]
  BY <1>1, <1>2, <1>6, MoveIs DEF TypeInv
<1>8. /\ OneRuntime' /\ OneClient' /\ ActiveWatched' /\ UnwatchedQuiet' /\ Ordered'
      /\ \A q \in AllCallers : q # p => Fits(q)'
      /\ \A t \in Threads : (NoneUnderWay(t) => NoneUnderWay(t)') /\ (Subscribed(t)' <=> Subscribed(t))
  BY <1>1, <1>2, <1>7, RoutedOthers
<1>9. OnItsWay(p) /\ Uses(p) /\ WorksOn(p) /\ Redials(p)
  BY <1>2, OrderFits
<1>10. m.result = "answered" => HasAnswer(inbox[c], p)
  BY <1>1, <1>2 DEF HasAnswer, Answers
<1>. HIDE DEF m, x
<1>11. CASE StepOf(caller[p]) \in Methods
  <2>1. StepOf(caller[p]) # "ensure" /\ StepOf(caller[p]) # "resume" /\ StepOf(caller[p]) \notin {"watch", "snapshot"}
    BY <1>11 DEF Methods
  <2>2. /\ Fits(p)' /\ ~Pending(caller[p])'
        /\ Attaches(caller[p])' => Attaches(caller[p]) /\ caller'[p].thread = caller[p].thread
    <3>1. CASE x = Idle
      BY <1>2, <1>7, <3>1, IdleFits
    <3>2. CASE x = After(caller[p])
      <4>1. \A t \in Threads : Watched(t) => Watched(t)'
        BY <1>1 DEF Watched, Watchers
      <4>. QED BY <1>1, <1>2, <1>3, <2>1, <3>2, <4>1, AdvanceFits DEF Advance
    <3>. QED BY <1>6, <1>11, <2>1, <3>1, <3>2
  <2>3. ~Pending(caller[p])
    BY <2>1, NotPending
  <2>4. PendingApart'
    BY <1>7, <2>2, ApartKept DEF OrderParts
  <2>5. Attached'
    BY <1>1, <1>7, <2>3 DEF OrderParts, Attached, Cur, Client, Watchers
  <2>. QED BY <1>8, <2>2, <2>4, <2>5 DEF OrderParts
<1>12. CASE StepOf(caller[p]) \in {"ensure", "resume"}
  <2>1. /\ x.op = caller[p].op /\ x.step = caller[p].step /\ x.thread = caller[p].thread /\ x.about = caller[p].about
        /\ x.home = caller[p].home /\ x.runtime = caller[p].runtime /\ x.client = c
        /\ x.todo = caller[p].todo
        /\ x.at = IF StepOf(caller[p]) = "ensure" /\ m.result = "answered" THEN "resume_next" ELSE m.result
        /\ StepOf(x) = StepOf(caller[p])
    BY <1>3, <1>6, <1>12 DEF Methods, StepOf
  <2>2. Attaches(x) <=> Attaches(caller[p])
    BY <2>1 DEF Attaches
  <2>3. OnItsWay(p)'
    BY <1>1, <1>7, <1>9, <2>1, <2>2 DEF OnItsWay, Watched, Watchers
  <2>4. Uses(p)'
    BY <1>1, <1>4, <1>6, <1>7, <2>1 DEF Uses, Cur, Client
  <2>5. (Resuming(x) <=> Resuming(caller[p])) /\ (Redialling(x) <=> Redialling(caller[p]))
    BY <1>2, <1>3, <1>12, <2>1 DEF Resuming, Redialling
  <2>6. WorksOn(p)'
    BY <1>1, <1>6, <1>7, <1>9, <2>1, <2>5 DEF WorksOn, Watched, Watchers
  <2>7. Redials(p)'
    <3>1. x.at # "replied"
      BY <1>6 DEF Waiting
    <3>2. /\ Redialling(caller[p]) /\ conn[c] = "open" => \A t \in Watchers(machine) \cap Old :
               t \in sub[c] \/ t \in caller[p].todo \/ caller[p].about = t
      BY <1>3, <1>9 DEF Redials
    <3>3. m.result = "answered" /\ Redialling(caller[p]) => caller[p].about \in sub[c]
      BY <1>3, <1>9, <1>10 DEF Redials, Holding
    <3>4. x.at = "resume_next" => m.result = "answered"
      BY <1>2, <2>1
    <3>5. x.at \notin {"sent", "replied"}
      BY <1>6 DEF Waiting
    <3>. QED BY <1>1, <1>7, <2>1, <2>5, <3>1, <3>2, <3>3, <3>4, <3>5 DEF Redials, Watchers
  <2>8. Pending(x) <=> Pending(caller[p]) /\ m.result = "refused"
    BY <1>2, <1>3, <2>1, <2>5 DEF Pending, Resuming
  <2>9. Resumes(p)'
    <3>1. SUFFICES ASSUME Resuming(x), x.thread \notin forsaken PROVE Resumes(p)'
      BY <1>1, <1>7 DEF Resumes
    <3>2. Resuming(caller[p]) /\ StepOf(caller[p]) = "resume"
      BY <2>5, <3>1 DEF Resuming
    <3>3. PICK t \in Threads : t = caller[p].thread
      BY <1>3 DEF CallerOk
    <3>4. CASE m.result = "answered"
      BY <1>7, <2>1, <3>2, <3>4 DEF Resumes
    <3>5. CASE m.result = "refused"
      <4>1. NoneUnderWay(t) /\ ~Subscribed(t)
        BY <1>1, <1>2, <1>3, <2>1, <3>1, <3>2, <3>3, <3>5, RefusedQuiet DEF m
      <4>2. NoneUnderWay(t)' /\ ~Subscribed(t)'
        BY <1>8, <4>1
      <4>3. caller'[p].thread = t /\ caller'[p].at = "refused"
        BY <1>7, <2>1, <3>2, <3>3, <3>5
      <4>. HIDE DEF NoneUnderWay, NoneTaken, Subscribed
      <4>. QED BY <4>2, <4>3 DEF Resumes, NoneUnderWay, NoneTaken, Subscribed
    <3>. QED BY <1>2, <3>4, <3>5
  <2>10. PendingApart'
    BY <1>7, <2>1, <2>2, <2>8, ApartKept DEF OrderParts
  <2>11. Attached'
    <3>1. SUFFICES ASSUME NEW d \in Clients, Cur(d), conn[d] = "open", consumer[d].at # "off",
                          NEW t \in Watchers(machine) \cap Old
                   PROVE  t \in sub[d] \/ \E q \in AllCallers : Pending(caller[q])' /\ caller'[q].thread = t
      BY <1>1 DEF Attached, Cur, Client, Watchers
    <3>2. t \in sub[d] \/ \E q \in AllCallers : Pending(caller[q]) /\ caller[q].thread = t
      BY <3>1 DEF OrderParts, Attached
    <3>3. d = c
      BY <1>4, <3>1 DEF Cur
    <3>4. CASE Pending(caller[p]) /\ caller[p].thread = t
      <4>1. CASE m.result = "answered"
        <5>1. Holding(caller[p]) /\ Waiting(caller[p]) /\ ~Redialling(caller[p])
          BY <1>3, <3>4 DEF Pending, Holding, Resuming, Redialling, Waiting
        <5>2. caller[p].about = t /\ caller[p].about \in sub[c]
          BY <1>3, <1>9, <1>10, <3>4, <4>1, <5>1 DEF Uses, Redials
        <5>. QED BY <3>3, <5>2
      <4>2. CASE m.result = "refused"
        BY <1>2, <1>7, <2>1, <2>8, <3>4, <4>2
      <4>. QED BY <1>2, <4>1, <4>2
    <3>5. CASE ~(Pending(caller[p]) /\ caller[p].thread = t)
      BY <1>7, <3>2, <3>5
    <3>. QED BY <3>4, <3>5
  <2>12. Fits(p)'
    BY <2>3, <2>4, <2>6, <2>7, <2>9 DEF Fits
  <2>. QED BY <1>8, <2>10, <2>11, <2>12 DEF OrderParts
<1>. QED BY <1>5, <1>11, <1>12

(* A connection that ends with a call on it has nothing under way.         *)
LEMMA EndedQuiet ==
  ASSUME TypeInv, OrderParts, NEW c \in Clients, inbox[c] = <<>>, NEW p \in AllCallers,
         Resuming(caller[p]), Waiting(caller[p]), caller[p].client = c,
         NEW t \in Threads \ forsaken, t = caller[p].thread
  PROVE  NoneUnderWay(t) /\ ~Subscribed(t)
<1>1. CASE caller[p].at = "sent"
  BY <1>1, OrderFits DEF Resumes
<1>2. CASE caller[p].at = "replied"
  <2>1. ~HasAnswer(inbox[c], p)
    BY DEF HasAnswer
  <2>2. NoneTaken(t) /\ ~Subscribed(t)
    BY <1>2, <2>1, OrderFits DEF Resumes
  <2>3. Cur(c)
    BY OrderFits DEF Uses
  <2>4. \A d \in Clients : inbox[d] = <<>>
    BY <2>3 DEF OrderParts, OneClient, Cur
  <2>. QED BY <2>2, <2>4, EmptyQueue DEF NoneUnderWay
<1>. QED BY <1>1, <1>2 DEF Waiting

LEMMA ReadEndsOrdered ==
  ASSUME TypeInv, OrderParts, NEW c \in Clients, ReadEnds(c)
  PROVE  OrderParts'
<1>1. /\ conn[c] = "broken" /\ inbox[c] = <<>>
      /\ UNCHANGED <<machine, runtimes, conn, pipe, consumer, bridge, sub, active, sent, got, lost, forsaken>>
  BY DEF ReadEnds, lock, codex, history
<1>2. OneRuntime' /\ OneClient' /\ ActiveWatched' /\ UnwatchedQuiet' /\ Ordered'
  <2>1. OneRuntime'
    BY <1>1 DEF OrderParts, OneRuntime, Cur, Client, pipe
  <2>2. OneClient'
    BY <1>1 DEF OrderParts, OneClient, Cur, Client, pipe
  <2>3. ActiveWatched'
    BY <1>1 DEF OrderParts, ActiveWatched, Watched, Watchers
  <2>4. UnwatchedQuiet'
    BY <1>1 DEF OrderParts, UnwatchedQuiet, Watched, Watchers, NoneUnderWay, NoneTaken, Subscribed, pipe
  <2>5. Ordered'
    BY <1>1 DEF OrderParts, Ordered, GivenUp, Noted, Arriving, Client, pipe
  <2>. QED BY <2>1, <2>2, <2>3, <2>4, <2>5
<1>3. ASSUME NEW p \in AllCallers
      PROVE  /\ Fits(p)'
             /\ Attaches(caller'[p]) => Attaches(caller[p]) /\ caller'[p].thread = caller[p].thread
             /\ Pending(caller'[p]) <=> Pending(caller[p])
             /\ Pending(caller[p]) => caller'[p].thread = caller[p].thread
  <2>1. CASE caller'[p] = caller[p]
    BY <1>1, <2>1, OrderFits, FitsSame
  <2>2. CASE caller'[p] # caller[p]
    <3>1. /\ Waiting(caller[p]) /\ caller[p].client = c /\ caller'[p] = Returned(caller[p], "failed")
          /\ caller[p].op # "none"
          /\ CallerOk(caller'[p]) /\ ~Waiting(caller'[p]) /\ ~Dialled(caller'[p])
          /\ Redialling(caller'[p]) <=> Redialling(caller[p])
          /\ \/ StepOf(caller[p]) \in Methods
             \/ /\ StepOf(caller[p]) \in {"ensure", "resume"}
                /\ caller'[p].op = caller[p].op /\ caller'[p].step = caller[p].step
                /\ caller'[p].thread = caller[p].thread /\ caller'[p].todo = caller[p].todo
                /\ caller'[p].home = caller[p].home /\ caller'[p].runtime = caller[p].runtime
                /\ caller'[p].client = c /\ caller'[p].at = "failed"
      BY <2>2, ReadEndsIs
    <3>2. CASE StepOf(caller[p]) \in Methods
      <4>1. caller'[p] = Idle
        BY <3>1, <3>2 DEF Returned, StepOf
      <4>2. ~Pending(caller[p])
        BY <3>2, NotPending DEF Methods
      <4>. QED BY <4>1, <4>2, IdleFits
    <3>3. CASE StepOf(caller[p]) \in {"ensure", "resume"}
      <4>1. /\ caller'[p].op = caller[p].op /\ caller'[p].step = caller[p].step
            /\ caller'[p].thread = caller[p].thread /\ caller'[p].todo = caller[p].todo
            /\ caller'[p].home = caller[p].home /\ caller'[p].runtime = caller[p].runtime
            /\ caller'[p].client = c /\ caller'[p].at = "failed"
        BY <3>1, <3>3 DEF Methods
      <4>2. /\ Attaches(caller'[p]) <=> Attaches(caller[p])
            /\ Resuming(caller'[p]) <=> Resuming(caller[p])
            /\ Pending(caller'[p]) <=> Pending(caller[p])
        BY <3>1, <4>1 DEF Attaches, Resuming, Pending, StepOf, Waiting
      <4>3. OnItsWay(p) /\ Uses(p) /\ WorksOn(p)
        BY OrderFits
      <4>4. OnItsWay(p)'
        BY <1>1, <4>1, <4>2, <4>3 DEF OnItsWay, Watched, Watchers
      <4>5. Uses(p)'
        BY <1>1, <3>1, <4>1, <4>3 DEF Uses, Cur, Client
      <4>6. WorksOn(p)'
        BY <1>1, <3>1, <4>1, <4>2, <4>3 DEF WorksOn, Watched, Watchers
      <4>7. Redials(p)'
        BY <4>1 DEF Redials
      <4>8. Resumes(p)'
        <5>1. SUFFICES ASSUME Resuming(caller'[p]), caller'[p].thread \notin forsaken PROVE Resumes(p)'
          BY <1>1 DEF Resumes
        <5>2. PICK t \in Threads : t = caller[p].thread
          BY <3>1 DEF TypeInv, CallersTyped, CallerOk
        <5>3. NoneUnderWay(t) /\ ~Subscribed(t)
          BY <1>1, <3>1, <4>1, <4>2, <5>1, <5>2, EndedQuiet
        <5>4. NoneUnderWay(t)' /\ ~Subscribed(t)'
          BY <1>1, <5>3 DEF NoneUnderWay, NoneTaken, Subscribed, pipe
        <5>5. caller'[p].thread = t
          BY <4>1, <5>2
        <5>. QED BY <4>1, <5>4, <5>5 DEF Resumes, NoneUnderWay, NoneTaken, Subscribed
      <4>. QED BY <4>1, <4>2, <4>4, <4>5, <4>6, <4>7, <4>8 DEF Fits
    <3>. QED BY <3>1, <3>2, <3>3
  <2>. QED BY <2>1, <2>2
<1>4. PendingApart'
  BY <1>3, ApartKept DEF OrderParts
<1>5. Attached'
  BY <1>1, <1>3 DEF OrderParts, Attached, Cur, Client, Watchers
<1>. QED BY <1>2, <1>3, <1>4, <1>5 DEF OrderParts

LEMMA AppendAnswers ==
  ASSUME NEW s \in Seq(Frames), NEW m \in Frames, NEW q
  PROVE  /\ HasAnswer(Append(s, m), q) <=> HasAnswer(s, q) \/ Answers(m, q)
         /\ \A t : ~IsEvent(m, t) \/ HasAnswer(s, q) => (Heralded(s, q, t) => Heralded(Append(s, m), q, t))
<1>. DEFINE u == Append(s, m)
<1>1. /\ DOMAIN u = 1 .. Len(s) + 1 /\ DOMAIN s = 1 .. Len(s) /\ Len(s) \in Nat
      /\ u[Len(s) + 1] = m /\ \A i \in 1 .. Len(s) : u[i] = s[i]
  OBVIOUS
<1>. HIDE DEF u
<1>2. /\ DOMAIN s \subseteq DOMAIN u /\ \A i \in DOMAIN s : u[i] = s[i] /\ i \in Nat /\ i < Len(s) + 1
      /\ Len(s) + 1 \in DOMAIN u /\ \A i \in DOMAIN u : i \in DOMAIN s \/ i = Len(s) + 1
  BY <1>1
<1>3. HasAnswer(u, q) <=> HasAnswer(s, q) \/ Answers(m, q)
  BY <1>1, <1>2 DEF HasAnswer
<1>4. ASSUME NEW t, ~IsEvent(m, t) \/ HasAnswer(s, q), Heralded(s, q, t)
      PROVE  Heralded(u, q, t)
  <2>1. SUFFICES ASSUME NEW j \in DOMAIN u, IsEvent(u[j], t) PROVE \E i \in DOMAIN u : i < j /\ Answers(u[i], q)
    BY DEF Heralded
  <2>2. CASE j \in DOMAIN s
    <3>1. PICK i \in DOMAIN s : i < j /\ Answers(s[i], q)
      BY <1>2, <1>4, <2>1, <2>2 DEF Heralded
    <3>. QED BY <1>2, <3>1
  <2>3. CASE j = Len(s) + 1
    <3>1. PICK i \in DOMAIN s : Answers(s[i], q)
      BY <1>1, <1>4, <2>1, <2>3 DEF HasAnswer
    <3>. QED BY <1>2, <2>3, <3>1
  <2>. QED BY <1>2, <2>2, <2>3
<1>. QED BY <1>3, <1>4 DEF u

LEMMA QuietQueue ==
  ASSUME NEW s, NEW t, EventsOf(s, t) = {}
  PROVE  \A j \in DOMAIN s : ~IsEvent(s[j], t)
<1>1. ASSUME NEW j \in DOMAIN s, IsEvent(s[j], t) PROVE s[j].n \in EventsOf(s, t)
  BY <1>1 DEF EventsOf
<1>. QED BY <1>1

LEMMA ResumesOld ==
  ASSUME NEW q \in AllCallers, CallerOk(caller[q]), OnItsWay(q), Resuming(caller[q])
  PROVE  caller[q].thread \in Old
<1>1. caller[q].op \in DOMAIN Script /\ caller[q].step \in 1 .. Len(Script[caller[q].op])
  BY OpsAreScripts DEF CallerOk, Resuming
<1>2. caller[q].op = "attach"
  BY <1>1, ScriptSteps DEF Resuming, StepOf
<1>. QED BY <1>2 DEF OnItsWay

(* A reply is put into the inbox of its caller, behind nothing for it.     *)
LEMMA ReplyOrdered ==
  ASSUME TypeInv, OrderParts, NEW p \in AllCallers, NEW result \in {"answered", "refused"}, Reply(p, result),
         \A d \in Clients : d # caller[p].client => sub'[d] = sub[d],
         sub[caller[p].client] \subseteq sub'[caller[p].client],
         sub'[caller[p].client] \subseteq sub[caller[p].client] \cup {caller[p].about},
         result = "refused" => sub' = sub,
         sub' # sub => Holding(caller[p]) \/ caller[p].about \notin Old,
         Holding(caller[p]) => Watched(caller[p].about),
         Holding(caller[p]) /\ result = "answered" => caller[p].about \in sub'[caller[p].client],
         active \subseteq active', active' \subseteq active \cup {caller[p].about},
         active' # active => Watched(caller[p].about) \/ caller[p].about \in active
  PROVE  OrderParts'
<1>0. PICK c \in Clients : c = caller[p].client
  BY ReplyIs
<1>. DEFINE m == ReplyFor(p, result)
            x == Replied(p)
<1>1. /\ CallerOk(caller[p]) /\ caller[p].op # "none" /\ caller[p].at = "sent"
      /\ c # 0 /\ conn[c] = "open" /\ caller[p].about \in Threads
      /\ m \in Frames /\ m.kind = "reply" /\ m.to = p /\ m.result = result
      /\ inbox'[c] = Append(inbox[c], m) /\ inbox[c] \in Seq(Frames)
      /\ \A d \in Clients : d # c => inbox'[d] = inbox[d]
  BY <1>0, ReplyIs
<1>2. /\ Move(p, x) /\ CallerOk(x)
      /\ x.op = caller[p].op /\ x.step = caller[p].step /\ x.at = "replied" /\ x.thread = caller[p].thread
      /\ x.about = caller[p].about /\ x.home = caller[p].home /\ x.runtime = caller[p].runtime
      /\ x.client = c /\ x.todo = caller[p].todo
      /\ Holding(x) <=> Holding(caller[p])
      /\ Redialling(x) <=> Redialling(caller[p])
      /\ ~Dialled(x)
  BY <1>0, ReplyIs
<1>. HIDE DEF m, x
<1>3. UNCHANGED <<machine, runtimes, conn, notes, channel, runner, consumer, bridge, sent, got, lost, forsaken>>
  BY DEF Reply, lock, history
<1>4. caller'[p] = x /\ \A q \in AllCallers : q # p => caller'[q] = caller[q]
  BY <1>2, MoveIs DEF TypeInv
<1>5. OnItsWay(p) /\ Uses(p) /\ WorksOn(p) /\ Resumes(p) /\ Redials(p)
  BY OrderFits
<1>6. Cur(c)
  BY <1>0, <1>1, <1>5 DEF Uses, Waiting
<1>7. /\ machine # 0 /\ machine \in Clients /\ Client(machine) = c
      /\ Noted = notes[c] /\ Arriving = inbox[c]
  BY <1>6, CurrentIs
<1>8. \A t : ~IsEvent(m, t)
  BY <1>1 DEF IsEvent
<1>9. \A q : Answers(m, q) <=> q = p /\ result = "answered"
  BY <1>1 DEF Answers, ReplyTo
<1>10. \A t \in Threads : (NoneTaken(t)' <=> NoneTaken(t)) /\ (NoneUnderWay(t)' <=> NoneUnderWay(t))
  <2>1. \A t \in Threads : EventsOf(inbox'[c], t) = EventsOf(inbox[c], t)
    <3>1. \A t \in Threads : EventsOf(inbox'[c], t) = EventsOf(inbox[c], t) \cup (IF IsEvent(m, t) THEN {m.n} ELSE {})
      BY <1>1, AppendEvents
    <3>. QED BY <1>8, <3>1
  <2>2. \A t \in Threads : NoneTaken(t)' <=> NoneTaken(t)
    BY <1>3 DEF NoneTaken
  <2>3. \A d \in Clients, t \in Threads : EventsOf(inbox'[d], t) = EventsOf(inbox[d], t)
    BY <1>1, <2>1
  <2>. QED BY <2>2, <2>3 DEF NoneUnderWay
<1>11. \A t \in Threads : t # caller[p].about \/ sub' = sub => (Subscribed(t)' <=> Subscribed(t))
  BY <1>0, <1>3 DEF Subscribed
<1>12. \A d \in Clients : sub[d] \subseteq sub'[d]
  BY <1>0
<1>13. OneRuntime' /\ OneClient' /\ UnwatchedQuiet'
  <2>1. \A d \in Clients : ~Cur(d) => inbox'[d] = <<>> /\ sub'[d] = sub[d]
    BY <1>0, <1>1, <1>6 DEF OrderParts, OneClient
  <2>2. ASSUME NEW t \in Old \ forsaken, ~Watched(t), NoneUnderWay(t), ~Subscribed(t)
        PROVE  NoneUnderWay(t)' /\ ~Subscribed(t)'
    <3>1. t \in Threads /\ (t # caller[p].about \/ sub' = sub)
      BY <2>2, OldAreThreads
    <3>. QED BY <1>10, <1>11, <2>2, <3>1
  <2>. QED BY <1>3, <2>1, <2>2, ArrivingFrame
<1>14. ActiveWatched'
  <2>1. \A t : Watched(t)' <=> Watched(t)
    BY <1>3 DEF Watched, Watchers
  <2>. QED BY <1>3, <2>1 DEF OrderParts, ActiveWatched
<1>15. Ordered'
  <2>1. Noted' = notes[c] /\ Arriving' = Append(inbox[c], m)
    BY <1>1, <1>3, <1>7 DEF Noted, Arriving, Client
  <2>2. SUFFICES ASSUME NEW t \in Threads \ GivenUp
                 PROVE  Pipeline(runner, channel[machine][t], notes[c], Append(inbox[c], m), t, got[t], sent[t], lost[t])
    BY <1>3, <2>1 DEF Ordered, GivenUp
  <2>3. Pipeline(runner, channel[machine][t], notes[c], inbox[c], t, got[t], sent[t], lost[t])
    BY <1>7 DEF OrderParts, Ordered
  <2>4. got[t] \in Nat /\ sent[t] \in Nat /\ lost[t] \in SUBSET (1 .. sent[t]) /\ got[t] <= sent[t]
    BY DEF TypeInv, Numbered
  <2>. QED BY <1>1, <1>8, <2>3, <2>4, NotifiedPipe
<1>16. /\ Attaches(x) <=> Attaches(caller[p])
       /\ Resuming(x) <=> Resuming(caller[p])
       /\ Pending(x) <=> Pending(caller[p])
  BY <1>1, <1>2 DEF Attaches, Resuming, Pending, StepOf
<1>17. PendingApart'
  BY <1>2, <1>4, <1>16, ApartKept DEF OrderParts
<1>18. Attached'
  BY <1>2, <1>3, <1>4, <1>12, <1>16 DEF OrderParts, Attached, Cur, Client, Watchers
<1>19. ASSUME NEW q \in AllCallers, q # p PROVE Fits(q)'
  <2>1. Fits(q) /\ OnItsWay(q) /\ CallerOk(caller[q]) /\ caller'[q] = caller[q]
    BY <1>4, <1>19, OrderFits DEF TypeInv, CallersTyped
  <2>2. ASSUME NEW d \in Clients
        PROVE  /\ HasAnswer(inbox'[d], q) <=> HasAnswer(inbox[d], q)
               /\ \A t : Heralded(inbox[d], q, t) => Heralded(inbox'[d], q, t)
    <3>1. CASE d = c
      <4>1. /\ HasAnswer(Append(inbox[c], m), q) <=> HasAnswer(inbox[c], q) \/ Answers(m, q)
            /\ \A t : ~IsEvent(m, t) => (Heralded(inbox[c], q, t) => Heralded(Append(inbox[c], m), q, t))
        BY <1>1, AppendAnswers
      <4>. QED BY <1>1, <1>8, <1>9, <1>19, <3>1, <4>1
    <3>2. CASE d # c
      BY <1>1, <3>2
    <3>. QED BY <3>1, <3>2
  <2>3. ASSUME NEW t \in Threads, Resuming(caller[q]), t = caller[q].thread
        PROVE  Subscribed(t)' <=> Subscribed(t)
    <3>1. t \in Old
      BY <2>1, <2>3, ResumesOld
    <3>2. ~Holding(caller[p])
      BY <1>19, <2>3, OneHolder DEF Holding
    <3>. QED BY <1>11, <3>1, <3>2
  <2>. QED BY <1>3, <1>10, <1>12, <2>1, <2>2, <2>3, FitsArriving
<1>20. Fits(p)'
  <2>1. \A i \in DOMAIN inbox[c] : ~ReplyTo(inbox[c][i], p)
    BY <1>1 DEF TypeInv, RepliesMatch
  <2>2. ~HasAnswer(inbox[c], p)
    BY <2>1 DEF HasAnswer, Answers
  <2>3. /\ HasAnswer(inbox'[c], p) <=> result = "answered"
        /\ \A t : Heralded(inbox[c], p, t) => Heralded(inbox'[c], p, t)
    BY <1>1, <1>8, <1>9, <2>2, AppendAnswers
  <2>4. OnItsWay(p)'
    BY <1>2, <1>3, <1>4, <1>5, <1>16 DEF OnItsWay, Watched, Watchers
  <2>5. Uses(p)'
    BY <1>0, <1>1, <1>2, <1>3, <1>4, <1>5, <1>6, <1>16 DEF Uses, Cur, Client, Waiting
  <2>6. WorksOn(p)'
    BY <1>1, <1>2, <1>3, <1>4, <1>5, <1>16 DEF WorksOn, Watched, Watchers, Waiting
  <2>7. Redials(p)'
    <3>1. Redialling(caller[p]) => \A t \in Watchers(machine) \cap Old :
               t \in sub[c] \/ t \in caller[p].todo \/ caller[p].about = t
      BY <1>0, <1>1, <1>5 DEF Redials
    <3>. QED BY <1>0, <1>2, <1>3, <1>4, <1>12, <2>3, <3>1 DEF Redials, Watchers, Waiting
  <2>8. Resumes(p)'
    <3>1. SUFFICES ASSUME Resuming(caller[p]), caller[p].thread \notin forsaken PROVE Resumes(p)'
      BY <1>2, <1>3, <1>4, <1>16 DEF Resumes
    <3>2. PICK t \in Threads : t = caller[p].thread
      BY <1>1 DEF CallerOk
    <3>3. NoneUnderWay(t) /\ ~Subscribed(t)
      BY <1>1, <1>5, <3>1, <3>2 DEF Resumes
    <3>4. NoneTaken(t)'
      BY <1>10, <3>3 DEF NoneUnderWay
    <3>5. Heralded(inbox[c], p, t)
      <4>1. EventsOf(inbox[c], t) = {}
        BY <3>3 DEF NoneUnderWay
      <4>2. \A j \in DOMAIN inbox[c] : ~IsEvent(inbox[c][j], t)
        BY <4>1, QuietQueue
      <4>. QED BY <4>2 DEF Heralded
    <3>6. Subscribed(t)' => HasAnswer(inbox'[c], p)
      BY <1>11, <2>3, <3>3
    <3>7. caller'[p].thread = t /\ caller'[p].client = c /\ caller'[p].at = "replied"
      BY <1>2, <1>4, <3>2
    <3>8. NoneTaken(t)' /\ Heralded(inbox'[c], p, t) /\ (Subscribed(t)' => HasAnswer(inbox'[c], p))
      BY <2>3, <3>4, <3>5, <3>6
    <3>. QED BY <3>7, <3>8 DEF Resumes, NoneTaken, Subscribed, Heralded
  <2>. QED BY <2>4, <2>5, <2>6, <2>7, <2>8 DEF Fits
<1>. QED BY <1>13, <1>14, <1>15, <1>17, <1>18, <1>19, <1>20 DEF OrderParts

LEMMA RefuseOrdered ==
  ASSUME TypeInv, OrderParts, NEW p \in AllCallers, Refuse(p)
  PROVE  OrderParts'
<1>1. Reply(p, "refused") /\ sub' = sub /\ active' = active
  BY DEF Refuse
<1>2. Holding(caller[p]) => Watched(caller[p].about)
  <2>1. caller[p].at = "sent"
    BY <1>1 DEF Reply
  <2>. QED BY <2>1, OrderFits DEF Uses, WorksOn, Holding, Waiting
<1>. QED BY <1>1, <1>2, ReplyOrdered

LEMMA ServeOrdered ==
  ASSUME "cleanup" \notin Ops, TypeInv, OrderParts, NEW p \in AllCallers, Serve(p)
  PROVE  OrderParts'
<1>. DEFINE c == caller[p].client
            u == caller[p].about
<1>1. Reply(p, "answered")
  BY DEF Serve
<1>2. CallerOk(caller[p]) /\ caller[p].op # "none" /\ caller[p].at = "sent" /\ c \in Clients
  BY <1>1, ReplyIs
<1>3. Holding(caller[p]) => Watched(u)
  BY <1>2, OrderFits DEF Uses, WorksOn, Holding, Waiting
<1>4. StepOf(caller[p]) \in Methods \cup {"ensure", "resume"}
  BY <1>2 DEF CallerOk, Waiting
<1>5. /\ caller[p].op \in DOMAIN Script /\ caller[p].op # "cleanup"
      /\ caller[p].step \in 1 .. Len(Script[caller[p].op])
  BY <1>2, OpsAreScripts DEF CallerOk
<1>6. /\ StepOf(caller[p]) \notin {"thread/unsubscribe", "thread/archive"}
      /\ StepOf(caller[p]) = "thread/start" => caller[p].op = "start"
      /\ StepOf(caller[p]) = "turn/start" => caller[p].op = "input" \/ (caller[p].op = "start" /\ caller[p].step > 4)
  BY <1>5, ScriptSteps DEF StepOf
<1>8. StepOf(caller[p]) \in Methods => ~Holding(caller[p]) /\ u = caller[p].thread
  BY <1>2, OrderFits DEF Methods, Holding, Redialling, Resuming, Uses, Waiting, u
<1>7. Does(StepOf(caller[p]), c, u)
  BY DEF Serve, Step, StepOf
<1>. HIDE DEF c, u
<1>9. /\ StepOf(caller[p]) \in {"thread/start", "resume", "ensure"} =>
             sub' = [sub EXCEPT ![c] = @ \cup {u}] /\ active' = active
      /\ StepOf(caller[p]) = "turn/start" => sub' = sub /\ active' = active \cup {u}
      /\ StepOf(caller[p]) = "turn/steer" => sub' = sub /\ active' = active
  BY <1>7 DEF Does
<1>10. sub \in [Clients -> SUBSET Threads]
  BY DEF TypeInv, StateTyped
<1>11. StepOf(caller[p]) \notin Methods => Holding(caller[p])
  BY <1>2, <1>4 DEF Holding, Redialling, Resuming
<1>12. CASE StepOf(caller[p]) \in {"thread/start", "resume", "ensure"}
  <2>1. sub' = [sub EXCEPT ![c] = @ \cup {u}] /\ active' = active
    BY <1>9, <1>12
  <2>2. sub'[c] = sub[c] \cup {u} /\ \A d \in Clients : d # c => sub'[d] = sub[d]
    BY <1>2, <1>10, <2>1
  <2>3. Holding(caller[p]) \/ u \notin Old
    <3>1. StepOf(caller[p]) = "thread/start" \/ StepOf(caller[p]) \notin Methods
      BY <1>12 DEF Methods
    <3>2. CASE StepOf(caller[p]) = "thread/start"
      BY <1>6, <1>8, <3>2, OrderFits DEF OnItsWay, Methods
    <3>. QED BY <1>11, <3>1, <3>2
  <2>. QED BY <1>1, <1>3, <2>1, <2>2, <2>3, ReplyOrdered DEF c, u
<1>13. CASE StepOf(caller[p]) = "turn/start"
  <2>1. sub' = sub /\ active' = active \cup {u} /\ StepOf(caller[p]) = "turn/start"
    BY <1>9, <1>13
  <2>2. ~Holding(caller[p]) /\ u = caller[p].thread
    BY <1>8, <2>1 DEF Methods
  <2>3. Watched(u) \/ u \in active
    BY <1>6, <2>1, <2>2, OrderFits DEF OnItsWay
  <2>. QED BY <1>1, <2>1, <2>2, <2>3, ReplyOrdered DEF c, u
<1>14. CASE StepOf(caller[p]) = "turn/steer"
  <2>1. sub' = sub /\ active' = active /\ ~Holding(caller[p])
    BY <1>8, <1>9, <1>14 DEF Methods
  <2>. QED BY <1>1, <2>1, ReplyOrdered
<1>. QED BY <1>4, <1>6, <1>12, <1>13, <1>14 DEF Methods

(* A notification reaches the client in use, and callers that wait for the *)
(* answer of a thread that it is about have that in front of it.           *)
LEMMA NotifyOrdered ==
  ASSUME TypeInv, OrderParts, NEW t \in Threads, NEW m \in Frames, m.kind # "reply", Notify(t, m),
         \A u \in Threads : IsEvent(m, u) => u = t /\ m.n = sent[u] + 1 /\ sent'[u] = sent[u] + 1,
         \A u \in Threads : ~IsEvent(m, u) => sent'[u] = sent[u]
  PROVE  OrderParts'
<1>1. UNCHANGED <<machine, runtimes, conn, notes, channel, runner, consumer, bridge, caller, sub, active, got, lost, forsaken>>
  BY DEF Notify, lock, goroutines, history
<1>2. PICK c \in Clients : conn[c] = "open" /\ t \in sub[c]
  BY DEF Notify
<1>3. Cur(c) /\ \A d \in Clients : d # c => ~Cur(d) /\ inbox[d] = <<>> /\ ~(conn[d] = "open" /\ t \in sub[d])
  BY <1>2 DEF OrderParts, OneClient, Cur
<1>4. /\ inbox'[c] = Append(inbox[c], m) /\ inbox[c] \in Seq(Frames)
      /\ \A d \in Clients : d # c => inbox'[d] = inbox[d]
  BY <1>2, <1>3, NotifyIs
<1>5. /\ machine # 0 /\ machine \in Clients /\ Client(machine) = c /\ c # 0
      /\ Noted = notes[c] /\ Arriving = inbox[c]
  BY <1>3, CurrentIs
<1>6. \A q : ~Answers(m, q)
  BY DEF Answers, ReplyTo
<1>7. Subscribed(t)
  BY <1>2 DEF Subscribed
<1>8. \A u \in Threads : (NoneTaken(u)' <=> NoneTaken(u)) /\ (Subscribed(u)' <=> Subscribed(u))
  BY <1>1 DEF NoneTaken, Subscribed
<1>9. ASSUME NEW u \in Threads, NoneUnderWay(u), ~Subscribed(u)
      PROVE  NoneUnderWay(u)' /\ ~Subscribed(u)'
  <2>1. ~IsEvent(m, u)
    BY <1>7, <1>9
  <2>2. EventsOf(Append(inbox[c], m), u) = EventsOf(inbox[c], u) \cup (IF IsEvent(m, u) THEN {m.n} ELSE {})
    BY <1>4, AppendEvents
  <2>3. EventsOf(inbox'[c], u) = EventsOf(inbox[c], u)
    BY <1>4, <2>1, <2>2
  <2>4. \A d \in Clients : EventsOf(inbox'[d], u) = {}
    BY <1>4, <1>9, <2>3 DEF NoneUnderWay
  <2>. QED BY <1>8, <1>9, <2>4 DEF NoneUnderWay
<1>10. OneRuntime' /\ OneClient' /\ UnwatchedQuiet'
  <2>1. \A d \in Clients : ~Cur(d) => inbox'[d] = <<>> /\ sub'[d] = sub[d]
    BY <1>1, <1>3, <1>4
  <2>. QED BY <1>1, <1>5, <1>9, <2>1, OldAreThreads, ArrivingFrame
<1>11. ActiveWatched'
  <2>1. t \in active
    BY DEF Notify
  <2>2. \A u \in Threads \ active : sent'[u] = sent[u]
    BY <2>1
  <2>. QED BY <1>1, <2>2 DEF OrderParts, ActiveWatched, Watched, Watchers
<1>12. Ordered'
  <2>1. Noted' = notes[c] /\ Arriving' = Append(inbox[c], m)
    BY <1>1, <1>4, <1>5 DEF Noted, Arriving, Client
  <2>2. SUFFICES ASSUME NEW u \in Threads \ GivenUp
                 PROVE  Pipeline(runner, channel[machine][u], notes[c], Append(inbox[c], m), u, got[u], sent'[u], lost[u])
    BY <1>1, <2>1 DEF Ordered, GivenUp
  <2>3. Pipeline(runner, channel[machine][u], notes[c], inbox[c], u, got[u], sent[u], lost[u])
    BY <1>5 DEF OrderParts, Ordered
  <2>4. got[u] \in Nat /\ sent[u] \in Nat /\ lost[u] \in SUBSET (1 .. sent[u]) /\ got[u] <= sent[u]
    BY DEF TypeInv, Numbered
  <2>5. /\ IsEvent(m, u) /\ m.n = sent[u] + 1 =>
             Pipeline(runner, channel[machine][u], notes[c], Append(inbox[c], m), u, got[u], sent[u] + 1, lost[u])
        /\ ~IsEvent(m, u) =>
             Pipeline(runner, channel[machine][u], notes[c], Append(inbox[c], m), u, got[u], sent[u], lost[u])
    BY <1>4, <2>3, <2>4, NotifiedPipe
  <2>. QED BY <2>5
<1>13. PendingApart' /\ Attached'
  BY <1>1 DEF OrderParts, PendingApart, Attached, Cur, Client, Watchers
<1>14. ASSUME NEW q \in AllCallers PROVE Fits(q)'
  <2>1. Fits(q) /\ CallerOk(caller[q]) /\ caller'[q] = caller[q]
    BY <1>1, OrderFits DEF TypeInv, CallersTyped
  <2>2. /\ HasAnswer(Append(inbox[c], m), q) <=> HasAnswer(inbox[c], q) \/ Answers(m, q)
        /\ \A u : ~IsEvent(m, u) \/ HasAnswer(inbox[c], q) =>
                    (Heralded(inbox[c], q, u) => Heralded(Append(inbox[c], m), q, u))
    BY <1>4, AppendAnswers
  <2>3. \A d \in Clients : HasAnswer(inbox'[d], q) <=> HasAnswer(inbox[d], q)
    BY <1>4, <1>6, <2>2
  <2>4. ASSUME NEW u \in Threads, NEW d \in Clients, Heralded(inbox[d], q, u), Subscribed(u) => HasAnswer(inbox[d], q)
        PROVE  Heralded(inbox'[d], q, u) /\ (Subscribed(u)' => HasAnswer(inbox'[d], q))
    <3>1. CASE d = c
      <4>1. ~IsEvent(m, u) \/ HasAnswer(inbox[c], q)
        BY <1>7, <2>4, <3>1
      <4>. QED BY <1>4, <1>8, <2>2, <2>3, <2>4, <3>1, <4>1
    <3>2. CASE d # c
      BY <1>4, <1>8, <2>4, <3>2
    <3>. QED BY <3>1, <3>2
  <2>. QED BY <1>1, <1>9, <2>1, <2>3, <2>4, FitsArriving
<1>. QED BY <1>10, <1>11, <1>12, <1>13, <1>14 DEF OrderParts

LEMMA EventOrdered ==
  ASSUME TypeInv, OrderParts, NEW t \in Threads, Event(t)
  PROVE  OrderParts'
<1>. DEFINE m == EventFrame(t)
<1>1. /\ sent'[t] = sent[t] + 1 /\ \A u \in Threads : u # t => sent'[u] = sent[u]
      /\ m \in Frames /\ m.kind = "event" /\ m.n = sent[t] + 1
      /\ \A u \in Threads : IsEvent(m, u) <=> u = t
      /\ Notify(t, m)
  BY EventIs
<1>. HIDE DEF m
<1>. QED BY <1>1, NotifyOrdered

LEMMA DeltaOrdered ==
  ASSUME TypeInv, OrderParts, NEW t \in Threads, Delta(t)
  PROVE  OrderParts'
  BY DeltaIs, NotifyOrdered

(* What arrives of a queue.                                                *)
LEMMA CutAnswers ==
  ASSUME NEW s \in Seq(Frames), NEW n \in 0 .. Len(s), NEW q, NEW t
  PROVE  /\ HasAnswer(SubSeq(s, 1, n), q) => HasAnswer(s, q)
         /\ Heralded(s, q, t) => Heralded(SubSeq(s, 1, n), q, t)
<1>. DEFINE u == SubSeq(s, 1, n)
<1>1. DOMAIN s = 1 .. Len(s) /\ Len(s) \in Nat /\ DOMAIN u = 1 .. n /\ \A i \in 1 .. n : u[i] = s[i]
  BY CutIs
<1>. HIDE DEF u
<1>2. \A i \in DOMAIN u : i \in DOMAIN s /\ u[i] = s[i]
  BY <1>1
<1>3. \A i \in DOMAIN s : \A j \in DOMAIN u : i < j => i \in DOMAIN u
  BY <1>1
<1>4. HasAnswer(u, q) => HasAnswer(s, q)
  BY <1>2 DEF HasAnswer
<1>5. Heralded(s, q, t) => Heralded(u, q, t)
  BY <1>2, <1>3 DEF Heralded
<1>. QED BY <1>4, <1>5 DEF u

LEMMA BreakOrdered ==
  ASSUME TypeInv, OrderParts, NEW c \in Clients, Break(c)
  PROVE  OrderParts'
<1>1. PICK n \in 0 .. Len(inbox[c]) :
        /\ inbox' = [inbox EXCEPT ![c] = SubSeq(@, 1, n)]
        /\ lost' = [t \in Threads |-> lost[t] \cup EventsOf(SubSeq(inbox[c], n + 1, Len(inbox[c])), t)]
  BY DEF Break
<1>2. /\ conn[c] = "open" /\ conn' = [conn EXCEPT ![c] = "broken"]
      /\ UNCHANGED <<machine, runtimes, notes, channel, runner, consumer, bridge, caller, sub, active, sent, got, forsaken>>
  BY DEF Break, lock, goroutines, codex
<1>3. inbox[c] \in Seq(Frames) /\ Len(inbox[c]) \in Nat
  BY DEF TypeInv, QueuesTyped
<1>4. inbox'[c] = SubSeq(inbox[c], 1, n) /\ \A d \in Clients : d # c => inbox'[d] = inbox[d]
  BY <1>1 DEF TypeInv, QueuesTyped
<1>5. conn'[c] = "broken" /\ \A d \in Clients : d # c => conn'[d] = conn[d]
  BY <1>2 DEF TypeInv, StateTyped
<1>6. inbox[c] = <<>> => inbox'[c] = <<>> /\ \A t \in Threads : lost'[t] = lost[t]
  <2>1. SUFFICES ASSUME inbox[c] = <<>> PROVE inbox'[c] = <<>> /\ \A t \in Threads : lost'[t] = lost[t]
    OBVIOUS
  <2>2. n = 0 /\ SubSeq(inbox[c], 1, n) = <<>> /\ SubSeq(inbox[c], n + 1, Len(inbox[c])) = <<>>
    BY <2>1
  <2>. QED BY <1>1, <1>4, <2>2, EmptyQueue
<1>7. \A t \in Threads, d \in Clients : EventsOf(inbox[d], t) = {} => EventsOf(inbox'[d], t) = {}
  <2>1. \A t \in Threads : EventsOf(inbox[c], t) = EventsOf(SubSeq(inbox[c], 1, n), t)
                             \cup EventsOf(SubSeq(inbox[c], n + 1, Len(inbox[c])), t)
    BY <1>3, CutEvents
  <2>. QED BY <1>4, <2>1
<1>8. \A t \in Threads : Subscribed(t)' => Subscribed(t)
  BY <1>2, <1>5 DEF Subscribed
<1>9. \A t \in Threads : NoneUnderWay(t) /\ ~Subscribed(t) => NoneUnderWay(t)' /\ ~Subscribed(t)'
  <2>1. \A t \in Threads : NoneTaken(t)' <=> NoneTaken(t)
    BY <1>2 DEF NoneTaken
  <2>. QED BY <1>7, <1>8, <2>1 DEF NoneUnderWay
<1>10. OneRuntime' /\ OneClient' /\ UnwatchedQuiet'
  <2>1. \A d \in Clients : ~Cur(d) => inbox'[d] = <<>> /\ sub'[d] = sub[d]
    BY <1>2, <1>4, <1>6 DEF OrderParts, OneClient
  <2>. QED BY <1>2, <1>5, <1>9, <2>1, OldAreThreads, ArrivingFrame
<1>11. ActiveWatched' /\ PendingApart'
  BY <1>2 DEF OrderParts, ActiveWatched, PendingApart, Watched, Watchers
<1>12. Attached'
  BY <1>2, <1>5 DEF OrderParts, Attached, Cur, Client, Watchers
<1>13. Ordered'
  <2>1. SUFFICES ASSUME machine # 0, NEW t \in Threads \ GivenUp
                 PROVE  Pipeline(runner, channel[machine][t], Noted', Arriving', t, got[t], sent[t], lost'[t])
    BY <1>2 DEF Ordered, GivenUp
  <2>2. Pipeline(runner, channel[machine][t], Noted, Arriving, t, got[t], sent[t], lost[t])
    BY <2>1 DEF OrderParts, Ordered
  <2>3. Noted' = Noted
    BY <1>2 DEF Noted, Client
  <2>4. CASE Cur(c)
    <3>1. Client(machine) = c /\ c # 0 /\ Arriving = inbox[c]
      BY <2>4, CurrentIs
    <3>2. Arriving' = SubSeq(inbox[c], 1, n)
      BY <1>2, <1>4, <3>1 DEF Arriving, Client
    <3>3. lost'[t] = lost[t] \cup EventsOf(SubSeq(inbox[c], n + 1, Len(inbox[c])), t)
      BY <1>1
    <3>4. Pipeline(runner, channel[machine][t], Noted, SubSeq(inbox[c], 1, n), t, got[t], sent[t],
                   lost[t] \cup EventsOf(SubSeq(inbox[c], n + 1, Len(inbox[c])), t))
      BY <1>3, <2>2, <3>1, BrokenPipe
    <3>. QED BY <2>3, <3>2, <3>3, <3>4
  <2>5. CASE ~Cur(c)
    <3>1. lost'[t] = lost[t] /\ \A d \in Clients : inbox'[d] = inbox[d]
      BY <1>4, <1>6, <2>5 DEF OrderParts, OneClient
    <3>2. Arriving' = Arriving
      BY <1>2, <2>1, <3>1 DEF Arriving, Client, TypeInv, StateTyped
    <3>. QED BY <2>2, <2>3, <3>1, <3>2
  <2>. QED BY <2>4, <2>5
<1>14. ASSUME NEW q \in AllCallers PROVE Fits(q)'
  <2>1. Fits(q) /\ Uses(q) /\ CallerOk(caller[q]) /\ caller'[q] = caller[q]
    BY <1>2, OrderFits DEF TypeInv, CallersTyped
  <2>2. \A d \in Clients : HasAnswer(inbox'[d], q) => HasAnswer(inbox[d], q)
    <3>1. HasAnswer(inbox'[c], q) => HasAnswer(inbox[c], q)
      BY <1>3, <1>4, CutAnswers
    <3>. QED BY <1>4, <3>1
  <2>3. \A d \in Clients, t \in Threads : Heralded(inbox[d], q, t) => Heralded(inbox'[d], q, t)
    <3>1. \A t \in Threads : Heralded(inbox[c], q, t) => Heralded(inbox'[c], q, t)
      BY <1>3, <1>4, CutAnswers
    <3>. QED BY <1>4, <3>1
  <2>4. ASSUME NEW t \in Threads, NEW d \in Clients, Resuming(caller[q]), caller[q].at = "replied", d = caller[q].client,
               Subscribed(t) => HasAnswer(inbox[d], q), Subscribed(t)'
        PROVE  HasAnswer(inbox'[d], q)
    <3>1. PICK e \in Clients : conn'[e] = "open" /\ t \in sub[e]
      BY <1>2, <2>4 DEF Subscribed
    <3>2. e # c /\ conn[e] = "open"
      BY <1>5, <3>1
    <3>3. Cur(e)
      BY <3>1, <3>2 DEF OrderParts, OneClient
    <3>4. Cur(d)
      BY <2>1, <2>4 DEF Uses, Waiting
    <3>5. d = e
      BY <3>3, <3>4 DEF Cur
    <3>. QED BY <1>4, <1>8, <2>4, <3>2, <3>5
  <2>5. \A d \in Clients : sub[d] \subseteq sub'[d]
    BY <1>2
  <2>6. \A d \in Clients : conn'[d] = conn[d] \/ (conn[d] = "open" /\ conn'[d] = "broken")
    BY <1>2, <1>5
  <2>. QED BY <1>2, <1>9, <2>1, <2>2, <2>3, <2>4, <2>5, <2>6, FitsArriving
<1>. QED BY <1>10, <1>11, <1>12, <1>13, <1>14 DEF OrderParts

-------------------------------------------------------------------------------
(* Calls that are given up: what has been sent has been sent.              *)
LEMMA DisownedAnswers ==
  ASSUME NEW s \in Seq(Frames), NEW p \in AllCallers, NEW q \in AllCallers, q # p
  PROVE  /\ HasAnswer(Disowned(s, p), q) <=> HasAnswer(s, q)
         /\ \A t : Heralded(s, q, t) => Heralded(Disowned(s, p), q, t)
<1>. DEFINE d == Disowned(s, p)
<1>1. DOMAIN d = DOMAIN s
  BY DisownedIs
<1>2. ASSUME NEW i \in DOMAIN s
      PROVE  (Answers(d[i], q) <=> Answers(s[i], q)) /\ \A t : IsEvent(d[i], t) <=> IsEvent(s[i], t)
  <2>1. ReplyTo(d[i], q) <=> ReplyTo(s[i], q) /\ q # p
    BY DisownedIs
  <2>2. d[i].result = s[i].result \/ ~ReplyTo(s[i], q)
    BY DisownedIs
  <2>3. \A t : IsEvent(d[i], t) <=> IsEvent(s[i], t)
    BY DisownedIs
  <2>. HIDE DEF d
  <2>. QED BY <2>1, <2>2, <2>3 DEF Answers
<1>. HIDE DEF d
<1>3. HasAnswer(d, q) <=> HasAnswer(s, q)
  BY <1>1, <1>2 DEF HasAnswer
<1>4. ASSUME NEW t, Heralded(s, q, t) PROVE Heralded(d, q, t)
  BY <1>1, <1>2, <1>4 DEF Heralded
<1>. QED BY <1>3, <1>4 DEF d

LEMMA CancelOrdered ==
  ASSUME TypeInv, OrderParts, NEW p \in AllCallers, Cancel(p)
  PROVE  OrderParts'
<1>. DEFINE c == caller[p].client
            x == Returned(caller[p], "failed")
<1>1. /\ CallerOk(caller[p]) /\ caller[p].op # "none" /\ Waiting(caller[p])
      /\ c \in Clients /\ c # 0 /\ caller[p].thread \in Threads
      /\ StepOf(caller[p]) \in Methods \cup {"ensure", "resume"}
      /\ inbox[c] \in Seq(Frames) /\ inbox'[c] = Disowned(inbox[c], p)
      /\ \A d \in Clients : d # c => inbox'[d] = inbox[d]
      /\ Move(p, x) /\ CallerOk(x) /\ ~Waiting(x) /\ ~Dialled(x)
      /\ \/ StepOf(caller[p]) \in Methods /\ x = Idle
         \/ /\ StepOf(caller[p]) \in {"ensure", "resume"}
            /\ x.op = caller[p].op /\ x.step = caller[p].step /\ x.thread = caller[p].thread
            /\ x.about = caller[p].about /\ x.home = caller[p].home /\ x.runtime = caller[p].runtime
            /\ x.client = c /\ x.todo = caller[p].todo
            /\ x.at = "failed"
  BY CancelIs
<1>2. UNCHANGED <<machine, runtimes, conn, notes, channel, runner, consumer, bridge, sub, active, sent, got, lost>>
  BY DEF Cancel, lock
<1>3. /\ forsaken \subseteq forsaken'
      /\ StepOf(caller[p]) = "resume" => caller[p].thread \in forsaken'
  <2>1. forsaken' = IF caller[p].op \in {"start", "attach"} /\ StepOf(caller[p]) \in {"turn/start", "resume"}
                      THEN forsaken \cup {caller[p].thread} ELSE forsaken
    BY DEF Cancel, StepOf, Step
  <2>2. caller[p].op \in DOMAIN Script /\ caller[p].step \in 1 .. Len(Script[caller[p].op])
    BY <1>1, OpsAreScripts DEF CallerOk
  <2>3. StepOf(caller[p]) = "resume" => caller[p].op = "attach"
    BY <2>2, ScriptSteps DEF StepOf
  <2>. QED BY <2>1, <2>3
<1>. HIDE DEF c, x
<1>4. caller'[p] = x /\ \A q \in AllCallers : q # p => caller'[q] = caller[q]
  BY <1>1, MoveIs DEF TypeInv
<1>5. \A t : EventsOf(inbox'[c], t) = EventsOf(inbox[c], t) /\ (InOrder(inbox[c], t) => InOrder(inbox'[c], t))
  BY <1>1, DisownedEvents
<1>6. \A d \in Clients : inbox[d] = <<>> => inbox'[d] = <<>>
  BY <1>1, DisownedIs
<1>7. \A t : (NoneTaken(t)' <=> NoneTaken(t)) /\ (Subscribed(t)' <=> Subscribed(t))
  BY <1>2 DEF NoneTaken, Subscribed
<1>8. \A t : NoneUnderWay(t)' <=> NoneUnderWay(t)
  BY <1>1, <1>5, <1>7 DEF NoneUnderWay
<1>9. OneRuntime' /\ OneClient' /\ UnwatchedQuiet'
  <2>1. \A d \in Clients : ~Cur(d) => inbox'[d] = <<>> /\ sub'[d] = sub[d]
    BY <1>2, <1>6 DEF OrderParts, OneClient
  <2>. QED BY <1>2, <1>3, <1>7, <1>8, <2>1, ArrivingFrame
<1>10. ActiveWatched'
  BY <1>2 DEF OrderParts, ActiveWatched, Watched, Watchers
<1>11. Ordered'
  <2>1. SUFFICES ASSUME machine # 0, NEW t \in Threads \ GivenUp
                 PROVE  Pipeline(runner, channel[machine][t], Noted', Arriving', t, got[t], sent[t], lost[t])
    BY <1>2, <1>3 DEF Ordered, GivenUp
  <2>2. Pipeline(runner, channel[machine][t], Noted, Arriving, t, got[t], sent[t], lost[t])
    BY <2>1 DEF OrderParts, Ordered
  <2>3. Noted' = Noted
    BY <1>2 DEF Noted, Client
  <2>4. EventsOf(Arriving', t) = EventsOf(Arriving, t) /\ (InOrder(Arriving, t) => InOrder(Arriving', t))
    <3>1. Client(machine) \in {0} \cup Clients /\ Client(machine)' = Client(machine)
      BY <1>2, <2>1 DEF Client, TypeInv, StateTyped
    <3>. QED BY <1>1, <1>5, <3>1 DEF Arriving
  <2>. QED BY <2>2, <2>3, <2>4 DEF Pipeline
<1>12. ASSUME NEW q \in AllCallers, q # p PROVE Fits(q)'
  <2>1. Fits(q) /\ CallerOk(caller[q]) /\ caller'[q] = caller[q]
    BY <1>4, <1>12, OrderFits DEF TypeInv, CallersTyped
  <2>2. ASSUME NEW d \in Clients
        PROVE  /\ HasAnswer(inbox'[d], q) <=> HasAnswer(inbox[d], q)
               /\ \A t : Heralded(inbox[d], q, t) => Heralded(inbox'[d], q, t)
    <3>1. CASE d = c
      BY <1>1, <1>12, <3>1, DisownedAnswers
    <3>2. CASE d # c
      BY <1>1, <3>2
    <3>. QED BY <3>1, <3>2
  <2>. QED BY <1>2, <1>3, <1>7, <1>8, <2>1, <2>2, FitsArriving
<1>13. /\ Fits(p)'
       /\ Attaches(x) => Attaches(caller[p]) /\ x.thread = caller[p].thread
       /\ Pending(x) <=> Pending(caller[p])
       /\ Pending(caller[p]) => x.thread = caller[p].thread
  <2>1. CASE StepOf(caller[p]) \in Methods
    <3>1. x = Idle /\ ~Pending(caller[p])
      BY <1>1, <2>1, NotPending DEF Methods
    <3>. QED BY <1>4, <3>1, IdleFits
  <2>2. CASE StepOf(caller[p]) \in {"ensure", "resume"}
    <3>1. /\ x.op = caller[p].op /\ x.step = caller[p].step /\ x.thread = caller[p].thread
          /\ x.home = caller[p].home /\ x.runtime = caller[p].runtime
          /\ x.client = c /\ x.todo = caller[p].todo /\ x.at = "failed"
      BY <1>1, <2>2 DEF Methods
    <3>2. /\ Attaches(x) <=> Attaches(caller[p])
          /\ Resuming(x) <=> StepOf(caller[p]) = "resume"
          /\ Resuming(x) <=> Resuming(caller[p])
          /\ Redialling(x) <=> Redialling(caller[p])
          /\ Pending(x) <=> Pending(caller[p])
      BY <1>1, <3>1 DEF Attaches, Resuming, Redialling, Pending, StepOf, Waiting
    <3>3. OnItsWay(p) /\ Uses(p) /\ WorksOn(p)
      BY OrderFits
    <3>4. OnItsWay(p)'
      BY <1>2, <1>4, <3>1, <3>2, <3>3 DEF OnItsWay, Watched, Watchers
    <3>5. Uses(p)'
      BY <1>1, <1>2, <1>4, <3>1, <3>2, <3>3 DEF Uses, Cur, Client, c
    <3>6. WorksOn(p)'
      BY <1>1, <1>2, <1>4, <3>1, <3>2, <3>3 DEF WorksOn, Watched, Watchers
    <3>7. Redials(p)'
      BY <1>4, <3>1 DEF Redials
    <3>8. Resumes(p)'
      BY <1>3, <1>4, <3>1, <3>2 DEF Resumes
    <3>. QED BY <3>1, <3>2, <3>4, <3>5, <3>6, <3>7, <3>8 DEF Fits
  <2>. QED BY <1>1, <2>1, <2>2
<1>14. PendingApart'
  BY <1>4, <1>13, ApartKept DEF OrderParts
<1>15. Attached'
  BY <1>2, <1>4, <1>13 DEF OrderParts, Attached, Cur, Client, Watchers
<1>. QED BY <1>9, <1>10, <1>11, <1>12, <1>13, <1>14, <1>15 DEF OrderParts

(* What codex does for a call that was given up: the reply is for nobody.  *)
LEMMA ServeAbandonedOrdered ==
  ASSUME TypeInv, GivenTyped, OrderParts, GivenHarmless, NEW a \in abandoned, ServeAbandoned(a)
  PROVE  OrderParts'
<1>. DEFINE c == a.client
            u == a.about
            m == ReplyFor(NoOne, "answered")
<1>1. c \in Clients /\ u \in Threads /\ a.step \in Methods \cup {"ensure", "resume"} /\ conn[c] = "open"
  BY DEF GivenTyped, Given, ServeAbandoned
<1>2. /\ Cur(c)
      /\ a.step \notin {"thread/unsubscribe", "thread/archive"}
      /\ a.step = "thread/start" => u \notin Old
      /\ a.step = "turn/start" => u \in Old \/ Watched(u)
      /\ a.step = "resume" => u \in forsaken
      /\ a.step = "ensure" => Watched(u) /\ \A p \in AllCallers : Resuming(caller[p]) => caller[p].thread # u
  BY <1>1 DEF GivenHarmless
<1>3. UNCHANGED <<machine, runtimes, conn, notes, channel, runner, consumer, bridge, caller, sent, got, lost, forsaken>>
  BY DEF ServeAbandoned, lock, goroutines, history
<1>4. /\ m \in Frames /\ (\A q \in AllCallers : ~Answers(m, q)) /\ \A t : ~IsEvent(m, t)
  BY LoopIsNoCaller DEF Frames, Replies, ReplyFor, ReplyTo, Answers, IsEvent
<1>5. /\ inbox[c] \in Seq(Frames) /\ inbox'[c] = Append(inbox[c], m)
      /\ \A d \in Clients : d # c => inbox'[d] = inbox[d]
  <2>1. inbox' = [inbox EXCEPT ![c] = Append(@, m)]
    BY DEF ServeAbandoned
  <2>. HIDE DEF m, c
  <2>. QED BY <1>1, <2>1 DEF TypeInv, QueuesTyped
<1>. HIDE DEF m
<1>6. /\ a.step \in {"thread/start", "resume", "ensure"} =>
             sub' = [sub EXCEPT ![c] = @ \cup {u}] /\ active' = active
      /\ a.step = "turn/start" => sub' = sub /\ active' = active \cup {u}
      /\ a.step = "turn/steer" => sub' = sub /\ active' = active
  BY DEF ServeAbandoned, Does
<1>. HIDE DEF c, u
<1>7. /\ \A d \in Clients : sub[d] \subseteq sub'[d] /\ (d # c => sub'[d] = sub[d])
      /\ sub'[c] \subseteq sub[c] \cup {u}
      /\ a.step \in {"thread/start", "resume", "ensure"} \/ sub' = sub
      /\ active \subseteq active' /\ active' \subseteq active \cup {u}
      /\ a.step = "turn/start" \/ active' = active
  <2>1. sub \in [Clients -> SUBSET Threads]
    BY DEF TypeInv, StateTyped
  <2>2. CASE a.step \in {"thread/start", "resume", "ensure"}
    BY <1>1, <1>6, <2>1, <2>2
  <2>3. CASE a.step \in {"turn/start", "turn/steer"}
    BY <1>6, <2>3
  <2>. QED BY <1>1, <1>2, <2>2, <2>3 DEF Methods
<1>8. \A t \in Threads : t # u \/ sub' = sub => (Subscribed(t)' <=> Subscribed(t))
  BY <1>1, <1>3, <1>7 DEF Subscribed
<1>9. \A t \in Threads : (NoneTaken(t)' <=> NoneTaken(t)) /\ (NoneUnderWay(t)' <=> NoneUnderWay(t))
  <2>1. \A t \in Threads : EventsOf(inbox'[c], t) = EventsOf(inbox[c], t)
    <3>1. \A t \in Threads : EventsOf(inbox'[c], t) = EventsOf(inbox[c], t) \cup (IF IsEvent(m, t) THEN {m.n} ELSE {})
      BY <1>4, <1>5, AppendEvents
    <3>. QED BY <1>4, <3>1
  <2>2. \A t \in Threads : NoneTaken(t)' <=> NoneTaken(t)
    BY <1>3 DEF NoneTaken
  <2>3. \A d \in Clients, t \in Threads : EventsOf(inbox'[d], t) = EventsOf(inbox[d], t)
    BY <1>5, <2>1
  <2>. QED BY <2>2, <2>3 DEF NoneUnderWay
<1>10. /\ machine # 0 /\ machine \in Clients /\ Client(machine) = c
       /\ Noted = notes[c] /\ Arriving = inbox[c]
  BY <1>1, <1>2, CurrentIs
<1>11. OneRuntime' /\ OneClient' /\ UnwatchedQuiet'
  <2>1. \A d \in Clients : ~Cur(d) => inbox'[d] = <<>> /\ sub'[d] = sub[d]
    BY <1>2, <1>5, <1>7 DEF OrderParts, OneClient
  <2>2. ASSUME NEW t \in Old \ forsaken, ~Watched(t), NoneUnderWay(t), ~Subscribed(t)
        PROVE  NoneUnderWay(t)' /\ ~Subscribed(t)'
    <3>1. t \in Threads /\ (t # u \/ sub' = sub)
      BY <1>2, <1>7, <2>2, OldAreThreads
    <3>. QED BY <1>8, <1>9, <2>2, <3>1
  <2>. QED BY <1>3, <2>1, <2>2, ArrivingFrame
<1>12. ActiveWatched'
  <2>1. \A t : Watched(t)' <=> Watched(t)
    BY <1>3 DEF Watched, Watchers
  <2>. QED BY <1>2, <1>3, <1>7, <2>1 DEF OrderParts, ActiveWatched
<1>13. Ordered'
  <2>1. Noted' = notes[c] /\ Arriving' = Append(inbox[c], m)
    BY <1>1, <1>3, <1>5, <1>10 DEF Noted, Arriving, Client, Clients
  <2>2. SUFFICES ASSUME NEW t \in Threads \ GivenUp
                 PROVE  Pipeline(runner, channel[machine][t], notes[c], Append(inbox[c], m), t, got[t], sent[t], lost[t])
    BY <1>3, <2>1 DEF Ordered, GivenUp
  <2>3. Pipeline(runner, channel[machine][t], notes[c], inbox[c], t, got[t], sent[t], lost[t])
    BY <1>10 DEF OrderParts, Ordered
  <2>4. got[t] \in Nat /\ sent[t] \in Nat /\ lost[t] \in SUBSET (1 .. sent[t]) /\ got[t] <= sent[t]
    BY DEF TypeInv, Numbered
  <2>. QED BY <1>4, <1>5, <2>3, <2>4, NotifiedPipe
<1>14. PendingApart'
  BY <1>3 DEF OrderParts, PendingApart
<1>15. Attached'
  BY <1>3, <1>7 DEF OrderParts, Attached, Cur, Client, Watchers
<1>16. ASSUME NEW q \in AllCallers PROVE Fits(q)'
  <2>1. Fits(q) /\ OnItsWay(q) /\ CallerOk(caller[q]) /\ caller'[q] = caller[q]
    BY <1>3, OrderFits DEF TypeInv, CallersTyped
  <2>2. ASSUME NEW d \in Clients
        PROVE  /\ HasAnswer(inbox'[d], q) <=> HasAnswer(inbox[d], q)
               /\ \A t : Heralded(inbox[d], q, t) => Heralded(inbox'[d], q, t)
    <3>1. CASE d = c
      <4>1. /\ HasAnswer(Append(inbox[c], m), q) <=> HasAnswer(inbox[c], q) \/ Answers(m, q)
            /\ \A t : ~IsEvent(m, t) => (Heralded(inbox[c], q, t) => Heralded(Append(inbox[c], m), q, t))
        BY <1>4, <1>5, AppendAnswers
      <4>. QED BY <1>4, <1>5, <3>1, <4>1
    <3>2. CASE d # c
      BY <1>5, <3>2
    <3>. QED BY <3>1, <3>2
  <2>3. ASSUME NEW t \in Threads, Resuming(caller[q]), t = caller[q].thread, t \notin forsaken
        PROVE  Subscribed(t)' <=> Subscribed(t)
    <3>1. t \in Old
      BY <2>1, <2>3, ResumesOld
    <3>2. t # u \/ sub' = sub
      BY <1>2, <1>7, <2>3, <3>1
    <3>. QED BY <1>8, <3>2
  <2>. QED BY <1>3, <1>7, <1>9, <2>1, <2>2, <2>3, FitsArriving
<1>. QED BY <1>11, <1>12, <1>13, <1>14, <1>15, <1>16 DEF OrderParts

-------------------------------------------------------------------------------
(* What is left of a call that was given up stays harmless: a client stays *)
(* in use until its connection has broken, a thread is unwatched by nobody *)
(* but the caller that resumes it, and nobody resumes a watched thread.    *)
Resumer(q, t) == Resuming(caller[q]) /\ caller[q].thread = t

ClientsStay ==
  \A c \in Clients : Cur(c) \/ conn[c] = "broken" => (Cur(c) \/ conn[c] = "broken")'
WatchersStay ==
  \A t \in Threads : Watched(t) /\ (t \notin Old \/ \A q \in AllCallers : ~Resumer(q, t)) => Watched(t)'
ResumersStay ==
  \A t \in Threads, q \in AllCallers : Watched(t) /\ Resumer(q, t)' => Resumer(q, t)
Settled == ClientsStay /\ WatchersStay /\ ResumersStay

LEMMA HarmlessKept ==
  ASSUME GivenTyped, GivenHarmless, Settled, abandoned' \subseteq abandoned, forsaken \subseteq forsaken'
  PROVE  GivenHarmless'
<1>1. SUFFICES ASSUME NEW a \in abandoned
               PROVE  /\ (Cur(a.client) \/ conn[a.client] = "broken")'
                      /\ a.step \notin {"thread/unsubscribe", "thread/archive"}
                      /\ a.step = "thread/start" => a.about \notin Old
                      /\ a.step = "turn/start" => a.about \in Old \/ Watched(a.about)'
                      /\ a.step = "resume" => a.about \in forsaken'
                      /\ a.step = "ensure" => /\ Watched(a.about)'
                                              /\ \A p \in AllCallers : ~Resumer(p, a.about)'
  BY DEF GivenHarmless, Resumer
<1>2. a.client \in Clients /\ a.about \in Threads
  BY DEF GivenTyped, Given
<1>3. /\ Cur(a.client) \/ conn[a.client] = "broken"
      /\ a.step \notin {"thread/unsubscribe", "thread/archive"}
      /\ a.step = "thread/start" => a.about \notin Old
      /\ a.step = "turn/start" => a.about \in Old \/ Watched(a.about)
      /\ a.step = "resume" => a.about \in forsaken
      /\ a.step = "ensure" => Watched(a.about) /\ \A p \in AllCallers : ~Resumer(p, a.about)
  BY DEF GivenHarmless, Resumer
<1>4. (Cur(a.client) \/ conn[a.client] = "broken")'
  BY <1>2, <1>3 DEF Settled, ClientsStay
<1>5. a.step = "turn/start" => a.about \in Old \/ Watched(a.about)'
  BY <1>2, <1>3 DEF Settled, WatchersStay
<1>6. a.step = "ensure" => Watched(a.about)' /\ \A p \in AllCallers : ~Resumer(p, a.about)'
  BY <1>2, <1>3 DEF Settled, WatchersStay, ResumersStay
<1>. QED BY <1>3, <1>4, <1>5, <1>6

(* Who resumes a thread holds the lock.                                    *)
LEMMA ResumerHolds ==
  ASSUME TypeInv, NEW q \in AllCallers, NEW t, Resumer(q, t)
  PROVE  mu = q
  BY DEF Resumer, TypeInv, LockHeld, Holding

LEMMA SameResumers ==
  ASSUME \A q \in AllCallers : caller'[q] = caller[q] \/ ~Resuming(caller'[q])
                               \/ (Resuming(caller[q]) /\ caller'[q].thread = caller[q].thread)
  PROVE  ResumersStay
  BY DEF ResumersStay, Resumer

LEMMA SameLock ==
  ASSUME UNCHANGED <<machine, runtimes>>, \A c \in Clients : conn[c] = "broken" => conn'[c] = "broken"
  PROVE  ClientsStay /\ WatchersStay
  BY DEF ClientsStay, WatchersStay, Cur, Watched, Client, Watchers

(* A caller that does not hold the lock when it takes a step and does not  *)
(* take it resumes no thread after it; nor one that lets go of it.         *)
LEMMA FreeOfResumers ==
  ASSUME TypeInv, TypeInv', NEW p \in AllCallers,
         \A q \in AllCallers : q # p => caller'[q] = caller[q],
         mu' = NoOne \/ (mu' = mu /\ caller[p].at \in {"go", "idle", "install"})
  PROVE  ResumersStay
<1>1. caller[p].at \in {"go", "idle", "install"} => mu # p
  BY DEF TypeInv, LockHeld, Holding, Redialling, Resuming
<1>2. Resuming(caller'[p]) => mu' = p
  BY DEF TypeInv, LockHeld, Holding
<1>3. ~Resuming(caller'[p])
  BY <1>1, <1>2, LoopIsNoCaller
<1>. QED BY <1>3, SameResumers

LEMMA OthersStay ==
  ASSUME TypeInv, NEW p \in AllCallers, NEW r, Move(p, r)
  PROVE  \A q \in AllCallers : q # p => caller'[q] = caller[q]
  BY DEF Move, TypeInv, CallersTyped

LEMMA OwnStep ==
  ASSUME TypeInv, NEW p \in AllCallers, Steps(p)
  PROVE  \A q \in AllCallers : q # p => caller'[q] = caller[q]
<1>1. CASE EnsureAlive(p) BY <1>1, OthersStay DEF EnsureAlive, Advance
<1>2. CASE Dial(p) BY <1>2, OthersStay DEF Dial
<1>3. CASE DialFails(p) BY <1>3, OthersStay DEF DialFails, Finish
<1>4. CASE Install(p) BY <1>4, OthersStay DEF Install, Advance
<1>5. CASE Reinstall(p) BY <1>5, OthersStay DEF Reinstall
<1>6. CASE ResumeNext(p) BY <1>6, OthersStay DEF ResumeNext, Call
<1>7. CASE ResumeFails(p) BY <1>7, OthersStay DEF ResumeFails, Finish
<1>8. CASE ResumedAll(p) BY <1>8, OthersStay DEF ResumedAll, Advance
<1>9. CASE CallMethod(p) BY <1>9, OthersStay DEF CallMethod, Call
<1>10. CASE Respond(p) BY <1>10, OthersStay DEF Respond, Finish
<1>11. CASE Watch(p) BY <1>11, OthersStay DEF Watch, Advance
<1>12. CASE ResumeWatched(p) BY <1>12, OthersStay DEF ResumeWatched, Advance
<1>13. CASE Resume(p) BY <1>13, OthersStay DEF Resume, Call
<1>14. CASE ResumeReturns(p) BY <1>14, OthersStay DEF ResumeReturns, Advance, Finish
<1>15. CASE Mark(p) BY <1>15, OthersStay DEF Mark, Advance, Finish
<1>16. CASE StartBridge(p) BY <1>16, OthersStay DEF StartBridge, Advance
<1>17. CASE Forget(p) BY <1>17, OthersStay DEF Forget, Advance
<1>18. CASE Snapshot(p) BY <1>18, OthersStay DEF Snapshot, Finish
<1>19. CASE NilClient(p) BY <1>19 DEF NilClient, goroutines
<1>. QED BY <1>1, <1>2, <1>3, <1>4, <1>5, <1>6, <1>7, <1>8, <1>9, <1>10, <1>11, <1>12, <1>13, <1>14, <1>15, <1>16, <1>17,
            <1>18, <1>19 DEF Steps, Ensure

(* A caller that calls within its step stays in that step.                 *)
LEMMA CallStays ==
  ASSUME NEW p \in AllCallers, TypeInv, NEW c, NEW r \in Records, Call(p, c, r),
         StepOf(r) \in {"ensure", "resume"}
  PROVE  caller'[p].op = r.op /\ caller'[p].step = r.step /\ caller'[p].thread = r.thread /\ StepOf(caller'[p]) = StepOf(r)
<1>1. CASE Move(p, [r EXCEPT !.at = "sent", !.client = c])
  <2>1. caller'[p] = [r EXCEPT !.at = "sent", !.client = c]
    BY <1>1 DEF Move, TypeInv, CallersTyped
  <2>2. caller'[p].op = r.op /\ caller'[p].step = r.step /\ caller'[p].thread = r.thread
    BY <2>1 DEF Records
  <2>. QED BY <2>2 DEF StepOf
<1>2. CASE Move(p, Returned(r, "failed"))
  <2>1. caller'[p] = [r EXCEPT !.at = "failed"]
    BY <1>2 DEF Move, TypeInv, CallersTyped, Returned, StepOf, Methods
  <2>2. caller'[p].op = r.op /\ caller'[p].step = r.step /\ caller'[p].thread = r.thread
    BY <2>1 DEF Records
  <2>. QED BY <2>2 DEF StepOf
<1>. QED BY <1>1, <1>2 DEF Call

LEMMA MoreWatchers ==
  ASSUME TypeInv, OrderParts, NEW p \in AllCallers, caller[p].op # "none", StepOf(caller[p]) \notin {"ensure", "snapshot"},
         machine' = machine, conn' = conn,
         SetWatchers(caller[p].runtime, Watchers(caller[p].runtime) \cup {caller[p].thread})
  PROVE  ClientsStay /\ WatchersStay
<1>1. machine \in Clients /\ machine # 0 /\ caller[p].runtime = machine /\ caller[p].thread \in Threads
  BY RuntimeIs
<1>2. Client(machine)' = Client(machine) /\ Watchers(machine) \subseteq Watchers(machine)'
  BY <1>1 DEF SetWatchers, Client, Watchers, TypeInv, StateTyped
<1>. QED BY <1>2 DEF ClientsStay, WatchersStay, Cur, Watched

LEMMA StepsSettle ==
  ASSUME "cleanup" \notin Ops, TypeInv, TypeInv', OrderParts, ~raced', NEW p \in AllCallers, Steps(p)
  PROVE  Settled
<1>. \A q \in AllCallers : q # p => caller'[q] = caller[q]
  BY OwnStep
<1>1. CASE EnsureAlive(p)
  <2>1. caller[p].at = "go" /\ UNCHANGED <<mu, machine, runtimes, conn>>
    BY <1>1 DEF EnsureAlive, At, lock
  <2>. QED BY <2>1, FreeOfResumers, SameLock DEF Settled
<1>2. CASE Dial(p)
  <2>1. caller[p].at = "go" /\ UNCHANGED <<mu, machine, runtimes>>
    BY <1>2 DEF Dial, At, lock
  <2>2. \A c \in Clients : conn[c] = "broken" => conn'[c] = "broken"
    BY <1>2 DEF Dial, TypeInv, StateTyped
  <2>. QED BY <2>1, <2>2, FreeOfResumers, SameLock DEF Settled
<1>3. CASE DialFails(p)
  <2>1. caller[p].at = "go" /\ UNCHANGED <<mu, machine, runtimes, conn>>
    BY <1>3 DEF DialFails, At, lock
  <2>. QED BY <2>1, FreeOfResumers, SameLock DEF Settled
<1>4. CASE Install(p)
  <2>1. caller[p].at = "install" /\ mu' = mu /\ machine = 0 /\ conn' = conn
    BY <1>4 DEF Install, At
  <2>2. ClientsStay /\ WatchersStay
    BY <2>1 DEF ClientsStay, WatchersStay, Cur, Watched
  <2>. QED BY <2>1, <2>2, FreeOfResumers DEF Settled
<1>5. CASE Reinstall(p)
  <2>1. /\ StepOf(caller[p]) = "ensure" /\ CallerOk(caller[p])
        /\ machine' = machine /\ conn' = conn /\ Client(machine) = 0
        /\ runtimes' = [runtimes EXCEPT ![machine].client = caller[p].client]
        /\ Move(p, [caller[p] EXCEPT !.at = "resume_next", !.todo = Watchers(machine)])
    BY <1>5, AtIs DEF Reinstall, TypeInv
  <2>2. ClientsStay
    BY <2>1 DEF ClientsStay, Cur, Clients
  <2>3. WatchersStay
    <3>1. machine # 0 => Watchers(machine)' = Watchers(machine)
      BY <2>1 DEF Watchers, TypeInv, StateTyped
    <3>. QED BY <2>1, <3>1 DEF WatchersStay, Watched
  <2>4. ~Resuming(caller'[p])
    <3>1. caller'[p] = [caller[p] EXCEPT !.at = "resume_next", !.todo = Watchers(machine)]
      BY <2>1 DEF Move, TypeInv, CallersTyped
    <3>2. caller'[p].at = "resume_next"
      BY <2>1, <3>1 DEF CallerOk, Records
    <3>. QED BY <3>2 DEF Resuming
  <2>. QED BY <2>2, <2>3, <2>4, SameResumers DEF Settled
<1>6. CASE ResumeNext(p)
  <2>1. StepOf(caller[p]) = "ensure" /\ CallerOk(caller[p]) /\ UNCHANGED <<machine, runtimes, conn>>
    BY <1>6, AtIs DEF ResumeNext, lock, TypeInv
  <2>2. PICK t \in caller[p].todo :
          Call(p, caller[p].client, [caller[p] EXCEPT !.about = t, !.todo = @ \ {t}])
    BY <1>6 DEF ResumeNext
  <2>. DEFINE x == [caller[p] EXCEPT !.about = t, !.todo = @ \ {t}]
  <2>3. x \in Records /\ x.op = caller[p].op /\ x.step = caller[p].step
    BY <2>1 DEF CallerOk, Records
  <2>4. Call(p, caller[p].client, x)
    BY <2>2
  <2>. HIDE DEF x
  <2>5. StepOf(x) = "ensure"
    BY <2>1, <2>3 DEF StepOf
  <2>6. ~Resuming(caller'[p])
    BY <2>3, <2>4, <2>5, CallStays DEF Resuming
  <2>. QED BY <2>1, <2>6, SameResumers, SameLock DEF Settled
<1>7. CASE ResumeFails(p)
  <2>1. mu' = NoOne /\ UNCHANGED <<machine, runtimes, conn>>
    BY <1>7 DEF ResumeFails
  <2>. QED BY <2>1, FreeOfResumers, SameLock DEF Settled
<1>8. CASE ResumedAll(p)
  <2>1. mu' = NoOne /\ UNCHANGED <<machine, runtimes, conn>>
    BY <1>8 DEF ResumedAll
  <2>. QED BY <2>1, FreeOfResumers, SameLock DEF Settled
<1>9. CASE CallMethod(p)
  <2>1. caller[p].at = "go" /\ UNCHANGED <<mu, machine, runtimes, conn>>
    BY <1>9 DEF CallMethod, lock
  <2>. QED BY <2>1, FreeOfResumers, SameLock DEF Settled
<1>10. CASE Respond(p)
  <2>1. caller[p].at = "go" /\ UNCHANGED <<mu, machine, runtimes, conn>>
    BY <1>10 DEF Respond, At, lock
  <2>. QED BY <2>1, FreeOfResumers, SameLock DEF Settled
<1>11. CASE ResumeWatched(p)
  <2>1. caller[p].at = "go" /\ UNCHANGED <<mu, machine, runtimes, conn>>
    BY <1>11 DEF ResumeWatched, At, lock
  <2>. QED BY <2>1, FreeOfResumers, SameLock DEF Settled
<1>12. CASE Mark(p)
  <2>1. caller[p].at = "go" /\ UNCHANGED <<mu, machine, runtimes, conn>>
    BY <1>12 DEF Mark, At, lock
  <2>. QED BY <2>1, FreeOfResumers, SameLock DEF Settled
<1>13. CASE Snapshot(p)
  <2>1. caller[p].at = "go" /\ UNCHANGED <<mu, machine, runtimes, conn>>
    BY <1>13 DEF Snapshot, At, lock
  <2>. QED BY <2>1, FreeOfResumers, SameLock DEF Settled
<1>14. CASE NilClient(p)
  <2>1. caller[p].at = "go" /\ UNCHANGED <<mu, machine, runtimes, conn>>
    BY <1>14 DEF NilClient, lock
  <2>. QED BY <2>1, FreeOfResumers, SameLock DEF Settled
<1>15. CASE Watch(p) \/ StartBridge(p)
  <2>1. /\ caller[p].at = "go" /\ caller[p].op # "none" /\ StepOf(caller[p]) \in {"watch", "bridge"}
        /\ mu' = mu /\ machine' = machine /\ conn' = conn
        /\ SetWatchers(caller[p].runtime, Watchers(caller[p].runtime) \cup {caller[p].thread})
    BY <1>15, AtIs DEF Watch, StartBridge, TypeInv
  <2>2. ClientsStay /\ WatchersStay
    BY <2>1, MoreWatchers
  <2>. QED BY <2>1, <2>2, FreeOfResumers DEF Settled
<1>16. CASE Resume(p)
  <2>1. /\ StepOf(caller[p]) = "resume" /\ caller[p].op # "none" /\ CallerOk(caller[p])
        /\ machine' = machine /\ conn' = conn
        /\ caller[p].thread \notin Watchers(caller[p].runtime)
        /\ SetWatchers(caller[p].runtime, Watchers(caller[p].runtime) \cup {caller[p].thread})
        /\ Call(p, Client(caller[p].runtime), [caller[p] EXCEPT !.about = caller[p].thread])
    BY <1>16, AtIs DEF Resume, TypeInv
  <2>2. ClientsStay /\ WatchersStay
    BY <2>1, MoreWatchers
  <2>3. ~Watched(caller[p].thread)
    BY <2>1, RuntimeIs DEF Watched
  <2>4. caller'[p].thread = caller[p].thread
    <3>. DEFINE x == [caller[p] EXCEPT !.about = caller[p].thread]
    <3>1. x \in Records /\ x.op = caller[p].op /\ x.step = caller[p].step /\ x.thread = caller[p].thread
      BY <2>1 DEF CallerOk, Records
    <3>2. Call(p, Client(caller[p].runtime), x)
      BY <2>1
    <3>. HIDE DEF x
    <3>3. StepOf(x) = "resume"
      BY <2>1, <3>1 DEF StepOf
    <3>. QED BY <3>1, <3>2, <3>3, CallStays
  <2>5. ResumersStay
    BY <2>3, <2>4 DEF ResumersStay, Resumer
  <2>. QED BY <2>2, <2>5 DEF Settled
<1>17. CASE ResumeReturns(p)
  <2>1. /\ StepOf(caller[p]) = "resume" /\ caller[p].at \in {"answered", "failed", "refused"} /\ caller[p].op # "none"
        /\ CallerOk(caller[p])
        /\ machine' = machine /\ conn' = conn /\ mu' = NoOne
        /\ \/ UNCHANGED runtimes
           \/ SetWatchers(caller[p].runtime, Watchers(caller[p].runtime) \ {caller[p].thread})
    BY <1>17, AtIs DEF ResumeReturns, TypeInv
  <2>2. Resuming(caller[p]) /\ caller[p].thread \in Old
    BY <2>1, ResumesOld, OrderFits DEF Resuming
  <2>3. machine \in Clients /\ machine # 0 /\ caller[p].runtime = machine /\ caller[p].thread \in Threads
    BY <2>1, RuntimeIs
  <2>4. /\ Client(machine)' = Client(machine)
        /\ \A t \in Watchers(machine) : t # caller[p].thread => t \in Watchers(machine)'
    BY <2>1, <2>3 DEF SetWatchers, Client, Watchers, TypeInv, StateTyped
  <2>5. ClientsStay
    BY <2>1, <2>4 DEF ClientsStay, Cur
  <2>6. WatchersStay
    BY <2>1, <2>2, <2>4 DEF WatchersStay, Watched, Resumer
  <2>. QED BY <2>1, <2>5, <2>6, FreeOfResumers DEF Settled
<1>18. ~Forget(p)
  <2>1. ASSUME Forget(p) PROVE FALSE
    <3>1. StepOf(caller[p]) = "forget" /\ CallerOk(caller[p]) /\ caller[p].op # "none"
      BY <2>1, AtIs DEF Forget, TypeInv
    <3>2. caller[p].op \in Ops /\ caller[p].op \in DOMAIN Script /\ caller[p].step \in 1 .. Len(Script[caller[p].op])
      BY <3>1, OpsAreScripts DEF CallerOk
    <3>. QED BY <3>1, <3>2, ScriptSteps DEF StepOf
  <2>. QED BY <2>1
<1>. QED BY <1>1, <1>2, <1>3, <1>4, <1>5, <1>6, <1>7, <1>8, <1>9, <1>10, <1>11, <1>12, <1>13, <1>14, <1>15, <1>16, <1>17,
            <1>18 DEF Steps, Ensure

(* A call that returns to a caller leaves it in its step, or ends its call. *)
LEMMA ReturnStays ==
  ASSUME NEW r, CallerOk(r), r.op # "none", Waiting(r), NEW how \in {"answered", "refused", "failed"},
         NEW x, x = Returned(r, how)
  PROVE  CallerOk(x) /\ (Resuming(x) => Resuming(r) /\ x.thread = r.thread)
<1>1. StepOf(r) \in Methods \cup {"ensure", "resume"} /\ r.client # 0
  BY DEF CallerOk
<1>2. /\ CallerOk(x)
      /\ \/ ~Holding(x)
         \/ x.op = r.op /\ x.step = r.step /\ x.thread = r.thread
  BY <1>1, ReturnedIs
<1>3. Resuming(x) => Holding(x)
  BY DEF Holding
<1>. QED BY <1>2, <1>3 DEF Resuming, StepOf, Waiting

LEMMA RoutedStays ==
  ASSUME TypeInv, NEW c \in Clients, RouteResponse(c)
  PROVE  ResumersStay
<1>. DEFINE m == Head(inbox[c])
<1>1. m \in Frames /\ m = inbox[c][1] /\ 1 \in DOMAIN inbox[c] /\ m.kind = "reply"
  BY TailIs DEF RouteResponse, TypeInv, QueuesTyped
<1>2. CASE m.to = NoOne
  <2>1. caller' = caller
    BY <1>2 DEF RouteResponse
  <2>. QED BY <2>1, SameResumers
<1>3. CASE m.to # NoOne
  <2>. DEFINE p == m.to
              x == Returned(caller[p], m.result)
  <2>1. p \in AllCallers /\ m.result \in {"answered", "refused"} /\ ReplyTo(m, p)
    BY <1>1, <1>3, ReplyFrame DEF ReplyTo
  <2>2. Move(p, x)
    BY <1>3 DEF RouteResponse
  <2>3. caller[p].at = "replied" /\ CallerOk(caller[p])
    BY <1>1, <2>1 DEF TypeInv, RepliesMatch, CallersTyped
  <2>4. caller[p].op # "none" /\ Waiting(caller[p])
    BY <2>3, IdleOk DEF CallerOk, Waiting
  <2>5. CallerOk(x) /\ (Resuming(x) => Resuming(caller[p]) /\ x.thread = caller[p].thread)
    BY <2>1, <2>3, <2>4, ReturnStays
  <2>. HIDE DEF x, p
  <2>6. caller'[p] = x /\ \A q \in AllCallers : q # p => caller'[q] = caller[q]
    BY <2>1, <2>2, <2>5, MoveIs DEF TypeInv
  <2>7. \A q \in AllCallers : caller'[q] = caller[q] \/ ~Resuming(caller'[q])
                               \/ (Resuming(caller[q]) /\ caller'[q].thread = caller[q].thread)
    BY <2>5, <2>6
  <2>. QED BY <2>7, SameResumers
<1>. QED BY <1>2, <1>3

LEMMA EndedStays ==
  ASSUME TypeInv, NEW c \in Clients, ReadEnds(c)
  PROVE  ResumersStay
<1>1. ASSUME NEW q \in AllCallers
      PROVE  caller'[q] = caller[q] \/ ~Resuming(caller'[q])
             \/ (Resuming(caller[q]) /\ caller'[q].thread = caller[q].thread)
  <2>1. CASE caller'[q] = caller[q]
    BY <2>1
  <2>2. CASE caller'[q] # caller[q]
    <3>1. Waiting(caller[q]) /\ caller[q].op # "none" /\ caller'[q] = Returned(caller[q], "failed")
      BY <2>2, ReadEndsIs
    <3>2. CallerOk(caller[q])
      BY DEF TypeInv, CallersTyped
    <3>. QED BY <3>1, <3>2, ReturnStays
  <2>. QED BY <2>1, <2>2
<1>. QED BY <1>1, SameResumers

LEMMA MovesSettle ==
  ASSUME TypeInv, OrderParts, ~raced', Moves
  PROVE  Settled
<1>1. ASSUME NEW c \in Clients, RouteResponse(c) PROVE Settled
  <2>1. UNCHANGED <<machine, runtimes, conn>>
    BY <1>1 DEF RouteResponse, lock
  <2>. QED BY <1>1, <2>1, SameLock, RoutedStays DEF Settled
<1>2. ASSUME NEW c \in Clients, ReadEnds(c) PROVE Settled
  <2>1. UNCHANGED <<machine, runtimes, conn>>
    BY <1>2 DEF ReadEnds, lock
  <2>. QED BY <1>2, <2>1, SameLock, EndedStays DEF Settled
<1>3. ASSUME NEW k \in Clients, EndConsumer(k) PROVE Settled
  <2>1. caller' = caller /\ machine' = machine /\ conn' = conn /\ consumer[k].at = "ready"
    BY <1>3 DEF EndConsumer, On
  <2>2. consumer[k].client = k /\ Cur(k) /\ conn[k] = "broken"
    BY <1>3, <2>1 DEF EndConsumer, OrderParts, OneRuntime, TypeInv, EndedEmpty
  <2>3. ClientsStay
    BY <2>1, <2>2 DEF ClientsStay, Cur
  <2>4. machine # 0 => Watchers(machine)' = Watchers(machine)
    BY <1>3 DEF EndConsumer, Watchers, TypeInv, StateTyped
  <2>5. WatchersStay
    BY <2>1, <2>4 DEF WatchersStay, Watched
  <2>. QED BY <2>1, <2>3, <2>5, SameResumers DEF Settled
<1>4. ASSUME UNCHANGED <<caller, machine, runtimes, conn>> PROVE Settled
  BY <1>4, SameLock, SameResumers DEF Settled
<1>5. ASSUME NEW c \in Clients, Publish(c) PROVE Settled
  BY <1>4, <1>5 DEF Publish, lock, goroutines
<1>6. ASSUME NEW c \in Clients, StartConsumer(c) PROVE Settled
  BY <1>4, <1>6 DEF StartConsumer, lock
<1>7. ASSUME NEW c \in Clients, Apply(c) PROVE Settled
  BY <1>4, <1>7 DEF Apply, lock, goroutines
<1>8. ASSUME NEW c \in Clients, ApplyBlocks(c) PROVE Settled
  BY <1>4, <1>8 DEF ApplyBlocks
<1>9. ASSUME NEW c \in Clients, ApplyUnblocks(c) PROVE Settled
  BY <1>4, <1>9 DEF ApplyUnblocks
<1>10. ASSUME NEW t \in Threads, BridgeEvent(t) PROVE Settled
  BY <1>4, <1>10 DEF BridgeEvent, lock, goroutines
<1>11. CASE Receive
  BY <1>4, <1>11 DEF Receive, lock, goroutines
<1>. QED BY <1>1, <1>2, <1>3, <1>5, <1>6, <1>7, <1>8, <1>9, <1>10, <1>11 DEF Moves

LEMMA CodexSettles ==
  ASSUME TypeInv, CodexSteps
  PROVE  Settled
<1>1. ASSUME NEW p \in AllCallers, NEW how \in {"answered", "refused"}, Reply(p, how) PROVE Settled
  <2>1. /\ Move(p, Replied(p)) /\ CallerOk(Replied(p))
        /\ Replied(p).op = caller[p].op /\ Replied(p).step = caller[p].step /\ Replied(p).at = "replied"
        /\ Replied(p).thread = caller[p].thread /\ caller[p].at = "sent"
    BY <1>1, ReplyIs
  <2>2. caller'[p] = Replied(p) /\ \A q \in AllCallers : q # p => caller'[q] = caller[q]
    BY <2>1, MoveIs DEF TypeInv
  <2>3. Resuming(caller'[p]) => Resuming(caller[p])
    BY <2>1, <2>2 DEF Resuming, StepOf
  <2>4. ResumersStay
    BY <2>1, <2>2, <2>3, SameResumers
  <2>5. UNCHANGED <<machine, runtimes, conn>>
    BY <1>1 DEF Reply, lock
  <2>. QED BY <2>4, <2>5, SameLock DEF Settled
<1>2. ASSUME NEW p \in AllCallers, Serve(p) \/ Refuse(p) PROVE Settled
  BY <1>1, <1>2 DEF Serve, Refuse
<1>3. ASSUME UNCHANGED <<caller, machine, runtimes>>, \A c \in Clients : conn[c] = "broken" => conn'[c] = "broken"
      PROVE  Settled
  BY <1>3, SameLock, SameResumers DEF Settled
<1>4. ASSUME NEW a \in abandoned, ServeAbandoned(a) PROVE Settled
  BY <1>3, <1>4 DEF ServeAbandoned, lock, goroutines
<1>5. ASSUME NEW t \in Threads, NEW m, Notify(t, m) PROVE Settled
  BY <1>3, <1>5 DEF Notify, lock, goroutines
<1>6. ASSUME NEW t \in Threads, Event(t) \/ Delta(t) PROVE Settled
  BY <1>5, <1>6 DEF Event, Delta
<1>7. ASSUME NEW c \in Clients, Break(c) PROVE Settled
  BY <1>3, <1>7 DEF Break, lock, goroutines, TypeInv, StateTyped
<1>. QED BY <1>2, <1>4, <1>6, <1>7 DEF CodexSteps

(* A call that is given up is harmless when it is, and so are those that   *)
(* were given up before.                                                   *)
LEMMA CancelHarmless ==
  ASSUME "cleanup" \notin Ops, TypeInv, TypeInv', GivenTyped, OrderParts, GivenHarmless, NEW p \in AllCallers, Cancel(p)
  PROVE  GivenHarmless'
<1>. DEFINE r == caller[p]
            g == [client |-> r.client, step |-> StepOf(r), about |-> r.about]
<1>1. /\ CallerOk(r) /\ r.op # "none" /\ Waiting(r) /\ r.client \in Clients /\ r.thread \in Threads
      /\ r.about \in Threads /\ StepOf(r) \in Methods \cup {"ensure", "resume"}
      /\ Move(p, Returned(r, "failed"))
  BY CancelIs
<1>2. UNCHANGED <<machine, runtimes, conn>> /\ forsaken \subseteq forsaken' /\ abandoned' \subseteq abandoned \cup {g}
  BY DEF Cancel, lock, StepOf, Step
<1>3. r.op \in {"start", "attach"} /\ StepOf(r) \in {"turn/start", "resume"} => r.thread \in forsaken'
  BY DEF Cancel, StepOf, Step
<1>4. CallerOk(Returned(r, "failed")) /\ (Resuming(Returned(r, "failed")) => Resuming(r) /\ Returned(r, "failed").thread = r.thread)
  BY <1>1, ReturnStays
<1>5. caller'[p] = Returned(r, "failed") /\ \A q \in AllCallers : q # p => caller'[q] = caller[q]
  BY <1>1, <1>4, MoveIs DEF TypeInv
<1>6. ResumersStay
  BY <1>4, <1>5, SameResumers
<1>7. Settled
  BY <1>2, <1>6, SameLock DEF Settled
<1>8. /\ r.op \in DOMAIN Script /\ r.op # "cleanup" /\ r.step \in 1 .. Len(Script[r.op])
  BY <1>1, OpsAreScripts DEF CallerOk
<1>9. /\ StepOf(r) \notin {"thread/unsubscribe", "thread/archive"}
      /\ StepOf(r) = "thread/start" => r.op = "start"
      /\ StepOf(r) = "resume" => r.op = "attach"
      /\ StepOf(r) = "turn/start" => r.op = "input" \/ (r.op = "start" /\ r.step > 4)
  BY <1>8, ScriptSteps DEF StepOf
<1>10. OnItsWay(p) /\ Uses(p) /\ WorksOn(p)
  BY OrderFits
<1>. HIDE DEF r
<1>11. /\ StepOf(r) # "ensure" => ~Redialling(r) /\ r.about = r.thread
       /\ StepOf(r) = "ensure" => Redialling(r)
       /\ StepOf(r) = "resume" <=> Resuming(r)
  BY <1>1, <1>10 DEF Redialling, Resuming, Waiting, Uses, r
<1>12. ASSUME StepOf(r) = "ensure"
       PROVE  Watched(r.about) /\ \A q \in AllCallers : ~Resumer(q, r.about)
  <2>1. Redialling(r) /\ Watched(r.about)
    BY <1>1, <1>10, <1>11, <1>12 DEF WorksOn, r
  <2>2. mu = p
    BY <2>1 DEF TypeInv, LockHeld, Holding, r
  <2>3. ASSUME NEW q \in AllCallers, Resumer(q, r.about) PROVE FALSE
    <3>1. q = p
      BY <2>2, <2>3, ResumerHolds
    <3>. QED BY <1>11, <1>12, <2>3, <3>1 DEF Resumer, r
  <2>. QED BY <2>1, <2>3
<1>13. ASSUME StepOf(r) = "turn/start" PROVE r.about \in Old \/ Watched(r.about)
  <2>1. r.about = r.thread
    BY <1>11, <1>13
  <2>2. r.thread \in active \/ Watched(r.thread)
    BY <1>9, <1>10, <1>13 DEF OnItsWay, r
  <2>. QED BY <1>1, <2>1, <2>2 DEF OrderParts, ActiveWatched
<1>14. /\ Cur(g.client) \/ conn[g.client] = "broken"
       /\ g.step \notin {"thread/unsubscribe", "thread/archive"}
       /\ g.step = "thread/start" => g.about \notin Old
       /\ g.step = "turn/start" => g.about \in Old \/ Watched(g.about)
       /\ g.step = "resume" => g.about \in forsaken'
       /\ g.step = "ensure" => Watched(g.about) /\ \A q \in AllCallers : ~Resumer(q, g.about)
  <2>1. Cur(r.client) \/ conn[r.client] = "broken"
    BY <1>1, <1>10 DEF Uses, r
  <2>2. StepOf(r) = "thread/start" => r.about \notin Old
    BY <1>9, <1>10, <1>11 DEF OnItsWay, r
  <2>3. StepOf(r) = "resume" => r.about \in forsaken'
    BY <1>3, <1>9, <1>11
  <2>. QED BY <1>9, <1>12, <1>13, <2>1, <2>2, <2>3
<1>. HIDE DEF g
<1>15. \A t \in Threads : (Watched(t) => Watched(t)')
  BY <1>2 DEF Watched, Watchers
<1>16. g.client \in Clients /\ g.about \in Threads
  BY <1>1 DEF g
<1>17. ASSUME NEW a \in abandoned \cup {g}
       PROVE  /\ (Cur(a.client) \/ conn[a.client] = "broken")'
              /\ a.step \notin {"thread/unsubscribe", "thread/archive"}
              /\ a.step = "thread/start" => a.about \notin Old
              /\ a.step = "turn/start" => a.about \in Old \/ Watched(a.about)'
              /\ a.step = "resume" => a.about \in forsaken'
              /\ a.step = "ensure" => /\ Watched(a.about)'
                                      /\ \A q \in AllCallers : ~Resumer(q, a.about)'
  <2>1. /\ a.client \in Clients /\ a.about \in Threads
        /\ Cur(a.client) \/ conn[a.client] = "broken"
        /\ a.step \notin {"thread/unsubscribe", "thread/archive"}
        /\ a.step = "thread/start" => a.about \notin Old
        /\ a.step = "turn/start" => a.about \in Old \/ Watched(a.about)
        /\ a.step = "resume" => a.about \in forsaken'
        /\ a.step = "ensure" => Watched(a.about) /\ \A q \in AllCallers : ~Resumer(q, a.about)
    <3>1. CASE a = g
      BY <1>14, <1>16, <3>1
    <3>2. CASE a \in abandoned
      BY <1>2, <3>2 DEF GivenHarmless, GivenTyped, Given, Resumer
    <3>. QED BY <3>1, <3>2
  <2>2. (Cur(a.client) \/ conn[a.client] = "broken")'
    BY <1>7, <2>1 DEF Settled, ClientsStay
  <2>3. a.step = "ensure" => \A q \in AllCallers : ~Resumer(q, a.about)'
    BY <1>6, <2>1 DEF ResumersStay
  <2>. QED BY <1>15, <2>1, <2>2, <2>3
<1>. QED BY <1>2, <1>17 DEF GivenHarmless, Resumer

-------------------------------------------------------------------------------
LEMMA InitOrdered == Init => OrderParts
<1>. SUFFICES ASSUME Init PROVE OrderParts
  OBVIOUS
<1>1. \A p \in AllCallers : caller[p] = Idle
  BY DEF Init
<1>2. \A p \in AllCallers : ~Holding(caller[p]) /\ ~Waiting(caller[p]) /\ ~Owns(caller[p]) /\ ~Dialled(caller[p])
  BY <1>1, IdleOk DEF Owns
<1>3. ASSUME NEW p \in AllCallers PROVE Fits(p)
  <2>1. OnItsWay(p)
    BY <1>1 DEF OnItsWay, Attaches, Idle
  <2>2. Uses(p) /\ WorksOn(p) /\ Resumes(p) /\ Redials(p)
    BY <1>2 DEF Uses, WorksOn, Resumes, Redials, Holding
  <2>. QED BY <2>1, <2>2 DEF Fits
<1>4. OneRuntime
  BY DEF Init, OneRuntime
<1>5. OneClient
  BY DEF Init, OneClient, Cur
<1>6. ActiveWatched
  BY DEF Init, ActiveWatched
<1>7. UnwatchedQuiet
  BY EmptyQueue, OldAreThreads DEF Init, UnwatchedQuiet, NoneUnderWay, NoneTaken, Subscribed
<1>8. Ordered /\ Attached
  BY DEF Init, Ordered, Attached, Cur
<1>9. PendingApart
  BY <1>2 DEF PendingApart, Pending, Holding
<1>. QED BY <1>3, <1>4, <1>5, <1>6, <1>7, <1>8, <1>9 DEF OrderParts

LEMMA MovesOrdered ==
  ASSUME TypeInv, OrderParts, Moves, ~raced', ~panicked'
  PROVE  OrderParts'
  BY PublishOrdered, RouteResponseOrdered, IgnoredOrdered, ReadEndsOrdered, StartConsumerOrdered, ApplyOrdered, ApplyBlocksOrdered,
     ApplyUnblocksOrdered, EndConsumerOrdered, BridgeEventOrdered, ReceiveOrdered DEF Moves

LEMMA SameOrdered ==
  ASSUME TypeInv, OrderParts, UNCHANGED vars
  PROVE  OrderParts'
<1>1. UNCHANGED <<machine, runtimes, conn, pipe, consumer, caller, bridge, sub, active, sent, got, lost, forsaken>>
  BY DEF vars, lock, goroutines, codex, history
<1>2. OneRuntime' /\ OneClient'
  BY <1>1 DEF OrderParts, OneRuntime, OneClient, Cur, Client, pipe
<1>3. ActiveWatched' /\ PendingApart'
  BY <1>1 DEF OrderParts, ActiveWatched, PendingApart, Watched, Watchers
<1>4. UnwatchedQuiet'
  BY <1>1 DEF OrderParts, UnwatchedQuiet, Watched, Watchers, NoneUnderWay, NoneTaken, Subscribed, pipe
<1>5. Ordered' /\ Attached'
  BY <1>1 DEF OrderParts, Ordered, GivenUp, Attached, Noted, Arriving, Cur, Client, Watchers, pipe
<1>6. \A p \in AllCallers : Fits(p)'
  BY <1>1, FitsSame DEF OrderParts
<1>. QED BY <1>2, <1>3, <1>4, <1>5, <1>6 DEF OrderParts

(* That a client was replaced, and that the process has died, is for good. *)
Kept == (raced => raced') /\ (panicked => panicked')

LEMMA StepsKeep == ASSUME NEW p \in AllCallers, Steps(p) PROVE Kept
<1>1. CASE EnsureAlive(p) BY <1>1 DEF EnsureAlive, history, Kept
<1>2. CASE Dial(p) BY <1>2 DEF Dial, history, Kept
<1>3. CASE DialFails(p) BY <1>3 DEF DialFails, history, Kept
<1>4. CASE ResumeNext(p) BY <1>4 DEF ResumeNext, history, Kept
<1>5. CASE ResumeFails(p) BY <1>5 DEF ResumeFails, history, Kept
<1>6. CASE ResumedAll(p) BY <1>6 DEF ResumedAll, history, Kept
<1>7. CASE CallMethod(p) BY <1>7 DEF CallMethod, history, Kept
<1>8. CASE Respond(p) BY <1>8 DEF Respond, history, Kept
<1>9. CASE Watch(p) BY <1>9 DEF Watch, history, Kept
<1>10. CASE ResumeWatched(p) BY <1>10 DEF ResumeWatched, history, Kept
<1>11. CASE Resume(p) BY <1>11 DEF Resume, history, Kept
<1>12. CASE ResumeReturns(p) BY <1>12 DEF ResumeReturns, history, Kept
<1>13. CASE Mark(p) BY <1>13 DEF Mark, history, Kept
<1>14. CASE StartBridge(p) BY <1>14 DEF StartBridge, history, Kept
<1>15. CASE Forget(p) BY <1>15 DEF Forget, history, Kept
<1>16. CASE Install(p) BY <1>16 DEF Install, Kept
<1>17. CASE Reinstall(p) BY <1>17 DEF Reinstall, Kept
<1>18. CASE NilClient(p) BY <1>18 DEF NilClient, Kept
<1>19. CASE Snapshot(p) BY <1>19 DEF Snapshot, history, Kept
<1>. QED BY <1>1, <1>2, <1>3, <1>4, <1>5, <1>6, <1>7, <1>8, <1>9, <1>10, <1>11, <1>12, <1>13, <1>14, <1>15, <1>16, <1>17,
            <1>18, <1>19 DEF Steps, Ensure

LEMMA MovesKeep == ASSUME Moves PROVE Kept
<1>1. ASSUME NEW c \in Clients, Publish(c) PROVE Kept BY <1>1 DEF Publish, history, Kept
<1>2. ASSUME NEW c \in Clients, RouteResponse(c) PROVE Kept BY <1>2 DEF RouteResponse, history, Kept
<1>3. ASSUME NEW c \in Clients, ReadEnds(c) PROVE Kept BY <1>3 DEF ReadEnds, history, Kept
<1>4. ASSUME NEW c \in Clients, Apply(c) PROVE Kept BY <1>4 DEF Apply, history, Kept
<1>5. ASSUME NEW c \in Clients, ApplyBlocks(c) PROVE Kept BY <1>5 DEF ApplyBlocks, history, Kept
<1>6. ASSUME NEW c \in Clients, ApplyUnblocks(c) PROVE Kept BY <1>6 DEF ApplyUnblocks, history, Kept
<1>7. ASSUME NEW c \in Clients, StartConsumer(c) PROVE Kept BY <1>7 DEF StartConsumer, On, Kept
<1>8. ASSUME NEW c \in Clients, EndConsumer(c) PROVE Kept BY <1>8 DEF EndConsumer, On, Kept
<1>9. ASSUME NEW t \in Threads, BridgeEvent(t) PROVE Kept BY <1>9 DEF BridgeEvent, history, Kept
<1>10. CASE Receive BY <1>10 DEF Receive, Kept
<1>. QED BY <1>1, <1>2, <1>3, <1>4, <1>5, <1>6, <1>7, <1>8, <1>9, <1>10 DEF Moves

LEMMA HistoryStays == ASSUME [Next]_vars PROVE Kept
<1>1. ASSUME NEW p \in AllCallers, NEW op \in Ops, NEW t \in Threads, Begin(p, op, t) PROVE Kept
  BY <1>1 DEF Begin, history, Kept
<1>2. CASE CodexSteps
  <2>1. ASSUME NEW p \in AllCallers, Serve(p) \/ Refuse(p) PROVE Kept
    BY SMTT(60), <2>1 DEF Serve, Refuse, Reply, history, Kept
  <2>2. ASSUME NEW t \in Threads, Event(t) \/ Delta(t) PROVE Kept
    BY <2>2 DEF Event, Delta, Notify, history, Kept
  <2>3. ASSUME NEW c \in Clients, Break(c) PROVE Kept
    BY <2>3 DEF Break, Kept
  <2>4. ASSUME NEW a \in abandoned, ServeAbandoned(a) PROVE Kept
    BY <2>4 DEF ServeAbandoned, history, Kept
  <2>. QED BY <1>2, <2>1, <2>2, <2>3, <2>4 DEF CodexSteps
<1>3. CASE UNCHANGED vars
  BY <1>3 DEF vars, history, Kept
<1>4. ASSUME NEW p \in Callers, Cancel(p) PROVE Kept
  BY <1>4 DEF Cancel, Kept
<1>. QED BY <1>1, <1>2, <1>3, <1>4, StepsKeep, MovesKeep DEF Next

LEMMA NextHarmless ==
  ASSUME "cleanup" \notin Ops, TypeInv, TypeInv', GivenTyped, OrderParts, GivenHarmless, ~raced', [Next]_vars
  PROVE  GivenHarmless'
<1>1. ASSUME NEW p \in AllCallers, NEW op \in Ops, NEW t \in Threads, Begin(p, op, t) PROVE GivenHarmless'
  <2>1. UNCHANGED <<mu, machine, runtimes, conn, abandoned, forsaken>> /\ caller[p].op = "none"
        /\ \A q \in AllCallers : q # p => caller'[q] = caller[q]
    BY <1>1, OthersStay DEF Begin, lock, codex, history
  <2>2. caller[p].at = "idle"
    BY <2>1 DEF TypeInv, CallersTyped, CallerOk, Idle
  <2>. QED BY <2>1, <2>2, FreeOfResumers, SameLock, HarmlessKept DEF Settled
<1>2. ASSUME NEW p \in AllCallers, Steps(p) PROVE GivenHarmless'
  BY <1>2, StepsSettle, StepsGive, HarmlessKept DEF GivenSame
<1>3. ASSUME NEW p \in Callers, Cancel(p) PROVE GivenHarmless'
  BY <1>3, CancelHarmless DEF AllCallers
<1>4. CASE Moves
  BY <1>4, MovesSettle, MovesGive, HarmlessKept DEF GivenSame
<1>5. CASE CodexSteps
  BY <1>5, CodexSettles, CodexGives, HarmlessKept
<1>6. CASE UNCHANGED vars
  BY <1>6, SameLock, SameResumers, HarmlessKept DEF Settled, vars, lock, goroutines, codex, history
<1>. QED BY <1>1, <1>2, <1>3, <1>4, <1>5, <1>6 DEF Next

LEMMA NextOrdered ==
  ASSUME "cleanup" \notin Ops, TypeInv, TypeInv', GivenTyped, OrderInv, [Next]_vars
  PROVE  OrderInv'
<1>. SUFFICES ASSUME ~raced', ~panicked' PROVE OrderParts' /\ GivenHarmless'
  BY DEF OrderInv
<1>1. OrderParts /\ GivenHarmless
  BY HistoryStays DEF OrderInv, Kept
<1>2. ASSUME NEW p \in AllCallers, NEW op \in Ops, NEW t \in Threads, Begin(p, op, t) PROVE OrderParts'
  BY <1>1, <1>2, BeginOrdered
<1>3. ASSUME NEW p \in AllCallers, Steps(p) PROVE OrderParts'
  BY <1>1, <1>3, StepsOrdered
<1>4. ASSUME Moves PROVE OrderParts'
  BY <1>1, <1>4, MovesOrdered
<1>5. ASSUME CodexSteps PROVE OrderParts'
  BY <1>1, <1>5, ServeOrdered, ServeAbandonedOrdered, RefuseOrdered, EventOrdered, DeltaOrdered, BreakOrdered DEF CodexSteps
<1>6. ASSUME UNCHANGED vars PROVE OrderParts'
  BY <1>1, <1>6, SameOrdered
<1>7. ASSUME NEW p \in Callers, Cancel(p) PROVE OrderParts'
  BY <1>1, <1>7, CancelOrdered DEF AllCallers
<1>8. GivenHarmless'
  BY <1>1, NextHarmless
<1>. QED BY <1>2, <1>3, <1>4, <1>5, <1>6, <1>7, <1>8 DEF Next

(* The invariant that the next two theorems follow from.                   *)
LEMMA OrderInvariant == ASSUME "cleanup" \notin Ops PROVE Spec => [](TypeInv /\ OrderInv)
<1>1. Init => OrderInv /\ GivenTyped
  BY InitOrdered DEF OrderInv, Init, GivenHarmless, GivenTyped
<1>2. TypeInv /\ TypeInv' /\ GivenTyped /\ OrderInv /\ [Next]_vars => OrderInv'
  BY NextOrdered
<1>. QED BY <1>1, <1>2, InitTyped, NextTyped, PTL DEF Spec

(* Only the queues of the client in use hold anything.                     *)
LEMMA QueueIs ==
  ASSUME TypeInv, OrderParts, machine # 0, NEW q \in Queues, NEW t \in Threads
  PROVE  \/ q = 0 /\ Queue(q, t) = runner
         \/ q = 1 /\ Queue(q, t) = channel[machine][t]
         \/ \E c \in Clients : q = 2 * c /\ Queue(q, t) = notes[c]
         \/ \E c \in Clients : q = 2 * c + 1 /\ Queue(q, t) = inbox[c]
<1>1. q \in Nat /\ q <= 2 * MaxClients + 1 /\ MaxClients \in Nat
  BY ManagerBounds DEF Queues
<1>2. q > 1 => q \div 2 \in Clients
  BY <1>1 DEF Clients
<1>3. q % 2 = 0 => q = 2 * (q \div 2)
  BY <1>1
<1>4. q % 2 # 0 => q = 2 * (q \div 2) + 1
  BY <1>1
<1>5. CASE q = 0 BY <1>5 DEF Queue
<1>6. CASE q = 1 BY <1>6 DEF Queue
<1>7. CASE q > 1 /\ q % 2 = 0 BY <1>2, <1>3, <1>7 DEF Queue
<1>8. CASE q > 1 /\ q % 2 # 0
  <2>1. Queue(q, t) = inbox[q \div 2]
    BY <1>8 DEF Queue
  <2>. QED BY <1>2, <1>4, <1>8, <2>1
<1>. QED BY <1>1, <1>5, <1>6, <1>7, <1>8

LEMMA QueuesInOrder ==
  ASSUME TypeInv, OrderParts, machine # 0, NEW t \in Threads \ GivenUp
  PROVE  /\ UNION {EventsOf(Queue(q, t), t) : q \in Queues} = (got[t] + 1 .. sent[t]) \ lost[t]
         /\ \A q \in Queues : InOrder(Queue(q, t), t)
         /\ \A p, q \in Queues : p < q => Below(EventsOf(Queue(p, t), t), EventsOf(Queue(q, t), t))
<1>. DEFINE d == Client(machine)
<1>1. Pipeline(runner, channel[machine][t], Noted, Arriving, t, got[t], sent[t], lost[t])
  BY DEF OrderParts, Ordered
<1>2. d \in {0} \cup Clients
  BY DEF TypeInv, StateTyped, Client
<1>3. \A c \in Clients : c # d => notes[c] = <<>> /\ inbox[c] = <<>>
  BY DEF OrderParts, OneClient, Cur
<1>4. \A c \in Clients : /\ notes[c] = IF c = d THEN Noted ELSE <<>>
                         /\ inbox[c] = IF c = d THEN Arriving ELSE <<>>
  BY <1>3 DEF Noted, Arriving, Clients
<1>5. d = 0 => Noted = <<>> /\ Arriving = <<>>
  BY DEF Noted, Arriving
<1>6. EventsOf(<<>>, t) = {} /\ InOrder(<<>>, t)
  BY EmptyQueue
<1>7. \A q \in Queues : \/ q = 0 /\ Queue(q, t) = runner
                        \/ q = 1 /\ Queue(q, t) = channel[machine][t]
                        \/ d \in Clients /\ q = 2 * d /\ Queue(q, t) = Noted
                        \/ d \in Clients /\ q = 2 * d + 1 /\ Queue(q, t) = Arriving
                        \/ Queue(q, t) = <<>>
  BY <1>4, QueueIs
<1>8. /\ 0 \in Queues /\ Queue(0, t) = runner
      /\ 1 \in Queues /\ Queue(1, t) = channel[machine][t]
      /\ d # 0 => /\ d \in Clients
                  /\ 2 * d \in Queues /\ Queue(2 * d, t) = Noted
                  /\ 2 * d + 1 \in Queues /\ Queue(2 * d + 1, t) = Arriving
  <2>1. MaxClients \in Nat
    BY ManagerBounds
  <2>2. /\ 0 \in Queues /\ Queue(0, t) = runner
        /\ 1 \in Queues /\ Queue(1, t) = channel[machine][t]
    BY <2>1 DEF Queues, Queue
  <2>3. ASSUME d # 0
        PROVE  /\ d \in Clients
               /\ 2 * d \in Queues /\ Queue(2 * d, t) = Noted
               /\ 2 * d + 1 \in Queues /\ Queue(2 * d + 1, t) = Arriving
    <3>1. d \in Clients /\ notes[d] = Noted /\ inbox[d] = Arriving
      BY <1>2, <1>4, <2>3
    <3>. HIDE DEF d
    <3>2. d \in Nat /\ d >= 1 /\ d <= MaxClients
      BY <2>1, <3>1 DEF Clients
    <3>3. 2 * d \in Queues /\ 2 * d + 1 \in Queues
      BY <2>1, <3>2 DEF Queues
    <3>4. 2 * d > 1 /\ (2 * d) % 2 = 0 /\ (2 * d) \div 2 = d /\ 2 * d + 1 > 1 /\ (2 * d + 1) % 2 # 0 /\ (2 * d + 1) \div 2 = d
      BY <3>2
    <3>5. Queue(2 * d, t) = notes[d]
      BY <3>4 DEF Queue
    <3>6. Queue(2 * d + 1, t) = inbox[d]
      BY <3>4 DEF Queue
    <3>. QED BY <3>1, <3>3, <3>5, <3>6
  <2>. QED BY <2>2, <2>3
<1>9. d \in Clients => d \in Nat /\ d >= 1
  BY DEF Clients
<1>. HIDE DEF d, Queue, Queues
<1>10. UNION {EventsOf(Queue(q, t), t) : q \in Queues} =
         EventsOf(runner, t) \cup EventsOf(channel[machine][t], t) \cup EventsOf(Noted, t) \cup EventsOf(Arriving, t)
  BY <1>5, <1>6, <1>7, <1>8
<1>11. \A q \in Queues : InOrder(Queue(q, t), t)
  BY <1>1, <1>6, <1>7 DEF Pipeline
<1>12. ASSUME NEW p \in Queues, NEW q \in Queues, p < q
       PROVE  Below(EventsOf(Queue(p, t), t), EventsOf(Queue(q, t), t))
  <2>1. CASE Queue(p, t) = <<>> \/ Queue(q, t) = <<>>
    BY <1>6, <2>1 DEF Below
  <2>2. CASE Queue(p, t) # <<>> /\ Queue(q, t) # <<>>
    BY <1>1, <1>7, <1>9, <1>12, <2>2 DEF Pipeline
  <2>. QED BY <2>1, <2>2
<1>. QED BY <1>1, <1>10, <1>11, <1>12 DEF Pipeline

(* An event codex has sent for a thread that works has been received by    *)
(* the loop, was lost with a connection, or is in one of the queues on the *)
(* way from client.go to taskSubsystem.Run, once and in the order it was   *)
(* sent, until two callers have dialled at once; threads whose resume was  *)
(* given up aside, which codex may serve all the same, with no watcher     *)
(* left to pass on what it then sends.  CleanupTaskThread is               *)
(* excepted: an event of a thread that it has forgotten, and that an input *)
(* has given a turn again, is applied with no watcher, and dropped.        *)
THEOREM EventsArriveInOrder == ASSUME "cleanup" \notin Ops PROVE Spec => []EventsInOrder
<1>1. TypeInv /\ OrderInv => EventsInOrder
  BY QueuesInOrder DEF OrderInv, EventsInOrder, TypeInv, StateTyped
<1>. QED BY <1>1, OrderInvariant, PTL

(* When redialMachine has let go of the lock, each thread of an earlier    *)
(* process that is watched is subscribed to on the new connection: it was  *)
(* resumed there, or its watcher was added by a caller that has resumed it *)
(* since.  CleanupTaskThread is excepted: it unsubscribes a thread before  *)
(* it removes the watcher.                                                 *)
THEOREM WatchersAreResumed == ASSUME "cleanup" \notin Ops PROVE Spec => []WatchersReattach
<1>1. ASSUME TypeInv, OrderInv PROVE WatchersReattach
  <2>. DEFINE c == Client(machine)
  <2>1. SUFFICES ASSUME ~panicked, ~raced, machine # 0, Free, c # 0, conn[c] = "open", consumer[c].at # "off"
                 PROVE  Watchers(machine) \cap Old \subseteq sub[c]
    BY DEF WatchersReattach
  <2>2. OrderParts /\ c \in Clients /\ Cur(c)
    BY <1>1, <2>1 DEF OrderInv, TypeInv, StateTyped, Client, Cur
  <2>3. \A p \in AllCallers : ~Pending(caller[p])
    BY <1>1, <2>1, OneHolder
  <2>. QED BY <2>1, <2>2, <2>3 DEF OrderParts, Attached
<1>. QED BY <1>1, OrderInvariant, PTL

==============================================================================
