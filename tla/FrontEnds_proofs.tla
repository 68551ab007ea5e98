--------------------------- MODULE FrontEnds_proofs ---------------------------
(***************************************************************************)
(* Proofs about the ways users reach the process: WebLogin, WebStream,     *)
(* LarkMessages and FrontDoor, for every number of users, browsers,        *)
(* messages and goroutines and every bound, and about the four together.   *)
(***************************************************************************)
EXTENDS TLAPS, MCFrontEnds

-----------------------------------------------------------------------------
(* Signing in.                                                             *)

(* A state in the store is good for one acceptance that has not happened,  *)
(* and no state is issued more often than logins were started.             *)
IssuesAreCounted ==
  /\ \A s \in States : accepted[s] + (IF s \in items THEN 1 ELSE 0) <= issued[s]
  /\ \A s \in States : issued[s] <= logins

(* The state of a visitor is in the store, or there is a reason why not.   *)
StateIsKept ==
  \A v \in Visitors :
    LET s == visitor[v].state
    IN s # NoState => s \in items \/ Expired(s) \/ accepted[s] > 0 \/ s <= life

LoginInv == LoginTypeOK /\ IssuesAreCounted /\ StateIsKept

LEMMA LoginInvInit == LoginInit => LoginInv
<1> SUFFICES ASSUME LoginInit PROVE LoginInv
  OBVIOUS
<1>1. LoginTypeOK
  BY LoginBounds DEF LoginInit, LoginTypeOK, States, NoState, NoAccount
<1>2. IssuesAreCounted
  BY DEF LoginInit, IssuesAreCounted
<1>3. StateIsKept
  BY DEF LoginInit, StateIsKept
<1> QED
  BY <1>1, <1>2, <1>3 DEF LoginInv

LEMMA LoginInvStep ==
  ASSUME LoginInv, [LoginNext]_loginVars
  PROVE  LoginInv'
<1> USE LoginBounds
<1>1. LoginTypeOK /\ IssuesAreCounted /\ StateIsKept
  BY DEF LoginInv
<1>2. /\ nano \in Nat /\ nano <= MaxNano /\ life \in Nat /\ life <= nano
      /\ logins \in Nat /\ logins <= MaxLogins
      /\ \A s \in States : accepted[s] \in Nat /\ issued[s] \in Nat
      /\ \A v \in Visitors : visitor[v].state # NoState => visitor[v].state \in 0..nano
  BY <1>1 DEF LoginTypeOK, States
<1>3. CASE NanoPasses
  <2>1. LoginTypeOK'
    <3>1. nano' \in States /\ life' \in 0..nano'
      BY <1>2, <1>3 DEF NanoPasses, States
    <3>2. 0..nano \subseteq 0..nano'
      BY <1>2, <1>3 DEF NanoPasses
    <3>3. visitor' \in [Visitors -> [at : {"here", "away", "exchanging", "refused", "failed"},
                                    state : {NoState} \cup 0..nano']]
      BY <1>1, <1>3, <3>2 DEF NanoPasses, LoginTypeOK
    <3> QED
      BY <1>1, <1>3, <3>1, <3>2, <3>3 DEF NanoPasses, LoginTypeOK
  <2>2. IssuesAreCounted'
    BY <1>1, <1>3 DEF NanoPasses, IssuesAreCounted
  <2>3. \A s \in 0..nano : Expired(s) => Expired(s)'
    BY <1>2, <1>3 DEF NanoPasses, Expired
  <2>4. StateIsKept'
    BY <1>1, <1>2, <1>3, <2>3 DEF NanoPasses, StateIsKept
  <2> QED
    BY <2>1, <2>2, <2>4 DEF LoginInv
<1>4. CASE ConsoleRestarts
  <2>1. LoginTypeOK'
    <3>1. life' \in 0..nano /\ items' = {}
          /\ UNCHANGED <<nano, cookie, logins, accepted, issued>>
      BY <1>2, <1>4 DEF ConsoleRestarts
    <3>2. visitor' \in [Visitors -> [at : {"here", "away", "exchanging", "refused", "failed"},
                                    state : {NoState} \cup 0..nano]]
      BY <1>1, <1>4 DEF ConsoleRestarts, LoginTypeOK
    <3> QED
      BY <1>1, <3>1, <3>2 DEF LoginTypeOK
  <2>2. IssuesAreCounted'
    BY <1>1, <1>2, <1>4 DEF ConsoleRestarts, IssuesAreCounted
  <2>3. \A v \in Visitors : visitor'[v].state = visitor[v].state
    BY <1>1, <1>4 DEF ConsoleRestarts, LoginTypeOK
  <2>4. StateIsKept'
    BY <1>2, <1>4, <2>3 DEF ConsoleRestarts, StateIsKept
  <2> QED
    BY <2>1, <2>2, <2>4 DEF LoginInv
<1>5. ASSUME NEW v \in Visitors, StartAuth(v)
      PROVE  LoginInv'
  <2>1. /\ logins' \in 0..MaxLogins /\ logins' = logins + 1 /\ nano \in States
        /\ nano \in 0..nano /\ UNCHANGED <<nano, cookie, accepted, life>>
    BY <1>1, <1>2, <1>5 DEF StartAuth, LoginTypeOK
  <2>2. /\ issued'[nano] = issued[nano] + 1
        /\ \A s \in States : s # nano => issued'[s] = issued[s]
    BY <1>1, <1>5 DEF StartAuth, LoginTypeOK
  <2>3. ASSUME NEW s \in States
        PROVE  issued'[s] \in Nat /\ issued'[s] <= logins'
    <3>1. issued[s] \in Nat /\ issued[s] <= logins /\ logins \in Nat /\ logins' = logins + 1
      BY <1>1, <1>2, <2>1 DEF IssuesAreCounted
    <3>2. issued'[s] = issued[s] \/ issued'[s] = issued[s] + 1
      BY <2>2
    <3> QED
      BY <3>1, <3>2
  <2>4. issued' \in [States -> 0..MaxLogins]
    <3>1. \A s \in States : issued'[s] \in 0..MaxLogins
      BY <2>1, <2>3
    <3>2. DOMAIN issued' = States /\ issued' = [s \in DOMAIN issued' |-> issued'[s]]
      BY <1>1, <1>5 DEF StartAuth, LoginTypeOK
    <3> QED
      BY <3>1, <3>2
  <2>5. items' \subseteq 0..nano
    BY <1>1, <1>5, <2>1 DEF StartAuth, Issue, LoginTypeOK
  <2>6. visitor' \in [Visitors -> [at : {"here", "away", "exchanging", "refused", "failed"},
                                  state : {NoState} \cup 0..nano]]
    BY <1>1, <1>5, <2>1 DEF StartAuth, LoginTypeOK
  <2>7. LoginTypeOK'
    BY <1>1, <2>1, <2>4, <2>5, <2>6 DEF LoginTypeOK
  <2>8. ASSUME NEW s \in States
        PROVE  accepted[s] + (IF s \in items' THEN 1 ELSE 0) <= issued'[s]
    <3>1. accepted[s] + (IF s \in items THEN 1 ELSE 0) <= issued[s]
      BY <1>1 DEF IssuesAreCounted
    <3>2. s # nano => (s \in items' <=> s \in items)
      BY <1>5 DEF StartAuth, Issue
    <3> QED
      BY <1>2, <2>2, <3>1, <3>2
  <2>9. IssuesAreCounted'
    BY <2>1, <2>3, <2>8 DEF IssuesAreCounted
  <2>10. StateIsKept'
    BY <1>1, <1>2, <1>5 DEF StartAuth, Issue, StateIsKept, LoginTypeOK, Expired
  <2> QED
    BY <2>7, <2>9, <2>10 DEF LoginInv
<1>6. ASSUME NEW v \in Visitors, Callback(v)
      PROVE  LoginInv'
  <2> DEFINE s == visitor[v].state
  <2>1. /\ s \in 0..nano /\ s \in States
        /\ items' = items \ {s} /\ UNCHANGED <<nano, life, issued, logins, cookie>>
    BY <1>2, <1>6 DEF Callback, Consume, States
  <2>2. CASE s \in items /\ ~Expired(s) /\ accepted' = [accepted EXCEPT ![s] = @ + 1]
               /\ visitor' = [visitor EXCEPT ![v].at = "exchanging"]
    <3>1. accepted[s] + 1 \in 0..MaxLogins
      <4>1. accepted[s] + 1 <= issued[s] /\ issued[s] <= logins
        BY <1>1, <2>1, <2>2 DEF IssuesAreCounted
      <4> QED
        BY <1>2, <2>1, <4>1
    <3>2. accepted' \in [States -> 0..MaxLogins]
      BY <1>1, <2>1, <2>2, <3>1 DEF LoginTypeOK
    <3>3. LoginTypeOK'
      BY <1>1, <2>1, <2>2, <3>2 DEF LoginTypeOK
    <3>4. IssuesAreCounted'
      <4>1. ASSUME NEW r \in States
            PROVE  accepted'[r] + (IF r \in items' THEN 1 ELSE 0) <= issued[r]
        <5>1. accepted[r] + (IF r \in items THEN 1 ELSE 0) <= issued[r]
          BY <1>1 DEF IssuesAreCounted
        <5>2. accepted[r] \in Nat /\ accepted'[r] = IF r = s THEN accepted[s] + 1 ELSE accepted[r]
          BY <1>1, <2>1, <2>2 DEF LoginTypeOK
        <5>3. r # s => (r \in items' <=> r \in items)
          BY <2>1
        <5> QED
          BY <1>2, <2>1, <2>2, <5>1, <5>2, <5>3
      <4> QED
        BY <1>1, <2>1, <4>1 DEF IssuesAreCounted
    <3>5. \A w \in Visitors : visitor'[w].state = visitor[w].state
      BY <1>1, <2>2 DEF LoginTypeOK
    <3>6. accepted'[s] > 0 /\ \A t \in States : accepted[t] > 0 => accepted'[t] > 0
      BY <1>1, <1>2, <2>1, <2>2 DEF LoginTypeOK
    <3>7. StateIsKept'
      BY <1>1, <1>2, <2>1, <3>5, <3>6 DEF StateIsKept, Expired, States
    <3> QED
      BY <3>3, <3>4, <3>7 DEF LoginInv
  <2>3. CASE ~(s \in items /\ ~Expired(s)) /\ accepted' = accepted
               /\ visitor' = [visitor EXCEPT ![v].at = "refused"]
    <3>1. LoginTypeOK'
      BY ZenonT(120), <1>1, <1>2, <2>1, <2>3 DEF LoginTypeOK, States
    <3>2. IssuesAreCounted'
      BY <1>1, <1>2, <2>1, <2>3 DEF IssuesAreCounted
    <3>3. \A w \in Visitors : visitor'[w].state = visitor[w].state
      BY <1>1, <2>3 DEF LoginTypeOK
    <3>4. StateIsKept'
      BY <1>1, <1>2, <2>1, <2>3, <3>3 DEF StateIsKept, Expired
    <3> QED
      BY <3>1, <3>2, <3>4 DEF LoginInv
  <2> QED
    BY <1>6, <2>2, <2>3 DEF Callback
<1>7. ASSUME NEW v \in Visitors,
             \/ CallbackWithoutCode(v) \/ ExchangeFails(v) \/ Logout(v)
             \/ \E a \in Accounts : FetchUser(v, a)
      PROVE  LoginInv'
  <2>1. UNCHANGED <<nano, items, logins, accepted, issued, life>>
    BY <1>7 DEF CallbackWithoutCode, ExchangeFails, Logout, FetchUser
  <2>2. LoginTypeOK'
    BY <1>1, <1>7, <2>1
    DEF CallbackWithoutCode, ExchangeFails, Logout, FetchUser, MayEnter, LoginTypeOK
  <2>3. \A w \in Visitors : visitor'[w].state = visitor[w].state
    BY <1>1, <1>7 DEF CallbackWithoutCode, ExchangeFails, Logout, FetchUser, LoginTypeOK
  <2> QED
    BY <1>1, <2>1, <2>2, <2>3 DEF LoginInv, IssuesAreCounted, StateIsKept, Expired
<1>8. CASE UNCHANGED loginVars
  BY <1>1, <1>8 DEF loginVars, LoginInv, LoginTypeOK, IssuesAreCounted, StateIsKept, Expired
<1> QED
  BY <1>3, <1>4, <1>5, <1>6, <1>7, <1>8 DEF LoginNext

(* A step that refuses a visitor is a callback, which has a reason.        *)
LEMMA LoginRefuses ==
  ASSUME LoginInv, [LoginNext]_loginVars, NEW v \in Visitors,
         visitor'[v] # visitor[v], visitor'[v].at = "refused"
  PROVE  LET s == visitor[v].state IN Expired(s) \/ accepted[s] > 0 \/ s <= life
<1>1. visitor \in [Visitors -> [at : {"here", "away", "exchanging", "refused", "failed"},
                               state : {NoState} \cup 0..nano]]
  BY DEF LoginInv, LoginTypeOK
<1>2. ~(visitor' = visitor)
  OBVIOUS
<1>3. ~ConsoleRestarts
  BY <1>1 DEF ConsoleRestarts
<1>4. \A w \in Visitors : ~StartAuth(w) /\ ~CallbackWithoutCode(w) /\ ~ExchangeFails(w)
  BY <1>1 DEF StartAuth, CallbackWithoutCode, ExchangeFails
<1>5. \A w \in Visitors, a \in Accounts : ~FetchUser(w, a)
  BY <1>1 DEF FetchUser
<1>6. PICK w \in Visitors : Callback(w)
  BY <1>2, <1>3, <1>4, <1>5 DEF LoginNext, loginVars, NanoPasses, Logout
<1>7. w = v
  BY <1>1, <1>6 DEF Callback
<1>8. visitor[v].state # NoState /\ ~(visitor[v].state \in items /\ ~Expired(visitor[v].state))
  BY <1>1, <1>6, <1>7 DEF Callback
<1> QED
  BY <1>8 DEF LoginInv, StateIsKept

(* A state signs in one visitor for each time it was issued, and a visitor *)
(* who comes back in time is refused for a reason only: for every number   *)
(* of visitors, every clock and any number of restarts.                    *)
THEOREM LoginIsSafe == LoginSpec => LoginSafety
<1>1. LoginInv => AcceptedOnce
  <2> SUFFICES ASSUME LoginInv, NEW s \in States PROVE accepted[s] <= issued[s]
    BY DEF AcceptedOnce
  <2>1. accepted[s] \in Int /\ issued[s] \in Int
    BY LoginBounds DEF LoginInv, LoginTypeOK
  <2> QED
    BY <2>1 DEF LoginInv, IssuesAreCounted
<1>2. LoginInv /\ [LoginNext]_loginVars
        => [\A v \in Visitors :
              LET s == visitor[v].state
              IN visitor'[v] # visitor[v] /\ visitor'[v].at = "refused"
                   => Expired(s) \/ accepted[s] > 0 \/ s <= life]_loginVars
  BY LoginRefuses
<1> QED
  BY <1>1, <1>2, LoginInvInit, LoginInvStep, PTL DEF LoginSpec, LoginSafety, RefusedForAReason

-----------------------------------------------------------------------------
(* The stream of events of the dashboard.                                  *)

(* What is published is a change that was made.                            *)
PublishedIsMade == \A n \in Changes : publisher[n].at # "none" => n <= version

(* A page that is connected has a channel of its own in the map.           *)
SubscribersDiffer ==
  \A b \in Browsers : page[b].sub # 0 =>
    /\ page[b].sub \in clients
    /\ \A c \in Browsers : page[c].sub = page[b].sub => c = b

(* A page that has not displayed a change that was offered to its stream   *)
(* will: there is an event in its channel, the pause runs, or a fetch is   *)
(* on its way that has not read the table or has read the change.          *)
WillShow(b, n) ==
  \/ page[b].sub # 0 /\ queue[page[b].sub] > 0
  \/ page[b].timer
  \/ \E f \in page[b].fetches : f.seen = Unread \/ f.seen >= n

HasOrWillShow(b) == page[b].best >= owed[b] \/ WillShow(b, owed[b])

OwedIsComing == \A b \in Browsers : HasOrWillShow(b)

OwedNeedsStream == \A b \in Browsers : page[b].sub = 0 => owed[b] = 0

IsPage(p) == p = [sub |-> p.sub, timer |-> p.timer, fetches |-> p.fetches,
                  view |-> p.view, best |-> p.best]
IsFetch(f) == f = [id |-> f.id, seen |-> f.seen]

PagesAreRecords ==
  \A b \in Browsers : IsPage(page[b]) /\ \A f \in page[b].fetches : IsFetch(f)

StreamInv ==
  /\ StreamTypeOK /\ PagesAreRecords /\ ClientsAreOpen
  /\ PublishedIsMade /\ SubscribersDiffer /\ OwedIsComing /\ OwedNeedsStream

LEMMA StreamInvInit == StreamInit => StreamInv
<1> SUFFICES ASSUME StreamInit PROVE StreamInv
  OBVIOUS
<1>1. publisher \in [Changes -> [at : {"none", "due", "sending", "done", "panicked"},
                                to : SUBSET Streams]]
  BY DEF StreamInit
<1>2. queue \in [Streams -> 0..StreamCap] /\ owed \in [Browsers -> 0..version]
  BY StreamBounds DEF StreamInit
<1> DEFINE T == FALSE
           first == [id |-> 1, seen |-> Unread]
           F == {first}
           blank == [sub |-> 0, timer |-> T, fetches |-> F, view |-> 0, best |-> 0]
<1>3. page = [b \in Browsers |-> blank]
  BY DEF StreamInit
<1>4. T \in BOOLEAN /\ IsFetch(first) /\ first.seen = Unread
  BY DEF IsFetch
<1>4a. \A f \in F : IsFetch(f) /\ f.seen = Unread
  BY <1>4
<1> HIDE DEF T, F
<1>4b. /\ IsPage(blank) /\ blank.sub = 0 /\ blank.view = 0 /\ blank.best = 0
       /\ blank.timer = T /\ blank.fetches = F
  BY DEF IsPage
<1> HIDE DEF blank
<1>4c. \A b \in Browsers :
         /\ page[b].sub = 0 /\ page[b].view = 0 /\ page[b].best = 0
         /\ page[b].timer \in BOOLEAN
         /\ \A f \in page[b].fetches : IsFetch(f) /\ f.seen = Unread
         /\ IsPage(page[b])
  BY <1>3, <1>4, <1>4a, <1>4b
<1>5. version = 0 /\ streams = 0 /\ refreshes = 0 /\ clients = {} /\ shut = {}
      /\ DOMAIN page = Browsers
  BY DEF StreamInit
<1>6. StreamTypeOK
  BY <1>1, <1>2, <1>4c, <1>5, StreamBounds DEF StreamTypeOK
<1>7. PublishedIsMade /\ \A b \in Browsers : owed[b] = 0
  BY DEF StreamInit, PublishedIsMade
<1> QED
  BY <1>4c, <1>5, <1>6, <1>7
  DEF StreamInv, PagesAreRecords, ClientsAreOpen, SubscribersDiffer, OwedIsComing, HasOrWillShow,
      OwedNeedsStream

(* What every step may rely on.                                            *)
LEMMA StreamNumbers ==
  ASSUME StreamInv
  PROVE  /\ version \in Nat /\ streams \in Nat /\ StreamCap \in Nat /\ StreamCap > 0
         /\ clients \subseteq 1..streams /\ shut \subseteq 1..streams
         /\ \A s \in Streams : queue[s] \in 0..StreamCap
         /\ \A b \in Browsers :
              /\ page[b].sub \in 0..streams /\ owed[b] \in 0..version
              /\ page[b].sub # 0 => page[b].sub \in Streams /\ page[b].sub \in clients
              /\ page[b].view \in 0..page[b].best /\ page[b].best \in 0..version
              /\ \A f \in page[b].fetches : f.seen = Unread \/ f.seen \in 0..version
<1>1. StreamTypeOK /\ SubscribersDiffer
  BY DEF StreamInv
<1>2. streams \in Nat /\ streams <= MaxStreams
  BY <1>1, StreamBounds DEF StreamTypeOK
<1>3. 1..streams \subseteq Streams
  BY <1>2, StreamBounds DEF Streams
<1>4. \A b \in Browsers : page[b].sub # 0 => page[b].sub \in clients
  BY <1>1 DEF SubscribersDiffer
<1> QED
  BY <1>1, <1>2, <1>3, <1>4, StreamBounds DEF StreamTypeOK

(* A step of one page, which stays connected or disconnected as it was.    *)
LEMMA PageStep ==
  ASSUME StreamInv, NEW b \in Browsers, NEW q,
         page' = [c \in Browsers |-> IF c = b THEN q ELSE page[c]],
         IsPage(q),
         q.sub = page[b].sub, q.timer \in BOOLEAN,
         q.view \in 0..q.best, q.best \in 0..version,
         \A f \in q.fetches :
           IsFetch(f) /\ (f.seen = Unread \/ f.seen \in 0..version),
         owed' = owed \/ owed' = [owed EXCEPT ![b] = 0],
         \/ q.best >= owed'[b]
         \/ q.sub # 0 /\ queue[q.sub] > 0
         \/ q.timer
         \/ \E f \in q.fetches : f.seen = Unread \/ f.seen >= owed'[b],
         refreshes' \in 0..MaxRefreshes,
         UNCHANGED <<version, publisher, clients, queue, shut, streams>>
  PROVE  StreamInv'
<1>1. /\ StreamTypeOK /\ PagesAreRecords /\ ClientsAreOpen /\ PublishedIsMade
      /\ SubscribersDiffer /\ OwedIsComing /\ OwedNeedsStream
  BY DEF StreamInv
<1>2. /\ DOMAIN page' = Browsers /\ page'[b] = q
      /\ \A c \in Browsers \ {b} : page'[c] = page[c]
  BY <1>1 DEF StreamTypeOK
<1>3. /\ owed' \in [Browsers -> 0..version] /\ (owed'[b] = owed[b] \/ owed'[b] = 0)
      /\ \A c \in Browsers \ {b} : owed'[c] = owed[c]
  BY <1>1, StreamNumbers DEF StreamTypeOK
<1>4. StreamTypeOK'
  BY <1>1, <1>2, <1>3 DEF StreamTypeOK
<1>5. PagesAreRecords'
  BY <1>1, <1>2 DEF PagesAreRecords
<1>6. SubscribersDiffer'
  BY <1>1, <1>2 DEF SubscribersDiffer
<1>7. OwedIsComing'
  BY <1>1, <1>2, <1>3 DEF OwedIsComing, HasOrWillShow, WillShow
<1>8. OwedNeedsStream'
  BY <1>1, <1>2, <1>3 DEF OwedNeedsStream
<1> QED
  BY <1>1, <1>4, <1>5, <1>6, <1>7, <1>8 DEF StreamInv, ClientsAreOpen, PublishedIsMade

(* The fields of a page that is given by its fields.                       *)
LEMMA PageFields ==
  ASSUME NEW s, NEW t, NEW F, NEW v, NEW e, NEW q,
         q = [sub |-> s, timer |-> t, fetches |-> F, view |-> v, best |-> e]
  PROVE  IsPage(q) /\ q.sub = s /\ q.timer = t /\ q.fetches = F /\ q.view = v /\ q.best = e
<1>1. q.sub = s /\ q.fetches = F /\ q.view = v /\ q.best = e
  OBVIOUS
<1>2. q.timer = t
  OBVIOUS
<1> QED
  BY <1>1, <1>2 DEF IsPage

LEMMA TimerPage ==
  ASSUME NEW p, IsPage(p), NEW T, NEW F, NEW q, q = [p EXCEPT !.timer = T, !.fetches = F]
  PROVE  q = [sub |-> p.sub, timer |-> T, fetches |-> F, view |-> p.view, best |-> p.best]
BY DEF IsPage

LEMMA FetchingPage ==
  ASSUME NEW p, IsPage(p), NEW F, NEW q, q = [p EXCEPT !.fetches = F]
  PROVE  q = [sub |-> p.sub, timer |-> p.timer, fetches |-> F, view |-> p.view, best |-> p.best]
BY DEF IsPage

LEMMA ShownPage ==
  ASSUME NEW p, IsPage(p), NEW F, NEW v, NEW e, NEW q, q = [p EXCEPT !.fetches = F, !.view = v, !.best = e]
  PROVE  q = [sub |-> p.sub, timer |-> p.timer, fetches |-> F, view |-> v, best |-> e]
BY DEF IsPage

LEMMA EmptyPage ==
  ASSUME NEW p, IsPage(p), NEW F, NEW v, NEW q, q = [p EXCEPT !.fetches = F, !.view = v]
  PROVE  q = [sub |-> p.sub, timer |-> p.timer, fetches |-> F, view |-> v, best |-> p.best]
BY DEF IsPage

LEMMA MovedPage ==
  ASSUME NEW p, IsPage(p), NEW s, NEW q, q = [p EXCEPT !.sub = s]
  PROVE  q = [sub |-> s, timer |-> p.timer, fetches |-> p.fetches, view |-> p.view, best |-> p.best]
BY DEF IsPage

LEMMA ToldPage ==
  ASSUME NEW p, IsPage(p), NEW T, NEW q, q = [p EXCEPT !.timer = T]
  PROVE  q = [sub |-> p.sub, timer |-> T, fetches |-> p.fetches, view |-> p.view, best |-> p.best]
BY DEF IsPage

LEMMA BrokenPage ==
  ASSUME NEW p, IsPage(p), NEW s, NEW F, NEW v, NEW q, q = [p EXCEPT !.sub = s, !.fetches = F, !.view = v]
  PROVE  q = [sub |-> s, timer |-> p.timer, fetches |-> F, view |-> v, best |-> p.best]
BY DEF IsPage

LEMMA PagesStep ==
  ASSUME StreamInv, NEW b \in Browsers,
         TimerFires(b) \/ Refresh(b)
           \/ \E f \in page[b].fetches :
                ReadDashboard(b, f) \/ ShowDashboard(b, f) \/ FetchFails(b, f)
  PROVE  StreamInv'
<1>1. /\ StreamTypeOK /\ PagesAreRecords /\ OwedIsComing
      /\ IsPage(page[b]) /\ \A f \in page[b].fetches : IsFetch(f)
      /\ refreshes \in 0..MaxRefreshes /\ page[b].timer \in BOOLEAN
  BY DEF StreamInv, StreamTypeOK, PagesAreRecords
<1>2. DOMAIN page = Browsers /\ refreshes \in 0..MaxRefreshes
  BY <1>1 DEF StreamTypeOK
<1> DEFINE free == CHOOSE id \in 1..(MaxChanges + MaxRefreshes + 1) :
                      \A f \in page[b].fetches : f.id # id
           new == [id |-> free, seen |-> Unread]
<1>3. NewFetch(b) = page[b].fetches \cup {new}
  BY DEF NewFetch
<1> HIDE DEF free
<1>4. IsFetch(new) /\ new.seen = Unread
  BY DEF IsFetch
<1> HIDE DEF new
<1>5. /\ \A f \in page[b].fetches :
           IsFetch(f) /\ (f.seen = Unread \/ f.seen \in 0..version)
      /\ page[b].view \in 0..page[b].best /\ page[b].best \in 0..version
      /\ page[b].sub \in Nat /\ owed[b] \in 0..version
      /\ version \in Nat /\ version \in 0..version
  BY <1>1, StreamNumbers
<1>6. /\ \A f \in NewFetch(b) : IsFetch(f) /\ (f.seen = Unread \/ f.seen \in 0..version)
      /\ \E f \in NewFetch(b) : f.seen = Unread
  BY <1>3, <1>4, <1>5
<1>7. page[b].best >= owed[b] \/ WillShow(b, owed[b])
  BY <1>1 DEF OwedIsComing, HasOrWillShow
<1>8. CASE TimerFires(b)
  <2> DEFINE T == FALSE
             q == [page[b] EXCEPT !.timer = T, !.fetches = NewFetch(b)]
  <2>1. page' = [c \in Browsers |-> IF c = b THEN q ELSE page[c]]
    BY <1>2, <1>8 DEF TimerFires
  <2>2. T \in BOOLEAN
    OBVIOUS
  <2> HIDE DEF T, q
  <2>3. /\ IsPage(q) /\ q.sub = page[b].sub /\ q.timer = T /\ q.fetches = NewFetch(b)
        /\ q.view = page[b].view /\ q.best = page[b].best
    <3>1. q = [sub |-> page[b].sub, timer |-> T, fetches |-> NewFetch(b),
               view |-> page[b].view, best |-> page[b].best]
      BY <1>1, TimerPage DEF q
    <3> QED
      BY <3>1, PageFields
  <2>5. /\ UNCHANGED <<version, publisher, clients, queue, shut, streams>>
        /\ owed' = owed /\ refreshes' \in 0..MaxRefreshes
    BY <1>2, <1>8 DEF TimerFires
  <2>6. /\ q.timer \in BOOLEAN /\ q.view \in 0..q.best /\ q.best \in 0..version
        /\ \A f \in q.fetches : IsFetch(f) /\ (f.seen = Unread \/ f.seen \in 0..version)
        /\ \E f \in q.fetches : f.seen = Unread
    BY <1>5, <1>6, <2>2, <2>3
  <2> QED
    BY <2>1, <2>3, <2>5, <2>6, PageStep
<1>9. CASE Refresh(b)
  <2> DEFINE q == [page[b] EXCEPT !.fetches = NewFetch(b)]
  <2>1. page' = [c \in Browsers |-> IF c = b THEN q ELSE page[c]]
    BY <1>2, <1>9 DEF Refresh
  <2> HIDE DEF q
  <2>2. /\ IsPage(q) /\ q.sub = page[b].sub /\ q.timer = page[b].timer
        /\ q.fetches = NewFetch(b) /\ q.view = page[b].view /\ q.best = page[b].best
    <3>1. q = [sub |-> page[b].sub, timer |-> page[b].timer, fetches |-> NewFetch(b),
               view |-> page[b].view, best |-> page[b].best]
      BY <1>1, FetchingPage DEF q
    <3> QED
      BY <3>1, PageFields
  <2>3. /\ UNCHANGED <<version, publisher, clients, queue, shut, streams>>
        /\ owed' = owed /\ refreshes' \in 0..MaxRefreshes
    BY <1>2, <1>9, StreamBounds DEF Refresh
  <2>4. /\ q.timer \in BOOLEAN /\ q.view \in 0..q.best /\ q.best \in 0..version
        /\ \A f \in q.fetches : IsFetch(f) /\ (f.seen = Unread \/ f.seen \in 0..version)
        /\ \E f \in q.fetches : f.seen = Unread
    BY <1>1, <1>5, <1>6, <2>2
  <2> QED
    BY <2>1, <2>2, <2>3, <2>4, PageStep
<1>10. ASSUME NEW f \in page[b].fetches, ReadDashboard(b, f)
       PROVE  StreamInv'
  <2> DEFINE g == [f EXCEPT !.seen = version]
             q == [page[b] EXCEPT !.fetches = (page[b].fetches \ {f}) \cup {g}]
  <2>1. page' = [c \in Browsers |-> IF c = b THEN q ELSE page[c]]
    BY <1>2, <1>10 DEF ReadDashboard
  <2>2. IsFetch(g) /\ g.seen = version
    BY <1>5 DEF IsFetch
  <2> HIDE DEF g, q
  <2>3. /\ IsPage(q) /\ q.sub = page[b].sub /\ q.timer = page[b].timer
        /\ q.fetches = (page[b].fetches \ {f}) \cup {g}
        /\ q.view = page[b].view /\ q.best = page[b].best
    <3>1. q = [sub |-> page[b].sub, timer |-> page[b].timer,
               fetches |-> (page[b].fetches \ {f}) \cup {g},
               view |-> page[b].view, best |-> page[b].best]
      BY <1>1, FetchingPage DEF q
    <3> QED
      BY <3>1, PageFields
  <2>4. /\ UNCHANGED <<version, publisher, clients, queue, shut, streams>>
        /\ owed' = owed /\ refreshes' \in 0..MaxRefreshes
    BY <1>2, <1>10 DEF ReadDashboard
  <2>5. /\ q.timer \in BOOLEAN /\ q.view \in 0..q.best /\ q.best \in 0..version
        /\ \A h \in q.fetches : IsFetch(h) /\ (h.seen = Unread \/ h.seen \in 0..version)
    BY <1>1, <1>5, <2>2, <2>3
  <2>6. \E h \in q.fetches : h.seen >= owed'[b]
    BY <1>5, <2>2, <2>3, <2>4
  <2> QED
    BY <2>1, <2>3, <2>4, <2>5, <2>6, PageStep
<1>11. ASSUME NEW f \in page[b].fetches, ShowDashboard(b, f)
       PROVE  StreamInv'
  <2> DEFINE best == Larger(page[b].best, f.seen)
             q == [page[b] EXCEPT !.fetches = page[b].fetches \ {f}, !.view = f.seen,
                                  !.best = best]
  <2>1. page' = [c \in Browsers |-> IF c = b THEN q ELSE page[c]]
    BY <1>2, <1>11 DEF ShowDashboard
  <2>2. /\ f.seen \in 0..version /\ best \in 0..version
        /\ best >= page[b].best /\ best >= f.seen
    <3>1. f.seen # Unread
      BY <1>11 DEF ShowDashboard
    <3>2. f.seen \in 0..version /\ page[b].best \in 0..version /\ version \in Nat
      BY <1>5, <3>1
    <3> HIDE DEF best
    <3>3. best = IF page[b].best > f.seen THEN page[b].best ELSE f.seen
      BY Zenon DEF best, Larger
    <3> QED
      BY <3>2, <3>3
  <2> HIDE DEF best, q
  <2>3. /\ IsPage(q) /\ q.sub = page[b].sub /\ q.timer = page[b].timer
        /\ q.fetches = page[b].fetches \ {f} /\ q.view = f.seen /\ q.best = best
    <3>1. q = [sub |-> page[b].sub, timer |-> page[b].timer, fetches |-> page[b].fetches \ {f},
               view |-> f.seen, best |-> best]
      <4> DEFINE p == page[b]
                 F == page[b].fetches \ {f}
      <4>1. IsPage(p) /\ q = [p EXCEPT !.fetches = F, !.view = f.seen, !.best = best]
        BY <1>1 DEF q
      <4> HIDE DEF p, F
      <4>2. q = [sub |-> p.sub, timer |-> p.timer, fetches |-> F, view |-> f.seen,
                 best |-> best]
        BY ZenonT(120), <4>1, ShownPage
      <4> QED
        BY <4>2 DEF p, F
    <3> QED
      BY <3>1, PageFields
  <2>4. /\ UNCHANGED <<version, publisher, clients, queue, shut, streams>>
        /\ owed' = owed /\ refreshes' \in 0..MaxRefreshes
    BY <1>2, <1>11 DEF ShowDashboard
  <2>5. /\ q.timer \in BOOLEAN /\ q.view \in 0..q.best /\ q.best \in 0..version
        /\ \A h \in q.fetches : IsFetch(h) /\ (h.seen = Unread \/ h.seen \in 0..version)
    BY <1>1, <1>5, <2>2, <2>3
  <2>6. \/ best >= owed[b]
        \/ page[b].sub # 0 /\ queue[page[b].sub] > 0
        \/ page[b].timer
        \/ \E h \in page[b].fetches \ {f} : h.seen = Unread \/ h.seen >= owed[b]
    <3>1. CASE page[b].best >= owed[b]
      BY <1>5, <2>2, <3>1
    <3>2. ASSUME NEW h \in page[b].fetches, h.seen = Unread \/ h.seen >= owed[b]
          PROVE  best >= owed[b] \/ (h # f /\ (h.seen = Unread \/ h.seen >= owed[b]))
      <4>1. f.seen # Unread
        BY <1>11 DEF ShowDashboard
      <4>2. f.seen >= owed[b] => best >= owed[b]
        BY <1>5, <2>2
      <4> QED
        BY <3>2, <4>1, <4>2
    <3> QED
      BY <1>7, <3>1, <3>2 DEF WillShow
  <2> QED
    BY <2>1, <2>3, <2>4, <2>5, <2>6, PageStep
<1>12. ASSUME NEW f \in page[b].fetches, FetchFails(b, f)
       PROVE  StreamInv'
  <2> DEFINE q == [page[b] EXCEPT !.fetches = page[b].fetches \ {f}, !.view = 0]
  <2>1. page' = [c \in Browsers |-> IF c = b THEN q ELSE page[c]]
    BY <1>2, <1>12 DEF FetchFails
  <2> HIDE DEF q
  <2>2. /\ IsPage(q) /\ q.sub = page[b].sub /\ q.timer = page[b].timer
        /\ q.fetches = page[b].fetches \ {f} /\ q.view = 0 /\ q.best = page[b].best
    <3>1. q = [sub |-> page[b].sub, timer |-> page[b].timer, fetches |-> page[b].fetches \ {f},
               view |-> 0, best |-> page[b].best]
      <4> DEFINE p == page[b]
                 F == page[b].fetches \ {f}
      <4>1. IsPage(p) /\ q = [p EXCEPT !.fetches = F, !.view = 0]
        BY <1>1 DEF q
      <4> HIDE DEF p, F
      <4>2. q = [sub |-> p.sub, timer |-> p.timer, fetches |-> F, view |-> 0, best |-> p.best]
        BY <4>1, EmptyPage
      <4> QED
        BY <4>2 DEF p, F
    <3> QED
      BY <3>1, PageFields
  <2>3. /\ UNCHANGED <<version, publisher, clients, queue, shut, streams>>
        /\ owed' = [owed EXCEPT ![b] = 0] /\ owed'[b] = 0 /\ refreshes' \in 0..MaxRefreshes
    BY <1>1, <1>2, <1>12 DEF FetchFails, StreamTypeOK
  <2>4. /\ q.timer \in BOOLEAN /\ q.view \in 0..q.best /\ q.best \in 0..version
        /\ \A h \in q.fetches : IsFetch(h) /\ (h.seen = Unread \/ h.seen \in 0..version)
    BY <1>1, <1>5, <2>2
  <2>5. q.best >= owed'[b]
    BY <1>5, <2>2, <2>3
  <2> QED
    BY <2>1, <2>2, <2>3, <2>4, <2>5, PageStep
<1> QED
  BY <1>8, <1>9, <1>10, <1>11, <1>12

(* The steps of the broker that touch neither channels nor pages.          *)
PublisherActs(n) ==
  \/ \E announced \in BOOLEAN : Change(announced)
  \/ CopyClients(n) \/ PublishReturns(n)
  \/ PublishPanics(n) /\ UNCHANGED <<clients, queue, shut, page, owed>>

LEMMA PublisherStep ==
  ASSUME StreamInv, NEW n \in Changes, PublisherActs(n)
  PROVE  StreamInv'
<1>1. /\ StreamTypeOK /\ PagesAreRecords /\ ClientsAreOpen /\ PublishedIsMade
      /\ SubscribersDiffer /\ OwedIsComing /\ OwedNeedsStream
      /\ version \in Nat /\ MaxChanges \in Nat
      /\ clients \subseteq Streams
  <2>1. 1..streams \subseteq Streams
    BY StreamBounds DEF StreamInv, StreamTypeOK, Streams
  <2> QED
    BY <2>1, StreamNumbers, StreamBounds DEF StreamInv, StreamTypeOK
<1>2. UNCHANGED <<clients, queue, shut, streams, page, refreshes, owed>>
  BY DEF PublisherActs, Change, CopyClients, PublishReturns, PublishPanics
<1>3. SUFFICES /\ version' \in 0..MaxChanges /\ version' >= version
               /\ publisher' \in [Changes -> [at : {"none", "due", "sending", "done", "panicked"},
                                              to : SUBSET Streams]]
               /\ PublishedIsMade'
  <2>1. StreamTypeOK'
    <3>1. 0..version \subseteq 0..version'
      BY <1>1, <1>3
    <3>2. owed' \in [Browsers -> 0..version']
      BY <1>1, <1>2, <3>1 DEF StreamTypeOK
    <3>3. \A b \in Browsers : page[b].best \in 0..version'
                /\ \A f \in page[b].fetches : f.seen \in {Unread} \cup 0..version'
      BY <1>1, <3>1 DEF StreamTypeOK
    <3> QED
      BY <1>1, <1>2, <1>3, <3>2, <3>3 DEF StreamTypeOK
  <2>2. (PagesAreRecords /\ ClientsAreOpen /\ SubscribersDiffer /\ OwedIsComing
           /\ OwedNeedsStream)'
    BY <1>1, <1>2
    DEF PagesAreRecords, ClientsAreOpen, SubscribersDiffer, OwedIsComing, HasOrWillShow, WillShow,
        OwedNeedsStream
  <2> QED
    BY <1>3, <2>1, <2>2 DEF StreamInv
<1>4. publisher \in [Changes -> [at : {"none", "due", "sending", "done", "panicked"},
                                to : SUBSET Streams]]
  BY <1>1 DEF StreamTypeOK
<1>5. ASSUME NEW announced \in BOOLEAN, Change(announced)
      PROVE  /\ version' \in 0..MaxChanges /\ version' >= version
             /\ publisher' \in [Changes -> [at : {"none", "due", "sending", "done", "panicked"},
                                            to : SUBSET Streams]]
             /\ PublishedIsMade'
  <2>1. /\ version < MaxChanges /\ version' = version + 1
        /\ \E at \in {"due", "done"} : publisher' = [publisher EXCEPT ![version'].at = at]
    BY <1>5 DEF Change
  <2>2. version' \in Changes /\ version' \in 0..MaxChanges /\ version' >= version
    BY <1>1, <2>1 DEF Changes
  <2>3. PICK at \in {"due", "done"} : publisher' = [publisher EXCEPT ![version'].at = at]
    BY <2>1
  <2>4. publisher' \in [Changes -> [at : {"none", "due", "sending", "done", "panicked"},
                                    to : SUBSET Streams]]
    BY <1>4, <2>2, <2>3
  <2>5. \A m \in Changes : m = version' \/ publisher'[m] = publisher[m]
    BY <1>4, <2>3
  <2>6. \A m \in Changes : m <= version => m <= version'
    BY <1>1, <2>1 DEF Changes
  <2>7. PublishedIsMade'
    <3> SUFFICES ASSUME NEW m \in Changes, publisher'[m].at # "none" PROVE m <= version'
      BY DEF PublishedIsMade
    <3> QED
      BY <1>1, <2>2, <2>5, <2>6 DEF PublishedIsMade, Changes
  <2> QED
    BY <2>2, <2>4, <2>7
<1>6. ASSUME \/ CopyClients(n) \/ PublishReturns(n)
             \/ PublishPanics(n) /\ UNCHANGED <<clients, queue, shut, page, owed>>
      PROVE  /\ version' \in 0..MaxChanges /\ version' >= version
             /\ publisher' \in [Changes -> [at : {"none", "due", "sending", "done", "panicked"},
                                            to : SUBSET Streams]]
             /\ PublishedIsMade'
  <2>1. version' = version /\ version \in 0..MaxChanges
    BY <1>1, <1>6 DEF CopyClients, PublishReturns, PublishPanics, StreamTypeOK
  <2>2. PICK at \in {"sending", "done", "panicked"}, to \in SUBSET Streams :
          \/ publisher' = [publisher EXCEPT ![n] = [at |-> at, to |-> to]]
          \/ publisher' = [publisher EXCEPT ![n].at = at]
          \/ /\ publisher' = [m \in Changes |->
                  IF publisher[m].at \in {"due", "sending"}
                  THEN [at |-> at, to |-> to] ELSE publisher[m]]
    BY <1>1, <1>6 DEF CopyClients, PublishReturns, PublishPanics
  <2>3. publisher[n].at # "none"
    BY <1>6 DEF CopyClients, PublishReturns, PublishPanics
  <2>4. publisher' \in [Changes -> [at : {"none", "due", "sending", "done", "panicked"},
                                    to : SUBSET Streams]]
    BY <1>4, <2>2
  <2>5. \A m \in Changes : publisher'[m].at # "none" => publisher[m].at # "none"
    BY <1>4, <2>2, <2>3
  <2>6. PublishedIsMade'
    BY <1>1, <2>1, <2>5 DEF PublishedIsMade
  <2> QED
    BY <1>1, <2>1, <2>4, <2>6
<1>7. CASE \E announced \in BOOLEAN : Change(announced)
  BY <1>5, <1>7
<1>8. CASE ~ \E announced \in BOOLEAN : Change(announced)
  <2>1. \/ CopyClients(n) \/ PublishReturns(n)
        \/ PublishPanics(n) /\ UNCHANGED <<clients, queue, shut, page, owed>>
    BY <1>8 DEF PublisherActs
  <2> QED
    BY <1>6, <2>1
<1> QED
  BY <1>7, <1>8

(* The process dies of a send on a closed channel.                         *)
LEMMA ProcessDies ==
  ASSUME StreamInv, NEW n \in Changes, PublishPanics(n),
         ~UNCHANGED <<clients, queue, shut, page, owed>>
  PROVE  StreamInv'
<1>1. /\ StreamTypeOK /\ PagesAreRecords /\ PublishedIsMade /\ version \in Nat
      /\ streams \in Nat /\ StreamCap \in Nat
  BY StreamNumbers DEF StreamInv
<1>2. /\ publisher' = [m \in Changes |->
             IF publisher[m].at \in {"due", "sending"}
             THEN [at |-> "panicked", to |-> {}] ELSE publisher[m]]
  BY DEF PublishPanics
<1>2a. /\ clients' = {} /\ shut' = 1..streams
       /\ UNCHANGED <<version, streams, refreshes>>
  BY DEF PublishPanics
<1>2b. queue' = [s \in Streams |-> 0] /\ owed' = [b \in Browsers |-> 0]
  BY DEF PublishPanics
<1>2c. page' = [b \in Browsers |->
             IF page[b].fetches = {} THEN [page[b] EXCEPT !.sub = 0]
             ELSE [page[b] EXCEPT !.sub = 0, !.fetches = {}, !.view = 0]]
  BY DEF PublishPanics
<1>3. ASSUME NEW b \in Browsers
      PROVE  /\ IsPage(page'[b]) /\ page'[b].sub = 0 /\ page'[b].timer \in BOOLEAN
             /\ page'[b].fetches = {} /\ page'[b].view \in 0..page'[b].best
             /\ page'[b].best \in 0..version
  <2> DEFINE p == page[b]
             q == page'[b]
  <2>1. /\ IsPage(p) /\ p.timer \in BOOLEAN
        /\ p.view \in 0..p.best /\ p.best \in 0..version /\ 0 \in 0..p.best
    BY <1>1, StreamNumbers DEF PagesAreRecords, StreamTypeOK
  <2>2. q = IF p.fetches = {} THEN [p EXCEPT !.sub = 0]
            ELSE [p EXCEPT !.sub = 0, !.fetches = {}, !.view = 0]
    BY <1>2c
  <2> HIDE DEF p, q
  <2>2a. IsPage(p)
    BY <2>1
  <2>3. CASE p.fetches = {}
    <3>1. q = [sub |-> 0, timer |-> p.timer, fetches |-> p.fetches, view |-> p.view,
               best |-> p.best]
      BY <2>2a, <2>2, <2>3, MovedPage
    <3>2. /\ IsPage(q) /\ q.sub = 0 /\ q.timer = p.timer /\ q.fetches = p.fetches
          /\ q.view = p.view /\ q.best = p.best
      BY <3>1, PageFields
    <3> QED
      BY <2>1, <2>3, <3>2 DEF q
  <2>4. CASE p.fetches # {}
    <3> DEFINE F == {}
    <3>1. q = [p EXCEPT !.sub = 0, !.fetches = F, !.view = 0]
      BY <2>2, <2>4
    <3> HIDE DEF F
    <3>2. q = [sub |-> 0, timer |-> p.timer, fetches |-> F, view |-> 0, best |-> p.best]
      BY <2>2a, <3>1 DEF IsPage
    <3>3. /\ IsPage(q) /\ q.sub = 0 /\ q.timer = p.timer /\ q.fetches = F
          /\ q.view = 0 /\ q.best = p.best
      BY <3>2, PageFields
    <3> QED
      BY <2>1, <3>3 DEF q, F
  <2> QED
    BY <2>3, <2>4
<1>4. publisher' \in [Changes -> [at : {"none", "due", "sending", "done", "panicked"},
                                to : SUBSET Streams]]
  BY <1>1, <1>2 DEF StreamTypeOK
<1>5. queue' \in [Streams -> 0..StreamCap] /\ owed' \in [Browsers -> 0..version']
  <2>1. 0 \in 0..StreamCap /\ 0 \in 0..version' /\ version' = version
    BY <1>1, <1>2a
  <2>2. queue' \in [Streams -> 0..StreamCap]
    BY <1>2b, <2>1
  <2>3. owed' \in [Browsers -> 0..version']
    BY <1>2b, <2>1
  <2> QED
    BY <2>2, <2>3
<1>6. DOMAIN page' = Browsers
  BY <1>2c, Zenon
<1>6a. 0 \in 0..streams
  BY <1>1
<1>7. StreamTypeOK'
  <2>1. \A b \in Browsers :
          /\ page'[b].sub \in 0..streams' /\ page'[b].timer \in BOOLEAN
          /\ page'[b].view \in 0..page'[b].best /\ page'[b].best \in 0..version'
          /\ \A f \in page'[b].fetches : f.seen \in {Unread} \cup 0..version'
    BY <1>2a, <1>3, <1>6a
  <2>2. version' \in 0..MaxChanges /\ streams' \in 0..MaxStreams
        /\ refreshes' \in 0..MaxRefreshes /\ clients' \subseteq 1..streams'
        /\ shut' \subseteq 1..streams'
    BY <1>1, <1>2a DEF StreamTypeOK
  <2> QED
    BY <1>4, <1>5, <1>6, <2>1, <2>2 DEF StreamTypeOK
<1>8. PagesAreRecords'
  BY <1>3 DEF PagesAreRecords
<1>9. PublishedIsMade'
  <2>1. \A m \in Changes : publisher'[m].at # "none" => publisher[m].at # "none"
    BY <1>2
  <2> QED
    BY <1>1, <1>2a, <2>1 DEF PublishedIsMade
<1>10. ClientsAreOpen' /\ SubscribersDiffer' /\ OwedNeedsStream'
  BY <1>2a, <1>2b, <1>3 DEF ClientsAreOpen, SubscribersDiffer, OwedNeedsStream
<1>11. OwedIsComing'
  <2>1. \A b \in Browsers : owed'[b] = 0 /\ page'[b].best >= 0
    BY <1>1, <1>2b, <1>3
  <2> QED
    BY <2>1 DEF OwedIsComing, HasOrWillShow
<1> QED
  BY <1>7, <1>8, <1>9, <1>10, <1>11 DEF StreamInv

(* An event is offered: it is in the channel or the channel is full, and   *)
(* either way there is one in it.                                          *)
LEMMA OfferStep ==
  ASSUME StreamInv, NEW n \in Changes, NEW s \in Streams, Offer(n, s)
  PROVE  StreamInv'
<1>1. /\ StreamTypeOK /\ PagesAreRecords /\ ClientsAreOpen /\ PublishedIsMade
      /\ SubscribersDiffer /\ OwedIsComing /\ OwedNeedsStream
  BY DEF StreamInv
<1>2. UNCHANGED <<version, clients, shut, streams, page, refreshes>>
  BY DEF Offer
<1>3. n \in 1..version
  <2>1. publisher[n].at # "none"
    BY DEF Offer
  <2> QED
    BY <1>1, <2>1, StreamNumbers, StreamBounds DEF PublishedIsMade, Changes
<1>4. /\ queue' \in [Streams -> 0..StreamCap] /\ queue'[s] > 0
      /\ \A t \in Streams : t # s => queue'[t] = queue[t]
  <2>1. queue \in [Streams -> 0..StreamCap] /\ StreamCap \in Nat /\ StreamCap > 0
    BY <1>1, StreamNumbers DEF StreamTypeOK
  <2>2. queue' = [queue EXCEPT ![s] = IF @ < StreamCap THEN @ + 1 ELSE @]
    BY DEF Offer, Send
  <2>3. (IF queue[s] < StreamCap THEN queue[s] + 1 ELSE queue[s]) \in 1..StreamCap
    BY <2>1
  <2> QED
    BY <2>1, <2>2, <2>3
<1>5. /\ publisher' \in [Changes -> [at : {"none", "due", "sending", "done", "panicked"},
                                    to : SUBSET Streams]]
      /\ \A m \in Changes : publisher'[m].at = publisher[m].at
  BY <1>1 DEF Offer, StreamTypeOK
<1>6. \A b \in Browsers :
        /\ owed'[b] \in 0..version
        /\ page[b].sub # s => owed'[b] = owed[b]
        /\ owed'[b] = owed[b] \/ page[b].sub = s
  <2> SUFFICES ASSUME NEW b \in Browsers
               PROVE  /\ owed'[b] \in 0..version
                      /\ page[b].sub # s => owed'[b] = owed[b]
    OBVIOUS
  <2>1. owed'[b] = IF page[b].sub = s THEN Larger(owed[b], n) ELSE owed[b]
    BY DEF Offer
  <2>2. owed[b] \in 0..version /\ version \in Nat
    BY StreamNumbers
  <2> QED
    BY <1>3, <2>1, <2>2 DEF Larger
<1>7. owed' \in [Browsers -> 0..version]
  <2>1. owed' = [b \in Browsers |-> owed'[b]]
    BY Zenon DEF Offer
  <2> QED
    BY <1>6, <2>1
<1>8. StreamTypeOK'
  BY <1>1, <1>2, <1>4, <1>5, <1>7 DEF StreamTypeOK
<1>9. PagesAreRecords' /\ ClientsAreOpen' /\ SubscribersDiffer'
  BY <1>1, <1>2 DEF PagesAreRecords, ClientsAreOpen, SubscribersDiffer
<1>10. PublishedIsMade'
  BY <1>1, <1>2, <1>5 DEF PublishedIsMade
<1>11. OwedNeedsStream'
  <2>1. s # 0
    BY DEF Streams
  <2> QED
    BY <1>1, <1>2, <1>6, <2>1 DEF OwedNeedsStream
<1>12. OwedIsComing'
  <2> SUFFICES ASSUME NEW b \in Browsers
               PROVE  HasOrWillShow(b)'
    BY DEF OwedIsComing
  <2>1. CASE page[b].sub = s
    <3>1. page'[b].sub # 0 /\ queue'[page'[b].sub] > 0
      BY <1>2, <1>4, <2>1 DEF Streams
    <3> QED
      BY <3>1 DEF HasOrWillShow, WillShow
  <2>2. CASE page[b].sub # s
    <3>1. page[b].sub # 0 => queue'[page[b].sub] = queue[page[b].sub]
      BY <1>4, <2>2, StreamNumbers
    <3>2. owed'[b] = owed[b]
      BY <1>6, <2>2
    <3>3. page[b].best >= owed[b] \/ WillShow(b, owed[b])
      BY <1>1 DEF OwedIsComing, HasOrWillShow
    <3> QED
      BY <1>2, <3>1, <3>2, <3>3 DEF HasOrWillShow, WillShow
  <2> QED
    BY <2>1, <2>2
<1> QED
  BY <1>8, <1>9, <1>10, <1>11, <1>12 DEF StreamInv

(* A channel is closed that no page uses.                                  *)
LEMMA CloseStep ==
  ASSUME StreamInv, NEW s \in Streams, CloseChannel(s)
  PROVE  StreamInv'
<1>1. /\ StreamTypeOK /\ PagesAreRecords /\ ClientsAreOpen /\ PublishedIsMade
      /\ SubscribersDiffer /\ OwedIsComing /\ OwedNeedsStream /\ StreamCap \in Nat
  BY StreamNumbers DEF StreamInv
<1>2. UNCHANGED <<version, publisher, clients, streams, page, refreshes, owed>>
  BY DEF CloseChannel
<1>3. /\ s \in 1..streams /\ s \notin clients /\ shut' = shut \cup {s}
      /\ queue' = [queue EXCEPT ![s] = 0]
  BY DEF CloseChannel
<1>4. /\ queue' \in [Streams -> 0..StreamCap]
      /\ \A t \in Streams : t # s => queue'[t] = queue[t]
  <2>1. 0 \in 0..StreamCap
    BY <1>1
  <2> QED
    BY <1>1, <1>3, <2>1 DEF StreamTypeOK
<1>5. StreamTypeOK'
  BY <1>1, <1>2, <1>3, <1>4 DEF StreamTypeOK
<1>6. (PagesAreRecords /\ PublishedIsMade /\ SubscribersDiffer /\ OwedNeedsStream)'
  BY <1>1, <1>2 DEF PagesAreRecords, PublishedIsMade, SubscribersDiffer, OwedNeedsStream
<1>7. ClientsAreOpen'
  BY <1>1, <1>2, <1>3 DEF ClientsAreOpen
<1>8. OwedIsComing'
  <2> SUFFICES ASSUME NEW b \in Browsers
               PROVE  HasOrWillShow(b)'
    BY DEF OwedIsComing
  <2>1. page[b].sub # 0 => queue'[page[b].sub] = queue[page[b].sub]
    BY <1>3, <1>4, StreamNumbers
  <2>2. page[b].best >= owed[b] \/ WillShow(b, owed[b])
    BY <1>1 DEF OwedIsComing, HasOrWillShow
  <2> QED
    BY <1>2, <2>1, <2>2 DEF HasOrWillShow, WillShow
<1> QED
  BY <1>5, <1>6, <1>7, <1>8 DEF StreamInv

(* A page connects: its channel is new, so no other page has it.           *)
LEMMA SubscribeStep ==
  ASSUME StreamInv, NEW b \in Browsers, Subscribe(b)
  PROVE  StreamInv'
<1>1. /\ StreamTypeOK /\ PagesAreRecords /\ ClientsAreOpen /\ PublishedIsMade
      /\ SubscribersDiffer /\ OwedIsComing /\ OwedNeedsStream
      /\ streams \in Nat /\ DOMAIN page = Browsers
  BY StreamNumbers DEF StreamInv, StreamTypeOK
<1>2. UNCHANGED <<version, publisher, queue, shut, refreshes, owed>>
  BY DEF Subscribe
<1>3. /\ page[b].sub = 0 /\ streams < MaxStreams /\ streams' = streams + 1
      /\ clients' = clients \cup {streams'}
  BY DEF Subscribe
<1> DEFINE p == page[b]
           q == [page[b] EXCEPT !.sub = streams']
<1>4. page' = [c \in Browsers |-> IF c = b THEN q ELSE page[c]]
  BY <1>1 DEF Subscribe
<1>5. IsPage(p)
  BY <1>1 DEF PagesAreRecords
<1>6. q = [p EXCEPT !.sub = streams']
  OBVIOUS
<1> HIDE DEF p, q
<1>7. /\ IsPage(q) /\ q.sub = streams' /\ q.timer = p.timer /\ q.fetches = p.fetches
      /\ q.view = p.view /\ q.best = p.best
  <2>1. q = [sub |-> streams', timer |-> p.timer, fetches |-> p.fetches, view |-> p.view,
             best |-> p.best]
    BY <1>5, <1>6, MovedPage
  <2> QED
    BY <2>1, PageFields
<1>8. page'[b] = q /\ \A c \in Browsers \ {b} : page'[c] = page[c]
  BY <1>4
<1>9. /\ p.timer \in BOOLEAN /\ p.view \in 0..p.best /\ p.best \in 0..version
      /\ \A f \in p.fetches : IsFetch(f) /\ f.seen \in {Unread} \cup 0..version
  BY <1>1 DEF p, StreamTypeOK, PagesAreRecords
<1>10. /\ streams' \in 0..MaxStreams /\ 0..streams \subseteq 0..streams'
       /\ 1..streams \subseteq 1..streams' /\ streams' \in 1..streams'
       /\ streams' \notin 0..streams
  BY <1>1, <1>3, StreamBounds
<1>11. StreamTypeOK'
  <2>1. /\ clients' \subseteq 1..streams' /\ shut' \subseteq 1..streams'
    BY <1>1, <1>2, <1>3, <1>10 DEF StreamTypeOK
  <2>2. DOMAIN page' = Browsers
    BY <1>4, Zenon
  <2>3. \A c \in Browsers :
          /\ page'[c].sub \in 0..streams' /\ page'[c].timer \in BOOLEAN
          /\ page'[c].view \in 0..page'[c].best /\ page'[c].best \in 0..version
          /\ \A f \in page'[c].fetches : f.seen \in {Unread} \cup 0..version
    <3> SUFFICES ASSUME NEW c \in Browsers
                 PROVE  /\ page'[c].sub \in 0..streams' /\ page'[c].timer \in BOOLEAN
                        /\ page'[c].view \in 0..page'[c].best
                        /\ page'[c].best \in 0..version
                        /\ \A f \in page'[c].fetches : f.seen \in {Unread} \cup 0..version
      OBVIOUS
    <3>1. CASE c = b
      <4>1. streams' \in 0..streams'
        BY <1>3, <1>1
      <4> QED
        BY <1>7, <1>8, <1>9, <3>1, <4>1
    <3>2. CASE c # b
      BY <1>1, <1>8, <1>10, <3>2 DEF StreamTypeOK
    <3> QED
      BY <3>1, <3>2
  <2> QED
    BY <1>1, <1>2, <1>10, <2>1, <2>2, <2>3 DEF StreamTypeOK
<1>12. PagesAreRecords'
  BY <1>1, <1>7, <1>8, <1>9 DEF PagesAreRecords
<1>13. ClientsAreOpen' /\ PublishedIsMade'
  <2>1. streams' \notin shut
    BY <1>1, <1>10 DEF StreamTypeOK
  <2> QED
    BY <1>1, <1>2, <1>3, <2>1 DEF ClientsAreOpen, PublishedIsMade
<1>14. SubscribersDiffer'
  <2>1. \A c \in Browsers \ {b} : page'[c].sub # streams' /\ page'[c].sub \in 0..streams
    BY <1>1, <1>8, <1>10 DEF StreamTypeOK
  <2>2. page'[b].sub = streams'
    BY <1>7, <1>8
  <2> SUFFICES ASSUME NEW c \in Browsers, page'[c].sub # 0
               PROVE  /\ page'[c].sub \in clients'
                      /\ \A d \in Browsers : page'[d].sub = page'[c].sub => d = c
    BY DEF SubscribersDiffer
  <2>3. CASE c = b
    BY <1>3, <2>1, <2>2, <2>3
  <2>4. CASE c # b
    <3>1. page'[c] = page[c] /\ page[c].sub \in clients
      BY <1>1, <1>8, <2>4 DEF SubscribersDiffer
    <3>2. ASSUME NEW d \in Browsers, page'[d].sub = page'[c].sub PROVE d = c
      <4>1. d # b
        BY <2>1, <2>2, <2>4, <3>2
      <4>2. page[d].sub = page[c].sub
        BY <1>8, <3>1, <3>2, <4>1
      <4> QED
        BY <1>1, <3>1, <4>2 DEF SubscribersDiffer
    <3> QED
      BY <1>3, <3>1, <3>2
  <2> QED
    BY <2>3, <2>4
<1>15. OwedNeedsStream'
  <2>1. \A c \in Browsers : page'[c].sub = 0 => page[c].sub = 0
    BY <1>3, <1>8
  <2> QED
    BY <1>1, <1>2, <2>1 DEF OwedNeedsStream
<1>16. OwedIsComing'
  <2> SUFFICES ASSUME NEW c \in Browsers PROVE HasOrWillShow(c)'
    BY DEF OwedIsComing
  <2>1. CASE c = b
    <3>1. owed'[b] = 0
      BY <1>1, <1>2, <1>3 DEF OwedNeedsStream
    <3>2. page'[b].best >= 0
      BY <1>7, <1>8, <1>9, StreamNumbers
    <3> QED
      BY <2>1, <3>1, <3>2 DEF HasOrWillShow
  <2>2. CASE c # b
    BY <1>1, <1>2, <1>8, <2>2 DEF OwedIsComing, HasOrWillShow, WillShow
  <2> QED
    BY <2>1, <2>2
<1> QED
  BY <1>11, <1>12, <1>13, <1>14, <1>15, <1>16 DEF StreamInv

(* A page takes an event: the pause runs from now on.                      *)
LEMMA WriteStep ==
  ASSUME StreamInv, NEW b \in Browsers, WriteEvent(b)
  PROVE  StreamInv'
<1>1. /\ StreamTypeOK /\ PagesAreRecords /\ ClientsAreOpen /\ PublishedIsMade
      /\ SubscribersDiffer /\ OwedIsComing /\ OwedNeedsStream
      /\ DOMAIN page = Browsers
  BY DEF StreamInv, StreamTypeOK
<1>2. UNCHANGED <<version, publisher, clients, shut, streams, refreshes, owed>>
  BY DEF WriteEvent
<1> DEFINE s == page[b].sub
           T == TRUE
           p == page[b]
           q == [page[b] EXCEPT !.timer = T]
<1>3. s # 0 /\ queue[s] > 0 /\ queue' = [queue EXCEPT ![s] = @ - 1]
  BY DEF WriteEvent
<1>4. page' = [c \in Browsers |-> IF c = b THEN q ELSE page[c]]
  BY <1>1 DEF WriteEvent
<1>5. IsPage(p) /\ q = [p EXCEPT !.timer = T]
  BY <1>1 DEF PagesAreRecords
<1>6. T \in BOOLEAN
  OBVIOUS
<1> HIDE DEF T, p, q
<1>7. /\ IsPage(q) /\ q.sub = p.sub /\ q.timer = T /\ q.fetches = p.fetches
      /\ q.view = p.view /\ q.best = p.best
  <2>1. q = [sub |-> p.sub, timer |-> T, fetches |-> p.fetches, view |-> p.view,
             best |-> p.best]
    BY <1>5, ToldPage
  <2> QED
    BY <2>1, PageFields
<1>8. page'[b] = q /\ \A c \in Browsers \ {b} : page'[c] = page[c]
  BY <1>4
<1>9. /\ p.sub \in 0..streams /\ p.view \in 0..p.best /\ p.best \in 0..version
      /\ \A f \in p.fetches : IsFetch(f) /\ f.seen \in {Unread} \cup 0..version
  BY <1>1 DEF p, StreamTypeOK, PagesAreRecords
<1>10. /\ queue' \in [Streams -> 0..StreamCap]
       /\ \A t \in Streams : t # s => queue'[t] = queue[t]
  <2>1. queue[s] \in 0..StreamCap /\ s \in Streams /\ StreamCap \in Nat
    BY <1>3, StreamNumbers
  <2>2. queue[s] - 1 \in 0..StreamCap
    BY <1>3, <2>1
  <2> QED
    BY <1>1, <1>3, <2>1, <2>2 DEF StreamTypeOK
<1>11. StreamTypeOK'
  <2>1. DOMAIN page' = Browsers
    BY <1>4, Zenon
  <2>2. \A c \in Browsers :
          /\ page'[c].sub \in 0..streams /\ page'[c].timer \in BOOLEAN
          /\ page'[c].view \in 0..page'[c].best /\ page'[c].best \in 0..version
          /\ \A f \in page'[c].fetches : f.seen \in {Unread} \cup 0..version
    <3> SUFFICES ASSUME NEW c \in Browsers
                 PROVE  /\ page'[c].sub \in 0..streams /\ page'[c].timer \in BOOLEAN
                        /\ page'[c].view \in 0..page'[c].best
                        /\ page'[c].best \in 0..version
                        /\ \A f \in page'[c].fetches : f.seen \in {Unread} \cup 0..version
      OBVIOUS
    <3>1. CASE c = b
      BY <1>6, <1>7, <1>8, <1>9, <3>1
    <3>2. CASE c # b
      BY <1>1, <1>8, <3>2 DEF StreamTypeOK
    <3> QED
      BY <3>1, <3>2
  <2> QED
    BY <1>1, <1>2, <1>10, <2>1, <2>2 DEF StreamTypeOK
<1>12. \A c \in Browsers : page'[c].sub = page[c].sub
  BY <1>7, <1>8 DEF p
<1>13. PagesAreRecords'
  BY <1>1, <1>7, <1>8, <1>9 DEF PagesAreRecords
<1>14. (ClientsAreOpen /\ PublishedIsMade /\ SubscribersDiffer /\ OwedNeedsStream)'
  BY <1>1, <1>2, <1>12 DEF ClientsAreOpen, PublishedIsMade, SubscribersDiffer, OwedNeedsStream
<1>15. OwedIsComing'
  <2> SUFFICES ASSUME NEW c \in Browsers PROVE HasOrWillShow(c)'
    BY DEF OwedIsComing
  <2>1. CASE c = b
    <3>1. page'[b].timer
      BY <1>7, <1>8 DEF T
    <3> QED
      BY <2>1, <3>1 DEF HasOrWillShow, WillShow
  <2>2. CASE c # b
    <3>1. page[c].sub # 0 => queue'[page[c].sub] = queue[page[c].sub]
      BY <1>1, <1>3, <1>10, <2>2, StreamNumbers DEF SubscribersDiffer
    <3> QED
      BY <1>1, <1>2, <1>8, <2>2, <3>1 DEF OwedIsComing, HasOrWillShow, WillShow
  <2> QED
    BY <2>1, <2>2
<1> QED
  BY <1>11, <1>13, <1>14, <1>15 DEF StreamInv

(* A page leaves: nothing is owed to it any more.                          *)
LEMMA UnsubscribeStep ==
  ASSUME StreamInv, NEW b \in Browsers, Unsubscribe(b)
  PROVE  StreamInv'
<1>1. /\ StreamTypeOK /\ PagesAreRecords /\ ClientsAreOpen /\ PublishedIsMade
      /\ SubscribersDiffer /\ OwedIsComing /\ OwedNeedsStream
      /\ DOMAIN page = Browsers /\ streams \in Nat /\ version \in Nat
  BY StreamNumbers DEF StreamInv, StreamTypeOK
<1>2. UNCHANGED <<version, publisher, queue, shut, streams, refreshes>>
  BY DEF Unsubscribe
<1> DEFINE p == page[b]
           q == [page[b] EXCEPT !.sub = 0]
<1>3. /\ page[b].sub # 0 /\ clients' = clients \ {page[b].sub}
      /\ owed' = [owed EXCEPT ![b] = 0]
  BY DEF Unsubscribe
<1>4. page' = [c \in Browsers |-> IF c = b THEN q ELSE page[c]]
  BY <1>1 DEF Unsubscribe
<1>5. IsPage(p) /\ q = [p EXCEPT !.sub = 0]
  BY <1>1 DEF PagesAreRecords
<1> HIDE DEF p, q
<1>6. /\ IsPage(q) /\ q.sub = 0 /\ q.timer = p.timer /\ q.fetches = p.fetches
      /\ q.view = p.view /\ q.best = p.best
  <2>1. q = [sub |-> 0, timer |-> p.timer, fetches |-> p.fetches, view |-> p.view,
             best |-> p.best]
    BY <1>5, MovedPage
  <2> QED
    BY <2>1, PageFields
<1>7. page'[b] = q /\ \A c \in Browsers \ {b} : page'[c] = page[c]
  BY <1>4
<1>8. /\ p.timer \in BOOLEAN /\ p.view \in 0..p.best /\ p.best \in 0..version
      /\ \A f \in p.fetches : IsFetch(f) /\ f.seen \in {Unread} \cup 0..version
  BY <1>1 DEF p, StreamTypeOK, PagesAreRecords
<1>9. /\ owed' \in [Browsers -> 0..version] /\ owed'[b] = 0
      /\ \A c \in Browsers \ {b} : owed'[c] = owed[c]
  <2>1. 0 \in 0..version
    BY <1>1
  <2> QED
    BY <1>1, <1>3, <2>1 DEF StreamTypeOK
<1>10. StreamTypeOK'
  <2>1. DOMAIN page' = Browsers
    BY <1>4, Zenon
  <2>2. \A c \in Browsers :
          /\ page'[c].sub \in 0..streams /\ page'[c].timer \in BOOLEAN
          /\ page'[c].view \in 0..page'[c].best /\ page'[c].best \in 0..version
          /\ \A f \in page'[c].fetches : f.seen \in {Unread} \cup 0..version
    <3> SUFFICES ASSUME NEW c \in Browsers
                 PROVE  /\ page'[c].sub \in 0..streams /\ page'[c].timer \in BOOLEAN
                        /\ page'[c].view \in 0..page'[c].best
                        /\ page'[c].best \in 0..version
                        /\ \A f \in page'[c].fetches : f.seen \in {Unread} \cup 0..version
      OBVIOUS
    <3>1. CASE c = b
      <4>1. 0 \in 0..streams
        BY <1>1
      <4> QED
        BY <1>6, <1>7, <1>8, <3>1, <4>1
    <3>2. CASE c # b
      BY <1>1, <1>7, <3>2 DEF StreamTypeOK
    <3> QED
      BY <3>1, <3>2
  <2> QED
    BY <1>1, <1>2, <1>3, <1>9, <2>1, <2>2 DEF StreamTypeOK
<1>11. PagesAreRecords'
  BY <1>1, <1>6, <1>7, <1>8 DEF PagesAreRecords
<1>12. (ClientsAreOpen /\ PublishedIsMade)'
  BY <1>1, <1>2, <1>3 DEF ClientsAreOpen, PublishedIsMade
<1>13. SubscribersDiffer'
  <2> SUFFICES ASSUME NEW c \in Browsers, page'[c].sub # 0
               PROVE  /\ page'[c].sub \in clients'
                      /\ \A d \in Browsers : page'[d].sub = page'[c].sub => d = c
    BY DEF SubscribersDiffer
  <2>1. c # b /\ page'[c] = page[c]
    BY <1>6, <1>7
  <2>2. page[c].sub \in clients /\ page[c].sub # page[b].sub
    BY <1>1, <2>1 DEF SubscribersDiffer
  <2>3. ASSUME NEW d \in Browsers, page'[d].sub = page'[c].sub PROVE d = c
    <3>1. d # b /\ page'[d] = page[d]
      BY <1>6, <1>7, <2>3
    <3> QED
      BY <1>1, <2>1, <2>3, <3>1 DEF SubscribersDiffer
  <2> QED
    BY <1>3, <2>1, <2>2, <2>3
<1>14. OwedNeedsStream'
  BY <1>1, <1>7, <1>9 DEF OwedNeedsStream
<1>15. OwedIsComing'
  <2> SUFFICES ASSUME NEW c \in Browsers PROVE HasOrWillShow(c)'
    BY DEF OwedIsComing
  <2>1. CASE c = b
    <3>1. page'[b].best >= 0
      BY <1>1, <1>6, <1>7, <1>8
    <3> QED
      BY <1>9, <2>1, <3>1 DEF HasOrWillShow
  <2>2. CASE c # b
    BY <1>1, <1>2, <1>7, <1>9, <2>2 DEF OwedIsComing, HasOrWillShow, WillShow
  <2> QED
    BY <2>1, <2>2
<1> QED
  BY <1>10, <1>11, <1>12, <1>13, <1>14, <1>15 DEF StreamInv

LEMMA StreamInvStep ==
  ASSUME StreamInv, [StreamNext]_streamVars
  PROVE  StreamInv'
<1>1. ASSUME NEW announced \in BOOLEAN, Change(announced) PROVE StreamInv'
  <2>1. version + 1 \in Changes
    BY <1>1, StreamNumbers, StreamBounds DEF Change, Changes
  <2> QED
    <3>1. PublisherActs(version + 1)
      BY <1>1 DEF PublisherActs
    <3> QED
      BY <2>1, <3>1, PublisherStep
<1>2. ASSUME NEW n \in Changes, Publishing(n) PROVE StreamInv'
  <2>1. CASE PublisherActs(n)
    BY <2>1, PublisherStep
  <2>2. CASE PublishPanics(n) /\ ~PublisherActs(n)
    <3>1. ~UNCHANGED <<clients, queue, shut, page, owed>>
      BY <2>2 DEF PublisherActs
    <3> QED
      BY <2>2, <3>1, ProcessDies
  <2>4. ASSUME NEW s \in Streams, Offer(n, s) PROVE StreamInv'
    BY <2>4, OfferStep
  <2> QED
    BY <1>2, <2>1, <2>2, <2>4 DEF Publishing, PublisherActs
<1>3. ASSUME NEW s \in Streams, CloseChannel(s) PROVE StreamInv'
  BY <1>3, CloseStep
<1>4. ASSUME NEW b \in Browsers,
             Subscribe(b) \/ WriteEvent(b) \/ Unsubscribe(b) \/ Refresh(b) \/ Fetching(b)
      PROVE  StreamInv'
  BY <1>4, SubscribeStep, WriteStep, UnsubscribeStep, PagesStep DEF Fetching
<1>5. CASE UNCHANGED streamVars
  BY <1>5
  DEF streamVars, StreamInv, StreamTypeOK, PagesAreRecords, ClientsAreOpen, PublishedIsMade,
      SubscribersDiffer, OwedIsComing, HasOrWillShow, WillShow, OwedNeedsStream
<1> QED
  BY <1>1, <1>2, <1>3, <1>4, <1>5 DEF StreamNext

LEMMA StreamInvIsSafe == StreamInv => StreamSafety
<1> SUFFICES ASSUME StreamInv, NEW b \in Browsers, Quiet(b) PROVE page[b].best >= owed[b]
  BY DEF StreamInv, StreamSafety, QuietPageHasSeen
<1>1. page[b].best >= owed[b] \/ WillShow(b, owed[b])
  BY DEF StreamInv, OwedIsComing, HasOrWillShow
<1>2. ~(page[b].sub # 0 /\ queue[page[b].sub] > 0)
  BY DEF Quiet
<1>3. ~page[b].timer /\ page[b].fetches = {}
  BY DEF Quiet
<1>4. ~WillShow(b, owed[b])
  BY <1>2, <1>3 DEF WillShow
<1> QED
  BY <1>1, <1>4

(* No channel is closed that the broker still offers, and a page at rest   *)
(* has displayed every change offered to its stream: for every number of   *)
(* browsers, changes and connections and every capacity of the channels.   *)
THEOREM StreamIsSafe == StreamSpec => []StreamSafety
BY StreamInvInit, StreamInvStep, StreamInvIsSafe, PTL DEF StreamSpec

-----------------------------------------------------------------------------
(* The messages of Lark users.                                             *)

(* What was asked alternates between questions and their answers.          *)
WholeTurns(asked) ==
  /\ Len(asked) % 2 = 0
  /\ \A i \in 1..Len(asked) : i % 2 = 1 =>
       asked[i][1] = "user" /\ asked[i + 1] = <<"assistant", asked[i][2]>>

(* The i-th entry belongs to the turn (i + 1) \div 2.                      *)
LEMMA Halves ==
  ASSUME NEW i \in Nat, i >= 1
  PROVE  /\ (i + 1) \div 2 \in Nat /\ (i + 1) \div 2 >= 1 
         /\ i % 2 \in {0, 1}
         /\ i % 2 = 1 => i = 2 * ((i + 1) \div 2) - 1
         /\ i % 2 = 0 => i = 2 * ((i + 1) \div 2)
OBVIOUS

LEMMA HalfIn ==
  ASSUME NEW i \in Nat, i >= 1, NEW n \in Nat, i <= 2 * n
  PROVE  (i + 1) \div 2 <= n
OBVIOUS

LEMMA HalfShift ==
  ASSUME NEW i \in Nat, i >= 1, NEW n \in Nat
  PROVE  (2 * n + i + 1) \div 2 = n + ((i + 1) \div 2) /\ (2 * n + i) % 2 = i % 2
OBVIOUS

LEMMA TurnParts ==
  ASSUME NEW m
  PROVE  /\ Turn(m)[1] = <<"user", m>> /\ Turn(m)[2] = <<"assistant", m>>
         /\ Len(Turn(m)) = 2 
BY DEF Turn

LEMMA TurnsEntries ==
  ASSUME NEW M, NEW s \in Seq(M)
  PROVE  /\ Len(Turns(s)) = 2 * Len(s)
         /\ \A i \in 1..(2 * Len(s)) :
              /\ (i + 1) \div 2 \in 1..Len(s)
              /\ i % 2 = 1 => Turns(s)[i] = <<"user", s[(i + 1) \div 2]>>
              /\ i % 2 = 0 => Turns(s)[i] = <<"assistant", s[(i + 1) \div 2]>>
<1>1. Len(s) \in Nat
  OBVIOUS
<1>2. DOMAIN Turns(s) = 1..(2 * Len(s))
  BY DEF Turns
<1>3. 2 * Len(s) \in Nat
  BY <1>1
<1>4. Len(Turns(s)) = 2 * Len(s)
  BY <1>2, <1>3 
<1>5. ASSUME NEW i \in 1..(2 * Len(s))
      PROVE  /\ (i + 1) \div 2 \in 1..Len(s)
             /\ i % 2 = 1 => Turns(s)[i] = <<"user", s[(i + 1) \div 2]>>
             /\ i % 2 = 0 => Turns(s)[i] = <<"assistant", s[(i + 1) \div 2]>>
  <2>1. i \in Nat /\ i >= 1 /\ i <= 2 * Len(s)
    BY <1>1
  <2>2. (i + 1) \div 2 \in 1..Len(s)
    BY <1>1, <2>1, Halves, HalfIn
  <2>3. Turns(s)[i] = Turn(s[(i + 1) \div 2])[2 - (i % 2)]
    BY DEF Turns
  <2>4. CASE i % 2 = 1
    BY <2>2, <2>3, <2>4, TurnParts
  <2>5. CASE i % 2 = 0
    BY <2>2, <2>3, <2>5, TurnParts
  <2> QED
    BY <2>1, <2>2, <2>4, <2>5, Halves
<1> QED
  BY <1>4, <1>5

LEMMA TurnsTyped ==
  ASSUME NEW M, NEW s \in Seq(M)
  PROVE  Turns(s) \in Seq({"user", "assistant"} \X M)
<1>1. \A i \in 1..(2 * Len(s)) : Turns(s)[i] \in {"user", "assistant"} \X M
  <2> SUFFICES ASSUME NEW i \in 1..(2 * Len(s)) PROVE Turns(s)[i] \in {"user", "assistant"} \X M
    OBVIOUS
  <2>1. (i + 1) \div 2 \in 1..Len(s) /\ i \in Nat /\ i >= 1
    BY TurnsEntries
  <2>2. s[(i + 1) \div 2] \in M
    BY <2>1
  <2>3. i % 2 \in {0, 1}
    BY <2>1, Halves
  <2>4. /\ i % 2 = 1 => Turns(s)[i] = <<"user", s[(i + 1) \div 2]>>
        /\ i % 2 = 0 => Turns(s)[i] = <<"assistant", s[(i + 1) \div 2]>>
    BY TurnsEntries
  <2> DEFINE u == s[(i + 1) \div 2]
             e == Turns(s)[i]
  <2>5. u \in M /\ (e = <<"user", u>> \/ e = <<"assistant", u>>)
    BY <2>2, <2>3, <2>4
  <2> HIDE DEF u, e
  <2>6. e \in {"user", "assistant"} \X M
    BY <2>5
  <2> QED
    BY <2>6 DEF e
<1>2. 2 * Len(s) \in Nat
  OBVIOUS
<1>3. Turns(s) \in [1..(2 * Len(s)) -> {"user", "assistant"} \X M]
  BY <1>1 DEF Turns
<1> QED
  BY <1>2, <1>3

LEMMA EndOfBoth ==
  ASSUME NEW S, NEW s \in Seq(S), NEW t \in Seq(S),
         NEW i \in (Len(s) + 1)..(Len(s) + Len(t))
  PROVE  (s \o t)[i] = t[i - Len(s)]
OBVIOUS

(* Adding a turn and adding a message come to the same.                    *)
LEMMA TurnsAppend ==
  ASSUME NEW M, NEW s \in Seq(M), NEW m \in M
  PROVE  Turns(s) \o Turn(m) = Turns(Append(s, m))
<1> DEFINE a == Turns(s) \o Turn(m)
           b == Turns(Append(s, m))
           E == {"user", "assistant"} \X M
<1>1. /\ Turns(s) \in Seq(E) /\ Turn(m) \in Seq(E) /\ Append(s, m) \in Seq(M)
      /\ Len(s) \in Nat /\ Len(Append(s, m)) = Len(s) + 1
  BY TurnsTyped DEF Turn
<1>2. /\ Len(a) = 2 * Len(s) + 2 /\ Len(b) = 2 * Len(s) + 2 /\ b \in Seq(E) /\ a \in Seq(E)
  <2>1. b \in Seq(E)
    BY <1>1, TurnsTyped
  <2>2. Len(b) = 2 * Len(Append(s, m))
    BY <1>1, TurnsEntries
  <2>3. Len(Turns(s)) = 2 * Len(s)
    BY <1>1, TurnsEntries
  <2>4. a \in Seq(E) /\ Len(a) = Len(Turns(s)) + Len(Turn(m))
    BY <1>1
  <2>5. Len(Turn(m)) = 2
    BY TurnParts
  <2> HIDE DEF a, b, E
  <2> QED
    BY <1>1, <2>1, <2>2, <2>3, <2>4, <2>5
<1>2a. \A i \in 1..(2 * Len(s) + 2) :
         /\ (i + 1) \div 2 \in 1..(Len(s) + 1)
         /\ i % 2 = 1 => b[i] = <<"user", Append(s, m)[(i + 1) \div 2]>>
         /\ i % 2 = 0 => b[i] = <<"assistant", Append(s, m)[(i + 1) \div 2]>>
  <2>1. 2 * Len(Append(s, m)) = 2 * Len(s) + 2
    BY <1>1
  <2>2. \A i \in 1..(2 * Len(Append(s, m))) :
         /\ (i + 1) \div 2 \in 1..Len(Append(s, m))
         /\ i % 2 = 1 => b[i] = <<"user", Append(s, m)[(i + 1) \div 2]>>
         /\ i % 2 = 0 => b[i] = <<"assistant", Append(s, m)[(i + 1) \div 2]>>
    BY <1>1, TurnsEntries
  <2> HIDE DEF b
  <2> QED
    BY <1>1, <2>1, <2>2
<1>3. ASSUME NEW i \in 1..(2 * Len(s) + 2)
      PROVE  a[i] = b[i]
  <2> DEFINE k == (i + 1) \div 2
  <2>0. i \in Nat /\ i >= 1
    BY <1>1
  <2>1. /\ k \in Nat /\ k >= 1 /\ i % 2 \in {0, 1}
        /\ i % 2 = 1 => i = 2 * k - 1
        /\ i % 2 = 0 => i = 2 * k
    BY <2>0, Halves
  <2>2. /\ k \in 1..(Len(s) + 1)
        /\ i % 2 = 1 => b[i] = <<"user", Append(s, m)[k]>>
        /\ i % 2 = 0 => b[i] = <<"assistant", Append(s, m)[k]>>
    BY <1>2a
  <2>3. CASE i <= 2 * Len(s)
    <3>1. /\ i \in 1..(2 * Len(s)) /\ k \in 1..Len(s)
          /\ i % 2 = 1 => Turns(s)[i] = <<"user", s[k]>>
          /\ i % 2 = 0 => Turns(s)[i] = <<"assistant", s[k]>>
      BY SMTT(60), <1>1, <2>0, <2>3, TurnsEntries
    <3>2. Append(s, m)[k] = s[k]
      BY <3>1
    <3>3. a[i] = Turns(s)[i]
      BY <1>1, <3>1, TurnsEntries
    <3> QED
      BY <2>1, <2>2, <3>1, <3>2, <3>3
  <2>4. CASE i > 2 * Len(s)
    <3> HIDE DEF k
    <3>1. k = Len(s) + 1 /\ i - 2 * Len(s) = 2 - (i % 2)
      <4>1. k <= Len(s) + 1 /\ k \in Nat /\ Len(s) \in Nat
        BY <1>1, <2>1, <2>2
      <4>2. CASE i % 2 = 1
        <5>1. i = 2 * k - 1
          BY <2>1, <4>2
        <5> QED
          BY <2>0, <2>4, <4>1, <4>2, <5>1
      <4>3. CASE i % 2 = 0
        <5>1. i = 2 * k
          BY <2>1, <4>3
        <5> QED
          BY <2>0, <2>4, <4>1, <4>3, <5>1
      <4> QED
        BY <2>1, <4>2, <4>3
    <3>2. Append(s, m)[k] = m
      BY <1>1, <3>1
    <3>3. a[i] = Turn(m)[i - 2 * Len(s)]
      <4>1. Len(Turns(s)) = 2 * Len(s) /\ Len(Turn(m)) = 2
        BY <1>1, TurnsEntries, TurnParts
      <4>2. i \in (Len(Turns(s)) + 1)..(Len(Turns(s)) + Len(Turn(m)))
        BY <1>1, <2>0, <2>4, <4>1
      <4>3. a[i] = Turn(m)[i - Len(Turns(s))]
        BY <1>1, <4>2, EndOfBoth
      <4> QED
        BY <4>1, <4>3
    <3>4. b[i] = IF i % 2 = 1 THEN <<"user", m>> ELSE <<"assistant", m>>
      BY <2>1, <2>2, <3>2
    <3>5. a[i] = IF i % 2 = 1 THEN <<"user", m>> ELSE <<"assistant", m>>
      <4> HIDE DEF a
      <4>1. CASE i % 2 = 1
        <5>1. i - 2 * Len(s) = 1
          BY <3>1, <4>1
        <5> QED
          BY <3>3, <4>1, <5>1, TurnParts
      <4>2. CASE i % 2 = 0
        <5>1. i - 2 * Len(s) = 2
          BY <3>1, <4>2
        <5> QED
          BY <3>3, <4>2, <5>1, TurnParts
      <4> QED
        BY <2>1, <4>1, <4>2
    <3> QED
      BY <3>4, <3>5
  <2>5. i <= 2 * Len(s) \/ i > 2 * Len(s)
    BY <1>1, <2>0
  <2> QED
    BY <2>3, <2>4, <2>5
<1> HIDE DEF a, b
<1>4. a = b
  BY <1>1, <1>2, <1>3
<1> QED
  BY <1>4 DEF a, b

LEMMA AllOf ==
  ASSUME NEW S, NEW s \in Seq(S), NEW n \in Nat, Len(s) <= n
  PROVE  LastOf(s, n) = s
<1>1. Len(s) \in Nat /\ ~(Len(s) > n)
  OBVIOUS
<1>2. LastOf(s, n) = SubSeq(s, 1, Len(s))
  BY <1>1 DEF LastOf
<1> QED
  BY <1>2

LEMMA EndOf ==
  ASSUME NEW S, NEW s \in Seq(S), NEW n \in Nat, Len(s) > n
  PROVE  /\ LastOf(s, n) \in Seq(S) /\ Len(LastOf(s, n)) = n
         /\ \A i \in 1..n : LastOf(s, n)[i] = s[Len(s) - n + i]
<1> DEFINE k == Len(s) - n
<1>1. Len(s) \in Nat /\ k \in Nat /\ k + n = Len(s)
  OBVIOUS
<1>2. LastOf(s, n) = SubSeq(s, k + 1, Len(s))
  BY DEF LastOf
<1> HIDE DEF k
<1>3. /\ SubSeq(s, k + 1, Len(s)) \in Seq(S)
      /\ Len(SubSeq(s, k + 1, Len(s))) = n
      /\ \A i \in 1..n : SubSeq(s, k + 1, Len(s))[i] = s[k + i]
  BY <1>1
<1> QED
  BY <1>2, <1>3 DEF k

LEMMA TurnsLast ==
  ASSUME NEW M, NEW s \in Seq(M), NEW h \in Nat
  PROVE  LastOf(Turns(s), 2 * h) = Turns(LastOf(s, h))
<1>1. Len(s) \in Nat /\ Turns(s) \in Seq({"user", "assistant"} \X M) /\ Len(Turns(s)) = 2 * Len(s)
  <2>1. Turns(s) \in Seq({"user", "assistant"} \X M)
    BY TurnsTyped
  <2>2. Len(Turns(s)) = 2 * Len(s)
    BY TurnsEntries
  <2> QED
    BY <2>1, <2>2
<1>2. CASE Len(s) <= h
  <2>1. LastOf(s, h) = s
    BY <1>1, <1>2, AllOf
  <2>2. LastOf(Turns(s), 2 * h) = Turns(s)
    <3>1. Len(Turns(s)) <= 2 * h /\ 2 * h \in Nat
      BY <1>1, <1>2
    <3> QED
      BY <1>1, <3>1, AllOf
  <2> QED
    BY <2>1, <2>2
<1>3. CASE Len(s) > h
  <2> DEFINE n == Len(s) - h
             r == LastOf(s, h)
             b == LastOf(Turns(s), 2 * h)
  <2>1. n \in Nat /\ n + h = Len(s)
    BY <1>1, <1>3
  <2>2. 2 * h \in Nat /\ Len(Turns(s)) > 2 * h /\ Len(Turns(s)) - 2 * h = 2 * n
    BY <1>1, <1>3
  <2>3. /\ r \in Seq(M) /\ Len(r) = h /\ \A i \in 1..h : r[i] = s[n + i]
    BY <1>3, EndOf
  <2>4. /\ b \in Seq({"user", "assistant"} \X M) /\ Len(b) = 2 * h
        /\ \A i \in 1..(2 * h) : b[i] = Turns(s)[2 * n + i]
    <3> DEFINE t == Turns(s)
               g == 2 * h
               E == {"user", "assistant"} \X M
    <3>1. t \in Seq(E) /\ g \in Nat /\ Len(t) > g /\ b = LastOf(t, g) /\ Len(t) - g = 2 * n
      BY <1>1, <2>2
    <3> HIDE DEF t, g, E, b, n
    <3>2. b \in Seq(E) /\ Len(b) = g /\ \A i \in 1..g : b[i] = t[Len(t) - g + i]
      BY <3>1, EndOf
    <3>3. b \in Seq(E) /\ Len(b) = g /\ \A i \in 1..g : b[i] = t[2 * n + i]
      BY <3>1, <3>2
    <3> QED
      BY <3>3 DEF t, g, E
  <2> HIDE DEF n, r, b
  <2>5. ASSUME NEW i \in 1..(2 * h)
        PROVE  b[i] = Turns(r)[i]
    <3>1. i \in Nat /\ i >= 1 /\ 2 * n + i \in 1..(2 * Len(s)) /\ 2 * n + i \in Nat
      BY <1>1, <2>1
    <3>2. (i + 1) \div 2 \in 1..h
      BY <2>3, TurnsEntries
    <3>3. (2 * n + i + 1) \div 2 = n + ((i + 1) \div 2) /\ (2 * n + i) % 2 = i % 2
      BY <2>1, <3>1, HalfShift
    <3>4. s[(2 * n + i + 1) \div 2] = r[(i + 1) \div 2]
      BY <2>3, <3>2, <3>3
    <3>5. /\ i % 2 = 1 => b[i] = <<"user", r[(i + 1) \div 2]>>
          /\ i % 2 = 0 => b[i] = <<"assistant", r[(i + 1) \div 2]>>
      <4>1. /\ (2 * n + i) % 2 = 1
                 => Turns(s)[2 * n + i] = <<"user", s[(2 * n + i + 1) \div 2]>>
            /\ (2 * n + i) % 2 = 0
                 => Turns(s)[2 * n + i] = <<"assistant", s[(2 * n + i + 1) \div 2]>>
        BY <3>1, TurnsEntries
      <4> QED
        BY <2>4, <3>3, <3>4, <4>1
    <3>6. /\ i % 2 = 1 => Turns(r)[i] = <<"user", r[(i + 1) \div 2]>>
          /\ i % 2 = 0 => Turns(r)[i] = <<"assistant", r[(i + 1) \div 2]>>
      BY <2>3, TurnsEntries
    <3> QED
      BY <3>1, <3>5, <3>6, Halves
  <2>6. Turns(r) \in Seq({"user", "assistant"} \X M) /\ Len(Turns(r)) = 2 * h
    BY <2>3, TurnsTyped, TurnsEntries
  <2>7. b = Turns(r)
    BY <2>4, <2>5, <2>6
  <2> QED
    BY <2>7 DEF r, b
<1> QED
  BY <1>1, <1>2, <1>3

LEMMA TurnsAreWhole ==
  ASSUME NEW M, NEW s \in Seq(M)
  PROVE  WholeTurns(Turns(s))
<1>1. Len(s) \in Nat /\ Len(Turns(s)) = 2 * Len(s) /\ (2 * Len(s)) % 2 = 0
  BY TurnsEntries
<1>2. ASSUME NEW i \in 1..(2 * Len(s)), i % 2 = 1
      PROVE  Turns(s)[i][1] = "user" /\ Turns(s)[i + 1] = <<"assistant", Turns(s)[i][2]>>
  <2>1. Turns(s)[i] = <<"user", s[(i + 1) \div 2]>>
    BY <1>2, TurnsEntries
  <2>2. i + 1 \in 1..(2 * Len(s)) /\ (i + 1) % 2 = 0 /\ (i + 1 + 1) \div 2 = (i + 1) \div 2
    BY <1>1, <1>2
  <2>3. Turns(s)[i + 1] = <<"assistant", s[(i + 1) \div 2]>>
    BY <2>2, TurnsEntries
  <2> QED
    BY <2>1, <2>3
<1> QED
  BY <1>1, <1>2 DEF WholeTurns
(* A delivery that is being handled; one that asks the model has asked     *)
(* with whole turns.                                                       *)
IsDelivery(r, time) ==
  /\ r = [at |-> r.at, message |-> r.message, now |-> r.now, asked |-> r.asked]
  /\ r.at \in {"delivered", "marking", "handling", "asking"}
  /\ r.message \in Messages
  /\ r.now \in 0..time
  /\ Len(r.asked) \in 0..MaxMessages
  /\ r.at = "asking" => r.message \notin ResetMessages /\ WholeTurns(r.asked)

IsGoroutine(r, time) == r = Idle \/ IsDelivery(r, time)

(* The mark of a message that was handled is as old as its handling, or it *)
(* was dropped when it was too old.                                        *)
MarkOf(m) ==
  handled[m] # Never =>
    \/ seen[m] = handled[m]
    \/ seen[m] = Never /\ clock - handled[m] > TTL

Times == {Never} \cup 0..clock

MessagesInv ==
  /\ clock \in 0..MaxTime
  /\ seen \in [Messages -> Times] /\ handled \in [Messages -> Times]
  /\ DOMAIN goroutine = Goroutines
  /\ \A g \in Goroutines : IsGoroutine(goroutine[g], clock)
  /\ \A m \in Messages : MarkOf(m)
  /\ completed \in Seq(Messages \ ResetMessages)
  /\ Len(completed) <= MaxMessages \div 2
  /\ session = Turns(completed)

LEMMA HalfOfMax ==
  /\ MaxMessages \div 2 \in Nat /\ MaxMessages = 2 * (MaxMessages \div 2)
BY MessageBounds

LEMMA DeliveryFields ==
  ASSUME NEW r, NEW a, NEW m, NEW t, NEW s,
         r = [at |-> a, message |-> m, now |-> t, asked |-> s]
  PROVE  /\ r.at = a /\ r.message = m /\ r.now = t /\ r.asked = s
         /\ r = [at |-> r.at, message |-> r.message, now |-> r.now, asked |-> r.asked]
OBVIOUS

LEMMA ClockRead ==
  ASSUME NEW p, p = [at |-> p.at, message |-> p.message, now |-> p.now, asked |-> p.asked],
         NEW a, NEW t, NEW q, q = [p EXCEPT !.at = a, !.now = t]
  PROVE  q = [at |-> a, message |-> p.message, now |-> t, asked |-> p.asked]
OBVIOUS

LEMMA ModelAsked ==
  ASSUME NEW p, p = [at |-> p.at, message |-> p.message, now |-> p.now, asked |-> p.asked],
         NEW a, NEW s, NEW q, q = [p EXCEPT !.at = a, !.asked = s]
  PROVE  q = [at |-> a, message |-> p.message, now |-> p.now, asked |-> s]
OBVIOUS

LEMMA NotIdle ==
  ASSUME NEW r, NEW time, IsGoroutine(r, time), r.at # "idle"
  PROVE  IsDelivery(r, time)
BY DEF IsGoroutine, Idle

LEMMA NoTurns == Turns(<<>>) = <<>>
<1>1. <<>> \in Seq({})
  OBVIOUS
<1>2. Len(Turns(<<>>)) = 2 * Len(<<>>)
  BY <1>1, TurnsEntries
<1>3. Turns(<<>>) \in Seq({"user", "assistant"} \X {})
  BY <1>1, TurnsTyped
<1> QED
  BY <1>2, <1>3

LEMMA MessagesInvInit == MessagesInit => MessagesInv
<1> SUFFICES ASSUME MessagesInit PROVE MessagesInv
  OBVIOUS
<1>1. clock = 0 /\ 0 \in 0..MaxTime /\ Never \in Times
  BY MessageBounds DEF MessagesInit, Times
<1>2. /\ seen = [m \in Messages |-> Never] /\ handled = [m \in Messages |-> Never]
  BY DEF MessagesInit
<1>3. seen \in [Messages -> Times] /\ handled \in [Messages -> Times]
  BY <1>1, <1>2
<1>4. \A m \in Messages : MarkOf(m)
  BY <1>2 DEF MarkOf
<1>5. DOMAIN goroutine = Goroutines /\ \A g \in Goroutines : IsGoroutine(goroutine[g], clock)
  BY DEF MessagesInit, IsGoroutine
<1>6. completed \in Seq(Messages \ ResetMessages) /\ Len(completed) = 0 /\ session = Turns(completed)
  BY NoTurns DEF MessagesInit
<1> QED
  BY <1>1, <1>3, <1>4, <1>5, <1>6, HalfOfMax DEF MessagesInv

(* Where the goroutines are after a step of one of them.                   *)
LEMMA GoroutineStep ==
  ASSUME MessagesInv, NEW g \in Goroutines, NEW r,
         goroutine' = [h \in Goroutines |-> IF h = g THEN r ELSE goroutine[h]],
         IsGoroutine(r, clock), clock' = clock
  PROVE  DOMAIN goroutine' = Goroutines /\ \A h \in Goroutines : IsGoroutine(goroutine'[h], clock')
<1>1. DOMAIN goroutine' = Goroutines
  BY Zenon
<1>2. \A h \in Goroutines : goroutine'[h] = r \/ goroutine'[h] = goroutine[h]
  OBVIOUS
<1> QED
  BY <1>1, <1>2 DEF MessagesInv

(* A step that neither marks a message nor changes the conversation.       *)
LEMMA OnlyGoroutine ==
  ASSUME MessagesInv, NEW g \in Goroutines, NEW r,
         goroutine' = [h \in Goroutines |-> IF h = g THEN r ELSE goroutine[h]],
         IsGoroutine(r, clock), UNCHANGED <<clock, seen, session, handled, completed>>
  PROVE  MessagesInv'
<1>1. DOMAIN goroutine' = Goroutines /\ \A h \in Goroutines : IsGoroutine(goroutine'[h], clock')
  BY GoroutineStep
<1> QED
  BY <1>1 DEF MessagesInv, MarkOf, Times

LEMMA ClockStep ==
  ASSUME MessagesInv, ClockTicks
  PROVE  MessagesInv'
<1>1. /\ clock' = clock + 1 /\ clock < MaxTime /\ clock \in Nat
      /\ UNCHANGED <<seen, goroutine, session, handled, completed>>
  BY MessageBounds DEF ClockTicks, MessagesInv
<1>2. clock' \in 0..MaxTime /\ 0..clock \subseteq 0..clock' /\ TTL \in Nat
  BY <1>1, MessageBounds
<1>3. Times \subseteq Times'
  BY <1>2 DEF Times
<1>4. seen' \in [Messages -> Times'] /\ handled' \in [Messages -> Times']
  BY <1>1, <1>3 DEF MessagesInv
<1>5. ASSUME NEW h \in Goroutines PROVE IsGoroutine(goroutine'[h], clock')
  <2>1. IsGoroutine(goroutine[h], clock)
    BY DEF MessagesInv
  <2> QED
    BY <1>1, <1>2, <2>1 DEF IsGoroutine, IsDelivery
<1>6. ASSUME NEW m \in Messages PROVE MarkOf(m)'
  <2>1. MarkOf(m) /\ handled[m] \in Times
    BY DEF MessagesInv
  <2>2. handled[m] # Never => (clock - handled[m] > TTL => clock' - handled[m] > TTL)
    BY <1>1, <1>2, <2>1 DEF Times
  <2> QED
    BY <1>1, <2>1, <2>2 DEF MarkOf
<1> QED
  BY <1>1, <1>2, <1>4, <1>5, <1>6 DEF MessagesInv

LEMMA RestartStep ==
  ASSUME MessagesInv, ProcessRestarts
  PROVE  MessagesInv'
<1>1. clock' = clock /\ Never \in Times
  BY DEF ProcessRestarts, Times
<1>2. seen' = [m \in Messages |-> Never] /\ handled' = [m \in Messages |-> Never]
  BY DEF ProcessRestarts
<1>3. seen' \in [Messages -> Times] /\ handled' \in [Messages -> Times]
  BY <1>1, <1>2
<1>4. \A m \in Messages : MarkOf(m)'
  BY <1>2 DEF MarkOf
<1>5. DOMAIN goroutine' = Goroutines /\ \A g \in Goroutines : IsGoroutine(goroutine'[g], clock')
  BY DEF ProcessRestarts, IsGoroutine
<1>6. completed' \in Seq(Messages \ ResetMessages) /\ Len(completed') = 0
      /\ session' = Turns(completed')
  BY NoTurns DEF ProcessRestarts
<1> QED
  BY <1>1, <1>3, <1>4, <1>5, <1>6, HalfOfMax DEF MessagesInv, Times

(* A delivery is handled only if its message was never marked or its mark  *)
(* is too old, and a mark is as old as the handling.                       *)
LEMMA MarkStep ==
  ASSUME MessagesInv, NEW g \in Goroutines, MarkIfNew(g)
  PROVE  /\ MessagesInv'
         /\ goroutine'[g].at = "handling" /\ handled[goroutine[g].message] # Never
              => clock - handled[goroutine[g].message] > TTL
         /\ \A h \in Goroutines \ {g} : goroutine'[h] = goroutine[h]
<1> DEFINE now == goroutine[g].now
           m == goroutine[g].message
           marks == Pruned(now)
<1>1. IsDelivery(goroutine[g], clock)
  BY NotIdle DEF MarkIfNew, MessagesInv
<1>2. now \in 0..clock /\ m \in Messages /\ clock \in Nat /\ TTL \in Nat
  BY <1>1, MessageBounds DEF IsDelivery, MessagesInv
<1>3. /\ DOMAIN goroutine = Goroutines
      /\ seen \in [Messages -> Times] /\ handled \in [Messages -> Times]
  BY DEF MessagesInv
<1>4. /\ marks \in [Messages -> Times]
      /\ \A n \in Messages :
           \/ marks[n] = seen[n]
           \/ marks[n] = Never /\ now - seen[n] > TTL /\ seen[n] # Never
  BY <1>3 DEF Pruned, Times
<1>5. UNCHANGED <<clock, session, completed>>
  BY DEF MarkIfNew
<1>6. \A n \in Messages : handled[n] # Never =>
        \/ marks[n] = handled[n]
        \/ marks[n] = Never /\ clock - handled[n] > TTL
  <2> SUFFICES ASSUME NEW n \in Messages, handled[n] # Never
               PROVE  \/ marks[n] = handled[n]
                      \/ marks[n] = Never /\ clock - handled[n] > TTL
    OBVIOUS
  <2> HIDE DEF now, marks
  <2>1. \/ seen[n] = handled[n]
        \/ seen[n] = Never /\ clock - handled[n] > TTL
    BY DEF MessagesInv, MarkOf
  <2>2. seen[n] \in Times /\ handled[n] \in 0..clock
    BY <1>3 DEF Times
  <2>3. seen[n] # Never /\ now - seen[n] > TTL => clock - seen[n] > TTL
    BY <1>2, <2>2 DEF Times
  <2> QED
    BY <1>4, <2>1, <2>3
<1>7. \/ /\ marks[m] # Never /\ seen' = marks
         /\ goroutine' = [goroutine EXCEPT ![g] = Idle] /\ handled' = handled
      \/ /\ marks[m] = Never /\ seen' = [marks EXCEPT ![m] = now]
         /\ handled' = [handled EXCEPT ![m] = now]
         /\ goroutine' = [goroutine EXCEPT ![g].at = "handling"]
  BY DEF MarkIfNew
<1> DEFINE r == IF marks[m] # Never THEN Idle ELSE [goroutine[g] EXCEPT !.at = "handling"]
<1>8. goroutine' = [h \in Goroutines |-> IF h = g THEN r ELSE goroutine[h]]
  BY <1>3, <1>7
<1> HIDE DEF now, marks
<1>9. /\ IsGoroutine(r, clock)
      /\ marks[m] # Never => r.at = "idle"
  <2>1. CASE marks[m] # Never
    BY <2>1 DEF IsGoroutine, Idle
  <2>2. CASE marks[m] = Never
    <3> DEFINE p == goroutine[g]
    <3>1. IsDelivery(p, clock) /\ r = [p EXCEPT !.at = "handling"]
      BY <1>1, <2>2
    <3> HIDE DEF p, r
    <3>2. r = [at |-> "handling", message |-> p.message, now |-> p.now, asked |-> p.asked]
      BY <3>1 DEF IsDelivery
    <3>3. /\ r.at = "handling" /\ r.message = p.message /\ r.now = p.now /\ r.asked = p.asked
          /\ r = [at |-> r.at, message |-> r.message, now |-> r.now, asked |-> r.asked]
      BY <3>2, DeliveryFields
    <3> QED
      BY <2>2, <3>1, <3>3 DEF IsDelivery, IsGoroutine
  <2> QED
    BY <2>1, <2>2
<1> HIDE DEF r
<1>10. DOMAIN goroutine' = Goroutines /\ \A h \in Goroutines : IsGoroutine(goroutine'[h], clock')
  BY <1>5, <1>8, <1>9, GoroutineStep
<1>11. goroutine'[g] = r /\ \A h \in Goroutines \ {g} : goroutine'[h] = goroutine[h]
  BY <1>8
<1>12. /\ seen' \in [Messages -> Times] /\ handled' \in [Messages -> Times]
       /\ \A n \in Messages : handled'[n] # Never =>
            \/ seen'[n] = handled'[n]
            \/ seen'[n] = Never /\ clock - handled'[n] > TTL
  <2>1. CASE marks[m] # Never
    BY <1>3, <1>4, <1>6, <1>7, <2>1
  <2>2. CASE marks[m] = Never
    <3>1. now \in Times
      BY <1>2 DEF Times
    <3> QED
      BY <1>2, <1>3, <1>4, <1>6, <1>7, <2>2, <3>1
  <2> QED
    BY <2>1, <2>2
<1>13. MessagesInv'
  <2>1. \A n \in Messages : MarkOf(n)'
    BY <1>5, <1>12 DEF MarkOf
  <2>2. Times' = Times
    BY <1>5 DEF Times
  <2> QED
    BY <1>5, <1>10, <1>12, <2>1, <2>2 DEF MessagesInv
<1>14. ASSUME goroutine'[g].at = "handling", handled[m] # Never
       PROVE  clock - handled[m] > TTL
  <2>1. marks[m] = Never
    BY <1>9, <1>11, <1>14
  <2> QED
    BY <1>2, <1>6, <1>14, <2>1
<1> QED
  BY <1>11, <1>13, <1>14

(* The steps that leave marks and conversation alone.                      *)
QuietStep(g) ==
  (\E m \in Messages : Deliver(g, m)) \/ ReadClock(g) \/ AskModel(g) \/ ModelFails(g)

LEMMA QuietSteps ==
  ASSUME MessagesInv, NEW g \in Goroutines, QuietStep(g)
  PROVE  /\ MessagesInv' /\ handled' = handled
         /\ goroutine[g].at = "marking" => goroutine'[g].at # "handling"
         /\ \A h \in Goroutines \ {g} : goroutine'[h] = goroutine[h]
<1>1. /\ UNCHANGED <<clock, seen, session, handled, completed>>
      /\ DOMAIN goroutine = Goroutines /\ clock \in Nat /\ MaxMessages \in Nat
      /\ IsGoroutine(goroutine[g], clock)
  BY MessageBounds DEF QuietStep, Deliver, ReadClock, AskModel, ModelFails, MessagesInv
<1>2. SUFFICES ASSUME NEW r, IsGoroutine(r, clock),
                      goroutine' = [h \in Goroutines |-> IF h = g THEN r ELSE goroutine[h]],
                      goroutine[g].at = "marking" => r.at # "handling"
               PROVE  /\ MessagesInv' /\ handled' = handled
                      /\ goroutine[g].at = "marking" => goroutine'[g].at # "handling"
                      /\ \A h \in Goroutines \ {g} : goroutine'[h] = goroutine[h]
  <2>1. ASSUME NEW m \in Messages, Deliver(g, m)
        PROVE  \E r : /\ IsGoroutine(r, clock)
                      /\ goroutine' = [h \in Goroutines |-> IF h = g THEN r ELSE goroutine[h]]
                      /\ goroutine[g].at = "marking" => r.at # "handling"
    <3> DEFINE r == [at |-> "delivered", message |-> m, now |-> 0, asked |-> <<>>]
    <3>1. goroutine' = [h \in Goroutines |-> IF h = g THEN r ELSE goroutine[h]]
      BY <1>1, <2>1 DEF Deliver
    <3>2. Len(<<>>) \in 0..MaxMessages /\ 0 \in 0..clock
      BY <1>1
    <3>3. IsDelivery(r, clock) /\ r.at = "delivered"
      BY <3>2 DEF IsDelivery
    <3> HIDE DEF r
    <3> QED
      BY <3>1, <3>3 DEF IsGoroutine
  <2>2. ASSUME ReadClock(g)
        PROVE  \E r : /\ IsGoroutine(r, clock)
                      /\ goroutine' = [h \in Goroutines |-> IF h = g THEN r ELSE goroutine[h]]
                      /\ goroutine[g].at = "marking" => r.at # "handling"
    <3> DEFINE p == goroutine[g]
               r == [p EXCEPT !.at = "marking", !.now = clock]
    <3>1. goroutine' = [h \in Goroutines |-> IF h = g THEN r ELSE goroutine[h]]
      BY <1>1, <2>2 DEF ReadClock
    <3>2. IsDelivery(p, clock)
      BY <1>1, <2>2, NotIdle DEF ReadClock
    <3> HIDE DEF p
    <3>2a. r = [p EXCEPT !.at = "marking", !.now = clock]
      OBVIOUS
    <3> HIDE DEF r
    <3>2b. p = [at |-> p.at, message |-> p.message, now |-> p.now, asked |-> p.asked]
      BY <3>2 DEF IsDelivery
    <3>3. r = [at |-> "marking", message |-> p.message, now |-> clock, asked |-> p.asked]
      BY <3>2a, <3>2b, ClockRead
    <3>4. /\ r.at = "marking" /\ r.message = p.message /\ r.now = clock /\ r.asked = p.asked
          /\ r = [at |-> r.at, message |-> r.message, now |-> r.now, asked |-> r.asked]
      BY <3>3, DeliveryFields
    <3>5. IsDelivery(r, clock) /\ r.at # "handling"
      BY <1>1, <3>2, <3>4 DEF IsDelivery
    <3> QED
      BY <3>1, <3>5 DEF IsGoroutine
  <2>3. ASSUME AskModel(g)
        PROVE  \E r : /\ IsGoroutine(r, clock)
                      /\ goroutine' = [h \in Goroutines |-> IF h = g THEN r ELSE goroutine[h]]
                      /\ goroutine[g].at = "marking" => r.at # "handling"
    <3> DEFINE p == goroutine[g]
               r == [p EXCEPT !.at = "asking", !.asked = session]
    <3>1. goroutine' = [h \in Goroutines |-> IF h = g THEN r ELSE goroutine[h]]
      BY <1>1, <2>3 DEF AskModel
    <3>2. IsDelivery(p, clock) /\ p.message \notin ResetMessages
      BY <1>1, <2>3, NotIdle DEF AskModel
    <3> HIDE DEF p
    <3>2a. r = [p EXCEPT !.at = "asking", !.asked = session]
      OBVIOUS
    <3> HIDE DEF r
    <3>2b. p = [at |-> p.at, message |-> p.message, now |-> p.now, asked |-> p.asked]
      BY <3>2 DEF IsDelivery
    <3>3. r = [at |-> "asking", message |-> p.message, now |-> p.now, asked |-> session]
      BY <3>2a, <3>2b, ModelAsked
    <3>4. /\ r.at = "asking" /\ r.message = p.message /\ r.now = p.now /\ r.asked = session
          /\ r = [at |-> r.at, message |-> r.message, now |-> r.now, asked |-> r.asked]
      BY <3>3, DeliveryFields
    <3>5. WholeTurns(session) /\ Len(session) \in 0..MaxMessages
      <4>1. /\ completed \in Seq(Messages \ ResetMessages) /\ session = Turns(completed)
            /\ Len(completed) <= MaxMessages \div 2 /\ Len(completed) \in Nat
        BY DEF MessagesInv
      <4>2. Len(session) = 2 * Len(completed)
        BY <4>1, TurnsEntries
      <4>3. Len(session) \in 0..MaxMessages
        BY <4>1, <4>2, HalfOfMax
      <4> QED
        BY <4>1, <4>3, TurnsAreWhole
    <3>6. IsDelivery(r, clock) /\ r.at # "handling"
      BY <3>2, <3>4, <3>5 DEF IsDelivery
    <3> QED
      BY <3>1, <3>6 DEF IsGoroutine
  <2>4. ASSUME ModelFails(g)
        PROVE  \E r : /\ IsGoroutine(r, clock)
                      /\ goroutine' = [h \in Goroutines |-> IF h = g THEN r ELSE goroutine[h]]
                      /\ goroutine[g].at = "marking" => r.at # "handling"
    <3>1. goroutine' = [h \in Goroutines |-> IF h = g THEN Idle ELSE goroutine[h]]
      BY <1>1, <2>4 DEF ModelFails
    <3>2. IsGoroutine(Idle, clock) /\ Idle.at # "handling"
      BY DEF IsGoroutine, Idle
    <3> QED
      BY <3>1, <3>2
  <2>5. PICK r : /\ IsGoroutine(r, clock)
                 /\ goroutine' = [h \in Goroutines |-> IF h = g THEN r ELSE goroutine[h]]
                 /\ goroutine[g].at = "marking" => r.at # "handling"
    BY <2>1, <2>2, <2>3, <2>4 DEF QuietStep
  <2> QED
    BY <1>2, <2>5
<1>3. MessagesInv'
  BY <1>1, <1>2, OnlyGoroutine
<1>4. goroutine'[g] = r /\ \A h \in Goroutines \ {g} : goroutine'[h] = goroutine[h]
  BY <1>2
<1> QED
  BY <1>1, <1>2, <1>3, <1>4

(* A turn is completed, or the conversation is emptied.                    *)
LEMMA ConversationStep ==
  ASSUME MessagesInv, NEW g \in Goroutines, ModelAnswers(g) \/ ResetSession(g)
  PROVE  /\ MessagesInv' /\ handled' = handled /\ goroutine[g].at # "marking"
         /\ \A h \in Goroutines \ {g} : goroutine'[h] = goroutine[h]
<1>1. /\ UNCHANGED <<clock, seen, handled>> /\ goroutine[g].at # "marking"
      /\ goroutine' = [goroutine EXCEPT ![g] = Idle]
      /\ DOMAIN goroutine = Goroutines
  BY DEF ModelAnswers, ResetSession, MessagesInv
<1>2. goroutine' = [h \in Goroutines |-> IF h = g THEN Idle ELSE goroutine[h]]
  BY <1>1
<1>3. IsGoroutine(Idle, clock)
  BY DEF IsGoroutine
<1>4. DOMAIN goroutine' = Goroutines /\ \A h \in Goroutines : IsGoroutine(goroutine'[h], clock')
  BY <1>1, <1>2, <1>3, GoroutineStep
<1>5. /\ completed' \in Seq(Messages \ ResetMessages)
      /\ Len(completed') <= MaxMessages \div 2
      /\ session' = Turns(completed')
  <2> DEFINE M == Messages \ ResetMessages
             h == MaxMessages \div 2
             m == goroutine[g].message
  <2>0. h \in Nat /\ MaxMessages = 2 * h
    BY HalfOfMax
  <2>1. CASE ResetSession(g)
    <3>1. completed' = <<>> /\ session' = <<>>
      BY <2>1 DEF ResetSession
    <3> QED
      BY <2>0, <3>1, NoTurns
  <2>2. CASE ModelAnswers(g)
    <3>1. IsGoroutine(goroutine[g], clock) /\ goroutine[g].at = "asking"
      BY <2>2 DEF ModelAnswers, MessagesInv
    <3>2. m \in M
      BY <3>1, NotIdle DEF IsDelivery
    <3>3. session' = LastOf(session \o Turn(m), MaxMessages)
          /\ completed' = LastOf(Append(completed, m), h)
      BY <2>2 DEF ModelAnswers, AppendTurn
    <3>4. session = Turns(completed) /\ completed \in Seq(M)
      BY DEF MessagesInv
    <3> DEFINE c == Append(completed, m)
    <3> HIDE DEF M, h, m
    <3>5. c \in Seq(M)
      BY <3>2, <3>4
    <3>6. session \o Turn(m) = Turns(c)
      BY <3>2, <3>4, TurnsAppend
    <3> HIDE DEF c
    <3>7. session' = Turns(LastOf(c, h)) /\ completed' = LastOf(c, h)
      BY <2>0, <3>3, <3>5, <3>6, TurnsLast DEF c
    <3>8. LastOf(c, h) \in Seq(M) /\ Len(LastOf(c, h)) <= h
      <4>1. CASE Len(c) > h
        BY <2>0, <3>5, <4>1, EndOf
      <4>2. CASE Len(c) <= h
        BY <2>0, <3>5, <4>2, AllOf
      <4>3. Len(c) \in Nat
        BY <3>5
      <4> QED
        BY <2>0, <4>1, <4>2, <4>3
    <3> QED
      BY <3>7, <3>8 DEF M, h
  <2> QED
    BY <2>1, <2>2
<1>6. MessagesInv'
  BY <1>1, <1>4, <1>5 DEF MessagesInv, MarkOf, Times
<1> QED
  BY <1>1, <1>2, <1>6

LEMMA MessagesInvStep ==
  ASSUME MessagesInv, [MessagesNext]_messageVars
  PROVE  MessagesInv'
<1>1. CASE UNCHANGED messageVars
  BY <1>1 DEF messageVars, MessagesInv, MarkOf, Times
<1>2. ASSUME NEW g \in Goroutines, HandlingMessage(g) \/ \E m \in Messages : Deliver(g, m)
      PROVE  MessagesInv'
  <2>1. CASE QuietStep(g)
    BY <2>1, QuietSteps
  <2>2. CASE MarkIfNew(g)
    BY <2>2, MarkStep
  <2>3. CASE ModelAnswers(g) \/ ResetSession(g)
    BY <2>3, ConversationStep
  <2> QED
    BY <1>2, <2>1, <2>2, <2>3 DEF HandlingMessage, QuietStep
<1> QED
  BY <1>1, <1>2, ClockStep, RestartStep DEF MessagesNext

LEMMA HandledIsLate ==
  ASSUME MessagesInv, [MessagesNext]_messageVars, NEW m \in Messages, NEW g \in Goroutines,
         handled[m] # Never, goroutine[g].at = "marking", goroutine[g].message = m,
         goroutine'[g].at = "handling"
  PROVE  clock - handled[m] > TTL
<1>1. ~UNCHANGED goroutine
  OBVIOUS
<1>2. ~ProcessRestarts
  BY DEF ProcessRestarts, Idle
<1>3. PICK h \in Goroutines : HandlingMessage(h) \/ \E n \in Messages : Deliver(h, n)
  BY <1>1, <1>2 DEF MessagesNext, messageVars, ClockTicks
<1>4. CASE QuietStep(h)
  BY <1>4, QuietSteps
<1>5. CASE ModelAnswers(h) \/ ResetSession(h)
  BY <1>5, ConversationStep
<1>6. CASE MarkIfNew(h)
  BY <1>6, MarkStep
<1> QED
  BY <1>3, <1>4, <1>5, <1>6 DEF HandlingMessage, QuietStep

LEMMA MessagesInvIsSafe == MessagesInv => NoTurnIsLost /\ AskedWholeTurns
<1> SUFFICES ASSUME MessagesInv PROVE NoTurnIsLost /\ AskedWholeTurns
  OBVIOUS
<1>1. NoTurnIsLost
  BY DEF NoTurnIsLost, MessagesInv
<1>2. ASSUME NEW g \in Goroutines, goroutine[g].at = "asking"
      PROVE  WholeTurns(goroutine[g].asked)
  <2>1. IsGoroutine(goroutine[g], clock) /\ goroutine[g].at # "idle"
    BY <1>2 DEF MessagesInv
  <2> QED
    BY <1>2, <2>1, NotIdle DEF IsDelivery
<1> QED
  BY <1>1, <1>2 DEF AskedWholeTurns, WholeTurns

(* A message is handled again only after TTL, the conversation is made of  *)
(* the turns completed last, and the model is asked with whole turns: for  *)
(* every number of messages and goroutines, every TTL and every length.    *)
THEOREM MessagesAreSafe == MessagesSpec => MessagesSafety
<1>1. MessagesInv /\ [MessagesNext]_messageVars
        => [\A m \in Messages :
              (handled[m] # Never /\ \E g \in Goroutines :
                 goroutine[g].at = "marking" /\ goroutine[g].message = m
                   /\ goroutine'[g].at = "handling")
                => clock - handled[m] > TTL]_messageVars
  BY HandledIsLate
<1> QED
  BY <1>1, MessagesInvInit, MessagesInvStep, MessagesInvIsSafe, PTL
  DEF MessagesSpec, MessagesSafety, HandledAgainIsLate

-----------------------------------------------------------------------------
(* Requests, commands and cards.                                           *)

Requests == WebRequests \cup MessageRequests \cup CardRequests
Operations == TaskChanges \cup Reads

(* The changes among the calls that are still to be made.                  *)
Ahead(ops) == TaskChanges \cap {ops[i] : i \in DOMAIN ops}

(* No more than one of the calls is a change.                              *)
OneChange(ops) ==
  \A i, j \in DOMAIN ops : ops[i] \in TaskChanges /\ ops[j] \in TaskChanges => i = j

(* What a handler makes of a request: an answer at once, which is "done"   *)
(* only where no change was asked for, or one call or two of the service,  *)
(* with the change that was asked for among them, and that one allowed.    *)
MakesAnswer(r, h) ==
  \E a \in {"usage", "denied", "ignored", "done"} :
    h = Reply(a) /\ (a = "done" => Asked(r) = {})
MakesCalls(r, h) ==
  \E ops \in Seq(Operations) :
    /\ h = Call(ops) /\ ops # <<>>
    /\ Ahead(ops) = Asked(r) /\ OneChange(ops)
    /\ \A op \in Ahead(ops) : MayChange(r, op)

LEMMA OneCall ==
  ASSUME NEW r, NEW op \in Operations,
         Asked(r) = TaskChanges \cap {op}, op \in TaskChanges => MayChange(r, op)
  PROVE  MakesCalls(r, Call(<<op>>))
<1>1. <<op>> \in Seq(Operations) /\ <<op>> # <<>> /\ Ahead(<<op>>) = TaskChanges \cap {op}
  BY DEF Ahead
<1>2. OneChange(<<op>>)
  BY DEF OneChange
<1> QED
  BY <1>1, <1>2 DEF MakesCalls

LEMMA TwoCalls ==
  ASSUME NEW r, NEW op1 \in Operations, NEW op2 \in Operations,
         Asked(r) = TaskChanges \cap {op1, op2}, op1 \notin TaskChanges \/ op2 \notin TaskChanges,
         \A op \in Asked(r) : MayChange(r, op)
  PROVE  MakesCalls(r, Call(<<op1, op2>>))
<1>1. <<op1, op2>> \in Seq(Operations) /\ <<op1, op2>> # <<>>
      /\ Ahead(<<op1, op2>>) = TaskChanges \cap {op1, op2}
  BY DEF Ahead
<1>2. OneChange(<<op1, op2>>)
  BY DEF OneChange
<1> QED
  BY <1>1, <1>2 DEF MakesCalls

LEMMA WebMakes ==
  ASSUME NEW r \in WebRequests
  PROVE  MakesAnswer(r, Handle(r)) \/ MakesCalls(r, Handle(r))
<1>1. r.via = "web" /\ Handle(r) = ServeHTTP(r)
  BY DEF WebRequests, Handle
<1>2. r.session \in BOOLEAN /\ r.post \in BOOLEAN /\ r.text \in BOOLEAN
      /\ r.path \in Pages \cup {"tasks", "task"} /\ r.action \in WebActions \cup {"", "other"}
  BY DEF WebRequests
<1>3. CASE ~r.session
  BY <1>1, <1>3 DEF ServeHTTP, MakesAnswer
<1>4. CASE r.session /\ r.path = "task"
  <2>1. Handle(r) = TaskAction(r) /\ Asked(r) = WebActions \cap {r.action}
    BY <1>1, <1>4 DEF ServeHTTP, Asked
  <2>2. CASE r.action = "" /\ ~r.post
    <3>1. Handle(r) = Call(<<"detail">>)
      BY <2>1, <2>2 DEF TaskAction
    <3>2. Asked(r) = TaskChanges \cap {"detail"} /\ "detail" \in Operations
      BY <2>1, <2>2 DEF TaskChanges, WebActions, Operations, Reads
    <3> QED
      BY <3>1, <3>2, OneCall DEF TaskChanges
  <2>3. CASE r.action \in WebActions /\ r.post /\ (r.action \in {"reply", "reopen"} => r.text)
    <3>1. Handle(r) = Call(<<r.action>>)
      BY <2>1, <2>3 DEF TaskAction, WebActions
    <3>2. Asked(r) = TaskChanges \cap {r.action} /\ r.action \in Operations
      BY <2>1, <2>3 DEF TaskChanges, WebActions, Operations
    <3>3. MayChange(r, r.action)
      BY <1>1, <1>4, <2>3 DEF MayChange, WebActions
    <3> QED
      BY <3>1, <3>2, <3>3, OneCall
  <2>4. CASE /\ ~(r.action = "" /\ ~r.post)
             /\ ~(r.action \in WebActions /\ r.post /\ (r.action \in {"reply", "reopen"} => r.text))
    BY <1>2, <2>1, <2>4 DEF TaskAction, MakesAnswer, WebActions
  <2> QED
    BY <2>2, <2>3, <2>4
<1>5. CASE r.session /\ r.path = "tasks"
  <2>1. Handle(r) = (IF r.post /\ r.text THEN Call(<<"start">>) ELSE Reply("usage"))
    BY <1>1, <1>5 DEF ServeHTTP
  <2>2. Asked(r) = TaskChanges \cap {"start"} /\ "start" \in Operations
    BY <1>1, <1>5 DEF Asked, TaskChanges, Operations
  <2>3. r.post /\ r.text => MayChange(r, "start")
    BY <1>1, <1>5 DEF MayChange
  <2>4. CASE r.post /\ r.text
    BY <2>1, <2>2, <2>3, <2>4, OneCall
  <2>5. CASE ~(r.post /\ r.text)
    BY <2>1, <2>5 DEF MakesAnswer
  <2> QED
    BY <2>4, <2>5
<1>6. CASE r.session /\ r.path \in Pages
  <2>1. Asked(r) = {}
    BY <1>1, <1>6 DEF Asked, Pages
  <2>2. CASE r.path \in {"dashboard", "templates"}
    <3>1. Handle(r) = Call(<<r.path>>)
      BY <1>1, <1>6, <2>2 DEF ServeHTTP
    <3>2. r.path \in Operations /\ TaskChanges \cap {r.path} = {}
      BY <2>2 DEF Operations, Reads, TaskChanges
    <3> QED
      BY <2>1, <3>1, <3>2, OneCall
  <2>3. CASE r.path \notin {"dashboard", "templates"}
    <3>1. Handle(r) = Reply("done")
      BY <1>1, <1>6, <2>3 DEF ServeHTTP, Pages
    <3> QED
      BY <2>1, <3>1 DEF MakesAnswer
  <2> QED
    BY <2>2, <2>3
<1> QED
  BY <1>2, <1>3, <1>4, <1>5, <1>6

LEMMA MessageMakes ==
  ASSUME NEW r \in MessageRequests
  PROVE  MakesAnswer(r, Handle(r)) \/ MakesCalls(r, Handle(r))
<1>1. r.via = "message" /\ Handle(r) = HandleMessage(r)
  BY DEF MessageRequests, Handle
<1>2. /\ r.sender \in BOOLEAN /\ r.allowed \in BOOLEAN /\ r.mention \in BOOLEAN
      /\ r.chat \in {"direct", "group", "other"} /\ r.all \in BOOLEAN
      /\ r.command \in {"/task", "/tasks", "/other", "chat"} /\ r.words \in 1..5
      /\ r.verb \in {"start", "list", "status", "reply", "reopen", "stop", "delete", "other"}
      /\ r.all => r.words >= 3 /\ r.verb \in {"list", "delete"}
  BY DEF MessageRequests
<1>3. CASE ~Allowed(r)
  BY <1>1, <1>3 DEF HandleMessage, MakesAnswer
<1>4. CASE Allowed(r) /\ r.command # "/task"
  <2>1. Asked(r) = {}
    BY <1>1, <1>4 DEF Asked
  <2>2. Handle(r) = Reply("done") \/ Handle(r) = Reply("usage")
    BY <1>1, <1>4 DEF HandleMessage, TaskCommand
  <2> QED
    BY <2>1, <2>2 DEF MakesAnswer
<1>5. CASE Allowed(r) /\ r.command = "/task"
  <2>1. Handle(r) = TaskCommand(r)
    BY <1>1, <1>5 DEF HandleMessage
  <2>2. ASSUME NEW op, op \in {"reply", "reopen", "start"} => r.words >= 4
        PROVE  MayChange(r, op)
    <3>1. /\ r.sender
          /\ \/ r.chat = "direct"
             \/ r.chat = "group" /\ r.allowed /\ (r.mention \/ ~RequireMention)
      BY <1>5 DEF Allowed
    <3> QED
      BY <1>1, <1>5, <2>2, <3>1 DEF MayChange
  <2>3. Asked(r) = IF r.verb = "delete" /\ r.all THEN {"delete_all"} ELSE TaskChanges \cap {r.verb}
    BY <1>1, <1>5 DEF Asked
  <2>4. CASE Handle(r) = Reply("usage")
    BY <2>4 DEF MakesAnswer
  <2>5. CASE Handle(r) # Reply("usage") /\ r.verb = "start"
    <3>1. Handle(r) = Call(<<"start">>) /\ r.words >= 4
      BY <1>2, <1>5, <2>1, <2>5 DEF TaskCommand
    <3>2. Asked(r) = TaskChanges \cap {"start"} /\ "start" \in Operations
      BY <2>3, <2>5 DEF Operations, TaskChanges
    <3> QED
      BY <2>2, <3>1, <3>2, OneCall
  <2>6. CASE Handle(r) # Reply("usage") /\ r.verb \in {"list", "status"}
    <3>1. PICK op \in Reads : Handle(r) = Call(<<op>>)
      BY <1>5, <2>1, <2>6 DEF TaskCommand, Reads
    <3>2. Asked(r) = {} /\ TaskChanges \cap {op} = {} /\ op \in Operations
      BY <2>3, <2>6 DEF Operations, TaskChanges, Reads
    <3> QED
      BY <3>1, <3>2, OneCall
  <2>7. CASE Handle(r) # Reply("usage") /\ r.verb \in {"reply", "reopen"}
    <3>1. Handle(r) = Call(<<r.verb, "status">>) /\ r.words >= 4
      BY <1>2, <1>5, <2>1, <2>7 DEF TaskCommand
    <3>2. /\ Asked(r) = TaskChanges \cap {r.verb, "status"} /\ Asked(r) = {r.verb}
          /\ r.verb \in Operations /\ "status" \in Operations \ TaskChanges
      BY <2>3, <2>7 DEF Operations, TaskChanges, Reads
    <3> QED
      BY <2>2, <3>1, <3>2, TwoCalls
  <2>8. CASE Handle(r) # Reply("usage") /\ r.verb = "stop"
    <3>1. Handle(r) = Call(<<"stop", "status">>)
      BY <1>5, <2>1, <2>8 DEF TaskCommand
    <3>2. /\ Asked(r) = TaskChanges \cap {"stop", "status"} /\ Asked(r) = {"stop"}
          /\ "stop" \in Operations /\ "status" \in Operations \ TaskChanges
      BY <2>3, <2>8 DEF Operations, TaskChanges, Reads
    <3> QED
      BY <2>2, <3>1, <3>2, TwoCalls
  <2>9. CASE Handle(r) # Reply("usage") /\ r.verb = "delete" /\ r.all
    <3>1. Handle(r) = Call(<<"delete_all">>)
      BY <1>5, <2>1, <2>9 DEF TaskCommand
    <3>2. Asked(r) = TaskChanges \cap {"delete_all"} /\ "delete_all" \in Operations
      BY <2>3, <2>9 DEF Operations, TaskChanges
    <3> QED
      BY <2>2, <3>1, <3>2, OneCall
  <2>10. CASE Handle(r) # Reply("usage") /\ r.verb = "delete" /\ ~r.all
    <3>1. Handle(r) = Call(<<"status", "delete">>)
      BY <1>5, <2>1, <2>10 DEF TaskCommand
    <3>2. /\ Asked(r) = TaskChanges \cap {"status", "delete"} /\ Asked(r) = {"delete"}
          /\ "delete" \in Operations /\ "status" \in Operations \ TaskChanges
      BY <2>3, <2>10 DEF Operations, TaskChanges, Reads
    <3> QED
      BY <2>2, <3>1, <3>2, TwoCalls
  <2>11. CASE r.verb = "other"
    <3>1. Handle(r) = Reply("usage")
      BY <1>5, <2>1, <2>11 DEF TaskCommand
    <3> QED
      BY <2>4, <3>1
  <2> QED
    BY <1>2, <2>4, <2>5, <2>6, <2>7, <2>8, <2>9, <2>10, <2>11
<1> QED
  BY <1>3, <1>4, <1>5

LEMMA CardMakes ==
  ASSUME NEW r \in CardRequests
  PROVE  MakesAnswer(r, Handle(r)) \/ MakesCalls(r, Handle(r))
<1>1. r.via = "card" /\ Handle(r) = HandleCard(r)
  BY DEF CardRequests, Handle
<1>2. CASE Handle(r) = Reply("denied") \/ Handle(r) = Reply("usage")
  BY <1>2 DEF MakesAnswer
<1>3. ASSUME Handle(r) # Reply("denied"), Handle(r) # Reply("usage")
      PROVE  /\ r.sender /\ r.known /\ r.id
             /\ \E op \in {"status", "stop", "delete", "complete", "reply"} :
                  Handle(r) = Call(<<op>>) /\ Asked(r) = TaskChanges \cap {op}
                  /\ (op = "reply" => r.text)
  <2>1. r.sender /\ r.known /\ r.id
    BY <1>1, <1>3 DEF HandleCard
  <2>2. Asked(r) = IF r.action = "submit" THEN {"reply"} ELSE TaskChanges \cap {r.action}
    BY <1>1 DEF Asked
  <2>3. CASE r.kind = "task_action" /\ r.action \in {"status", "stop", "delete"}
    <3>1. Handle(r) = Call(<<r.action>>)
      BY <1>1, <2>1, <2>3 DEF HandleCard
    <3> QED
      BY <2>1, <2>2, <2>3, <3>1
  <2>4. CASE r.kind = "task_reply_action" /\ r.action = "complete"
    <3>1. Handle(r) = Call(<<r.action>>)
      BY <1>1, <2>1, <2>4 DEF HandleCard
    <3> QED
      BY <2>1, <2>2, <2>4, <3>1
  <2>5. CASE r.kind = "task_reply_action" /\ r.action = "submit" /\ r.text
    <3>1. Handle(r) = Call(<<"reply">>)
      BY <1>1, <2>1, <2>5 DEF HandleCard
    <3> QED
      BY <2>1, <2>2, <2>5, <3>1 DEF TaskChanges
  <2>6. CASE ~(r.kind = "task_action" /\ r.action \in {"status", "stop", "delete"})
             /\ ~(r.kind = "task_reply_action" /\ r.action = "complete")
             /\ ~(r.kind = "task_reply_action" /\ r.action = "submit" /\ r.text)
    BY <1>1, <1>3, <2>1, <2>6 DEF HandleCard
  <2> QED
    BY <2>3, <2>4, <2>5, <2>6
<1>4. ASSUME Handle(r) # Reply("denied"), Handle(r) # Reply("usage")
      PROVE  MakesCalls(r, Handle(r))
  <2>1. PICK op \in {"status", "stop", "delete", "complete", "reply"} :
          Handle(r) = Call(<<op>>) /\ Asked(r) = TaskChanges \cap {op} /\ (op = "reply" => r.text)
    BY <1>3, <1>4
  <2>2. MayChange(r, op)
    BY <1>1, <1>3, <1>4, <2>1 DEF MayChange
  <2>3. op \in Operations
    BY DEF Operations, TaskChanges, Reads
  <2> QED
    BY <2>1, <2>2, <2>3, OneCall
<1> QED
  BY <1>2, <1>4

LEMMA HandlersMake ==
  ASSUME NEW r \in Requests
  PROVE  MakesAnswer(r, Handle(r)) \/ MakesCalls(r, Handle(r))
BY WebMakes, MessageMakes, CardMakes DEF Requests

(* A button becomes the one call it names, which is accepted in the status *)
(* that was shown.                                                         *)
LEMMA ButtonIsCall ==
  ASSUME NEW s \in Surfaces, NEW st \in Statuses, NEW op \in Offers(s, st)
  PROVE  /\ Press(s, op) \in Requests
         /\ Handle(Press(s, op)) = Call(<<op>>)
         /\ Accepts(op, st)
<1>1. CASE s = "page"
  <2>1. op \in WebActions /\ Accepts(op, st)
    BY <1>1 DEF Offers, Accepts, WebActions, Statuses, Terminal
  <2> DEFINE r == Press(s, op)
  <2>2. r = [via |-> "web", session |-> TRUE, post |-> TRUE, path |-> "task",
             action |-> op, text |-> TRUE]
    BY <1>1 DEF Press
  <2>3. r.via = "web" /\ r.session /\ r.post /\ r.path = "task" /\ r.action = op /\ r.text
        /\ r \in WebRequests
    <3> HIDE DEF r
    <3>1. r \in WebRequests
      BY <2>1, <2>2 DEF WebRequests
    <3> QED
      BY <2>2, <3>1
  <2> HIDE DEF r
  <2>4. Handle(r) = Call(<<op>>)
    BY <2>1, <2>3 DEF Handle, ServeHTTP, TaskAction, WebActions
  <2> QED
    BY <2>1, <2>3, <2>4 DEF Requests, r
<1>2. CASE s = "card"
  <2>1. op \in {"status", "stop", "delete"} /\ Accepts(op, st)
    BY <1>2 DEF Offers, Accepts, Statuses, Terminal
  <2> DEFINE r == Press(s, op)
  <2>3. /\ r.via = "card" /\ r.sender /\ r.known /\ r.id /\ r.kind = "task_action" /\ r.action = op
        /\ r \in CardRequests
    BY <1>2, <2>1 DEF CardRequests, Press
  <2> HIDE DEF r
  <2>4. Handle(r) = Call(<<op>>)
    BY <2>1, <2>3 DEF Handle, HandleCard
  <2> QED
    BY <2>1, <2>3, <2>4 DEF Requests, r
<1>3. CASE s = "question"
  <2>1. op \in {"reply", "complete"} /\ Accepts(op, st)
    BY <1>3 DEF Offers, Accepts
  <2> DEFINE r == Press(s, op)
  <2>3. /\ r.via = "card" /\ r.sender /\ r.known /\ r.id /\ r.text /\ r.kind = "task_reply_action"
        /\ r.action = (IF op = "reply" THEN "submit" ELSE op)
        /\ r \in CardRequests
    BY <1>3, <2>1 DEF CardRequests, Press
  <2> HIDE DEF r
  <2>4. Handle(r) = Call(<<op>>)
    BY <2>1, <2>3 DEF Handle, HandleCard
  <2> QED
    BY <2>1, <2>3, <2>4 DEF Requests, r
<1> QED
  BY <1>1, <1>2, <1>3 DEF Surfaces

(* While a request is handled, what its calls have changed and what the    *)
(* others still would is what it asked for, at most one change, and it     *)
(* may; a button that was pressed in time has one call to make, which is   *)
(* still accepted.                                                         *)
DoorInv ==
  /\ DoorTypeOK
  /\ request = NoRequest => applied = {} /\ answer = "none" /\ pressed = "none"
  /\ Busy => calls # <<>> /\ applied \cup Ahead(calls) = Asked(request)
  /\ Busy => OneChange(calls) /\ (Ahead(calls) # {} => applied = {})
  /\ ~Busy => calls = <<>>
  /\ \A op \in applied \cup Ahead(calls) : MayChange(request, op)
  /\ AnswerIsTrue
  /\ OfferIsAccepted
  /\ pressed # "none" /\ Busy => Len(calls) = 1 /\ Accepts(Head(calls), status)
  /\ PageOffersAll

LEMMA NothingAhead == Ahead(<<>>) = {}
BY DEF Ahead

LEMMA DoorInvInit == DoorInit => DoorInv
<1> SUFFICES ASSUME DoorInit PROVE DoorInv
  OBVIOUS
<1>1. DoorTypeOK
  BY DEF DoorInit, DoorTypeOK, Answers
<1>2. ~Busy
  BY DEF Busy, DoorInit
<1>3. AnswerIsTrue /\ OfferIsAccepted /\ PageOffersAll
  BY DEF AnswerIsTrue, OfferIsAccepted, PageOffersAll, DoorInit, Nothing
<1> QED
  BY <1>1, <1>2, <1>3, NothingAhead DEF DoorInv, DoorInit

LEMMA EmptySequence ==
  ASSUME NEW S, NEW s \in Seq(S), Len(s) = 0
  PROVE  s = <<>>
OBVIOUS

(* The first call is one of those ahead, and the rest are what is left.    *)
LEMMA FirstIsAhead ==
  ASSUME NEW ops \in Seq(Operations), ops # <<>>
  PROVE  /\ Head(ops) \in Operations
         /\ Tail(ops) \in Seq(Operations)
         /\ Ahead(ops) = (TaskChanges \cap {Head(ops)}) \cup Ahead(Tail(ops))
         /\ Len(ops) = 1 => Tail(ops) = <<>>
         /\ OneChange(ops) => /\ OneChange(Tail(ops))
                              /\ Head(ops) \in TaskChanges => Ahead(Tail(ops)) = {}
<1>1. Head(ops) = ops[1] /\ Tail(ops) \in Seq(Operations) /\ Len(Tail(ops)) = Len(ops) - 1
      /\ Len(ops) \in Nat /\ Len(ops) >= 1
  OBVIOUS
<1>2. \A i \in 1..Len(ops) - 1 : Tail(ops)[i] = ops[i + 1]
  OBVIOUS
<1>3. DOMAIN ops = 1..Len(ops) /\ DOMAIN Tail(ops) = 1..Len(ops) - 1
  BY <1>1
<1>4. \A i \in 1..Len(ops) : i = 1 \/ (i - 1 \in 1..Len(ops) - 1 /\ ops[i] = Tail(ops)[i - 1])
  BY <1>1, <1>2
<1>5. \A i \in 1..Len(ops) - 1 : i + 1 \in 1..Len(ops)
  BY <1>1
<1>6. {ops[i] : i \in DOMAIN ops} = {ops[1]} \cup {Tail(ops)[i] : i \in DOMAIN Tail(ops)}
  <2>1. \A x : x \in {ops[i] : i \in DOMAIN ops} => x = ops[1] \/ x \in {Tail(ops)[i] : i \in DOMAIN Tail(ops)}
    <3> TAKE x
    <3> HAVE x \in {ops[i] : i \in DOMAIN ops}
    <3>1. PICK i \in 1..Len(ops) : x = ops[i]
      BY <1>3
    <3> QED
      BY <1>3, <1>4, <3>1
  <2>2. ops[1] \in {ops[i] : i \in DOMAIN ops}
    BY <1>1, <1>3
  <2>3. \A x : x \in {Tail(ops)[i] : i \in DOMAIN Tail(ops)} => x \in {ops[i] : i \in DOMAIN ops}
    <3> TAKE x
    <3> HAVE x \in {Tail(ops)[i] : i \in DOMAIN Tail(ops)}
    <3>1. PICK i \in 1..Len(ops) - 1 : x = Tail(ops)[i]
      BY <1>3
    <3>2. x = ops[i + 1] /\ i + 1 \in 1..Len(ops)
      BY <1>2, <1>5, <3>1
    <3> QED
      BY <1>3, <3>2
  <2> QED
    BY <2>1, <2>2, <2>3
<1>7. Len(ops) = 1 => Tail(ops) = <<>>
  <2> DEFINE rest == Tail(ops)
  <2>1. rest \in Seq(Operations) /\ Len(rest) = Len(ops) - 1
    BY <1>1
  <2> HIDE DEF rest
  <2>2. Len(ops) = 1 => rest = <<>>
    BY <2>1, EmptySequence
  <2> QED
    BY <2>2 DEF rest
<1>8. Head(ops) \in Operations
  BY <1>1
<1>9. ASSUME OneChange(ops)
      PROVE  /\ OneChange(Tail(ops))
             /\ Head(ops) \in TaskChanges => Ahead(Tail(ops)) = {}
  <2>1. OneChange(Tail(ops))
    <3> SUFFICES ASSUME NEW i \in 1..Len(ops) - 1, NEW j \in 1..Len(ops) - 1,
                        Tail(ops)[i] \in TaskChanges, Tail(ops)[j] \in TaskChanges
                 PROVE  i = j
      BY <1>3 DEF OneChange
    <3>1. i + 1 = j + 1
      BY <1>2, <1>3, <1>5, <1>9 DEF OneChange
    <3> QED
      BY <3>1
  <2>2. ASSUME ops[1] \in TaskChanges, NEW i \in 1..Len(ops) - 1
        PROVE  Tail(ops)[i] \notin TaskChanges
    <3>1. 1 \in 1..Len(ops) /\ i + 1 # 1
      BY <1>1
    <3> QED
      BY <1>2, <1>3, <1>5, <1>9, <2>2, <3>1 DEF OneChange
  <2>3. ops[1] \in TaskChanges => Ahead(Tail(ops)) = {}
    BY <1>3, <2>2 DEF Ahead
  <2> QED
    BY <1>1, <2>1, <2>3
<1> QED
  BY <1>1, <1>6, <1>7, <1>8, <1>9 DEF Ahead

(* The task goes on, surfaces come and go, and the user is told: none of   *)
(* these makes or forgets a call.                                          *)
LEMMA DoorQuietSteps ==
  ASSUME DoorInv,
         Progress \/ (\E s \in Surfaces : Show(s)) \/ Leave \/ NotTold \/ Respond
  PROVE  DoorInv'
<1>1. CASE Progress
  <2>1. DoorTypeOK'
    BY <1>1 DEF Progress, DoorInv, DoorTypeOK
  <2> QED
    BY <1>1, <2>1 DEF Progress, DoorInv, Busy, AnswerIsTrue, OfferIsAccepted, PageOffersAll
<1>2. ASSUME NEW s \in Surfaces, Show(s) PROVE DoorInv'
  <2>1. shown' \in [surface : Surfaces, built : Statuses]
    BY <1>2 DEF Show, DoorInv, DoorTypeOK
  <2>2. shown'.surface = "page" =>
          \A op \in WebActions : Accepts(op, shown'.built) => op \in Offers("page", shown'.built)
    BY <2>1 DEF WebActions, Accepts, Offers, Statuses, Terminal
  <2> QED
    BY <1>2, <2>1, <2>2 DEF Show, DoorInv, DoorTypeOK, Busy, AnswerIsTrue, OfferIsAccepted, PageOffersAll
<1>3. CASE Leave
  <2>1. PageOffersAll'
    BY <1>3 DEF Leave, PageOffersAll, Nothing
  <2> QED
    BY <1>3, <2>1 DEF Leave, DoorInv, DoorTypeOK, Busy, AnswerIsTrue, OfferIsAccepted
<1>4. CASE NotTold
  <2>1. DoorTypeOK' /\ ~Busy /\ ~Busy'
    BY <1>4 DEF NotTold, DoorInv, DoorTypeOK, Busy, Answers
  <2> QED
    BY <1>4, <2>1 DEF NotTold, DoorInv, AnswerIsTrue, OfferIsAccepted, PageOffersAll
<1>5. CASE Respond
  <2>1. DoorTypeOK' /\ ~Busy /\ ~Busy'
    BY <1>5 DEF Respond, DoorInv, DoorTypeOK, Busy, Answers
  <2> QED
    BY <1>5, <2>1, NothingAhead DEF Respond, DoorInv, AnswerIsTrue, OfferIsAccepted, PageOffersAll
<1> QED
  BY <1>1, <1>2, <1>3, <1>4, <1>5

LEMMA RequestIsReal ==
  ASSUME NEW r \in Requests
  PROVE  r # NoRequest
<1>1. r.via \in {"web", "message", "card"}
  BY DEF Requests, WebRequests, MessageRequests, CardRequests
<1>2. NoRequest.via = "none"
  BY DEF NoRequest
<1> QED
  BY <1>1, <1>2

LEMMA ReceiveStep ==
  ASSUME DoorInv, NEW r \in Requests, Receive(r),
         pressed' \in Statuses \cup {"none", "deleted"},
         pressed' # "none" => \E op \in Operations : Handle(r) = Call(<<op>>) /\ Accepts(op, status)
  PROVE  DoorInv'
<1>1. request' = r /\ request' # NoRequest /\ applied' = {} /\ status' = status /\ shown' = shown
      /\ answer' = Handle(r).answer /\ calls' = Handle(r).calls
  <2>1. r # NoRequest
    BY RequestIsReal
  <2> QED
    BY <2>1 DEF Receive
<1>2. PageOffersAll'
  BY <1>1 DEF DoorInv, PageOffersAll
<1>3. CASE MakesAnswer(r, Handle(r))
  <2>1. PICK a \in {"usage", "denied", "ignored", "done"} :
          Handle(r) = Reply(a) /\ (a = "done" => Asked(r) = {})
    BY <1>3 DEF MakesAnswer
  <2>2. answer' = a /\ calls' = <<>> /\ ~Busy'
    BY <1>1, <2>1 DEF Reply, Busy
  <2>3. pressed' = "none"
    <3> SUFFICES ASSUME pressed' # "none" PROVE FALSE
      OBVIOUS
    <3>1. PICK op \in Operations : Handle(r) = Call(<<op>>)
      OBVIOUS
    <3>2. Handle(r).answer = "none"
      BY <3>1 DEF Call
    <3>3. Handle(r).answer = a
      BY <2>1 DEF Reply
    <3> QED
      BY <3>2, <3>3
  <2>4. DoorTypeOK'
    BY <1>1, <2>2, <2>3 DEF DoorInv, DoorTypeOK, Requests, Answers
  <2>5. AnswerIsTrue' /\ OfferIsAccepted'
    BY <1>1, <2>1, <2>2, <2>3 DEF AnswerIsTrue, OfferIsAccepted
  <2> QED
    BY <1>1, <1>2, <2>2, <2>3, <2>4, <2>5, NothingAhead DEF DoorInv
<1>4. CASE MakesCalls(r, Handle(r))
  <2>1. PICK ops \in Seq(Operations) :
          /\ Handle(r) = Call(ops) /\ ops # <<>>
          /\ Ahead(ops) = Asked(r) /\ OneChange(ops)
          /\ \A op \in Ahead(ops) : MayChange(r, op)
    BY <1>4 DEF MakesCalls
  <2>2. answer' = "none" /\ calls' = ops /\ Busy'
    BY <1>1, <2>1 DEF Call, Busy
  <2>3. pressed' # "none" => Len(calls') = 1 /\ Accepts(Head(calls'), status')
    <3> SUFFICES ASSUME pressed' # "none" PROVE Len(calls') = 1 /\ Accepts(Head(calls'), status')
      OBVIOUS
    <3>1. PICK op \in Operations : Handle(r) = Call(<<op>>) /\ Accepts(op, status)
      OBVIOUS
    <3>2. calls' = <<op>>
      BY <1>1, <3>1 DEF Call
    <3>3. Len(<<op>>) = 1 /\ Head(<<op>>) = op
      OBVIOUS
    <3> QED
      BY <1>1, <3>1, <3>2, <3>3
  <2>4. DoorTypeOK'
    BY <1>1, <2>2 DEF DoorInv, DoorTypeOK, Requests, Operations, Answers
  <2>5. AnswerIsTrue' /\ OfferIsAccepted'
    BY <2>2 DEF AnswerIsTrue, OfferIsAccepted
  <2>6. \A op \in applied' \cup Ahead(calls') : MayChange(request', op)
    BY <1>1, <2>1, <2>2
  <2>7. applied' \cup Ahead(calls') = Asked(request')
    BY <1>1, <2>1, <2>2
  <2> QED
    BY <1>1, <1>2, <2>1, <2>2, <2>3, <2>4, <2>5, <2>6, <2>7 DEF DoorInv
<1> QED
  BY <1>3, <1>4, HandlersMake

LEMMA AskStep ==
  ASSUME DoorInv, NEW r \in Requests, Ask(r)
  PROVE  DoorInv'
BY ReceiveStep DEF Ask

LEMMA ButtonStep ==
  ASSUME DoorInv, NEW op \in Operations, PressButton(op)
  PROVE  DoorInv'
<1>1. shown \in [surface : Surfaces, built : Statuses] /\ op \in Offers(shown.surface, shown.built)
  BY DEF PressButton, DoorInv, DoorTypeOK
<1>2. /\ Press(shown.surface, op) \in Requests
      /\ Handle(Press(shown.surface, op)) = Call(<<op>>)
      /\ Accepts(op, shown.built)
  BY <1>1, ButtonIsCall
<1>3. pressed' = IF shown.built = status THEN status ELSE "none"
  BY DEF PressButton
<1>4. pressed' \in Statuses \cup {"none", "deleted"}
  BY <1>1, <1>3
<1>5. pressed' # "none" => Accepts(op, status)
  BY <1>2, <1>3
<1>6. Receive(Press(shown.surface, op))
  BY DEF PressButton
<1> QED
  BY <1>2, <1>4, <1>5, <1>6, ReceiveStep

(* A call is refused, finds no thread to reopen, fails or succeeds.        *)
LEMMA CallStep ==
  ASSUME DoorInv, Refused \/ CannotReopen \/ Fails \/ Succeeds
  PROVE  DoorInv'
<1>1. Busy /\ request # NoRequest /\ calls \in Seq(Operations) /\ calls # <<>>
  BY DEF Refused, CannotReopen, Fails, Succeeds, DoorInv, Busy, DoorTypeOK, Operations
<1>2. /\ Head(calls) \in Operations /\ Tail(calls) \in Seq(Operations)
      /\ Ahead(calls) = (TaskChanges \cap {Head(calls)}) \cup Ahead(Tail(calls))
      /\ Len(calls) = 1 => Tail(calls) = <<>>
      /\ OneChange(Tail(calls))
      /\ Head(calls) \in TaskChanges => Ahead(Tail(calls)) = {}
      /\ Ahead(calls) # {} => applied = {}
  BY <1>1, FirstIsAhead DEF DoorInv
<1>3. request' = request /\ shown' = shown /\ pressed' = pressed
  BY DEF Refused, CannotReopen, Fails, Succeeds
<1>4. PageOffersAll'
  BY <1>3 DEF DoorInv, PageOffersAll
<1>5. \A op \in applied \cup Ahead(calls) : MayChange(request, op)
  BY DEF DoorInv
<1>6. After(Head(calls), status) \in Statuses \cup {"deleted"}
  BY DEF After, DoorInv, DoorTypeOK, Statuses
<1>7. CASE Refused
  <2>1. answer' = "refused" /\ calls' = <<>> /\ applied' = applied /\ status' = status
    BY <1>7 DEF Refused
  <2>2. pressed = "none"
    BY <1>1, <1>7 DEF Refused, DoorInv
  <2>3. DoorTypeOK' /\ ~Busy'
    BY <1>3, <2>1 DEF DoorInv, DoorTypeOK, Busy, Answers
  <2>4. AnswerIsTrue' /\ OfferIsAccepted'
    BY <1>3, <2>1, <2>2 DEF AnswerIsTrue, OfferIsAccepted
  <2> QED
    BY <1>1, <1>3, <1>4, <1>5, <2>1, <2>2, <2>3, <2>4, NothingAhead DEF DoorInv
<1>8. CASE Fails
  <2>1. answer' = "error" /\ calls' = <<>> /\ status' \in Statuses \cup {"deleted"}
        /\ applied' \subseteq applied \cup (TaskChanges \cap {Head(calls)})
    BY <1>6, <1>8 DEF Fails, DoorInv, DoorTypeOK
  <2>2. DoorTypeOK' /\ ~Busy'
    BY <1>3, <2>1 DEF DoorInv, DoorTypeOK, Busy, Answers
  <2>3. AnswerIsTrue' /\ OfferIsAccepted'
    BY <1>3, <2>1 DEF AnswerIsTrue, OfferIsAccepted
  <2> QED
    BY <1>1, <1>2, <1>3, <1>4, <1>5, <2>1, <2>2, <2>3, NothingAhead DEF DoorInv
<1>9. CASE Succeeds
  <2>1. /\ applied' = applied \cup (TaskChanges \cap {Head(calls)})
        /\ calls' = Tail(calls) /\ status' \in Statuses \cup {"deleted"}
        /\ answer' = IF calls' = <<>> THEN "done" ELSE "none"
    BY <1>6, <1>9 DEF Succeeds
  <2>2. DoorTypeOK'
    BY <1>2, <1>3, <2>1 DEF DoorInv, DoorTypeOK, Answers, Operations
  <2>3. applied' \cup Ahead(calls') = applied \cup Ahead(calls)
    BY <1>2, <2>1
  <2>4. applied \cup Ahead(calls) = Asked(request)
    BY <1>1 DEF DoorInv
  <2>5. Busy' <=> calls' # <<>>
    BY <1>1, <1>3, <2>1 DEF Busy
  <2>6. AnswerIsTrue' /\ OfferIsAccepted'
    BY <1>3, <2>1, <2>3, <2>4, NothingAhead DEF AnswerIsTrue, OfferIsAccepted
  <2>7. pressed # "none" => calls' = <<>>
    BY <1>1, <1>2, <2>1 DEF DoorInv
  <2>8. OneChange(calls') /\ (Ahead(calls') # {} => applied' = {})
    BY <1>2, <2>1
  <2> QED
    BY <1>1, <1>3, <1>4, <1>5, <2>2, <2>3, <2>4, <2>5, <2>6, <2>7, <2>8 DEF DoorInv
<1>10. CASE CannotReopen
  <2>1. answer' = "gone" /\ calls' = <<>> /\ applied' = applied /\ status' = status
    BY <1>10 DEF CannotReopen
  <2>2. Asked(request) = {"reopen"} /\ applied = {}
    <3>1. Ahead(calls) = {"reopen"}
      BY <1>2, <1>10 DEF CannotReopen, TaskChanges
    <3> QED
      BY <1>1, <1>2, <3>1 DEF DoorInv
  <2>3. DoorTypeOK' /\ ~Busy'
    BY <1>3, <2>1 DEF DoorInv, DoorTypeOK, Busy, Answers
  <2>4. AnswerIsTrue' /\ OfferIsAccepted'
    BY <1>3, <2>1, <2>2 DEF AnswerIsTrue, OfferIsAccepted
  <2> QED
    BY <1>1, <1>3, <1>4, <1>5, <2>1, <2>2, <2>3, <2>4, NothingAhead DEF DoorInv
<1> QED
  BY <1>7, <1>8, <1>9, <1>10

LEMMA DoorInvStep ==
  ASSUME DoorInv, [DoorNext]_doorVars
  PROVE  DoorInv'
<1>1. CASE UNCHANGED doorVars
  BY <1>1 DEF doorVars, DoorInv, DoorTypeOK, Busy, AnswerIsTrue, OfferIsAccepted, PageOffersAll
<1>2. CASE DoorNext
  BY <1>2, DoorQuietSteps, AskStep, ButtonStep, CallStep DEF DoorNext, Requests, Operations
<1> QED
  BY <1>1, <1>2

LEMMA DoorInvIsSafe == DoorInv => DoorSafety
BY DEF DoorInv, DoorSafety, ChangesAreAllowed

(* Only requests that may change the task change it, what users are told   *)
(* is true, and buttons pressed in time are never refused: for every       *)
(* request and every order of changes of the task.                         *)
THEOREM DoorIsSafe == DoorSpec => []DoorSafety
BY DoorInvInit, DoorInvStep, DoorInvIsSafe, PTL DEF DoorSpec

-----------------------------------------------------------------------------
(* The four parts in one instance.                                         *)

LEMMA MessagesInvIsTyped == MessagesInv => MessagesTypeOK
<1> SUFFICES ASSUME MessagesInv PROVE MessagesTypeOK
  OBVIOUS
<1>1. /\ seen \in [Messages -> {Never} \cup 0..MaxTime]
      /\ handled \in [Messages -> {Never} \cup 0..MaxTime]
  <2>1. 0..clock \subseteq 0..MaxTime
    BY MessageBounds DEF MessagesInv
  <2> QED
    BY <2>1 DEF MessagesInv, Times
<1>2. ASSUME NEW g \in Goroutines
      PROVE  \/ goroutine[g] = Idle
             \/ /\ goroutine[g].at \in {"delivered", "marking", "handling", "asking"}
                /\ goroutine[g].message \in Messages
                /\ goroutine[g].now \in 0..clock
                /\ Len(goroutine[g].asked) \in 0..MaxMessages
  BY DEF MessagesInv, IsGoroutine, IsDelivery
<1>3. Turns(completed) \in Seq({"user", "assistant"} \X (Messages \ ResetMessages))
  BY TurnsTyped DEF MessagesInv
<1>4. Len(session) = 2 * Len(completed) /\ Len(completed) \in Nat
  BY TurnsEntries DEF MessagesInv
<1>5. Len(session) <= MaxMessages
  BY <1>4, HalfOfMax DEF MessagesInv
<1>6. \A i \in 1..Len(session) : session[i] \in {"user", "assistant"} \X (Messages \ ResetMessages)
  BY <1>3 DEF MessagesInv
<1>7. clock \in 0..MaxTime /\ DOMAIN goroutine = Goroutines
  BY DEF MessagesInv
<1> QED
  BY <1>1, <1>2, <1>5, <1>6, <1>7, Zenon DEF MessagesTypeOK

(* A step of the instance is a step of one part, and the others stutter.   *)
LEMMA PartSteps ==
  ASSUME [StreamSteps \/ DoorSteps \/ MessageSteps \/ LoginSteps]_vars
  PROVE  /\ [StreamNext]_streamVars /\ [DoorNext]_doorVars
         /\ [MessagesNext]_messageVars /\ [LoginNext]_loginVars
<1>1. CASE StreamSteps
  <2>1. StreamNext
    BY <1>1 DEF StreamSteps, InStream, StreamNext, Publishing, Fetching
  <2>2. UNCHANGED <<doorVars, messageVars, loginVars>>
    BY <1>1 DEF StreamSteps, InStream
  <2> QED
    BY <2>1, <2>2
<1>2. CASE DoorSteps
  <2>1. DoorNext
    BY <1>2 DEF DoorSteps, InDoor, DoorNext
  <2>2. UNCHANGED <<streamVars, messageVars, loginVars>>
    BY <1>2 DEF DoorSteps, InDoor
  <2> QED
    BY <2>1, <2>2
<1>3. CASE MessageSteps
  <2>1. MessagesNext
    BY <1>3 DEF MessageSteps, InMessages, MessagesNext, HandlingMessage
  <2>2. UNCHANGED <<streamVars, doorVars, loginVars>>
    BY <1>3 DEF MessageSteps, InMessages
  <2> QED
    BY <2>1, <2>2
<1>4. CASE LoginSteps
  <2>1. LoginNext
    BY <1>4 DEF LoginSteps, InLogin, LoginNext
  <2>2. UNCHANGED <<streamVars, doorVars, messageVars>>
    BY <1>4 DEF LoginSteps, InLogin
  <2> QED
    BY <2>1, <2>2
<1>5. CASE UNCHANGED vars
  BY <1>5 DEF vars
<1> QED
  BY <1>1, <1>2, <1>3, <1>4, <1>5

(* In the instance that is model-checked, for every value of its bounds,   *)
(* each part keeps its types and its promises.                             *)
THEOREM FrontEndsAreSafe ==
  Spec => [](TypeOK /\ StreamSafety /\ DoorSafety) /\ MessagesSafety /\ LoginSafety
<1>1. Init => StreamInit /\ DoorInit /\ MessagesInit /\ LoginInit
  BY DEF Init
<1>2. Spec => [][StreamNext]_streamVars /\ [][DoorNext]_doorVars /\ MessagesSpec /\ LoginSpec
  BY <1>1, PartSteps, PTL DEF Spec, MessagesSpec, LoginSpec
<1>3. Spec => []StreamInv /\ []DoorInv /\ []MessagesInv /\ []LoginInv
  BY <1>1, <1>2, StreamInvInit, StreamInvStep, DoorInvInit, DoorInvStep,
     MessagesInvInit, MessagesInvStep, LoginInvInit, LoginInvStep, PTL
  DEF Spec, MessagesSpec, LoginSpec
<1>4. StreamInv /\ DoorInv /\ MessagesInv /\ LoginInv => TypeOK
  BY MessagesInvIsTyped DEF StreamInv, DoorInv, LoginInv, TypeOK
<1> QED
  BY <1>2, <1>3, <1>4, StreamInvIsSafe, DoorInvIsSafe, MessagesAreSafe, LoginIsSafe, PTL
=============================================================================
