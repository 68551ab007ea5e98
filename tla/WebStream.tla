------------------------------ MODULE WebStream ------------------------------
(***************************************************************************)
(* How a change of the tasks reaches an open dashboard: the change hook    *)
(* and StreamBroker.Publish (web/stream.go), the event stream of a browser *)
(* (Handler.Events in web/handler.go), and the page that waits a moment    *)
(* after an event and then fetches the whole dashboard                     *)
(* (dashboard-shell.tsx).                                                  *)
(*                                                                         *)
(* The table of tasks is the number of changes made to it.  Events carry   *)
(* nothing the page uses, so a channel is how many it holds.  A definition *)
(* named Faulty... is a plausible mistake in the definition that follows   *)
(* it; nothing uses it.                                                    *)
(***************************************************************************)
EXTENDS Integers

CONSTANTS
  Browsers,     \* browsers, each with one page
  StreamCap,    \* capacity of a subscriber's channel (16 in the code)
  MaxChanges,   \* changes of the table
  MaxStreams,   \* connections of event streams
  MaxRefreshes  \* fetches after the user's own actions

ASSUME StreamBounds ==
  /\ StreamCap \in Nat \ {0} /\ MaxChanges \in Nat
  /\ MaxStreams \in Nat /\ MaxRefreshes \in Nat

VARIABLES
  version,    \* how often the table has changed
  publisher,  \* for each change, its Publish and the channels it still has to serve
  clients,    \* StreamBroker.clients, by subscription id
  queue,      \* how many events each channel holds
  shut,       \* the channels that are closed
  streams,    \* StreamBroker.nextID
  page,       \* what each page has, see StreamTypeOK
  refreshes,  \* how many fetches users have caused
  owed        \* history: the newest change offered to the stream a page has now,
              \* since a fetch of the page failed

streamVars == <<version, publisher, clients, queue, shut, streams, page, refreshes, owed>>

Changes == 1..MaxChanges
Streams == 1..MaxStreams
Unread == -1

\* A page has sub: its subscription, 0 if none; timer: the pause before the next
\* fetch runs; fetches: those in flight, with the version the server read for
\* them; view: the version on display, 0 if none; best: the newest ever on display.
StreamTypeOK ==
  /\ version \in 0..MaxChanges
  /\ publisher \in [Changes -> [at : {"none", "due", "sending", "done", "panicked"},
                                to : SUBSET Streams]]
  /\ streams \in 0..MaxStreams
  /\ clients \subseteq 1..streams /\ shut \subseteq 1..streams
  /\ queue \in [Streams -> 0..StreamCap]
  /\ DOMAIN page = Browsers
  /\ \A b \in Browsers :
       /\ page[b].sub \in 0..streams /\ page[b].timer \in BOOLEAN
       /\ page[b].view \in 0..page[b].best /\ page[b].best \in 0..version
       /\ \A f \in page[b].fetches : f.seen \in {Unread} \cup 0..version
  /\ refreshes \in 0..MaxRefreshes
  /\ owed \in [Browsers -> 0..version]

\* A page asks for the dashboard when it is mounted.
StreamInit ==
  /\ version = 0
  /\ publisher = [n \in Changes |-> [at |-> "none", to |-> {}]]
  /\ clients = {} /\ shut = {} /\ streams = 0
  /\ queue = [s \in Streams |-> 0]
  /\ page = [b \in Browsers |->
               [sub |-> 0, timer |-> FALSE, fetches |-> {[id |-> 1, seen |-> Unread]},
                view |-> 0, best |-> 0]]
  /\ refreshes = 0
  /\ owed = [b \in Browsers |-> 0]

Larger(m, n) == IF m > n THEN m ELSE n

-----------------------------------------------------------------------------
(* The task service and the broker. *)

\* A row is written.  Most paths call the change hook afterwards, some that
\* fail half-way do not.
Change(announced) ==
  /\ version < MaxChanges
  /\ version' = version + 1
  /\ publisher' = [publisher EXCEPT ![version'].at = IF announced THEN "due" ELSE "done"]
  /\ UNCHANGED <<clients, queue, shut, streams, page, refreshes, owed>>

\* Publish copies the channels under the lock.
CopyClients(n) ==
  /\ publisher[n].at = "due"
  /\ publisher' = [publisher EXCEPT ![n] = [at |-> "sending", to |-> clients]]
  /\ UNCHANGED <<version, clients, queue, shut, streams, page, refreshes, owed>>

\* Without the lock, and without waiting: an event for a full channel is dropped.
FaultySend(n, s) == queue[s] < StreamCap /\ queue' = [queue EXCEPT ![s] = @ + 1]
Send(n, s) ==
  queue' = [queue EXCEPT ![s] = IF @ < StreamCap THEN @ + 1 ELSE @]

Offer(n, s) ==
  /\ publisher[n].at = "sending"
  /\ s \in publisher[n].to \ shut
  /\ Send(n, s)
  /\ publisher' = [publisher EXCEPT ![n].to = @ \ {s}]
  /\ owed' = [b \in Browsers |-> IF page[b].sub = s THEN Larger(owed[b], n) ELSE owed[b]]
  /\ UNCHANGED <<version, clients, shut, streams, page, refreshes>>

PublishReturns(n) ==
  /\ publisher[n].at = "sending" /\ publisher[n].to = {}
  /\ publisher' = [publisher EXCEPT ![n].at = "done"]
  /\ UNCHANGED <<version, clients, queue, shut, streams, page, refreshes, owed>>

\* A send on a closed channel panics.  The server of HTTP requests recovers;
\* any other goroutine takes the process with it: every stream ends, what was
\* being published is not, and every fetch fails when its connection breaks.
PublishPanics(n) ==
  /\ publisher[n].at = "sending"
  /\ publisher[n].to \cap shut # {}
  /\ \/ /\ publisher' = [publisher EXCEPT ![n] = [at |-> "panicked", to |-> {}]]
        /\ UNCHANGED <<clients, queue, shut, page, owed>>
     \/ /\ publisher' = [m \in Changes |->
             IF publisher[m].at \in {"due", "sending"}
             THEN [at |-> "panicked", to |-> {}] ELSE publisher[m]]
        /\ clients' = {} /\ shut' = 1..streams
        /\ queue' = [s \in Streams |-> 0]
        /\ page' = [b \in Browsers |->
             IF page[b].fetches = {} THEN [page[b] EXCEPT !.sub = 0]
             ELSE [page[b] EXCEPT !.sub = 0, !.fetches = {}, !.view = 0]]
        /\ owed' = [b \in Browsers |-> 0]
  /\ UNCHANGED <<version, streams, refreshes>>

-----------------------------------------------------------------------------
(* The handler of an event stream. *)

\* The browser connects, or connects again.
Subscribe(b) ==
  /\ page[b].sub = 0
  /\ streams < MaxStreams
  /\ streams' = streams + 1
  /\ clients' = clients \cup {streams'}
  /\ page' = [page EXCEPT ![b].sub = streams']
  /\ UNCHANGED <<version, publisher, queue, shut, refreshes, owed>>

\* An event is written to the browser, whose listener starts the pause anew.
WriteEvent(b) ==
  /\ page[b].sub # 0
  /\ queue[page[b].sub] > 0
  /\ queue' = [queue EXCEPT ![page[b].sub] = @ - 1]
  /\ page' = [page EXCEPT ![b].timer = TRUE]
  /\ UNCHANGED <<version, publisher, clients, shut, streams, refreshes, owed>>

\* The connection ends: Unsubscribe takes the channel out of the map under the
\* lock and closes it after the unlock.
Unsubscribe(b) ==
  /\ page[b].sub # 0
  /\ clients' = clients \ {page[b].sub}
  /\ page' = [page EXCEPT ![b].sub = 0]
  /\ owed' = [owed EXCEPT ![b] = 0]
  /\ UNCHANGED <<version, publisher, queue, shut, streams, refreshes>>

CloseChannel(s) ==
  /\ s \in 1..streams \ (clients \cup shut)
  /\ shut' = shut \cup {s}
  /\ queue' = [queue EXCEPT ![s] = 0]
  /\ UNCHANGED <<version, publisher, clients, streams, page, refreshes, owed>>

-----------------------------------------------------------------------------
(* The page. *)

NewFetch(b) ==
  LET free == CHOOSE id \in 1..(MaxChanges + MaxRefreshes + 1) :
                \A f \in page[b].fetches : f.id # id
  IN page[b].fetches \cup {[id |-> free, seen |-> Unread]}

\* The pause of 150 ms is over.
FaultyTimerFires(b) ==
  /\ page[b].timer
  /\ page' = [page EXCEPT ![b].timer = FALSE,
                          ![b].fetches = IF @ = {} THEN NewFetch(b) ELSE @]
  /\ UNCHANGED <<version, publisher, clients, queue, shut, streams, refreshes, owed>>
TimerFires(b) ==
  /\ page[b].timer
  /\ page' = [page EXCEPT ![b].timer = FALSE, ![b].fetches = NewFetch(b)]
  /\ UNCHANGED <<version, publisher, clients, queue, shut, streams, refreshes, owed>>

\* The user created or changed a task: the page fetches at once.
Refresh(b) ==
  /\ refreshes < MaxRefreshes
  /\ refreshes' = refreshes + 1
  /\ page' = [page EXCEPT ![b].fetches = NewFetch(b)]
  /\ UNCHANGED <<version, publisher, clients, queue, shut, streams, owed>>

\* Handler.Dashboard reads the table.
ReadDashboard(b, f) ==
  /\ f \in page[b].fetches /\ f.seen = Unread
  /\ page' = [page EXCEPT ![b].fetches = (@ \ {f}) \cup {[f EXCEPT !.seen = version]}]
  /\ UNCHANGED <<version, publisher, clients, queue, shut, streams, refreshes, owed>>

\* A response arrives, in any order, and is displayed whatever is displayed now.
ShowDashboard(b, f) ==
  /\ f \in page[b].fetches /\ f.seen # Unread
  /\ page' = [page EXCEPT ![b].fetches = @ \ {f}, ![b].view = f.seen,
                          ![b].best = Larger(@, f.seen)]
  /\ UNCHANGED <<version, publisher, clients, queue, shut, streams, refreshes, owed>>

\* A request fails: an empty dashboard is displayed.
FetchFails(b, f) ==
  /\ f \in page[b].fetches
  /\ page' = [page EXCEPT ![b].fetches = @ \ {f}, ![b].view = 0]
  /\ owed' = [owed EXCEPT ![b] = 0]
  /\ UNCHANGED <<version, publisher, clients, queue, shut, streams, refreshes>>

Publishing(n) ==
  CopyClients(n) \/ PublishReturns(n) \/ PublishPanics(n) \/ \E s \in Streams : Offer(n, s)
Fetching(b) ==
  TimerFires(b)
    \/ \E f \in page[b].fetches :
         ReadDashboard(b, f) \/ ShowDashboard(b, f) \/ FetchFails(b, f)

StreamNext ==
  \/ \E announced \in BOOLEAN : Change(announced)
  \/ \E n \in Changes : Publishing(n)
  \/ \E s \in Streams : CloseChannel(s)
  \/ \E b \in Browsers :
       Subscribe(b) \/ WriteEvent(b) \/ Unsubscribe(b) \/ Refresh(b) \/ Fetching(b)

\* Goroutines of the process and timers of the page run and a fetch ends.  Nothing
\* makes a browser connect, stay connected or take what is written to it.
StreamFairness ==
  /\ \A n \in Changes : WF_streamVars(Publishing(n))
  /\ \A b \in Browsers : WF_streamVars(Fetching(b))
  /\ \A s \in Streams : WF_streamVars(CloseChannel(s))

StreamSpec == StreamInit /\ [][StreamNext]_streamVars /\ StreamFairness

-----------------------------------------------------------------------------
(***************************************************************************)
(* Publish never finds a closed channel in the map.  A panic on a closed   *)
(* channel therefore needs an Unsubscribe between the copy of the map and  *)
(* the send: it is a race, not a leftover.                                 *)
(***************************************************************************)
ClientsAreOpen == clients \cap shut = {}

(***************************************************************************)
(* Events are dropped when a channel is full and merged by the pause, and  *)
(* still none is needed: a connected page that has nothing left to do has  *)
(* at some time displayed every change that was offered to its stream      *)
(* since it connected and no fetch has failed.  (It may display an older   *)
(* version again, when an older response arrives later.)                   *)
(***************************************************************************)
Quiet(b) ==
  /\ page[b].sub # 0 /\ queue[page[b].sub] = 0
  /\ ~page[b].timer /\ page[b].fetches = {}

QuietPageHasSeen == \A b \in Browsers : Quiet(b) => page[b].best >= owed[b]

(***************************************************************************)
(* A change that was offered to the stream of a page is displayed in the   *)
(* end, as long as the page keeps taking events and stays connected, and   *)
(* its fetches do not fail: again and again it has displayed all it was    *)
(* offered.                                                                *)
(***************************************************************************)
TakesEvents(b) == []<>(page[b].sub = 0 \/ queue[page[b].sub] = 0)

OfferedIsShown ==
  \A b \in Browsers : TakesEvents(b) => []<>(page[b].best >= owed[b])

(***************************************************************************)
(* Publish returns, though a browser may not take its events: whoever      *)
(* changed a task is not held up by who watches.  As every change is       *)
(* published once, it is enough that again and again nobody is sending.    *)
(***************************************************************************)
PublishEnds == []<>(\A n \in Changes : publisher[n].at # "sending")

(***************************************************************************)
(* What the stream guarantees in every state, and what it does in the end, *)
(* for the page and for the publisher.                                     *)
(***************************************************************************)
StreamSafety == ClientsAreOpen /\ QuietPageHasSeen

StreamLiveness == OfferedIsShown /\ PublishEnds
=============================================================================
