------------------------------ MODULE RpcClient ------------------------------
(***************************************************************************)
(* One JSON-RPC client of a codex app-server (codexappserver/client.go) on *)
(* its websocket (transport_ws.go): the map of pending calls, the read     *)
(* loop, the channel of notifications and Close.                           *)
(*                                                                         *)
(* Every critical section of Client.mu and every operation on a channel or *)
(* on the websocket is one action.  Each caller makes one call.  A         *)
(* definition named Faulty... is a plausible mistake in the definition     *)
(* that follows it; nothing uses it.                                       *)
(***************************************************************************)
EXTENDS Integers, Sequences

CONSTANTS
  Callers,    \* goroutines, each with one call
  NoteCap,    \* capacity of Client.notifications (16 in the code)
  MaxExtra    \* frames beside the replies: notifications, repeated replies and
              \* frames that do not decode

ASSUME RpcBounds == NoteCap \in Nat \ {0} /\ MaxExtra \in Nat

VARIABLES
  nextID,   \* Client.nextID
  pending,  \* Client.pending: id -> caller
  slot,     \* the channel of each call, of capacity 1
  call,     \* where each caller is, its id and what its call returned
  conn,     \* the websocket: "up", "broken" by the peer, "closed" by Close
  inbox,    \* the frames on their way to the client
  asked,    \* requests the app-server has received, with the call they come from
  open,     \* those of them it has not answered
  notes,    \* how many notifications are in the channel
  reader,   \* where the read loop is
  closer,   \* where the goroutine in Close is
  hand,     \* calls taken out of pending whose result has not been sent yet: by
            \* routeResponse, and by failAll of the read loop and of Close
  reply,    \* the reply that routeResponse has in hand
  extra,    \* how many frames beside the replies were sent
  late      \* history: calls registered after the read loop had given up

rpcVars == <<nextID, pending, slot, call, conn, inbox, asked, open, notes,
             reader, closer, hand, reply, extra, late>>

Hands == {"route", "reader", "closer"}
Places == {"idle", "sending", "waiting", "done"}
Frame(kind, id, of) == [kind |-> kind, id |-> id, of |-> of]
\* A reply, by its id and by the call whose request the app-server answers; a
\* frame or a result that answers no request.
Reply(request) == Frame("reply", request.id, {request.of})
Other(kind) == Frame(kind, 0, {})
Requests == [id : 1..nextID, of : Callers]
Frames(kinds) == [kind : kinds, id : Nat, of : SUBSET Callers]

\* The values of a map, and a map without a key.
Values(map) == {map[i] : i \in DOMAIN map}
Without(map, key) == [i \in DOMAIN map \ {key} |-> map[i]]

RpcTypeOK ==
  /\ nextID \in Nat
  /\ DOMAIN pending \subseteq 1..nextID /\ Values(pending) \subseteq Callers
  /\ slot \in [Callers -> Seq(Frames({"error", "reply"}))]
  /\ call \in [Callers -> [at : Places, id : Nat,
                          result : Frames({"none", "error", "reply"})]]
  /\ conn \in {"up", "broken", "closed"}
  /\ inbox \in Seq(Frames({"reply", "note", "bad"}))
  /\ asked \subseteq Requests /\ open \subseteq asked
  /\ notes \in 0..NoteCap
  /\ reader \in {"reading", "routing", "handing", "failing", "ended"}
  /\ closer \in {"idle", "failing", "joining", "closed"}
  /\ hand \in [Hands -> SUBSET Callers]
  /\ reply \in Frames({"none", "reply"})
  /\ extra \in 0..MaxExtra
  /\ late \subseteq Callers

RpcInit ==
  /\ nextID = 0
  /\ pending = <<>>
  /\ slot = [c \in Callers |-> <<>>]
  /\ call = [c \in Callers |->
               [at |-> "idle", id |-> 0, result |-> Other("none")]]
  /\ conn = "up"
  /\ inbox = <<>>
  /\ asked = {} /\ open = {}
  /\ notes \in {0, NoteCap}  \* notifications may have come before the first call
  /\ reader = "reading"
  /\ closer = "idle"
  /\ hand = [h \in Hands |-> {}]
  /\ reply = Other("none")
  /\ extra = 0
  /\ late = {}

-----------------------------------------------------------------------------
(* The callers. *)

\* nextRequestID: the counter and its result, under Client.mu.
NextRequestID == nextID' = nextID + 1

\* dispatch takes an id and registers a channel under it: two critical
\* sections, between which nothing knows the id.
Dispatch(c) ==
  /\ call[c].at = "idle"
  /\ NextRequestID
  /\ pending' = [i \in DOMAIN pending \cup {nextID'} |->
                   IF i = nextID' THEN c ELSE pending[i]]
  /\ call' = [call EXCEPT ![c].at = "sending", ![c].id = nextID']
  /\ late' = IF reader \in {"failing", "ended"} THEN late \cup {c} ELSE late
  /\ UNCHANGED <<slot, conn, inbox, asked, open, notes, reader, closer, hand,
                 reply, extra>>

\* The request is written.  A connection that the peer has left may still take it.
SendRequest(c) ==
  /\ call[c].at = "sending"
  /\ conn # "closed"
  /\ call' = [call EXCEPT ![c].at = "waiting"]
  /\ IF conn = "up"
     THEN LET request == [id |-> call[c].id, of |-> c] IN
          asked' = asked \cup {request} /\ open' = open \cup {request}
     ELSE UNCHANGED <<asked, open>>
  /\ UNCHANGED <<nextID, pending, slot, conn, inbox, notes, reader, closer, hand, reply,
                 extra, late>>

\* The call ends without its reply; removePending forgets it.
GiveUp(c) ==
  /\ pending' = Without(pending, call[c].id)
  /\ call' = [call EXCEPT ![c].at = "done", ![c].result = Other("error")]
  /\ UNCHANGED <<nextID, slot, conn, inbox, asked, open, notes, reader, closer,
                 hand, reply, extra, late>>

\* Writing fails: the connection is gone, or the context ended.
SendFails(c) ==
  /\ call[c].at = "sending"
  /\ GiveUp(c)

\* await: the context ends first, also when a result is already in the channel.
Cancel(c) ==
  /\ call[c].at = "waiting"
  /\ GiveUp(c)

\* await: the result arrives.
TakeResult(c) ==
  /\ call[c].at = "waiting"
  /\ slot[c] # <<>>
  /\ slot' = [slot EXCEPT ![c] = Tail(@)]
  /\ call' = [call EXCEPT ![c].at = "done", ![c].result = Head(slot[c])]
  /\ UNCHANGED <<nextID, pending, conn, inbox, asked, open, notes, reader, closer,
                 hand, reply, extra, late>>

-----------------------------------------------------------------------------
(* The app-server and the network: outside the repository. *)

\* Frames that no read loop will read are left out.
Incoming(frame) ==
  /\ conn = "up"
  /\ reader \notin {"failing", "ended"}
  /\ inbox' = Append(inbox, frame)
  /\ UNCHANGED <<nextID, pending, slot, call, conn, asked, notes, reader, closer,
                 hand, reply, late>>

Answer(request) ==
  /\ request \in open
  /\ open' = open \ {request}
  /\ Incoming(Reply(request))
  /\ UNCHANGED extra

Extra(frame) ==
  /\ extra < MaxExtra
  /\ extra' = extra + 1
  /\ Incoming(frame)
  /\ UNCHANGED open

\* A reply comes a second time.
Repeat(request) == request \in asked \ open /\ Extra(Reply(request))
Notify == Extra(Other("note"))
Garble == Extra(Other("bad"))

\* What has not been received when a connection ends is lost from some frame on.
CutOff ==
  /\ \E n \in 0..Len(inbox) : inbox' = SubSeq(inbox, 1, n)
  /\ open' = {}

Break ==
  /\ conn = "up"
  /\ conn' = "broken"
  /\ CutOff
  /\ UNCHANGED <<nextID, pending, slot, call, asked, notes, reader, closer,
                 hand, reply, extra, late>>

-----------------------------------------------------------------------------
(* The read loop. *)

Read(kind) == reader = "reading" /\ inbox # <<>> /\ Head(inbox).kind = kind

\* routeResponse takes the call out of the map; it answers it after unlocking.
FaultyForgetCall(i) == UNCHANGED pending
ForgetCall(i) == pending' = Without(pending, i)

RouteResponse ==
  /\ Read("reply")
  /\ inbox' = Tail(inbox)
  /\ LET i == Head(inbox).id IN
     IF i \in DOMAIN pending
     THEN /\ reader' = "routing"
          /\ hand' = [hand EXCEPT !["route"] = {pending[i]}]
          /\ reply' = Head(inbox)
          /\ ForgetCall(i)
     ELSE UNCHANGED <<reader, hand, reply, pending>>
  /\ UNCHANGED <<nextID, slot, call, conn, asked, open, notes, closer, extra, late>>

\* A result goes into the channel of its call, outside Client.mu.  The channel
\* holds one; a second one blocks who sends it.
SendResult(h, c, result) ==
  /\ c \in hand[h]
  /\ slot[c] = <<>>
  /\ slot' = [slot EXCEPT ![c] = Append(@, result)]
  /\ hand' = [hand EXCEPT ![h] = @ \ {c}]
  /\ UNCHANGED <<nextID, pending, call, conn, inbox, asked, open, notes, closer,
                 extra, late>>

PutReply ==
  /\ \E c \in hand["route"] : SendResult("route", c, reply)
  /\ reader' = "reading"
  /\ reply' = Other("none")

ReadNote ==
  /\ Read("note")
  /\ inbox' = Tail(inbox)
  /\ reader' = "handing"
  /\ UNCHANGED <<nextID, pending, slot, call, conn, asked, open, notes, closer,
                 hand, reply, extra, late>>

\* The send to the channel of notifications, which blocks while it is full.
FaultyPutNote ==
  /\ reader = "handing"
  /\ notes' = notes + 1
  /\ reader' = "reading"
  /\ UNCHANGED <<nextID, pending, slot, call, conn, inbox, asked, open, closer,
                 hand, reply, extra, late>>
PutNote ==
  /\ reader = "handing"
  /\ notes < NoteCap
  /\ notes' = notes + 1
  /\ reader' = "reading"
  /\ UNCHANGED <<nextID, pending, slot, call, conn, inbox, asked, open, closer,
                 hand, reply, extra, late>>

\* The consumer of the notifications, in the manager.
TakeNote ==
  /\ notes > 0
  /\ notes' = notes - 1
  /\ UNCHANGED <<nextID, pending, slot, call, conn, inbox, asked, open, reader, closer,
                 hand, reply, extra, late>>

\* failAll: the map is swapped for an empty one under Client.mu, then each
\* of its calls is failed.
SwapPending(h) ==
  /\ hand' = [hand EXCEPT ![h] = Values(pending)]
  /\ pending' = <<>>

FailCall(h, c) == SendResult(h, c, Other("error")) /\ UNCHANGED <<reader, reply>>

\* Recv fails once everything received has been read, or a frame does not decode.
FaultyReadEnds ==
  /\ reader = "reading"
  /\ IF inbox = <<>> THEN conn # "up" ELSE Head(inbox).kind = "bad"
  /\ reader' = "failing"
  /\ UNCHANGED <<nextID, pending, slot, call, conn, inbox, asked, open, notes, closer,
                 hand, reply, extra, late>>
ReadEnds ==
  /\ reader = "reading"
  /\ IF inbox = <<>> THEN conn # "up" ELSE Head(inbox).kind = "bad"
  /\ SwapPending("reader")
  /\ reader' = "failing"
  /\ inbox' = <<>>
  /\ UNCHANGED <<nextID, slot, call, conn, asked, open, notes, closer, reply,
                 extra, late>>

\* The deferred closeNotifications and close(readDone).
ReaderExits ==
  /\ reader = "failing" /\ hand["reader"] = {}
  /\ reader' = "ended"
  /\ UNCHANGED <<nextID, pending, slot, call, conn, inbox, asked, open, notes, closer,
                 hand, reply, extra, late>>

-----------------------------------------------------------------------------
(* Close, which runs once. *)

CloseBegins ==
  /\ closer = "idle"
  /\ closer' = "failing"
  /\ SwapPending("closer")
  /\ UNCHANGED <<nextID, slot, call, conn, inbox, asked, open, notes, reader, reply,
                 extra, late>>

CloseTransport ==
  /\ closer = "failing" /\ hand["closer"] = {}
  /\ closer' = "joining"
  /\ conn' = "closed"
  /\ CutOff
  /\ UNCHANGED <<nextID, pending, slot, call, asked, notes, reader, hand, reply,
                 extra, late>>

\* <-c.readDone
CloseReturns ==
  /\ closer = "joining"
  /\ reader = "ended"
  /\ closer' = "closed"
  /\ UNCHANGED <<nextID, pending, slot, call, conn, inbox, asked, open, notes, reader,
                 hand, reply, extra, late>>

-----------------------------------------------------------------------------
Calling(c) ==
  Dispatch(c) \/ SendRequest(c) \/ SendFails(c) \/ Cancel(c) \/ TakeResult(c)

Reading ==
  \/ RouteResponse \/ PutReply \/ ReadNote \/ PutNote
  \/ ReadEnds \/ ReaderExits
  \/ \E c \in Callers : FailCall("reader", c)

Closing ==
  \/ CloseBegins \/ CloseTransport \/ CloseReturns
  \/ \E c \in Callers : FailCall("closer", c)

Network ==
  \/ Notify \/ Garble \/ Break
  \/ \E request \in asked : Answer(request) \/ Repeat(request)

RpcNext ==
  \/ \E c \in Callers : Calling(c)
  \/ Reading \/ TakeNote \/ Closing \/ Network

\* Goroutines run, the manager consumes notifications, and the app-server
\* answers.  Nothing makes a context end, a frame break or anyone call Close.
RpcFairness ==
  /\ \A c \in Callers :
       /\ WF_rpcVars(SendRequest(c) \/ SendFails(c))
       /\ WF_rpcVars(TakeResult(c))
  /\ WF_rpcVars(Reading) /\ WF_rpcVars(TakeNote)
  /\ WF_rpcVars(closer # "idle" /\ Closing)
  /\ WF_rpcVars(\E request \in open : Answer(request))

RpcSpec == RpcInit /\ [][RpcNext]_rpcVars /\ RpcFairness

-----------------------------------------------------------------------------
(***************************************************************************)
(* The channel of a call holds one result, and the read loop and Close     *)
(* send to it without holding a lock or watching a context.  Nobody ever   *)
(* blocks there, because whoever takes a call out of the map owns its one  *)
(* result: routeResponse, failAll of the read loop, failAll of Close and   *)
(* repeated replies never have the same call in hand.                      *)
(***************************************************************************)
ResultsFit ==
  /\ \A h \in Hands : \A c \in hand[h] : slot[c] = <<>>
  /\ \A g, h \in Hands : g # h => hand[g] \cap hand[h] = {}

(***************************************************************************)
(* A call that returns a reply returns the reply to its own request, also  *)
(* when replies come out of order, twice, or after their call was given up.*)
(***************************************************************************)
OwnReply ==
  \A c \in Callers : call[c].result.kind = "reply" => call[c].result.of = {c}

(***************************************************************************)
(* Every call that was sent returns, whatever the connection does and      *)
(* without its context ending: with its reply, or with the error of        *)
(* failAll.  The exception is a call registered after the read loop has    *)
(* given up, on a connection that still takes it.  As a caller calls once, *)
(* it is enough that again and again nobody else is waiting.               *)
(***************************************************************************)
CallsReturn == []<>(\A c \in Callers : call[c].at = "waiting" => c \in late)

(***************************************************************************)
(* Close returns, whatever the read loop is doing when it is called.       *)
(***************************************************************************)
CloseEnds == closer = "failing" ~> closer = "closed"

(***************************************************************************)
(* Every result has room and belongs to its call, at all times; and every  *)
(* call and Close end.                                                     *)
(***************************************************************************)
RpcSafety == ResultsFit /\ OwnReply

RpcLiveness == CallsReturn /\ CloseEnds
=============================================================================
