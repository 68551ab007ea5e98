----------------------------- MODULE MCFrontEnds -----------------------------
(***************************************************************************)
(* TLC instance of the ways users reach the process: the dashboard and its *)
(* stream of events, signing in to it, the requests and commands that come *)
(* in, and the messages of a conversation.  As in MCServiceClients, a      *)
(* behaviour of this instance is one of one part, while the others stay    *)
(* where they start: the parts share nothing but the task service.         *)
(***************************************************************************)
EXTENDS WebStream, FrontDoor, LarkMessages, WebLogin

VARIABLE part

vars == <<part, streamVars, doorVars, messageVars, loginVars>>

Init ==
  /\ part \in {"stream", "door", "messages", "login"}
  /\ StreamInit /\ MessagesInit /\ LoginInit
  /\ IF part = "door" THEN DoorInit ELSE DoorInit /\ status = "pending"

InStream(step) ==
  part = "stream" /\ step /\ UNCHANGED <<part, doorVars, messageVars, loginVars>>
InDoor(step) ==
  part = "door" /\ step /\ UNCHANGED <<part, streamVars, messageVars, loginVars>>
InMessages(step) ==
  part = "messages" /\ step /\ UNCHANGED <<part, streamVars, doorVars, loginVars>>
InLogin(step) ==
  part = "login" /\ step /\ UNCHANGED <<part, streamVars, doorVars, messageVars>>

StreamSteps ==
  \/ InStream(Change(TRUE)) \/ InStream(Change(FALSE))
  \/ \E n \in Changes :
       \/ InStream(CopyClients(n)) \/ InStream(PublishReturns(n))
       \/ InStream(PublishPanics(n))
       \/ \E s \in Streams : InStream(Offer(n, s))
  \/ \E s \in Streams : InStream(CloseChannel(s))
  \/ \E b \in Browsers :
       \/ InStream(Subscribe(b)) \/ InStream(WriteEvent(b)) \/ InStream(Unsubscribe(b))
       \/ InStream(TimerFires(b)) \/ InStream(Refresh(b))
       \/ \E f \in page[b].fetches :
            \/ InStream(ReadDashboard(b, f)) \/ InStream(ShowDashboard(b, f))
            \/ InStream(FetchFails(b, f))

DoorSteps ==
  \/ InDoor(Progress) \/ InDoor(Leave)
  \/ \E s \in Surfaces : InDoor(Show(s))
  \/ \E r \in WebRequests : InDoor(Ask(r))
  \/ \E r \in MessageRequests : InDoor(Ask(r))
  \/ \E r \in CardRequests : InDoor(Ask(r))
  \/ \E op \in TaskChanges \cup Reads : InDoor(PressButton(op))
  \/ InDoor(Refused) \/ InDoor(CannotReopen) \/ InDoor(Fails) \/ InDoor(Succeeds)
  \/ InDoor(NotTold) \/ InDoor(Respond)

MessageSteps ==
  \/ InMessages(ClockTicks) \/ InMessages(ProcessRestarts)
  \/ \E g \in Goroutines :
       \/ \E m \in Messages : InMessages(Deliver(g, m))
       \/ InMessages(ReadClock(g)) \/ InMessages(MarkIfNew(g))
       \/ InMessages(AskModel(g)) \/ InMessages(ModelAnswers(g))
       \/ InMessages(ModelFails(g)) \/ InMessages(ResetSession(g))

LoginSteps ==
  \/ InLogin(NanoPasses) \/ InLogin(ConsoleRestarts)
  \/ \E v \in Visitors :
       \/ InLogin(StartAuth(v)) \/ InLogin(Callback(v))
       \/ InLogin(CallbackWithoutCode(v)) \/ InLogin(ExchangeFails(v))
       \/ InLogin(Logout(v))
       \/ \E a \in Accounts : InLogin(FetchUser(v, a))

Spec ==
  Init /\ [][StreamSteps \/ DoorSteps \/ MessageSteps \/ LoginSteps]_vars /\ StreamFairness

(***************************************************************************)
(* Every part keeps its types.                                             *)
(***************************************************************************)
TypeOK == StreamTypeOK /\ DoorTypeOK /\ MessagesTypeOK /\ LoginTypeOK
===============================================================================
