----------------------------- MODULE LarkMessages -----------------------------
(***************************************************************************)
(* Messages of Lark users that the bot answers: the deduplication of what  *)
(* the platform delivers more than once (lark/adapter.go, lark/dedupe.go)  *)
(* and the conversation a chat message is answered from (agent/chat.go,    *)
(* agent/session.go, /reset in agent/command.go).                          *)
(*                                                                         *)
(* Each delivery runs in a goroutine of its own.  All messages are of one  *)
(* conversation and its user is allowed to write to the bot.  A turn is    *)
(* the pair of entries a message leaves in the conversation.  A definition *)
(* named Faulty... is a plausible mistake in the definition that follows   *)
(* it; nothing uses it.                                                    *)
(***************************************************************************)
EXTENDS Integers, Sequences

CONSTANTS
  Messages,      \* the messages users have sent
  ResetMessages, \* those that are the command /reset; the other ones are for the model
  Goroutines,    \* deliveries handled at the same time
  TTL,           \* defaultMessageDedupeTTL
  MaxTime,       \* how far the clock goes
  MaxMessages    \* entries the conversation keeps (12 in the code)

ASSUME MessageBounds ==
  /\ ResetMessages \subseteq Messages
  /\ TTL \in Nat \ {0} /\ MaxTime \in Nat
  /\ MaxMessages \in Nat \ {0} /\ MaxMessages % 2 = 0

VARIABLES
  clock,      \* the time
  seen,       \* messageDeduper.seen: when a message was marked, or Never
  goroutine,  \* what each delivery is doing
  session,    \* the entries of the conversation
  handled,    \* history: the time read by the latest delivery of each message
              \* that was not dropped, in this life of the process
  completed   \* history: the messages of the turns completed since the conversation
              \* was empty, the last MaxMessages \div 2 of them

messageVars == <<clock, seen, goroutine, session, handled, completed>>

Never == -1
Idle == [at |-> "idle"]

\* goroutine: with the time it has read, or the conversation it asks with.
MessagesTypeOK ==
  /\ clock \in 0..MaxTime
  /\ seen \in [Messages -> {Never} \cup 0..MaxTime]
  /\ DOMAIN goroutine = Goroutines
  /\ \A g \in Goroutines :
       \/ goroutine[g] = Idle
       \/ /\ goroutine[g].at \in {"delivered", "marking", "handling", "asking"}
          /\ goroutine[g].message \in Messages
          /\ goroutine[g].now \in 0..clock
          /\ Len(goroutine[g].asked) \in 0..MaxMessages
  /\ \A i \in 1..Len(session) :
       session[i] \in {"user", "assistant"} \X (Messages \ ResetMessages)
  /\ Len(session) <= MaxMessages
  /\ handled \in [Messages -> {Never} \cup 0..MaxTime]

MessagesInit ==
  /\ clock = 0
  /\ seen = [m \in Messages |-> Never] /\ handled = [m \in Messages |-> Never]
  /\ goroutine = [g \in Goroutines |-> Idle]
  /\ session = <<>> /\ completed = <<>>

Turn(m) == <<<<"user", m>>, <<"assistant", m>>>>

\* The last n entries of s.
LastOf(s, n) == SubSeq(s, IF Len(s) > n THEN Len(s) - n + 1 ELSE 1, Len(s))

-----------------------------------------------------------------------------
ClockTicks ==
  /\ clock < MaxTime
  /\ clock' = clock + 1
  /\ UNCHANGED <<seen, goroutine, session, handled, completed>>

\* The platform delivers a message, or delivers it again: it does so after an
\* error, after a slow answer and after a restart.
Deliver(g, m) ==
  /\ goroutine[g] = Idle
  /\ goroutine' = [goroutine EXCEPT ![g] =
       [at |-> "delivered", message |-> m, now |-> 0, asked |-> <<>>]]
  /\ UNCHANGED <<clock, seen, session, handled, completed>>

\* MarkIfNew reads the clock before it takes the lock.
ReadClock(g) ==
  /\ goroutine[g].at = "delivered"
  /\ goroutine' = [goroutine EXCEPT ![g].at = "marking", ![g].now = clock]
  /\ UNCHANGED <<clock, seen, session, handled, completed>>

\* The marks that are not too old at the time now.
FaultyPruned(now) ==
  [m \in Messages |-> IF seen[m] # Never /\ now - seen[m] >= TTL THEN Never ELSE seen[m]]
Pruned(now) ==
  [m \in Messages |-> IF seen[m] # Never /\ now - seen[m] > TTL THEN Never ELSE seen[m]]

\* A delivery of a message that is marked is dropped.
MarkIfNew(g) ==
  /\ goroutine[g].at = "marking"
  /\ LET now == goroutine[g].now
         m == goroutine[g].message
         marks == Pruned(now)
     IN IF marks[m] # Never
        THEN /\ seen' = marks
             /\ goroutine' = [goroutine EXCEPT ![g] = Idle]
             /\ UNCHANGED handled
        ELSE /\ seen' = [marks EXCEPT ![m] = now]
             /\ handled' = [handled EXCEPT ![m] = now]
             /\ goroutine' = [goroutine EXCEPT ![g].at = "handling"]
  /\ UNCHANGED <<clock, session, completed>>

\* ChatHandler takes a copy of the conversation and asks the model with it.
AskModel(g) ==
  /\ goroutine[g].at = "handling" /\ goroutine[g].message \notin ResetMessages
  /\ goroutine' = [goroutine EXCEPT ![g].at = "asking", ![g].asked = session]
  /\ UNCHANGED <<clock, seen, session, handled, completed>>

\* The model answers: AppendTurn adds the turn to what the conversation is now.
AppendTurn(g, m) == LastOf(session \o Turn(m), MaxMessages)

ModelAnswers(g) ==
  /\ goroutine[g].at = "asking"
  /\ LET m == goroutine[g].message
     IN /\ session' = AppendTurn(g, m)
        /\ completed' = LastOf(Append(completed, m), MaxMessages \div 2)
  /\ goroutine' = [goroutine EXCEPT ![g] = Idle]
  /\ UNCHANGED <<clock, seen, handled>>

\* The request fails or the answer is empty: the user is told, no turn is kept.
ModelFails(g) ==
  /\ goroutine[g].at = "asking"
  /\ goroutine' = [goroutine EXCEPT ![g] = Idle]
  /\ UNCHANGED <<clock, seen, session, handled, completed>>

ResetSession(g) ==
  /\ goroutine[g].at = "handling" /\ goroutine[g].message \in ResetMessages
  /\ session' = <<>> /\ completed' = <<>>
  /\ goroutine' = [goroutine EXCEPT ![g] = Idle]
  /\ UNCHANGED <<clock, seen, handled>>

\* Marks and conversations are only in memory.
ProcessRestarts ==
  /\ seen' = [m \in Messages |-> Never] /\ handled' = [m \in Messages |-> Never]
  /\ goroutine' = [g \in Goroutines |-> Idle]
  /\ session' = <<>> /\ completed' = <<>>
  /\ UNCHANGED clock

HandlingMessage(g) ==
  ReadClock(g) \/ MarkIfNew(g) \/ AskModel(g) \/ ModelAnswers(g) \/ ModelFails(g)
    \/ ResetSession(g)

MessagesNext ==
  \/ ClockTicks \/ ProcessRestarts
  \/ \E g \in Goroutines : HandlingMessage(g) \/ \E m \in Messages : Deliver(g, m)

MessagesSpec == MessagesInit /\ [][MessagesNext]_messageVars

-----------------------------------------------------------------------------
(***************************************************************************)
(* The process handles a message again only when more than TTL has passed  *)
(* since the delivery it handled before read the clock, however the        *)
(* deliveries that race for the lock of the deduper are ordered, and       *)
(* though each prunes with a time that may be old by then.                 *)
(***************************************************************************)
HandledAgainIsLate ==
  [][\A m \in Messages :
       (handled[m] # Never /\ \E g \in Goroutines :
          goroutine[g].at = "marking" /\ goroutine[g].message = m
            /\ goroutine'[g].at = "handling")
         => clock - handled[m] > TTL]_messageVars

Turns(s) == [i \in 1..(2 * Len(s)) |-> Turn(s[(i + 1) \div 2])[2 - (i % 2)]]

(***************************************************************************)
(* Questions asked at the same time do not lose each other's turns: the    *)
(* conversation is the end of what was completed since the last reset.     *)
(***************************************************************************)
NoTurnIsLost == session = Turns(completed)

(***************************************************************************)
(* The model is never asked with half a turn: what was copied alternates   *)
(* between a user's entry and the answer to it, though questions overlap   *)
(* and the conversation is cut to MaxMessages entries.                     *)
(***************************************************************************)
AskedWholeTurns ==
  \A g \in Goroutines : goroutine[g].at = "asking" =>
    LET asked == goroutine[g].asked
    IN /\ Len(asked) % 2 = 0
       /\ \A i \in 1..Len(asked) : i % 2 = 1 =>
            asked[i][1] = "user" /\ asked[i + 1] = <<"assistant", asked[i][2]>>

(***************************************************************************)
(* A conversation keeps its turns, and a message is handled once.          *)
(***************************************************************************)
MessagesSafety == [](NoTurnIsLost /\ AskedWholeTurns) /\ HandledAgainIsLate
=============================================================================
