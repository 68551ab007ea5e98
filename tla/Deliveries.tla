------------------------------- MODULE Deliveries -------------------------------
(***************************************************************************)
(* What the webhook delivery store promises to the handlers that use it.   *)
(*                                                                         *)
(* A delivery is opened by a handler when no delivery of the same event is *)
(* open or done, and then worked on by that handler alone until it is      *)
(* settled or dropped.  A handler may walk away from an open delivery, and *)
(* then nobody works on it.  A restart settles what is open: see           *)
(* DeliveryStore.init.                                                     *)
(***************************************************************************)
CONSTANTS
  Workers,         \* the goroutines of the HTTP server
  Records,         \* the deliveries, records with a delivery and a uuid
  NoRecord,        \* what an idle worker works on
  Conflict(_, _)   \* two deliveries announce the same event

VARIABLES
  working,         \* what each worker works on
  open,            \* deliveries somebody has begun
  done             \* deliveries that need no more work

vars == <<working, open, done>>

Init ==
  /\ working = [w \in Workers |-> NoRecord]
  /\ open = {}
  /\ done = {}

Free(r) == \A s \in open \cup done : ~Conflict(r, s)

Open(w, r) ==
  /\ working[w] = NoRecord
  /\ Free(r)
  /\ working' = [working EXCEPT ![w] = r]
  /\ open' = open \cup {r}
  /\ UNCHANGED done

(* The handler opened a delivery without learning that it did.             *)
OpenUnknowingly(r) ==
  /\ Free(r)
  /\ open' = open \cup {r}
  /\ UNCHANGED <<working, done>>

LeaveOff(w) == /\ working[w] # NoRecord
               /\ working' = [working EXCEPT ![w] = NoRecord]

Settle(w) ==
  /\ LeaveOff(w)
  /\ open' = open \ {working[w]}
  /\ done' = done \cup {working[w]}

Drop(w) ==
  /\ LeaveOff(w)
  /\ open' = open \ {working[w]}
  /\ UNCHANGED done

Abandon(w) ==
  /\ LeaveOff(w)
  /\ UNCHANGED <<open, done>>

Restart ==
  /\ working' = [w \in Workers |-> NoRecord]
  /\ open' = {}
  /\ done' = done \cup open

Next ==
  \/ \E w \in Workers : \/ \E r \in Records : Open(w, r)
                        \/ Settle(w)
                        \/ Drop(w)
                        \/ Abandon(w)
  \/ \E r \in Records : OpenUnknowingly(r)
  \/ Restart

Spec == Init /\ [][Next]_vars
================================================================================
