----------------------------- MODULE DeliveryClaims -----------------------------
(***************************************************************************)
(* Webhook deliveries: internal/gitcode/handler.go and store.go.           *)
(*                                                                         *)
(* GitCode delivers an event at least once, perhaps to several requests at *)
(* a time and under several delivery ids.  A request claims its delivery   *)
(* by inserting a row into webhook_deliveries, works on it (the attempt),  *)
(* and then completes the row or releases it.  A request that finds the    *)
(* row of another one polls.                                               *)
(*                                                                         *)
(* One step is one SQL statement: the store has one connection.  A restart *)
(* may come between any two of them, and the store's init then backfills   *)
(* the table.  Statements fail without effect because the request was      *)
(* cancelled; the Faults are those that leave something behind.            *)
(***************************************************************************)
EXTENDS Naturals, FiniteSets

CONSTANTS
  Workers,         \* request goroutines of the HTTP server
  Records,         \* deliveries: records with fields delivery and uuid
  NoRecord,        \* the delivery of a worker without a request
  Faults,          \* which statements may fail harmfully
  MaxRequests,     \* bound on the requests that arrive
  MaxFaults,       \* bound on harmful failures
  MaxRestarts      \* bound on restarts of the process

FaultKinds == {"claim_lost", "complete_fails", "complete_lost", "release_fails"}

ASSUME NoRecordIsNone == NoRecord \notin Records
ASSUME FaultsAreKnown == Faults \subseteq FaultKinds
ASSUME DeliveryBounds == MaxRequests \in Nat /\ MaxFaults \in Nat /\ MaxRestarts \in Nat

VARIABLES
  rows,            \* webhook_deliveries: which rows exist, and their processed_at
  pc,              \* where the goroutine of a request is
  record,          \* the delivery of that request
  applied,         \* history: how often an attempt for a delivery succeeded
  acked,           \* history: deliveries answered with 200
  requests, faults, restarts

vars == <<rows, pc, record, applied, acked, requests, faults, restarts>>

Labels == {"idle", "claim", "lookup", "wait", "attempt", "complete", "release"}
RowStatus == {"absent", "claimed", "processed"}

-------------------------------------------------------------------------------
(* Two deliveries collide on the primary key or on the unique index of     *)
(* event uuids, and a statement for the one touches the row of the other.  *)
Conflict(a, b) == a.delivery = b.delivery \/ a.uuid = b.uuid

Present(r) == rows[r] # "absent"

FaultyMatching(r) == {s \in Records : Present(s) /\ r.delivery = s.delivery}
Matching(r) == {s \in Records : Present(s) /\ Conflict(r, s)}

InProgress(r) == {s \in Matching(r) : rows[s] = "claimed"}

Goto(w, l) == pc' = [pc EXCEPT ![w] = l]

(* The request is answered and its goroutine ends.                         *)
Answer(w) == /\ Goto(w, "idle")
             /\ record' = [record EXCEPT ![w] = NoRecord]

Fault(f) == /\ f \in Faults
            /\ faults < MaxFaults
            /\ faults' = faults + 1

-------------------------------------------------------------------------------
Init ==
  /\ rows = [r \in Records |-> "absent"]
  /\ pc = [w \in Workers |-> "idle"]
  /\ record = [w \in Workers |-> NoRecord]
  /\ applied = [r \in Records |-> 0]
  /\ acked = {}
  /\ requests = 0
  /\ faults = 0
  /\ restarts = 0

(* ServeHTTP has verified and parsed a request.                            *)
Arrive(w, r) ==
  /\ pc[w] = "idle"
  /\ requests < MaxRequests
  /\ requests' = requests + 1
  /\ Goto(w, "claim")
  /\ record' = [record EXCEPT ![w] = r]
  /\ UNCHANGED <<rows, applied, acked, faults, restarts>>

-------------------------------------------------------------------------------
(* TryClaim: INSERT ... ON CONFLICT DO NOTHING, then the SELECT of what is *)
(* in the way, and back to the INSERT when that has gone.                  *)
Claim(w) ==
  /\ pc[w] = "claim"
  /\ Matching(record[w]) = {}
  /\ rows' = [rows EXCEPT ![record[w]] = "claimed"]
  /\ Goto(w, "attempt")
  /\ UNCHANGED <<record, applied, acked, requests, faults, restarts>>

ClaimConflicts(w) ==
  /\ pc[w] = "claim"
  /\ Matching(record[w]) # {}
  /\ Goto(w, "lookup")
  /\ UNCHANGED <<rows, record, applied, acked, requests, faults, restarts>>

(* The row is inserted but the statement reports an error, as when the     *)
(* request's context ends while it runs: nobody will release the claim.    *)
ClaimLost(w) ==
  /\ pc[w] = "claim"
  /\ Matching(record[w]) = {}
  /\ Fault("claim_lost")
  /\ rows' = [rows EXCEPT ![record[w]] = "claimed"]
  /\ Answer(w)
  /\ UNCHANGED <<applied, acked, requests, restarts>>

FaultyLookupProcessed(w) ==
  /\ pc[w] = "lookup"
  /\ Matching(record[w]) # {}
  /\ acked' = acked \cup {record[w]}
  /\ Answer(w)
  /\ UNCHANGED <<rows, applied, requests, faults, restarts>>

LookupProcessed(w) ==
  /\ pc[w] = "lookup"
  /\ \E s \in Matching(record[w]) : rows[s] = "processed"
  /\ acked' = acked \cup {record[w]}
  /\ Answer(w)
  /\ UNCHANGED <<rows, applied, requests, faults, restarts>>

LookupInProgress(w) ==
  /\ pc[w] = "lookup"
  /\ InProgress(record[w]) # {}
  /\ Goto(w, "wait")
  /\ UNCHANGED <<rows, record, applied, acked, requests, faults, restarts>>

FaultyLookupMissing(w) ==
  /\ pc[w] = "lookup"
  /\ Matching(record[w]) = {}
  /\ Goto(w, "lookup")
  /\ UNCHANGED <<rows, record, applied, acked, requests, faults, restarts>>

LookupMissing(w) ==
  /\ pc[w] = "lookup"
  /\ Matching(record[w]) = {}
  /\ Goto(w, "claim")
  /\ UNCHANGED <<rows, record, applied, acked, requests, faults, restarts>>

(* waitForNextClaimAttempt: the poll interval is over.                     *)
Poll(w) ==
  /\ pc[w] = "wait"
  /\ Goto(w, "claim")
  /\ UNCHANGED <<rows, record, applied, acked, requests, faults, restarts>>

(* A statement fails, or the client goes away, before the delivery is      *)
(* claimed.                                                                *)
Cancelled(w) ==
  /\ pc[w] \in {"claim", "lookup", "wait"}
  /\ Answer(w)
  /\ UNCHANGED <<rows, applied, acked, requests, faults, restarts>>

-------------------------------------------------------------------------------
(* The attempt returns; nothing of it is seen here but its result.         *)
AttemptSucceeds(w) ==
  /\ pc[w] = "attempt"
  /\ applied' = [applied EXCEPT ![record[w]] = @ + 1]
  /\ Goto(w, "complete")
  /\ UNCHANGED <<rows, record, acked, requests, faults, restarts>>

FaultyAttemptFails(w) ==
  /\ pc[w] = "attempt"
  /\ Answer(w)
  /\ UNCHANGED <<rows, applied, acked, requests, faults, restarts>>

AttemptFails(w) ==
  /\ pc[w] = "attempt"
  /\ Goto(w, "release")
  /\ UNCHANGED <<rows, record, applied, acked, requests, faults, restarts>>

(* CompleteClaim, whose context cannot be cancelled.  It is an error when  *)
(* no row is in progress.                                                  *)
Complete(w) ==
  /\ pc[w] = "complete"
  /\ rows' = [r \in Records |-> IF r \in InProgress(record[w]) THEN "processed" ELSE rows[r]]
  /\ IF InProgress(record[w]) # {}
       THEN Answer(w) /\ acked' = acked \cup {record[w]}
       ELSE Goto(w, "release") /\ UNCHANGED <<record, acked>>
  /\ UNCHANGED <<applied, requests, faults, restarts>>

CompleteFails(w) ==
  /\ pc[w] = "complete"
  /\ \/ /\ Fault("complete_fails")
        /\ UNCHANGED rows
     \/ /\ Fault("complete_lost")
        /\ rows' = [r \in Records |-> IF r \in InProgress(record[w]) THEN "processed" ELSE rows[r]]
  /\ Goto(w, "release")
  /\ UNCHANGED <<record, applied, acked, requests, restarts>>

(* ReleaseClaim deletes what is in progress only; the request is answered  *)
(* with 500.                                                               *)
FaultyReleaseAll(w) ==
  /\ pc[w] = "release"
  /\ rows' = [r \in Records |-> IF r \in Matching(record[w]) THEN "absent" ELSE rows[r]]
  /\ Answer(w)
  /\ UNCHANGED <<applied, acked, requests, faults, restarts>>

Release(w) ==
  /\ pc[w] = "release"
  /\ rows' = [r \in Records |-> IF r \in InProgress(record[w]) THEN "absent" ELSE rows[r]]
  /\ Answer(w)
  /\ UNCHANGED <<applied, acked, requests, faults, restarts>>

ReleaseFails(w) ==
  /\ pc[w] = "release"
  /\ Fault("release_fails")
  /\ Answer(w)
  /\ UNCHANGED <<rows, applied, acked, requests, restarts>>

-------------------------------------------------------------------------------
(* The process ends and starts again.  The store's init gives every row    *)
(* without a processed_at one.                                             *)
FaultyRestart ==
  /\ restarts < MaxRestarts
  /\ restarts' = restarts + 1
  /\ rows' = [r \in Records |-> IF rows[r] = "processed" THEN "processed" ELSE "absent"]
  /\ pc' = [w \in Workers |-> "idle"]
  /\ record' = [w \in Workers |-> NoRecord]
  /\ UNCHANGED <<applied, acked, requests, faults>>

Restart ==
  /\ restarts < MaxRestarts
  /\ restarts' = restarts + 1
  /\ rows' = [r \in Records |-> IF Present(r) THEN "processed" ELSE "absent"]
  /\ pc' = [w \in Workers |-> "idle"]
  /\ record' = [w \in Workers |-> NoRecord]
  /\ UNCHANGED <<applied, acked, requests, faults>>

Attempt(w) == AttemptSucceeds(w) \/ AttemptFails(w)

(* What a request does by itself.                                          *)
Runs(w) ==
  \/ Claim(w) \/ ClaimConflicts(w)
  \/ LookupProcessed(w) \/ LookupInProgress(w) \/ LookupMissing(w)
  \/ Poll(w)
  \/ Complete(w) \/ CompleteFails(w)
  \/ Release(w) \/ ReleaseFails(w)

Next ==
  \/ \E w \in Workers : \/ \E r \in Records : Arrive(w, r)
                        \/ Runs(w)
                        \/ Attempt(w)
                        \/ Cancelled(w) \/ ClaimLost(w)
  \/ Restart

Spec == Init /\ [][Next]_vars

(* The Go scheduler runs every request, and Feishu answers every call.     *)
Fairness == \A w \in Workers : WF_vars(Runs(w)) /\ WF_vars(Attempt(w))

FairSpec == Spec /\ Fairness

-------------------------------------------------------------------------------
(* A worker that owns the row of its delivery.                             *)
Owns(w) == pc[w] \in {"attempt", "complete", "release"}

(* Every variable has its type.                                            *)
TypeOK ==
  /\ rows \in [Records -> RowStatus]
  /\ pc \in [Workers -> Labels]
  /\ record \in [Workers -> Records \cup {NoRecord}]
  /\ \A w \in Workers : record[w] = NoRecord <=> pc[w] = "idle"
  /\ applied \in [Records -> Nat]
  /\ acked \subseteq Records
  /\ requests \in 0 .. MaxRequests
  /\ faults \in 0 .. MaxFaults
  /\ restarts \in 0 .. MaxRestarts

(* While one request works on an event, no other request works on any      *)
(* delivery of it: from the claim in TryClaim to the end of processDelivery. *)
ClaimExclusive ==
  \A v, w \in Workers : v # w /\ Owns(v) /\ Owns(w) => ~Conflict(record[v], record[w])

(* However often an event is delivered and whenever the process restarts,  *)
(* it is applied once, and once more for each CompleteClaim or other       *)
(* statement that failed.                                                  *)
AppliedOnce ==
  \A a, b \in Records :
    Conflict(a, b) => (IF a = b THEN applied[a] ELSE applied[a] + applied[b]) <= 1 + faults

(* A row in progress that no request works on blocks its event.  There are *)
(* as many as statements have failed, and none otherwise.                  *)
Unowned == {r \in Records : rows[r] = "claimed" /\ ~\E w \in Workers : Owns(w) /\ record[w] = r}
ClaimsAreOwned == Cardinality(Unowned) <= faults

(* A delivery is answered with 200 only when its event has been applied.   *)
AckedIsApplied ==
  \A r \in acked : \E s \in Records : Conflict(r, s) /\ applied[s] > 0

(* Whatever statements fail, only a restart, with its backfill in          *)
(* DeliveryStore.init, gets a 200 for an event that was never applied.     *)
OnlyRestartLoses == restarts = 0 => AckedIsApplied

(* Every request is answered, however many deliveries of its event wait    *)
(* for each other in processDelivery, unless a claim without an owner is   *)
(* in the way.                                                             *)
RequestAnswered == \A w \in Workers : pc[w] # "idle" ~> pc[w] = "idle" \/ Unowned # {}

(* The store as its users see it.                                          *)
Promise == INSTANCE Deliveries WITH
  working <- [w \in Workers |-> IF Owns(w) /\ rows[record[w]] = "claimed"
                                  THEN record[w] ELSE NoRecord],
  open <- {r \in Records : rows[r] = "claimed"},
  done <- {r \in Records : rows[r] = "processed"}

(* The delivery store keeps the promise of module Deliveries.              *)
KeepsPromise == Promise!Spec
================================================================================
