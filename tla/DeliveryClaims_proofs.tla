------------------------- MODULE DeliveryClaims_proofs -------------------------
(***************************************************************************)
(* Proofs about DeliveryClaims, for every set of workers and deliveries,   *)
(* every set of faults and every bound.                                    *)
(***************************************************************************)
EXTENDS DeliveryClaims, FiniteSetTheorems, TLAPS

LEMMA ConflictIsReflexive == \A r \in Records : Conflict(r, r)
  BY DEF Conflict

LEMMA ConflictIsSymmetric == \A r, s \in Records : Conflict(r, s) => Conflict(s, r)
  BY DEF Conflict

LEMMA OneMore ==
  ASSUME NEW S, IsFiniteSet(S), NEW x
  PROVE  /\ IsFiniteSet(S \cup {x})
         /\ Cardinality(S \cup {x}) \in Nat /\ Cardinality(S \cup {x}) <= Cardinality(S) + 1
<1>1. IsFiniteSet(S \cup {x}) /\ Cardinality(S) \in Nat
  BY FS_AddElement, FS_CardinalityType
<1>2. Cardinality(S \cup {x}) = IF x \in S THEN Cardinality(S) ELSE Cardinality(S) + 1
  BY FS_AddElement
<1> QED
  BY <1>1, <1>2

-------------------------------------------------------------------------------
(* The table holds one row per event: the primary key and the unique index. *)
RowsDistinct ==
  \A r, s \in Records : r # s /\ Present(r) /\ Present(s) => ~Conflict(r, s)

(* A worker's row is there while it works, and in progress until it has     *)
(* completed it.                                                            *)
OwnersHaveRows ==
  \A w \in Workers :
    /\ pc[w] \in {"attempt", "complete"} => rows[record[w]] = "claimed"
    /\ pc[w] = "release" => Present(record[w])

(* No two workers own one row.                                              *)
OwnersDiffer ==
  \A v, w \in Workers : v # w /\ Owns(v) /\ Owns(w) => record[v] # record[w]

ClaimInv == TypeOK /\ RowsDistinct /\ OwnersHaveRows /\ OwnersDiffer

-------------------------------------------------------------------------------
(* Every action keeps the types.                                            *)
LEMMA TypeInit == Init => TypeOK
  BY DeliveryBounds DEF Init, TypeOK, RowStatus, Labels

LEMMA TypeStep ==
  ASSUME TypeOK, [Next]_vars
  PROVE  TypeOK'
<1> USE NoRecordIsNone, DeliveryBounds DEF TypeOK, RowStatus, Labels, Goto, Answer, Fault
<1>1. ASSUME NEW w \in Workers, NEW r \in Records, Arrive(w, r) PROVE TypeOK'
  BY <1>1 DEF Arrive
<1>2. ASSUME NEW w \in Workers, Claim(w) PROVE TypeOK'
  BY <1>2 DEF Claim
<1>3. ASSUME NEW w \in Workers, ClaimConflicts(w) PROVE TypeOK'
  BY <1>3 DEF ClaimConflicts
<1>4. ASSUME NEW w \in Workers, ClaimLost(w) PROVE TypeOK'
  BY <1>4 DEF ClaimLost
<1>5. ASSUME NEW w \in Workers, LookupProcessed(w) PROVE TypeOK'
  BY <1>5 DEF LookupProcessed
<1>6. ASSUME NEW w \in Workers, LookupInProgress(w) \/ LookupMissing(w) \/ Poll(w) PROVE TypeOK'
  BY <1>6 DEF LookupInProgress, LookupMissing, Poll
<1>7. ASSUME NEW w \in Workers, Cancelled(w) PROVE TypeOK'
  BY <1>7 DEF Cancelled
<1>8. ASSUME NEW w \in Workers, Attempt(w) PROVE TypeOK'
  BY <1>8 DEF Attempt, AttemptSucceeds, AttemptFails
<1>9. ASSUME NEW w \in Workers, Complete(w) PROVE TypeOK'
  BY <1>9 DEF Complete
<1>10. ASSUME NEW w \in Workers, CompleteFails(w) PROVE TypeOK'
  BY <1>10 DEF CompleteFails
<1>11. ASSUME NEW w \in Workers, Release(w) \/ ReleaseFails(w) PROVE TypeOK'
  BY <1>11 DEF Release, ReleaseFails
<1>12. ASSUME Restart PROVE TypeOK'
  BY <1>12 DEF Restart
<1>13. ASSUME UNCHANGED vars PROVE TypeOK'
  BY <1>13 DEF vars
<1> QED
  BY <1>1, <1>2, <1>3, <1>4, <1>5, <1>6, <1>7, <1>8, <1>9, <1>10, <1>11, <1>12, <1>13
  DEF Next, Runs

-------------------------------------------------------------------------------
(* What the statements of the store do to the rows, given the invariant.    *)

(* The row a worker owns is the only one its statements match.              *)
LEMMA OwnRowOnly ==
  ASSUME ClaimInv, NEW w \in Workers, Owns(w)
  PROVE  /\ record[w] \in Records
         /\ Matching(record[w]) = {record[w]}
         /\ InProgress(record[w]) = {record[w]} \cap {r \in Records : rows[r] = "claimed"}
<1>1. record[w] \in Records
  BY DEF ClaimInv, TypeOK, Owns
<1>2. Present(record[w])
  BY DEF ClaimInv, OwnersHaveRows, Owns, Present
<1>3. Matching(record[w]) = {record[w]}
  BY <1>1, <1>2, ConflictIsReflexive DEF ClaimInv, RowsDistinct, Matching
<1> QED
  BY <1>1, <1>3 DEF InProgress

(* A step that leaves the table and the records of owners alone, and makes  *)
(* no owner, keeps the invariant.                                           *)
LEMMA QuietStep ==
  ASSUME ClaimInv, TypeOK', UNCHANGED rows,
         \A w \in Workers : \/ pc'[w] \notin {"attempt", "complete", "release"}
                            \/ /\ record'[w] = record[w]
                               /\ pc'[w] = pc[w] \/ (Owns(w) /\ pc'[w] = "release")
                                     \/ (pc[w] = "attempt" /\ pc'[w] = "complete")
  PROVE  ClaimInv'
<1>1. RowsDistinct'
  BY DEF ClaimInv, RowsDistinct, Present
<1>2. OwnersHaveRows'
  BY DEF ClaimInv, OwnersHaveRows, Present, Owns
<1>3. OwnersDiffer'
  BY DEF ClaimInv, OwnersDiffer, Owns
<1> QED
  BY <1>1, <1>2, <1>3 DEF ClaimInv

(* A row that is inserted collides with no other.                           *)
LEMMA InsertStep ==
  ASSUME ClaimInv, TypeOK', NEW w \in Workers, pc[w] = "claim", Matching(record[w]) = {},
         rows' = [rows EXCEPT ![record[w]] = "claimed"],
         \/ Goto(w, "attempt") /\ UNCHANGED record
         \/ Answer(w)
  PROVE  ClaimInv'
<1>1. record[w] \in Records
  BY DEF ClaimInv, TypeOK
<1>2. \A r \in Records : Present(r) => ~Conflict(record[w], r)
  BY <1>1 DEF Matching
<1>3. ~Present(record[w])
  BY <1>1, <1>2, ConflictIsReflexive
<1>4. \A r \in Records : rows'[r] = IF r = record[w] THEN "claimed" ELSE rows[r]
  BY <1>1 DEF ClaimInv, TypeOK
<1>5. \A v \in Workers \ {w} : pc'[v] = pc[v] /\ record'[v] = record[v]
  BY DEF ClaimInv, TypeOK, Goto, Answer
<1>6. \A v \in Workers \ {w} : Owns(v) => record[v] \in Records /\ Present(record[v]) /\ record[v] # record[w]
  BY <1>3, OwnRowOnly DEF ClaimInv, OwnersHaveRows, Owns, Present
<1>7. \/ pc'[w] = "attempt" /\ record'[w] = record[w]
      \/ pc'[w] = "idle"
  BY DEF ClaimInv, TypeOK, Goto, Answer
<1>8. RowsDistinct'
  BY <1>1, <1>2, <1>4, ConflictIsSymmetric DEF ClaimInv, RowsDistinct, Present
<1>9. OwnersHaveRows'
  BY <1>1, <1>4, <1>5, <1>6, <1>7 DEF ClaimInv, OwnersHaveRows, Present, Owns
<1>10. OwnersDiffer'
  BY <1>5, <1>6, <1>7 DEF ClaimInv, OwnersDiffer, Owns
<1> QED
  BY <1>8, <1>9, <1>10 DEF ClaimInv

(* A worker that settles or deletes its own row disturbs no other owner.    *)
LEMMA OwnRowStep ==
  ASSUME ClaimInv, TypeOK', NEW w \in Workers, Owns(w),
         \A r \in Records \ {record[w]} : rows'[r] = rows[r],
         \/ rows'[record[w]] # "absent" /\ pc[w] = "complete" /\ Goto(w, "release") /\ UNCHANGED record
         \/ (Present(record[w]) \/ rows'[record[w]] = "absent") /\ Answer(w)
  PROVE  ClaimInv'
<1>1. record[w] \in Records /\ Present(record[w])
  BY OwnRowOnly DEF ClaimInv, OwnersHaveRows, Owns, Present
<1>2. \A v \in Workers \ {w} : pc'[v] = pc[v] /\ record'[v] = record[v]
  BY DEF ClaimInv, TypeOK, Goto, Answer
<1>3. \A v \in Workers \ {w} : Owns(v) => record[v] \in Records /\ rows'[record[v]] = rows[record[v]]
  BY OwnRowOnly DEF ClaimInv, OwnersDiffer
<1>4. \/ pc'[w] = "release" /\ record'[w] = record[w] /\ rows'[record[w]] # "absent"
      \/ pc'[w] = "idle"
  BY DEF ClaimInv, TypeOK, Goto, Answer
<1>5. RowsDistinct'
  BY <1>1 DEF ClaimInv, RowsDistinct, Present
<1>6. OwnersHaveRows'
  BY <1>2, <1>3, <1>4 DEF ClaimInv, OwnersHaveRows, Present, Owns
<1>7. OwnersDiffer'
  BY <1>2, <1>4 DEF ClaimInv, OwnersDiffer, Owns
<1> QED
  BY <1>5, <1>6, <1>7 DEF ClaimInv

-------------------------------------------------------------------------------
LEMMA ClaimInvInit == Init => ClaimInv
  BY TypeInit DEF Init, ClaimInv, RowsDistinct, OwnersHaveRows, OwnersDiffer, Present, Owns

LEMMA ClaimInvStep ==
  ASSUME ClaimInv, [Next]_vars
  PROVE  ClaimInv'
<1>1. TypeOK'
  BY TypeStep DEF ClaimInv
<1>2. pc \in [Workers -> Labels] /\ record \in [Workers -> Records \cup {NoRecord}]
      /\ rows \in [Records -> RowStatus]
  BY DEF ClaimInv, TypeOK
<1>3. ASSUME NEW w \in Workers, NEW r \in Records, Arrive(w, r) PROVE ClaimInv'
  BY <1>1, <1>2, <1>3, QuietStep DEF Arrive, Goto
<1>4. ASSUME NEW w \in Workers, Claim(w) \/ ClaimLost(w) PROVE ClaimInv'
  BY <1>1, <1>4, InsertStep DEF Claim, ClaimLost
<1>5. ASSUME NEW w \in Workers,
             ClaimConflicts(w) \/ LookupInProgress(w) \/ LookupMissing(w) \/ Poll(w)
      PROVE  ClaimInv'
  BY <1>1, <1>2, <1>5, QuietStep DEF ClaimConflicts, LookupInProgress, LookupMissing, Poll, Goto
<1>6. ASSUME NEW w \in Workers, LookupProcessed(w) \/ Cancelled(w) \/ ReleaseFails(w)
      PROVE  ClaimInv'
  BY <1>1, <1>2, <1>6, QuietStep DEF LookupProcessed, Cancelled, ReleaseFails, Goto, Answer
<1>7. ASSUME NEW w \in Workers, Attempt(w) PROVE ClaimInv'
  BY <1>1, <1>2, <1>7, QuietStep DEF Attempt, AttemptSucceeds, AttemptFails, Goto, Owns
<1>8. ASSUME NEW w \in Workers, Complete(w) PROVE ClaimInv'
  <2>1. Owns(w) /\ Present(record[w]) /\ InProgress(record[w]) = {record[w]}
    BY <1>8, OwnRowOnly DEF Complete, Owns, ClaimInv, OwnersHaveRows, Present
  <2>2. Answer(w) /\ \A r \in Records \ {record[w]} : rows'[r] = rows[r]
    BY <1>8, <2>1 DEF Complete
  <2> QED
    BY <1>1, <2>1, <2>2, OwnRowStep
<1>9. ASSUME NEW w \in Workers, CompleteFails(w) PROVE ClaimInv'
  <2>1. /\ Owns(w) /\ record[w] \in Records /\ rows[record[w]] = "claimed"
        /\ InProgress(record[w]) = {record[w]}
    BY <1>9, OwnRowOnly DEF CompleteFails, Owns, ClaimInv, OwnersHaveRows
  <2>2. /\ \A r \in Records \ {record[w]} : rows'[r] = rows[r]
        /\ rows'[record[w]] # "absent"
    BY <1>9, <2>1 DEF CompleteFails
  <2> QED
    BY <1>1, <1>9, <2>1, <2>2, OwnRowStep DEF CompleteFails
<1>10. ASSUME NEW w \in Workers, Release(w) PROVE ClaimInv'
  <2>1. /\ Owns(w) /\ Present(record[w])
        /\ \A r \in InProgress(record[w]) : r = record[w]
    BY <1>10, OwnRowOnly DEF Release, Owns, ClaimInv, OwnersHaveRows
  <2>2. \A r \in Records \ {record[w]} : rows'[r] = rows[r]
    BY <1>10, <2>1 DEF Release
  <2> QED
    BY <1>1, <1>10, <2>1, <2>2, OwnRowStep DEF Release
<1>11. ASSUME Restart PROVE ClaimInv'
  BY <1>1, <1>11 DEF Restart, ClaimInv, RowsDistinct, OwnersHaveRows, OwnersDiffer, Present, Owns
<1>12. ASSUME UNCHANGED vars PROVE ClaimInv'
  BY <1>1, <1>12, QuietStep DEF vars
<1> QED
  BY <1>3, <1>4, <1>5, <1>6, <1>7, <1>8, <1>9, <1>10, <1>11, <1>12 DEF Next, Runs

THEOREM ClaimInvHolds == Spec => []ClaimInv
  BY ClaimInvInit, ClaimInvStep, PTL DEF Spec

LEMMA OwnersAreExclusive == ClaimInv => ClaimExclusive
<1> SUFFICES ASSUME ClaimInv, NEW v \in Workers, NEW w \in Workers, v # w, Owns(v), Owns(w)
             PROVE  ~Conflict(record[v], record[w])
  BY DEF ClaimExclusive
<1>1. /\ record[v] \in Records /\ Present(record[v])
      /\ record[w] \in Records /\ Present(record[w])
  BY OwnRowOnly DEF ClaimInv, OwnersHaveRows, Owns, Present
<1> QED
  BY <1>1 DEF ClaimInv, OwnersDiffer, RowsDistinct

(* No two requests ever work on deliveries of one event, for every number   *)
(* of requests, failures and restarts: TryClaim's unique row is enough.     *)
THEOREM ExclusiveClaims == Spec => []ClaimExclusive
  BY OwnersAreExclusive, ClaimInvHolds, PTL

-------------------------------------------------------------------------------
(* Every step of the store is a step of its promise, or changes nothing     *)
(* that the promise speaks of.                                              *)

Works(w) == IF Owns(w) /\ rows[record[w]] = "claimed" THEN record[w] ELSE NoRecord
BusyWith == [w \in Workers |-> Works(w)]
OpenRows == {r \in Records : rows[r] = "claimed"}
DoneRows == {r \in Records : rows[r] = "processed"}

LEMMA PromiseInit == Init => Promise!Init
  BY DEF Init, Promise!Init, Owns

(* What w works on ends with its request, or with its row.                  *)
LEMMA OnlyOneWorks ==
  ASSUME ClaimInv, NEW w \in Workers, NEW l \in Labels,
         pc' = [pc EXCEPT ![w] = l],
         \A v \in Workers \ {w} : /\ record'[v] = record[v]
                                  /\ Owns(v) => rows'[record[v]] = rows[record[v]]
  PROVE  BusyWith' = [BusyWith EXCEPT ![w] = Works(w)']
<1>1. \A v \in Workers \ {w} : Works(v)' = Works(v)
  BY DEF ClaimInv, TypeOK, Works, Owns
<1> QED
  BY <1>1 DEF BusyWith

(* Where no row collides with one, the promise is free to open it.          *)
LEMMA FreeToOpen ==
  ASSUME ClaimInv, NEW r \in Records, Matching(r) = {}
  PROVE  Promise!Free(r)
  BY DEF Promise!Free, Matching, Present

LEMMA PromiseStep ==
  ASSUME ClaimInv, [Next]_vars
  PROVE  [Promise!Next]_(Promise!vars)
<1> DEFINE Kept == BusyWith' = BusyWith /\ OpenRows' = OpenRows /\ DoneRows' = DoneRows
<1>1. /\ pc \in [Workers -> Labels] /\ record \in [Workers -> Records \cup {NoRecord}]
      /\ rows \in [Records -> RowStatus]
  BY DEF ClaimInv, TypeOK
<1>2. Kept => UNCHANGED Promise!vars
  BY DEF Promise!vars, BusyWith, Works, OpenRows, DoneRows
<1>3. ASSUME NEW w \in Workers, Claim(w) \/ ClaimLost(w) PROVE Promise!Next
  <2>1. PICK r \in Records : r = record[w]
    BY <1>1, <1>3 DEF Claim, ClaimLost, ClaimInv, TypeOK
  <2>2. /\ Promise!Free(r) /\ ~Owns(w) /\ rows[r] = "absent"
        /\ rows' = [rows EXCEPT ![r] = "claimed"]
    BY <1>1, <1>3, <2>1, FreeToOpen, ConflictIsReflexive DEF Claim, ClaimLost, Owns, Matching, Present
  <2>3. OpenRows' = OpenRows \cup {r} /\ DoneRows' = DoneRows
    BY <1>1, <2>2 DEF OpenRows, DoneRows
  <2>4. \A v \in Workers \ {w} : /\ record'[v] = record[v]
                                 /\ Owns(v) => rows'[record[v]] = rows[record[v]]
    BY <1>1, <1>3, <2>2, OwnRowOnly
    DEF Claim, ClaimLost, Answer, ClaimInv, OwnersHaveRows, Owns, Present
  <2>5. CASE Claim(w)
    <3>1. Works(w)' = r /\ Works(w) = NoRecord
      BY <1>1, <2>1, <2>2, <2>5 DEF Claim, Goto, Works, Owns
    <3>2. BusyWith' = [BusyWith EXCEPT ![w] = r]
      BY <2>4, <2>5, <3>1, OnlyOneWorks DEF Claim, Goto, Labels
    <3>3. Promise!Open(w, r)
      BY <2>2, <2>3, <3>1, <3>2 DEF Promise!Open, BusyWith, Works, OpenRows, DoneRows
    <3> QED
      BY <3>3 DEF Promise!Next
  <2>6. CASE ClaimLost(w)
    <3>1. Works(w)' = NoRecord /\ Works(w) = NoRecord
      BY <1>1, <2>2, <2>6 DEF ClaimLost, Answer, Goto, Works, Owns
    <3>2. BusyWith' = BusyWith
      BY <2>4, <2>6, <3>1, OnlyOneWorks DEF ClaimLost, Answer, Goto, Labels, BusyWith
    <3>3. Promise!OpenUnknowingly(r)
      BY <2>2, <2>3, <3>2 DEF Promise!OpenUnknowingly, BusyWith, Works, OpenRows, DoneRows
    <3> QED
      BY <3>3 DEF Promise!Next
  <2> QED
    BY <1>3, <2>5, <2>6
(* Before the claim, and while the row stays what it is, nothing shows.     *)
<1>4. ASSUME NEW w \in Workers, NEW l \in Labels, pc' = [pc EXCEPT ![w] = l], UNCHANGED rows,
             \A v \in Workers \ {w} : record'[v] = record[v], Works(w)' = Works(w)
      PROVE  Kept
  <2>1. BusyWith' = [BusyWith EXCEPT ![w] = Works(w)]
    BY <1>4, OnlyOneWorks
  <2> QED
    BY <1>4, <2>1 DEF BusyWith, OpenRows, DoneRows
<1>5. ASSUME NEW w \in Workers,
             \/ \E r \in Records : Arrive(w, r)
             \/ ClaimConflicts(w) \/ LookupInProgress(w) \/ LookupMissing(w) \/ Poll(w)
             \/ LookupProcessed(w) \/ Cancelled(w) \/ Attempt(w)
      PROVE  Kept
  <2>1. CASE \E r \in Records : Arrive(w, r)
    <3>1. Works(w)' = Works(w)
      BY <1>1, <2>1 DEF Arrive, Goto, Works, Owns
    <3> QED
      BY <1>1, <1>4, <2>1, <3>1 DEF Arrive, Goto, Labels
  <2>2. CASE ClaimConflicts(w) \/ LookupInProgress(w) \/ LookupMissing(w) \/ Poll(w)
    <3>1. Works(w)' = Works(w)
      BY <1>1, <2>2 DEF ClaimConflicts, LookupInProgress, LookupMissing, Poll, Goto, Works, Owns
    <3> QED
      BY <1>4, <2>2, <3>1 DEF ClaimConflicts, LookupInProgress, LookupMissing, Poll, Goto, Labels
  <2>3. CASE LookupProcessed(w) \/ Cancelled(w)
    <3>1. Works(w)' = Works(w)
      BY <1>1, <2>3 DEF LookupProcessed, Cancelled, Answer, Goto, Works, Owns
    <3> QED
      BY <1>1, <1>4, <2>3, <3>1 DEF LookupProcessed, Cancelled, Answer, Goto, Labels
  <2>4. CASE Attempt(w)
    <3>1. Works(w)' = Works(w)
      BY <1>1, <2>4 DEF Attempt, AttemptSucceeds, AttemptFails, Goto, Works, Owns
    <3> QED
      BY <1>4, <2>4, <3>1 DEF Attempt, AttemptSucceeds, AttemptFails, Goto, Labels
  <2> QED
    BY <1>5, <2>1, <2>2, <2>3, <2>4
(* A worker that ends its work touches no row but its own.                  *)
<1>6. ASSUME NEW w \in Workers, Owns(w),
             Complete(w) \/ CompleteFails(w) \/ Release(w) \/ ReleaseFails(w)
      PROVE  Kept \/ Promise!Next
  <2>1. /\ record[w] \in Records
        /\ InProgress(record[w]) = {record[w]} \cap OpenRows
        /\ Works(w) = IF rows[record[w]] = "claimed" THEN record[w] ELSE NoRecord
    BY <1>6, OwnRowOnly DEF Works, OpenRows
  <2>2. \A r \in Records \ {record[w]} : rows'[r] = rows[r]
    BY <1>6, <2>1 DEF Complete, CompleteFails, Release, ReleaseFails
  <2>3. \A v \in Workers \ {w} : /\ record'[v] = record[v]
                                 /\ Owns(v) => rows'[record[v]] = rows[record[v]]
    <3>1. \A v \in Workers \ {w} : Owns(v) => record[v] \in Records \ {record[w]}
      BY <1>6, OwnRowOnly DEF ClaimInv, OwnersDiffer
    <3> QED
      BY <1>1, <1>6, <2>1, <2>2, <3>1
      DEF Complete, CompleteFails, Release, ReleaseFails, Answer
  <2>4. \E l \in {"idle", "release"} : pc' = [pc EXCEPT ![w] = l]
    BY <1>6 DEF Complete, CompleteFails, Release, ReleaseFails, Answer, Goto
  <2>5. BusyWith' = [BusyWith EXCEPT ![w] = Works(w)']
    BY <2>3, <2>4, OnlyOneWorks DEF Labels
  <2>6. rows' \in [Records -> RowStatus]
    BY TypeStep DEF ClaimInv, TypeOK
  <2>7. CASE rows'[record[w]] = rows[record[w]] /\ Works(w)' = Works(w)
    <3>1. rows' = rows
      BY <1>1, <2>1, <2>2, <2>6, <2>7
    <3>2. BusyWith' = BusyWith
      BY <2>5, <2>7 DEF BusyWith
    <3> QED
      BY <3>1, <3>2 DEF OpenRows, DoneRows
  <2>8. CASE rows[record[w]] = "claimed" /\ Works(w)' = NoRecord
    <3>1. Works(w) = record[w] /\ BusyWith[w] = record[w] /\ BusyWith[w] # NoRecord
      BY <2>1, <2>8, NoRecordIsNone DEF BusyWith
    <3>2. CASE rows'[record[w]] = "processed"
      <4>1. OpenRows' = OpenRows \ {BusyWith[w]} /\ DoneRows' = DoneRows \cup {BusyWith[w]}
        BY <1>1, <2>1, <2>2, <3>1, <3>2 DEF OpenRows, DoneRows
      <4>2. Promise!Settle(w)
        BY <2>5, <2>8, <3>1, <4>1
        DEF Promise!Settle, Promise!LeaveOff, BusyWith, Works, OpenRows, DoneRows
      <4> QED
        BY <4>2 DEF Promise!Next
    <3>3. CASE rows'[record[w]] = "absent"
      <4>1. OpenRows' = OpenRows \ {BusyWith[w]} /\ DoneRows' = DoneRows
        BY <1>1, <2>1, <2>2, <2>8, <3>1, <3>3 DEF OpenRows, DoneRows
      <4>2. Promise!Drop(w)
        BY <2>5, <2>8, <3>1, <4>1
        DEF Promise!Drop, Promise!LeaveOff, BusyWith, Works, OpenRows, DoneRows
      <4> QED
        BY <4>2 DEF Promise!Next
    <3>4. CASE rows'[record[w]] = "claimed"
      <4>1. OpenRows' = OpenRows /\ DoneRows' = DoneRows
        BY <2>1, <2>2, <2>8, <3>4 DEF OpenRows, DoneRows
      <4>2. Promise!Abandon(w)
        BY <2>5, <2>8, <3>1, <4>1
        DEF Promise!Abandon, Promise!LeaveOff, BusyWith, Works, OpenRows, DoneRows
      <4> QED
        BY <4>2 DEF Promise!Next
    <3> QED
      BY <2>1, <2>6, <3>2, <3>3, <3>4 DEF RowStatus
  <2>9. \/ rows'[record[w]] = rows[record[w]] /\ Works(w)' = Works(w)
        \/ rows[record[w]] = "claimed" /\ Works(w)' = NoRecord
    <3>1. CASE Complete(w) \/ CompleteFails(w)
      <4>1. rows[record[w]] = "claimed" /\ InProgress(record[w]) = {record[w]}
        BY <2>1, <3>1 DEF Complete, CompleteFails, ClaimInv, OwnersHaveRows, OpenRows
      <4>2. CASE Complete(w)
        BY <1>1, <4>1, <4>2 DEF Complete, Answer, Goto, Works, Owns
      <4>3. CASE CompleteFails(w)
        BY <1>1, <2>1, <4>1, <4>3 DEF CompleteFails, Goto, Works, Owns
      <4> QED
        BY <3>1, <4>2, <4>3
    <3>2. CASE Release(w) \/ ReleaseFails(w)
      BY <1>1, <2>1, <3>2 DEF Release, ReleaseFails, Answer, Goto, Works, Owns, OpenRows
    <3> QED
      BY <1>6, <3>1, <3>2
  <2> QED
    BY <2>7, <2>8, <2>9
<1>7. ASSUME Restart PROVE Promise!Next
  <2>1. OpenRows' = {} /\ DoneRows' = DoneRows \cup OpenRows
    BY <1>1, <1>7 DEF Restart, Present, OpenRows, DoneRows, RowStatus
  <2>2. BusyWith' = [w \in Workers |-> NoRecord]
    BY <1>7 DEF Restart, BusyWith, Works, Owns
  <2>3. Promise!Restart
    BY <2>1, <2>2 DEF Promise!Restart, BusyWith, Works, OpenRows, DoneRows
  <2> QED
    BY <2>3 DEF Promise!Next
<1>8. ASSUME UNCHANGED vars PROVE Kept
  BY <1>8 DEF vars, BusyWith, Works, Owns, OpenRows, DoneRows
<1>9. ASSUME NEW w \in Workers,
             Complete(w) \/ CompleteFails(w) \/ Release(w) \/ ReleaseFails(w)
      PROVE  Owns(w)
  BY <1>9 DEF Complete, CompleteFails, Release, ReleaseFails, Owns
<1> QED
  BY <1>2, <1>3, <1>5, <1>6, <1>7, <1>8, <1>9 DEF Next, Runs

(* The detailed store implements its promise, for every number of workers,  *)
(* deliveries, failures and restarts.                                       *)
THEOREM PromiseKept == Spec => KeepsPromise
<1>1. Init => Promise!Init
  BY PromiseInit
<1>2. ClaimInv /\ [Next]_vars => [Promise!Next]_(Promise!vars)
  BY PromiseStep
<1> QED
  BY <1>1, <1>2, ClaimInvHolds, PTL DEF Spec, KeepsPromise, Promise!Spec

-------------------------------------------------------------------------------
(* How often an event is applied.                                           *)

(* An event is behind the store: its row is processed, or a worker has      *)
(* applied it and not reported it yet.                                      *)
Applying(r) == \E w \in Workers : pc[w] = "complete" /\ record[w] = r
Spent(r) == rows[r] = "processed" \/ Applying(r)

Total(a, b) == IF a = b THEN applied[a] ELSE applied[a] + applied[b]

(* Each application beyond the one that is spent took a failed statement.   *)
FaultsReapply ==
  \A a, b \in Records : Conflict(a, b) =>
    Total(a, b) <= faults + (IF Spent(a) \/ Spent(b) THEN 1 ELSE 0)

(* What a worker reports has been applied, and so has what the table calls  *)
(* processed, until a restart backfills it.                                 *)
ReportedIsApplied ==
  /\ \A w \in Workers : pc[w] = "complete" => applied[record[w]] > 0
  /\ restarts = 0 => \A r \in Records : rows[r] = "processed" => applied[r] > 0

AppliedInv == FaultsReapply /\ ReportedIsApplied /\ OnlyRestartLoses

(* A step that applies nothing, answers with 200 only what was applied and  *)
(* spends no event for free.                                                *)
LEMMA UnappliedStep ==
  ASSUME ClaimInv, AppliedInv, UNCHANGED applied,
         \A r \in acked' \ acked :
           restarts = 0 => \E s \in Records : Conflict(r, s) /\ applied[s] > 0,
         faults' \in {faults, faults + 1}, restarts' \in {restarts, restarts + 1},
         \A r \in Records : Spent(r) /\ ~Spent(r)' => faults' = faults + 1,
         \A w \in Workers : pc'[w] = "complete" => pc[w] = "complete" /\ record'[w] = record[w],
         \A r \in Records : rows'[r] = "processed" =>
           rows[r] = "processed" \/ Applying(r) \/ restarts' # 0
  PROVE  AppliedInv'
<1>1. applied \in [Records -> Nat] /\ faults \in Nat /\ restarts \in Nat
  BY DeliveryBounds DEF ClaimInv, TypeOK
<1>2. FaultsReapply'
  <2> SUFFICES ASSUME NEW a \in Records, NEW b \in Records, Conflict(a, b)
               PROVE  Total(a, b)' <= faults' + (IF Spent(a)' \/ Spent(b)' THEN 1 ELSE 0)
    BY DEF FaultsReapply, Conflict
  <2>1. Total(a, b) <= faults + (IF Spent(a) \/ Spent(b) THEN 1 ELSE 0)
    BY DEF AppliedInv, FaultsReapply
  <2>2. Total(a, b)' = Total(a, b) /\ Total(a, b) \in Nat
    BY <1>1 DEF Total
  <2>3. CASE faults' = faults
    <3>1. Spent(a) \/ Spent(b) => Spent(a)' \/ Spent(b)'
      BY <1>1, <2>3
    <3> QED
      BY <1>1, <2>1, <2>2, <2>3, <3>1
  <2>4. CASE faults' = faults + 1
    BY <1>1, <2>1, <2>2, <2>4
  <2> QED
    BY <2>3, <2>4
<1>3. ReportedIsApplied'
  BY <1>1 DEF AppliedInv, ReportedIsApplied, Applying
<1>4. OnlyRestartLoses'
  BY <1>1 DEF AppliedInv, OnlyRestartLoses, AckedIsApplied, Conflict
<1> QED
  BY <1>2, <1>3, <1>4 DEF AppliedInv

(* An attempt succeeds: the event was not spent, by any of its deliveries.  *)
LEMMA AppliedStep ==
  ASSUME ClaimInv, AppliedInv, NEW w \in Workers, AttemptSucceeds(w)
  PROVE  AppliedInv'
<1> DEFINE own == record[w]
<1>1. /\ applied \in [Records -> Nat] /\ faults \in Nat
      /\ pc \in [Workers -> Labels]
  BY DeliveryBounds DEF ClaimInv, TypeOK
<1>2. /\ Owns(w) /\ own \in Records /\ rows[own] = "claimed"
      /\ applied' = [applied EXCEPT ![own] = @ + 1]
      /\ pc' = [pc EXCEPT ![w] = "complete"] /\ UNCHANGED <<rows, record, acked, faults, restarts>>
  BY OwnRowOnly DEF AttemptSucceeds, Goto, Owns, ClaimInv, OwnersHaveRows
<1>3. \A r \in Records : Conflict(own, r) \/ Conflict(r, own) => ~Spent(r)
  <2> SUFFICES ASSUME NEW r \in Records, Conflict(own, r)
               PROVE  ~Spent(r)
    BY <1>2, ConflictIsSymmetric
  <2>1. r # own => ~Present(r)
    BY <1>2 DEF ClaimInv, RowsDistinct, Present
  <2>2. \A v \in Workers : pc[v] = "complete" => record[v] # own
    BY <1>2 DEF ClaimInv, OwnersDiffer, Owns, AttemptSucceeds
  <2> QED
    BY <1>2, <2>1, <2>2 DEF ClaimInv, OwnersHaveRows, Spent, Applying, Present
<1>4. /\ Spent(own)'
      /\ \A r \in Records : Spent(r) => Spent(r)'
  BY <1>1, <1>2 DEF Spent, Applying
<1>5. FaultsReapply'
  <2> SUFFICES ASSUME NEW a \in Records, NEW b \in Records, Conflict(a, b)
               PROVE  Total(a, b)' <= faults' + (IF Spent(a)' \/ Spent(b)' THEN 1 ELSE 0)
    BY DEF FaultsReapply, Conflict
  <2>1. Total(a, b) <= faults + (IF Spent(a) \/ Spent(b) THEN 1 ELSE 0)
    BY DEF AppliedInv, FaultsReapply
  <2>2. CASE own \in {a, b}
    <3>1. ~Spent(a) /\ ~Spent(b) /\ (Spent(a)' \/ Spent(b)')
      BY <1>2, <1>3, <1>4, <2>2, ConflictIsReflexive
    <3>2. Total(a, b)' = Total(a, b) + 1 /\ Total(a, b) \in Nat
      BY <1>1, <1>2, <2>2 DEF Total
    <3> QED
      BY <1>1, <1>2, <2>1, <3>1, <3>2
  <2>3. CASE own \notin {a, b}
    <3>1. Total(a, b)' = Total(a, b) /\ Total(a, b) \in Nat
      BY <1>1, <1>2, <2>3 DEF Total
    <3> QED
      BY <1>1, <1>2, <1>4, <2>1, <3>1
  <2> QED
    BY <2>2, <2>3
<1>6. \A r \in Records : applied[r] > 0 => applied'[r] > 0
  BY <1>1, <1>2
<1>7. \A v \in Workers : pc'[v] = "complete" => record[v] \in Records
  BY <1>1, <1>2, OwnRowOnly DEF Owns
<1>8. ReportedIsApplied'
  BY <1>1, <1>2, <1>6, <1>7 DEF AppliedInv, ReportedIsApplied
<1>9. OnlyRestartLoses'
  BY <1>2, <1>6 DEF AppliedInv, OnlyRestartLoses, AckedIsApplied, Conflict
<1> QED
  BY <1>5, <1>8, <1>9 DEF AppliedInv

(* What reaches the table, and what is answered with 200, was applied by    *)
(* its own request or is there already; an attempt is begun by a claim and  *)
(* reported by who made it.                                                 *)
LEMMA ReportSteps ==
  ASSUME ClaimInv, [Next]_vars
  PROVE  /\ restarts' \in {restarts, restarts + 1}
         /\ \A r \in Records : rows'[r] = "processed" =>
              rows[r] = "processed" \/ Applying(r) \/ restarts' # 0
         /\ \A r \in acked' \ acked :
              Applying(r) \/ \E s \in Records : Conflict(r, s) /\ rows[s] = "processed"
         /\ \A w \in Workers : pc'[w] \in {"attempt", "complete"} =>
              record'[w] = record[w] /\ pc[w] \in {"claim", "attempt", "complete"}
<1> DEFINE Report ==
      /\ restarts' \in {restarts, restarts + 1}
      /\ \A r \in Records : rows'[r] = "processed" =>
           rows[r] = "processed" \/ Applying(r) \/ restarts' # 0
      /\ \A r \in acked' \ acked :
           Applying(r) \/ \E s \in Records : Conflict(r, s) /\ rows[s] = "processed"
    Going ==
      \A v \in Workers : pc'[v] \in {"attempt", "complete"} =>
        record'[v] = record[v] /\ pc[v] \in {"claim", "attempt", "complete"}
<1>1. /\ pc \in [Workers -> Labels] /\ record \in [Workers -> Records \cup {NoRecord}]
      /\ rows \in [Records -> RowStatus] /\ restarts \in Nat
  BY DeliveryBounds DEF ClaimInv, TypeOK
<1>2. ASSUME NEW w \in Workers,
             \/ \E r \in Records : Arrive(w, r)
             \/ ClaimConflicts(w) \/ LookupInProgress(w) \/ LookupMissing(w) \/ Poll(w)
             \/ Cancelled(w) \/ AttemptFails(w) \/ AttemptSucceeds(w) \/ ReleaseFails(w)
      PROVE  Report /\ Going
  BY <1>1, <1>2
  DEF Arrive, ClaimConflicts, LookupInProgress, LookupMissing, Poll, Cancelled, AttemptFails,
      AttemptSucceeds, ReleaseFails, Answer, Goto
<1>3. ASSUME NEW w \in Workers, Claim(w) \/ ClaimLost(w) \/ Release(w) PROVE Report /\ Going
  BY <1>1, <1>3 DEF Claim, ClaimLost, Release, Answer, Goto
<1>4. ASSUME NEW w \in Workers, LookupProcessed(w) PROVE Report /\ Going
  BY <1>1, <1>4 DEF LookupProcessed, Matching, Answer, Goto
<1>5. ASSUME NEW w \in Workers, Complete(w) \/ CompleteFails(w) PROVE Report /\ Going
  <2>1. /\ Owns(w) /\ record[w] \in Records
        /\ InProgress(record[w]) = {record[w]} /\ pc[w] = "complete"
    BY <1>5, OwnRowOnly DEF Complete, CompleteFails, Owns, ClaimInv, OwnersHaveRows
  <2>2. Report
    BY <1>1, <1>5, <2>1 DEF Complete, CompleteFails, Applying
  <2>3. Going
    BY <1>1, <1>5, <2>1 DEF Complete, CompleteFails, Answer, Goto
  <2> QED
    BY <2>2, <2>3
<1>6. ASSUME Restart PROVE Report /\ Going
  BY <1>1, <1>6 DEF Restart
<1>7. ASSUME UNCHANGED vars PROVE Report /\ Going
  BY <1>1, <1>7 DEF vars, Labels
<1> QED
  BY <1>2, <1>3, <1>4, <1>5, <1>6, <1>7 DEF Next, Runs, Attempt

LEMMA AppliedInvInit == Init => AppliedInv
<1> SUFFICES ASSUME Init PROVE AppliedInv
  OBVIOUS
<1>1. \A a, b \in Records : Total(a, b) = 0 /\ ~Spent(a)
  BY DEF Init, Total, Spent, Applying
<1> QED
  BY <1>1 DEF Init, AppliedInv, FaultsReapply, ReportedIsApplied, OnlyRestartLoses, AckedIsApplied

LEMMA AppliedInvStep ==
  ASSUME ClaimInv, AppliedInv, [Next]_vars
  PROVE  AppliedInv'
<1>1. /\ pc \in [Workers -> Labels] /\ record \in [Workers -> Records \cup {NoRecord}]
      /\ rows \in [Records -> RowStatus] /\ applied \in [Records -> Nat]
      /\ faults \in Nat /\ restarts \in Nat /\ acked \subseteq Records
  BY DeliveryBounds DEF ClaimInv, TypeOK
(* Nothing is reported: rows are opened or deleted, and requests come and   *)
(* go.                                                                      *)
<1>2. ASSUME NEW w \in Workers, pc[w] # "complete", NEW l \in Labels \ {"complete"},
             pc' = [pc EXCEPT ![w] = l],
             \A v \in Workers \ {w} : record'[v] = record[v],
             UNCHANGED <<applied, acked, restarts>>, faults' \in {faults, faults + 1},
             \A r \in Records : rows'[r] = "processed" <=> rows[r] = "processed"
      PROVE  AppliedInv'
  <2>1. \A v \in Workers : pc'[v] = "complete" <=> pc[v] = "complete"
    BY <1>1, <1>2
  <2>2. \A v \in Workers : pc[v] = "complete" => record'[v] = record[v]
    BY <1>2
  <2>3. \A r \in Records : Spent(r)' <=> Spent(r)
    BY <1>2, <2>1, <2>2 DEF Spent, Applying
  <2> QED
    BY <1>2, <2>1, <2>2, <2>3, UnappliedStep
<1>3. ASSUME NEW w \in Workers,
             \/ \E r \in Records : Arrive(w, r)
             \/ ClaimConflicts(w) \/ LookupInProgress(w) \/ LookupMissing(w) \/ Poll(w)
             \/ Cancelled(w) \/ AttemptFails(w) \/ ReleaseFails(w)
      PROVE  AppliedInv'
  <2>1. /\ pc[w] # "complete" /\ \E l \in Labels \ {"complete"} : pc' = [pc EXCEPT ![w] = l]
        /\ \A v \in Workers \ {w} : record'[v] = record[v]
        /\ UNCHANGED <<rows, applied, acked, restarts>> /\ faults' \in {faults, faults + 1}
    BY <1>1, <1>3
    DEF Arrive, ClaimConflicts, LookupInProgress, LookupMissing, Poll, Cancelled, AttemptFails,
        ReleaseFails, Fault, Answer, Goto, Labels
  <2> QED
    BY <1>2, <2>1
<1>4. ASSUME NEW w \in Workers, Claim(w) \/ ClaimLost(w) PROVE AppliedInv'
  <2>1. /\ pc[w] # "complete" /\ \E l \in Labels \ {"complete"} : pc' = [pc EXCEPT ![w] = l]
        /\ \A v \in Workers \ {w} : record'[v] = record[v]
        /\ UNCHANGED <<applied, acked, restarts>> /\ faults' \in {faults, faults + 1}
    BY <1>1, <1>4 DEF Claim, ClaimLost, Fault, Answer, Goto, Labels
  <2>2. record[w] \in Records /\ rows[record[w]] = "absent"
    BY <1>1, <1>4, ConflictIsReflexive
    DEF Claim, ClaimLost, ClaimInv, TypeOK, Matching, Present
  <2>3. rows' = [rows EXCEPT ![record[w]] = "claimed"]
    BY <1>4 DEF Claim, ClaimLost
  <2>4. \A r \in Records : rows'[r] = "processed" <=> rows[r] = "processed"
    BY <1>1, <2>2, <2>3
  <2> QED
    BY <1>2, <2>1, <2>4
<1>5. ASSUME NEW w \in Workers, Release(w) PROVE AppliedInv'
  <2>1. /\ pc[w] # "complete" /\ \E l \in Labels \ {"complete"} : pc' = [pc EXCEPT ![w] = l]
        /\ \A v \in Workers \ {w} : record'[v] = record[v]
        /\ UNCHANGED <<applied, acked, restarts>> /\ faults' \in {faults, faults + 1}
    BY <1>1, <1>5 DEF Release, Answer, Goto, Labels
  <2>2. \A r \in Records : rows'[r] = "processed" <=> rows[r] = "processed"
    BY <1>1, <1>5 DEF Release, InProgress
  <2> QED
    BY <1>2, <2>1, <2>2
<1>6. ASSUME NEW w \in Workers, LookupProcessed(w) PROVE AppliedInv'
  <2>1. /\ pc' = [pc EXCEPT ![w] = "idle"] /\ pc[w] # "complete"
        /\ \A v \in Workers \ {w} : record'[v] = record[v]
        /\ acked' = acked \cup {record[w]}
        /\ UNCHANGED <<rows, applied, faults, restarts>>
    BY <1>1, <1>6 DEF LookupProcessed, Answer, Goto
  <2>2. restarts = 0 => \E s \in Records : Conflict(record[w], s) /\ applied[s] > 0
    BY <1>6 DEF LookupProcessed, Matching, AppliedInv, ReportedIsApplied
  <2>3. \A r \in Records : Spent(r)' <=> Spent(r)
    BY <1>1, <2>1 DEF Spent, Applying
  <2>4. \A v \in Workers : pc'[v] = "complete" => pc[v] = "complete" /\ record'[v] = record[v]
    BY <1>1, <2>1
  <2> QED
    BY <1>1, <2>1, <2>2, <2>3, <2>4, UnappliedStep
(* The row of a delivery that is completed is its own, and no other.        *)
<1>7. ASSUME NEW w \in Workers, Complete(w) \/ CompleteFails(w) PROVE AppliedInv'
  <2>1. /\ Owns(w) /\ record[w] \in Records /\ rows[record[w]] = "claimed"
        /\ InProgress(record[w]) = {record[w]} /\ pc[w] = "complete"
    BY <1>7, OwnRowOnly DEF Complete, CompleteFails, Owns, ClaimInv, OwnersHaveRows
  <2>2. /\ \E l \in {"idle", "release"} : pc' = [pc EXCEPT ![w] = l]
        /\ \A v \in Workers \ {w} : record'[v] = record[v]
        /\ UNCHANGED <<applied, restarts>>
    BY <1>1, <1>7 DEF Complete, CompleteFails, Answer, Goto
  <2>3. \A v \in Workers : pc'[v] = "complete" <=> v # w /\ pc[v] = "complete"
    BY <1>1, <2>2
  <2>4. \A r \in Records \ {record[w]} : Spent(r) => Spent(r)'
    <3>1. \A r \in Records \ {record[w]} : rows'[r] = rows[r]
      BY <1>1, <1>7, <2>1 DEF Complete, CompleteFails
    <3> QED
      BY <2>2, <2>3, <3>1 DEF Spent, Applying
  <2>5. \/ rows'[record[w]] = "processed" /\ faults' = faults
        \/ faults' = faults + 1
    BY <1>1, <1>7, <2>1 DEF Complete, CompleteFails, Fault
  <2>6. \A r \in Records : rows'[r] = "processed" => rows[r] = "processed" \/ Applying(r)
    BY <1>1, <1>7, <2>1 DEF Complete, CompleteFails, Applying
  <2>7. acked' \ acked \subseteq {record[w]} /\ applied[record[w]] > 0
    BY <1>7, <2>1 DEF Complete, CompleteFails, AppliedInv, ReportedIsApplied
  <2>8. \A r \in Records : Spent(r) /\ ~Spent(r)' => faults' = faults + 1
    BY <2>4, <2>5 DEF Spent
  <2>9. \A r \in acked' \ acked : \E s \in Records : Conflict(r, s) /\ applied[s] > 0
    BY <2>1, <2>7, ConflictIsReflexive
  <2> QED
    BY <1>1, <2>2, <2>3, <2>5, <2>6, <2>8, <2>9, UnappliedStep
(* A restart forgets who was about to report, and settles every row.        *)
<1>8. ASSUME Restart PROVE AppliedInv'
  <2>1. \A r \in Records : Spent(r) => Spent(r)'
    BY <1>1, <1>8 DEF Restart, Spent, Applying, Present, ClaimInv, OwnersHaveRows
  <2> QED
    BY <1>1, <1>8, <2>1, UnappliedStep DEF Restart
<1>9. ASSUME NEW w \in Workers, AttemptSucceeds(w) PROVE AppliedInv'
  BY <1>9, AppliedStep
<1>10. CASE UNCHANGED vars
  BY <1>1, <1>10, UnappliedStep DEF vars, Spent, Applying
<1> QED
  BY <1>3, <1>4, <1>5, <1>6, <1>7, <1>8, <1>9, <1>10 DEF Next, Runs, Attempt

LEMMA AppliedInvHolds == Spec => [](ClaimInv /\ AppliedInv)
<1>1. Init => AppliedInv
  BY AppliedInvInit
<1>2. ClaimInv /\ AppliedInv /\ [Next]_vars => AppliedInv'
  BY AppliedInvStep
<1> QED
  BY <1>1, <1>2, ClaimInvHolds, PTL DEF Spec

(* However many requests deliver an event, under however many ids, and      *)
(* whenever the process restarts: it is applied once, and once more only    *)
(* for a statement of the store that failed.                                *)
THEOREM AppliedOncePerFault == Spec => []AppliedOnce
<1>1. ClaimInv /\ AppliedInv => AppliedOnce
  <2> SUFFICES ASSUME ClaimInv, FaultsReapply, NEW a \in Records, NEW b \in Records, Conflict(a, b)
               PROVE  Total(a, b) <= 1 + faults
    BY DEF AppliedInv, AppliedOnce, Total
  <2>1. Total(a, b) \in Nat /\ faults \in Nat
    BY DeliveryBounds DEF ClaimInv, TypeOK, Total
  <2>2. Total(a, b) <= faults + (IF Spent(a) \/ Spent(b) THEN 1 ELSE 0)
    BY DEF FaultsReapply
  <2> QED
    BY <2>1, <2>2
<1> QED
  BY <1>1, AppliedInvHolds, PTL

(* No failure of a statement gets a 200 for an event that was not applied:  *)
(* only the backfill of DeliveryStore.init does.                            *)
THEOREM NothingLostWithoutRestart == Spec => []OnlyRestartLoses
<1>1. AppliedInv => OnlyRestartLoses
  BY DEF AppliedInv
<1> QED
  BY <1>1, AppliedInvHolds, PTL

-------------------------------------------------------------------------------
(* Claims without an owner.                                                 *)

(* Finitely many, as each took a failed statement.                          *)
UnownedInv == IsFiniteSet(Unowned) /\ ClaimsAreOwned

LEMMA FewerUnowned ==
  ASSUME ClaimInv, UnownedInv, faults' \in Nat, faults' >= faults, Unowned' \subseteq Unowned
  PROVE  UnownedInv'
<1>1. faults \in Nat /\ Cardinality(Unowned) \in Nat
  BY DeliveryBounds, FS_CardinalityType DEF ClaimInv, TypeOK, UnownedInv
<1>2. /\ IsFiniteSet(Unowned') /\ Cardinality(Unowned') <= Cardinality(Unowned)
      /\ Cardinality(Unowned') \in Nat
  BY FS_Subset, FS_CardinalityType DEF UnownedInv
<1> QED
  BY <1>1, <1>2 DEF UnownedInv, ClaimsAreOwned

LEMMA OneMoreUnowned ==
  ASSUME ClaimInv, UnownedInv, faults' = faults + 1, NEW r, Unowned' \subseteq Unowned \cup {r}
  PROVE  UnownedInv'
<1>1. faults \in Nat /\ Cardinality(Unowned) \in Nat
  BY DeliveryBounds, FS_CardinalityType DEF ClaimInv, TypeOK, UnownedInv
<1>2. /\ IsFiniteSet(Unowned \cup {r})
      /\ Cardinality(Unowned \cup {r}) \in Nat /\ Cardinality(Unowned \cup {r}) <= Cardinality(Unowned) + 1
  BY OneMore DEF UnownedInv
<1>3. /\ IsFiniteSet(Unowned') /\ Cardinality(Unowned') \in Nat
      /\ Cardinality(Unowned') <= Cardinality(Unowned \cup {r})
  BY <1>2, FS_Subset, FS_CardinalityType
<1> QED
  BY <1>1, <1>2, <1>3 DEF UnownedInv, ClaimsAreOwned

LEMMA UnownedStep ==
  ASSUME ClaimInv, UnownedInv, [Next]_vars
  PROVE  UnownedInv'
<1>1. /\ pc \in [Workers -> Labels] /\ record \in [Workers -> Records \cup {NoRecord}]
      /\ rows \in [Records -> RowStatus] /\ faults \in Nat
  BY DeliveryBounds DEF ClaimInv, TypeOK
<1>2. ASSUME UNCHANGED <<rows, faults>>,
             \A w \in Workers : Owns(w) => record'[w] = record[w] /\ Owns(w)'
      PROVE  UnownedInv'
  <2>1. Unowned' \subseteq Unowned
    BY <1>2 DEF Unowned
  <2> QED
    BY <1>1, <1>2, <2>1, FewerUnowned
<1>3. ASSUME NEW w \in Workers,
             \/ \E r \in Records : Arrive(w, r)
             \/ ClaimConflicts(w) \/ LookupInProgress(w) \/ LookupMissing(w) \/ Poll(w)
             \/ LookupProcessed(w) \/ Cancelled(w) \/ Attempt(w)
      PROVE  UnownedInv'
  <2>1. /\ UNCHANGED <<rows, faults>>
        /\ \A v \in Workers : Owns(v) => record'[v] = record[v] /\ Owns(v)'
    BY <1>1, <1>3
    DEF Arrive, ClaimConflicts, LookupInProgress, LookupMissing, Poll, LookupProcessed, Cancelled,
        Attempt, AttemptSucceeds, AttemptFails, Goto, Answer, Owns
  <2> QED
    BY <1>2, <2>1
<1>4. ASSUME NEW w \in Workers, Claim(w) \/ ClaimLost(w) PROVE UnownedInv'
  <2>1. /\ ~Owns(w) /\ rows' = [rows EXCEPT ![record[w]] = "claimed"]
        /\ \A v \in Workers : Owns(v) => record'[v] = record[v] /\ Owns(v)'
    BY <1>1, <1>4 DEF Claim, ClaimLost, Goto, Answer, Owns
  <2>2. Unowned' \subseteq Unowned \cup {record[w]}
    BY <1>1, <2>1 DEF Unowned
  <2>3. CASE Claim(w)
    <3>1. Owns(w)' /\ record'[w] = record[w] /\ faults' = faults
      BY <1>1, <2>3 DEF Claim, Goto, Owns
    <3>2. Unowned' \subseteq Unowned
      BY <2>2, <3>1 DEF Unowned
    <3> QED
      BY <1>1, <3>1, <3>2, FewerUnowned
  <2>4. CASE ClaimLost(w)
    BY <2>2, <2>4, OneMoreUnowned DEF ClaimLost, Fault
  <2> QED
    BY <1>4, <2>3, <2>4
<1>5. ASSUME NEW w \in Workers,
             Complete(w) \/ CompleteFails(w) \/ Release(w) \/ ReleaseFails(w)
      PROVE  UnownedInv'
  <2>1. /\ Owns(w) /\ record[w] \in Records
        /\ InProgress(record[w]) = {record[w]} \cap {r \in Records : rows[r] = "claimed"}
    BY <1>5, OwnRowOnly DEF Complete, CompleteFails, Release, ReleaseFails, Owns
  <2>2. /\ \A r \in Records \ {record[w]} : rows'[r] = rows[r]
        /\ \A v \in Workers \ {w} : Owns(v) => record'[v] = record[v] /\ Owns(v)'
    BY <1>1, <1>5, <2>1 DEF Complete, CompleteFails, Release, ReleaseFails, Goto, Answer, Owns
  <2>3. Unowned' \subseteq Unowned \cup {record[w]}
    BY <2>2 DEF Unowned
  <2>4. CASE ReleaseFails(w)
    BY <2>3, <2>4, OneMoreUnowned DEF ReleaseFails, Fault
  <2>5. CASE ~ReleaseFails(w)
    <3>1. rows'[record[w]] # "claimed" \/ (Owns(w)' /\ record'[w] = record[w])
      BY <1>1, <1>5, <2>1, <2>5 DEF Complete, CompleteFails, Release, Goto, Answer, Owns
    <3>2. Unowned' \subseteq Unowned
      BY <2>3, <3>1 DEF Unowned
    <3>3. faults' \in Nat /\ faults' >= faults
      BY <1>1, <1>5, <2>5 DEF Complete, CompleteFails, Release, Fault
    <3> QED
      BY <3>2, <3>3, FewerUnowned
  <2> QED
    BY <2>4, <2>5
<1>6. ASSUME Restart PROVE UnownedInv'
  <2>1. Unowned' \subseteq Unowned /\ faults' = faults
    BY <1>1, <1>6 DEF Restart, Unowned
  <2> QED
    BY <1>1, <2>1, FewerUnowned
<1>7. CASE UNCHANGED vars
  BY <1>2, <1>7 DEF vars, Owns
<1> QED
  BY <1>3, <1>4, <1>5, <1>6, <1>7 DEF Next, Runs

(* No more rows in progress without a request that works on them than       *)
(* statements have failed: no order of claims, completions, releases and    *)
(* restarts leaves one behind by itself.                                    *)
THEOREM ClaimsHaveOwners == Spec => []ClaimsAreOwned
<1>1. Init => UnownedInv
  <2> SUFFICES ASSUME Init PROVE UnownedInv
    OBVIOUS
  <2>1. Unowned = {}
    BY DEF Init, Unowned
  <2> QED
    BY <2>1, FS_EmptySet DEF Init, UnownedInv, ClaimsAreOwned
<1>2. ClaimInv /\ UnownedInv /\ [Next]_vars => UnownedInv'
  BY UnownedStep
<1>3. UnownedInv => ClaimsAreOwned
  BY DEF UnownedInv
<1> QED
  BY <1>1, <1>2, <1>3, ClaimInvHolds, PTL DEF Spec
================================================================================
