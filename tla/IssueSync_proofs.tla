---------------------------- MODULE IssueSync_proofs ----------------------------
(***************************************************************************)
(* Proofs about IssueSync: it is an implementation of DeliveryClaims, and   *)
(* what it keeps of the pull requests of a row.                             *)
(***************************************************************************)
EXTENDS IssueSync, DeliveryClaims_proofs

(* Every step of the composition is a step of the deliveries, or none.      *)
LEMMA SyncStepIsStep ==
  ASSUME [SyncNext]_<<vars, syncVars>>
  PROVE  [Next]_vars
<1>1. ASSUME NEW w \in Workers, Handler(w) PROVE Next
  BY <1>1 DEF Handler, Next
<1>2. ASSUME NEW w \in Workers, SyncSucceeds(w) \/ SyncFails(w) \/ GiveUpWrite(w) PROVE Next
  BY <1>2 DEF SyncSucceeds, SyncFails, GiveUpWrite, Next, Attempt
<1>3. ASSUME NEW w \in Workers, FindRow(w) \/ FindNone(w) \/ WriteRow(w) PROVE UNCHANGED vars
  BY <1>3 DEF FindRow, FindNone, WriteRow
<1>4. ASSUME LateWrite PROVE UNCHANGED vars
  BY <1>4 DEF LateWrite
<1>5. ASSUME SyncRestart PROVE Next
  BY <1>5 DEF SyncRestart, Next
<1> QED
  BY <1>1, <1>2, <1>3, <1>4, <1>5 DEF SyncNext

(* With the calls of an attempt spelt out, the deliveries behave as before: *)
(* what is proved of them holds of the composition.                         *)
THEOREM SyncIsDelivery == SyncSpec => Spec
<1>1. SyncInit => Init
  BY DEF SyncInit
<1>2. [SyncNext]_<<vars, syncVars>> => [Next]_vars
  BY SyncStepIsStep
<1> QED
  BY <1>1, <1>2, PTL DEF SyncSpec, Spec

-------------------------------------------------------------------------------
Times == Stamps \cup {0}

Columns == PRColumns

Covers(c) == \A p \in PRs : c.prs[p] <= c.last

(* The issues that issue events create rows for.                            *)
IssueKeys == {e.issues[1] : e \in {r \in Records : r.kind = "issue"}}

RowType == {row \in [issue : IssueKeys, by : Records, snapshot : Stamps,
                     prs : [PRs -> Times], last : Times, writes : Nat] :
              row.by.kind = "issue" /\ row.issue = row.by.issues[1]}

SyncState == [next : Nat \ {0}, step : {"find", "write"}, row : Nat, seen : Columns]

WriteType ==
  {write \in [row : Nat, seen : Columns, event : Records] :
     Covers(write.seen) /\ (write.row = 0 => write.event.kind = "issue")}

(* Copies of a row keep what the row keeps: those in the hands of workers,  *)
(* and those in writes that have not arrived.                               *)
CoverInv ==
  /\ TypeOK
  /\ table \in Seq(RowType)
  /\ \A i \in 1 .. Len(table) : Covers(table[i])
  /\ sync \in [Workers -> SyncState]
  /\ \A w \in Workers :
       /\ pc[w] # "attempt" => sync[w] = Fresh
       /\ Covers(sync[w].seen)
       /\ sync[w].row <= Len(table)
       /\ sync[w].step = "write" /\ sync[w].row = 0 => record[w].kind = "issue"
  /\ late \subseteq WriteType
  /\ \A write \in late : write.row <= Len(table)

LEMMA TimesAreNumbers == Times \subseteq Nat /\ \A e \in Records : e.stamp \in Stamps
  BY RecordsAreEvents DEF Times, Stamps

LEMMA CopyIsTyped ==
  ASSUME NEW row \in RowType
  PROVE  /\ Copy(row) \in Columns
         /\ Copy(row).prs = row.prs /\ Copy(row).last = row.last /\ Copy(row).writes = row.writes
         /\ Covers(row) => Covers(Copy(row))
  BY DEF Copy, RowType, Columns, PRColumns, Times, Covers

LEMMA FreshIsTyped ==
  /\ Fresh \in SyncState /\ Covers(Fresh.seen) /\ Fresh.row = 0 /\ Fresh.step = "find"
  /\ \A n \in Nat \ {0} : LET f == [Fresh EXCEPT !.next = n]
                          IN  f \in SyncState /\ f.seen = Fresh.seen /\ f.row = 0 /\ f.step = "find"
  BY DEF Fresh, NoPRs, SyncState, Columns, PRColumns, Times, Covers

LEMMA NewRowCovers ==
  ASSUME NEW e \in Records, e.kind = "issue"
  PROVE  NewRow(e) \in RowType /\ Covers(NewRow(e))
<1>1. e.stamp \in Stamps /\ e.issues[1] \in IssueKeys
  BY TimesAreNumbers DEF IssueKeys
<1> QED
  BY <1>1 DEF NewRow, NoPRs, RowType, Times, Covers

LEMMA IssueFieldsCovers ==
  ASSUME NEW e \in Records, NEW row \in RowType, Covers(row)
  PROVE  IssueFields(row, e) \in RowType /\ Covers(IssueFields(row, e))
  BY TimesAreNumbers DEF IssueFields, RowType, Covers

LEMMA MergeRequestFieldsCovers ==
  ASSUME NEW e \in Records, e.kind = "merge", NEW row \in RowType,
         NEW seen \in Columns, Covers(seen)
  PROVE  /\ MergeRequestFields(row, seen, e) \in RowType
         /\ Covers(MergeRequestFields(row, seen, e))
<1> DEFINE prs == [seen.prs EXCEPT ![e.pr] = e.stamp]
           last == Later(seen.last, e.stamp)
           new == MergeRequestFields(row, seen, e)
<1>1. e.stamp \in Times /\ e.pr \in PRs /\ Times \subseteq Nat
  BY RecordsAreEvents, TimesAreNumbers DEF Times
<1>2. seen.prs \in [PRs -> Times] /\ seen.last \in Times
  BY DEF Columns, PRColumns, Times
<1>3. last \in Times /\ last >= seen.last /\ last >= e.stamp
  <2>1. last = seen.last \/ last = e.stamp
    BY DEF Later
  <2>2. seen.last \in Nat /\ e.stamp \in Nat
    BY <1>1, <1>2
  <2>3. last >= seen.last /\ last >= e.stamp
    BY <2>2 DEF Later
  <2> QED
    BY <1>1, <1>2, <2>1, <2>3
<1>4. prs \in [PRs -> Times] /\ \A p \in PRs : prs[p] = IF p = e.pr THEN e.stamp ELSE seen.prs[p]
  BY <1>1, <1>2
<1>5. \A p \in PRs : prs[p] <= last
  <2> SUFFICES ASSUME NEW p \in PRs PROVE prs[p] <= last
    OBVIOUS
  <2>1. seen.prs[p] <= seen.last /\ seen.prs[p] \in Nat /\ seen.last \in Nat
    BY <1>1, <1>2 DEF Covers
  <2>2. last \in Nat /\ prs[p] = IF p = e.pr THEN e.stamp ELSE seen.prs[p]
    BY <1>1, <1>3, <1>4
  <2>3. e.stamp \in Nat
    BY <1>1
  <2> HIDE DEF prs, last
  <2> QED
    BY <1>3, <2>1, <2>2, <2>3
<1>6. new = [row EXCEPT !.prs = prs, !.last = last, !.writes = @ + 1]
  BY DEF MergeRequestFields
<1> HIDE DEF prs, last, new
<1>7. new \in RowType /\ new.prs = prs /\ new.last = last
  <2>1. /\ row \in [issue : IssueKeys, by : Records, snapshot : Stamps,
                    prs : [PRs -> Times], last : Times, writes : Nat]
        /\ row.by.kind = "issue" /\ row.issue = row.by.issues[1]
    BY DEF RowType
  <2>2. row.writes + 1 \in Nat
    BY <2>1
  <2>3. /\ new \in [issue : IssueKeys, by : Records, snapshot : Stamps,
                    prs : [PRs -> Times], last : Times, writes : Nat]
        /\ new.by = row.by /\ new.issue = row.issue /\ new.prs = prs /\ new.last = last
    BY <1>3, <1>4, <1>6, <2>1, <2>2
  <2> QED
    BY <2>1, <2>3 DEF RowType
<1> QED
  BY <1>5, <1>7 DEF Covers, new

(* A write that reaches the table.                                          *)
LEMMA ApplyCovers ==
  ASSUME table \in Seq(RowType), \A i \in 1 .. Len(table) : Covers(table[i]),
         NEW write \in WriteType, write.row <= Len(table),
         table' = Apply(table, write)
  PROVE  /\ table' \in Seq(RowType)
         /\ \A i \in 1 .. Len(table') : Covers(table'[i])
         /\ Len(table') >= Len(table)
<1>1. /\ write.row \in Nat /\ write.seen \in Columns /\ Covers(write.seen)
      /\ write.event \in Records
      /\ write.row = 0 => write.event.kind = "issue"
  BY DEF WriteType
<1>2. CASE write.row = 0
  <2>1. NewRow(write.event) \in RowType /\ Covers(NewRow(write.event))
    BY <1>1, <1>2, NewRowCovers
  <2> DEFINE new == NewRow(write.event)
  <2>2. table' = Append(table, new)
    BY <1>2 DEF Apply
  <2> HIDE DEF new
  <2> QED
    BY <2>1, <2>2 DEF new
<1>3. CASE write.row # 0
  <2> DEFINE old == table[write.row]
             new == IF write.event.kind = "issue"
                      THEN IssueFields(old, write.event)
                      ELSE MergeRequestFields(old, write.seen, write.event)
  <2>1. write.row \in 1 .. Len(table) /\ old \in RowType /\ Covers(old)
    BY <1>1, <1>3
  <2>2. write.event.kind \in {"issue", "merge"}
    BY <1>1, RecordsAreEvents
  <2>3. new \in RowType /\ Covers(new)
    BY <1>1, <2>1, <2>2, IssueFieldsCovers, MergeRequestFieldsCovers
  <2>4. table' = [table EXCEPT ![write.row] = new]
    BY <1>3, <2>1 DEF Apply
  <2> HIDE DEF new
  <2> QED
    BY <2>1, <2>3, <2>4
<1> QED
  BY <1>2, <1>3

-------------------------------------------------------------------------------
(* A worker that moves on, to a state the invariant allows it.              *)
LEMMA MoveCovers ==
  ASSUME CoverInv, TypeOK', UNCHANGED table, NEW w \in Workers, NEW s \in SyncState,
         Move(w, s), Covers(s.seen), s.row <= Len(table),
         s.step = "write" /\ s.row = 0 => record[w].kind = "issue",
         s = Fresh \/ (pc[w] = "attempt" /\ UNCHANGED pc),
         \A v \in Workers : pc'[v] = pc[v] \/ v = w,
         UNCHANGED record,
         late' \subseteq late \cup {write \in WriteType : write.row <= Len(table)}
  PROVE  CoverInv'
<1>1. sync' \in [Workers -> SyncState]
  BY DEF CoverInv, Move
<1>2. sync'[w] = s /\ \A v \in Workers \ {w} : sync'[v] = sync[v] /\ pc'[v] = pc[v]
  BY DEF CoverInv, Move
<1>3. \A v \in Workers :
       /\ pc'[v] # "attempt" => sync'[v] = Fresh
       /\ Covers(sync'[v].seen)
       /\ sync'[v].row <= Len(table)
       /\ sync'[v].step = "write" /\ sync'[v].row = 0 => record[v].kind = "issue"
  BY <1>2 DEF CoverInv
<1> QED
  BY <1>1, <1>3 DEF CoverInv

(* The write a worker is about to make.                                     *)
LEMMA WriteIsTyped ==
  ASSUME CoverInv, NEW w \in Workers, Working(w, "write")
  PROVE  Write(w) \in WriteType /\ Write(w).row <= Len(table)
<1>1. record[w] \in Records
  BY DEF CoverInv, TypeOK, Working
<1>2. sync[w].row \in Nat /\ sync[w].seen \in Columns
  BY DEF CoverInv, SyncState
<1> QED
  BY <1>1, <1>2 DEF CoverInv, Working, Write, WriteType

LEMMA CoverInit == SyncInit => CoverInv
<1> SUFFICES ASSUME SyncInit PROVE CoverInv
  OBVIOUS
<1>1. TypeOK
  BY TypeInit DEF SyncInit
<1> QED
  BY <1>1, FreshIsTyped DEF SyncInit, CoverInv

LEMMA CoverStep ==
  ASSUME CoverInv, [SyncNext]_<<vars, syncVars>>
  PROVE  CoverInv'
<1>1. TypeOK'
  BY SyncStepIsStep, TypeStep DEF CoverInv
<1>2. ASSUME NEW w \in Workers, Handler(w) PROVE CoverInv'
  <2>1. /\ UNCHANGED syncVars
        /\ \A v \in Workers : pc[v] = "attempt" => pc'[v] = "attempt" /\ record'[v] = record[v]
    BY <1>2 DEF Handler, Runs, Arrive, Claim, ClaimConflicts, ClaimLost, LookupProcessed,
       LookupInProgress, LookupMissing, Poll, Cancelled, Complete, CompleteFails, Release,
       ReleaseFails, Answer, Goto, CoverInv, TypeOK
  <2>2. \A v \in Workers : sync[v].step = "write" => pc[v] = "attempt"
    BY FreshIsTyped DEF CoverInv
  <2> QED
    BY <1>1, <2>1, <2>2, FreshIsTyped DEF syncVars, CoverInv
<1>3. ASSUME NEW w \in Workers, FindRow(w) PROVE CoverInv'
  <2>1. PICK i \in DOMAIN table :
          Move(w, [next |-> sync[w].next, step |-> "write", row |-> i, seen |-> Copy(table[i])])
    BY <1>3 DEF FindRow, RowsOf
  <2>2. i \in 1 .. Len(table) /\ table[i] \in RowType /\ Covers(table[i])
    BY DEF CoverInv
  <2> DEFINE seen == Copy(table[i])
             s == [next |-> sync[w].next, step |-> "write", row |-> i, seen |-> seen]
  <2>3. seen \in Columns /\ Covers(seen)
    BY <2>2, CopyIsTyped
  <2> HIDE DEF seen
  <2>4. sync[w] \in SyncState
    BY DEF CoverInv
  <2>5. s \in SyncState /\ s.row = i /\ s.seen = seen
    BY <2>2, <2>3, <2>4 DEF SyncState
  <2>6. Move(w, s) /\ UNCHANGED <<vars, table, late>> /\ pc[w] = "attempt"
    BY <1>3, <2>1 DEF FindRow, Working, seen
  <2> HIDE DEF s
  <2> QED
    BY <1>1, <2>2, <2>3, <2>5, <2>6, MoveCovers DEF vars
<1>4. ASSUME NEW w \in Workers, FindNone(w), record[w].kind = "issue" PROVE CoverInv'
  <2> DEFINE s == [sync[w] EXCEPT !.step = "write"]
  <2>1. sync[w] \in SyncState /\ Covers(sync[w].seen) /\ sync[w].row <= Len(table)
    BY DEF CoverInv
  <2>2. s \in SyncState /\ s.row = sync[w].row /\ s.seen = sync[w].seen
    BY <2>1 DEF SyncState
  <2>3. Move(w, s) /\ UNCHANGED <<vars, table, late>> /\ pc[w] = "attempt"
    BY <1>4 DEF FindNone, Working
  <2> HIDE DEF s
  <2> QED
    BY <1>1, <1>4, <2>1, <2>2, <2>3, MoveCovers DEF vars
<1>5. ASSUME NEW w \in Workers, UNCHANGED <<table, late, vars>>, NextIssue(w), pc[w] = "attempt"
      PROVE  CoverInv'
  <2> DEFINE n == sync[w].next + 1
             s == [Fresh EXCEPT !.next = n]
  <2>1. n \in Nat \ {0}
    BY DEF CoverInv, SyncState
  <2> HIDE DEF n
  <2>2. s \in SyncState /\ Covers(s.seen) /\ s.row = 0 /\ s.step = "find"
    BY <2>1, FreshIsTyped
  <2>3. Move(w, s)
    BY <1>5 DEF NextIssue, n
  <2>4. 0 <= Len(table)
    BY DEF CoverInv
  <2> HIDE DEF s
  <2> QED
    BY <1>1, <1>5, <2>2, <2>3, <2>4, MoveCovers DEF vars
<1>6. ASSUME NEW w \in Workers, FindNone(w), record[w].kind # "issue" PROVE CoverInv'
  BY <1>5, <1>6 DEF FindNone, Working
<1>7. ASSUME NEW w \in Workers, SyncSucceeds(w) \/ SyncFails(w) \/ GiveUpWrite(w) PROVE CoverInv'
  <2>1. /\ Move(w, Fresh) /\ UNCHANGED <<table, record>>
        /\ \A v \in Workers : pc'[v] = pc[v] \/ v = w
    BY <1>7 DEF SyncSucceeds, SyncFails, GiveUpWrite, AttemptSucceeds, AttemptFails, Goto, CoverInv, TypeOK
  <2>2. late' \subseteq late \cup {write \in WriteType : write.row <= Len(table)}
    BY <1>7, WriteIsTyped DEF SyncSucceeds, SyncFails, GiveUpWrite
  <2>3. 0 <= Len(table)
    BY DEF CoverInv
  <2> QED
    BY <1>1, <2>1, <2>2, <2>3, FreshIsTyped, MoveCovers
(* A write reaches the table: the copies stay what they are.                *)
<1>8. ASSUME NEW write \in WriteType, write.row <= Len(table), table' = Apply(table, write)
      PROVE  /\ table' \in Seq(RowType)
             /\ \A i \in 1 .. Len(table') : Covers(table'[i])
             /\ Len(table') \in Nat /\ Len(table) \in Nat /\ Len(table') >= Len(table)
  BY <1>8, ApplyCovers DEF CoverInv
<1>9. ASSUME NEW w \in Workers, WriteRow(w) PROVE CoverInv'
  <2> DEFINE s == [Fresh EXCEPT !.next = sync[w].next + 1]
  <2>1. PICK write \in WriteType : write = Write(w) /\ write.row <= Len(table)
    BY <1>9, WriteIsTyped DEF WriteRow
  <2>2. /\ table' \in Seq(RowType)
        /\ \A i \in 1 .. Len(table') : Covers(table'[i])
        /\ Len(table') \in Nat /\ Len(table) \in Nat /\ Len(table') >= Len(table)
    BY <1>8, <1>9, <2>1 DEF WriteRow
  <2>3. s \in SyncState /\ Covers(s.seen) /\ s.row = 0 /\ s.step = "find"
    BY FreshIsTyped DEF CoverInv, SyncState
  <2>4. sync' = [sync EXCEPT ![w] = s] /\ UNCHANGED <<vars, late>> /\ pc[w] = "attempt"
    BY <1>9 DEF WriteRow, NextIssue, Move, Working
  <2> HIDE DEF s
  <2>5. sync' \in [Workers -> SyncState]
    BY <2>3, <2>4 DEF CoverInv
  <2>6. \A v \in Workers :
         /\ pc[v] # "attempt" => sync'[v] = Fresh
         /\ Covers(sync'[v].seen)
         /\ sync'[v].row <= Len(table')
         /\ sync'[v].step = "write" /\ sync'[v].row = 0 => record[v].kind = "issue"
    BY <2>2, <2>3, <2>4 DEF CoverInv, SyncState
  <2>7. \A m \in late : m.row <= Len(table')
    BY <2>2 DEF CoverInv, WriteType
  <2> QED
    BY <1>1, <2>2, <2>4, <2>5, <2>6, <2>7 DEF CoverInv, vars
<1>10. ASSUME LateWrite PROVE CoverInv'
  <2>1. PICK write \in late : table' = Apply(table, write) /\ late' = late \ {write}
    BY <1>10 DEF LateWrite
  <2>2. /\ table' \in Seq(RowType)
        /\ \A i \in 1 .. Len(table') : Covers(table'[i])
        /\ Len(table') \in Nat /\ Len(table) \in Nat /\ Len(table') >= Len(table)
    BY <1>8, <2>1 DEF CoverInv
  <2>3. UNCHANGED <<vars, sync>>
    BY <1>10 DEF LateWrite
  <2>4. \A m \in late' : m.row <= Len(table')
    BY <2>1, <2>2 DEF CoverInv, WriteType
  <2>5. \A v \in Workers : sync[v].row <= Len(table')
    BY <2>2 DEF CoverInv, SyncState
  <2> QED
    BY <1>1, <2>1, <2>2, <2>3, <2>4, <2>5 DEF CoverInv, vars
<1>11. ASSUME SyncRestart PROVE CoverInv'
  <2>1. 0 <= Len(table)
    BY DEF CoverInv
  <2> QED
    BY <1>1, <1>11, <2>1, FreshIsTyped DEF SyncRestart, Restart, CoverInv
<1>12. ASSUME UNCHANGED <<vars, syncVars>> PROVE CoverInv'
  BY <1>1, <1>12 DEF vars, syncVars, CoverInv
<1>13. ASSUME NEW w \in Workers, FindNone(w) PROVE CoverInv'
  BY <1>4, <1>6, <1>13
<1> QED
  BY <1>2, <1>3, <1>7, <1>9, <1>10, <1>11, <1>12, <1>13 DEF SyncNext

(* LastPRUpdatedAt of a row is never older than a pull request the row      *)
(* shows, for every number of workers, events, lost and late writes.        *)
THEOREM LastAlwaysCovers == SyncSpec => []LastCoversPRs
<1>1. CoverInv => LastCoversPRs
  BY DEF CoverInv, LastCoversPRs, Covers
<1> QED
  BY <1>1, CoverInit, CoverStep, PTL DEF SyncSpec

-------------------------------------------------------------------------------
(* What is known of the deliveries holds here too.                          *)
LEMMA CoverInvHolds == SyncSpec => [](CoverInv /\ ClaimInv)
<1>1. SyncSpec => []ClaimInv
  BY SyncIsDelivery, ClaimInvHolds, PTL
<1> QED
  BY <1>1, CoverInit, CoverStep, PTL DEF SyncSpec

(* A write reaches the table of one row, and no row changes its issue.      *)
LEMMA RowsAfterWrite ==
  ASSUME table \in Seq(RowType), NEW write \in WriteType, write.row <= Len(table),
         table' = Apply(table, write), NEW k
  PROVE  RowsOf(k)' = IF write.row = 0 /\ k = write.event.issues[1]
                        THEN RowsOf(k) \cup {Len(table) + 1}
                        ELSE RowsOf(k)
<1>1. /\ write.row \in Nat /\ write.seen \in Columns /\ write.event \in Records
  BY DEF WriteType
<1>2. CASE write.row = 0
  <2> DEFINE new == NewRow(write.event)
  <2>1. new.issue = write.event.issues[1]
    BY DEF NewRow
  <2>2. table' = Append(table, new)
    BY <1>2 DEF Apply
  <2> HIDE DEF new
  <2>3. /\ DOMAIN table' = DOMAIN table \cup {Len(table) + 1}
        /\ \A i \in DOMAIN table : table'[i] = table[i]
        /\ table'[Len(table) + 1] = new
    BY <2>2
  <2> QED
    BY <1>2, <2>1, <2>3 DEF RowsOf
<1>3. CASE write.row # 0
  <2> DEFINE old == table[write.row]
             new == IF write.event.kind = "issue"
                      THEN IssueFields(old, write.event)
                      ELSE MergeRequestFields(old, write.seen, write.event)
  <2>1. write.row \in DOMAIN table /\ old \in RowType
    BY <1>1, <1>3
  <2>2. new.issue = old.issue
    BY <2>1 DEF IssueFields, MergeRequestFields, RowType
  <2>3. table' = [table EXCEPT ![write.row] = new]
    BY <1>3, <2>1 DEF Apply
  <2> HIDE DEF new
  <2>4. DOMAIN table' = DOMAIN table /\ \A i \in DOMAIN table : table'[i].issue = table[i].issue
    BY <2>1, <2>2, <2>3
  <2> QED
    BY <1>3, <2>4 DEF RowsOf
<1> QED
  BY <1>2, <1>3

(* No step takes a row away.                                                *)
LEMMA RowsStay ==
  ASSUME CoverInv, [SyncNext]_<<vars, syncVars>>, NEW k
  PROVE  RowsOf(k) \subseteq RowsOf(k)'
<1>1. ASSUME NEW write \in WriteType, write.row <= Len(table), table' = Apply(table, write)
      PROVE  RowsOf(k) \subseteq RowsOf(k)'
  BY <1>1, RowsAfterWrite DEF CoverInv
<1>2. ASSUME NEW w \in Workers, WriteRow(w) PROVE RowsOf(k) \subseteq RowsOf(k)'
  BY <1>1, <1>2, WriteIsTyped DEF WriteRow
<1>3. ASSUME LateWrite PROVE RowsOf(k) \subseteq RowsOf(k)'
  BY <1>1, <1>3 DEF LateWrite, CoverInv
<1>4. ASSUME UNCHANGED table PROVE RowsOf(k) \subseteq RowsOf(k)'
  BY <1>4 DEF RowsOf
<1>5. \/ UNCHANGED table \/ LateWrite \/ \E w \in Workers : WriteRow(w)
  BY DEF SyncNext, Handler, FindRow, FindNone, SyncSucceeds, SyncFails, GiveUpWrite, SyncRestart,
         syncVars
<1> QED
  BY <1>2, <1>3, <1>4, <1>5

-------------------------------------------------------------------------------
(* Writes that have not arrived are no more than were given up.             *)
LateInv == IsFiniteSet(late) /\ Cardinality(late) <= givenUp /\ givenUp \in Nat

LEMMA LateInit == SyncInit => LateInv
  BY FS_EmptySet DEF SyncInit, LateInv

LEMMA LateStep ==
  ASSUME LateInv, [SyncNext]_<<vars, syncVars>>
  PROVE  LateInv'
<1>1. IsFiniteSet(late) /\ Cardinality(late) \in Nat /\ Cardinality(late) <= givenUp /\ givenUp \in Nat
  BY FS_CardinalityType DEF LateInv
<1>2. ASSUME NEW w \in Workers, GiveUpWrite(w) PROVE LateInv'
  <2> DEFINE more == late \cup {Write(w)}
  <2>1. /\ IsFiniteSet(more)
        /\ Cardinality(more) <= Cardinality(late) + 1 /\ Cardinality(more) \in Nat
    BY <1>1, OneMore
  <2>2. late' = more /\ givenUp' = givenUp + 1
    BY <1>2 DEF GiveUpWrite
  <2> HIDE DEF more
  <2> QED
    BY <1>1, <2>1, <2>2 DEF LateInv
<1>3. ASSUME LateWrite PROVE LateInv'
  <2>1. late' \subseteq late /\ givenUp' = givenUp
    BY <1>3 DEF LateWrite
  <2>2. IsFiniteSet(late') /\ Cardinality(late') <= Cardinality(late) /\ Cardinality(late') \in Nat
    BY <1>1, <2>1, FS_Subset, FS_CardinalityType
  <2> QED
    BY <1>1, <2>1, <2>2 DEF LateInv
<1>4. ASSUME UNCHANGED <<late, givenUp>> PROVE LateInv'
  BY <1>4 DEF LateInv
<1>5. \/ UNCHANGED <<late, givenUp>> \/ LateWrite \/ \E w \in Workers : GiveUpWrite(w)
  BY DEF SyncNext, Handler, FindRow, FindNone, WriteRow, SyncSucceeds, SyncFails, SyncRestart,
         syncVars
<1> QED
  BY <1>2, <1>3, <1>4, <1>5

(* Rows, copies of rows and late writes have their types, whatever the      *)
(* calls to Feishu come to.                                                 *)
THEOREM SyncIsTyped == SyncSpec => []SyncTypeOK
<1>1. CoverInv /\ LateInv => SyncTypeOK
  <2> SUFFICES ASSUME CoverInv, LateInv PROVE SyncTypeOK
    OBVIOUS
  <2>1. \A i \in DOMAIN table : /\ table[i].snapshot \in Stamps
                                /\ Copy(table[i]) \in PRColumns
    <3>1. \A i \in DOMAIN table : table[i] \in RowType
      BY DEF CoverInv
    <3> QED
      BY <3>1, CopyIsTyped DEF RowType, Columns
  <2>2. \A w \in Workers : /\ sync[w].seen \in PRColumns
                           /\ sync[w].row \in {0} \cup DOMAIN table
                           /\ pc[w] # "attempt" => sync[w] = Fresh
    BY DEF CoverInv, SyncState, Columns
  <2> QED
    BY <2>1, <2>2 DEF SyncTypeOK, CoverInv, LateInv
<1> QED
  BY <1>1, CoverInvHolds, LateInit, LateStep, PTL DEF SyncSpec

-------------------------------------------------------------------------------
(* An issue event that is through, or whose attempt has got past its one    *)
(* issue, has its row.                                                      *)
Shown(e) == RowsOf(e.issues[1]) # {}

PastIssue(w) == pc[w] = "complete" \/ (pc[w] = "attempt" /\ (sync[w].next > 1 \/ sync[w].row # 0))

RowInv ==
  /\ \A w \in Workers : PastIssue(w) /\ record[w].kind = "issue" => Shown(record[w])
  /\ restarts = 0 =>
       \A r \in Records : rows[r] = "processed" /\ r.kind = "issue" => Shown(r)
  /\ AckedIssueHasRow

LEMMA RowInit == SyncInit => RowInv
  BY DEF SyncInit, Init, RowInv, PastIssue, Fresh, AckedIssueHasRow

(* Deliveries of one event are of one kind.                                 *)
KindsAgree == \A a, b \in Records : Conflict(a, b) /\ a.kind = "issue" => b.kind = "issue"

LEMMA RowStep ==
  ASSUME KindsAgree, CoverInv, ClaimInv, RowInv, [SyncNext]_<<vars, syncVars>>
  PROVE  RowInv'
<1>1. \A k : RowsOf(k) \subseteq RowsOf(k)'
  BY RowsStay
<1>2. \A e : Shown(e) => Shown(e)'
  BY <1>1 DEF Shown
<1>3. /\ restarts' \in {restarts, restarts + 1} /\ restarts \in Nat
      /\ \A r \in Records : rows'[r] = "processed" =>
           rows[r] = "processed" \/ Applying(r) \/ restarts' # 0
      /\ \A r \in acked' \ acked :
           Applying(r) \/ \E s \in Records : Conflict(r, s) /\ rows[s] = "processed"
      /\ \A w \in Workers : pc'[w] \in {"attempt", "complete"} =>
           record'[w] = record[w] /\ pc[w] \in {"claim", "attempt", "complete"}
  BY SyncStepIsStep, ReportSteps DEF ClaimInv, TypeOK
<1>4. acked' \subseteq Records /\ \A w \in Workers : record[w] \in Records \cup {NoRecord}
  BY SyncStepIsStep, TypeStep DEF ClaimInv, TypeOK
<1>5. \A r \in Records : Applying(r) /\ r.kind = "issue" => Shown(r)
  BY DEF RowInv, PastIssue, Applying
<1>6. restarts' = 0 => \A r \in Records : rows'[r] = "processed" /\ r.kind = "issue" => Shown(r)'
  BY <1>2, <1>3, <1>5 DEF RowInv
<1>7. AckedIssueHasRow'
  <2> SUFFICES ASSUME restarts' = 0, NEW e \in acked', e.kind = "issue"
               PROVE  \E s \in Records : Conflict(e, s) /\ Shown(s)'
    BY DEF AckedIssueHasRow, Conflict, Shown
  <2>1. restarts = 0 /\ e \in Records
    BY <1>3, <1>4
  <2>2. CASE e \in acked
    BY <1>2, <2>1, <2>2 DEF RowInv, AckedIssueHasRow, Shown
  <2>3. CASE Applying(e)
    BY <1>2, <1>5, <2>1, <2>3, ConflictIsReflexive
  <2>4. ASSUME NEW s \in Records, Conflict(e, s), rows[s] = "processed" PROVE Shown(s)'
    BY <1>2, <2>1, <2>4 DEF RowInv, KindsAgree
  <2> QED
    BY <1>3, <2>2, <2>3, <2>4
(* Who gets past an issue has found or written its row.                     *)
<1>8. ASSUME NEW w \in Workers, PastIssue(w)', record'[w].kind = "issue"
      PROVE  Shown(record[w])'
  <2>1. pc'[w] \in {"attempt", "complete"} /\ record'[w] = record[w]
        /\ pc[w] \in {"claim", "attempt", "complete"}
    BY <1>3, <1>8 DEF PastIssue
  <2>2. Shown(record[w]) => Shown(record[w])'
    BY <1>1, <2>1 DEF Shown
  <2>3. CASE PastIssue(w)
    BY <1>8, <2>1, <2>2, <2>3 DEF RowInv
  <2>4. CASE ~PastIssue(w)
    <3>1. /\ pc \in [Workers -> Labels] /\ sync \in [Workers -> SyncState]
          /\ pc[w] # "attempt" => sync[w] = Fresh
          /\ pc[w] # "complete"
      BY <2>4 DEF CoverInv, TypeOK, PastIssue
    <3>2. sync[w].next = 1 /\ sync[w].row = 0
      <4>1. CASE pc[w] = "attempt"
        <5>1. sync[w].next \in Nat \ {0}
          BY <3>1 DEF SyncState
        <5> QED
          BY <2>4, <4>1, <5>1 DEF PastIssue
      <4>2. CASE pc[w] # "attempt"
        BY <3>1, <4>2 DEF Fresh
      <4> QED
        BY <4>1, <4>2
    <3>3. ASSUME pc'[w] # "complete", sync'[w] = sync[w] PROVE FALSE
      BY <1>8, <3>2, <3>3 DEF PastIssue
    <3>4. ASSUME NEW v \in Workers, Handler(v) PROVE FALSE
      <4>1. pc'[w] # "complete" /\ sync'[w] = sync[w]
        BY <2>1, <3>1, <3>4 DEF Handler, Runs, Arrive, Claim, ClaimConflicts, ClaimLost,
           LookupProcessed, LookupInProgress, LookupMissing, Poll, Cancelled, Complete,
           CompleteFails, Release, ReleaseFails, Answer, Goto, syncVars
      <4> QED
        BY <3>3, <4>1
    <3>5. ASSUME NEW v \in Workers, FindRow(v) \/ FindNone(v) \/ WriteRow(v)
          PROVE  FindRow(w) \/ FindNone(w) \/ WriteRow(w)
      <4>1. pc'[w] = pc[w] /\ (v # w => sync'[w] = sync[w])
        BY <3>1, <3>5 DEF FindRow, FindNone, WriteRow, NextIssue, Move, vars
      <4> QED
        BY <3>1, <3>3, <3>5, <4>1
    <3>6. ASSUME NEW v \in Workers, SyncSucceeds(v) \/ SyncFails(v) \/ GiveUpWrite(v)
          PROVE  FALSE
      <4>1. CASE v # w
        <5>1. pc'[w] = pc[w] /\ sync'[w] = sync[w]
          BY <3>1, <3>6, <4>1
          DEF SyncSucceeds, SyncFails, GiveUpWrite, AttemptSucceeds, AttemptFails, Goto, Move
        <5> QED
          BY <3>1, <3>3, <5>1
      <4>2. CASE v = w /\ SyncSucceeds(w)
        <5>1. record[w] \in Records /\ record[w].kind = "issue"
          BY <1>8, <2>1, <4>2 DEF SyncSucceeds, CoverInv, TypeOK
        <5>2. Len(record[w].issues) = 1
          BY <5>1, RecordsAreEvents
        <5> QED
          BY <3>2, <4>2, <5>2 DEF SyncSucceeds
      <4>3. CASE v = w /\ (SyncFails(w) \/ GiveUpWrite(w))
        BY <2>1, <3>1, <4>3 DEF SyncFails, GiveUpWrite, AttemptFails, Goto
      <4> QED
        BY <3>6, <4>1, <4>2, <4>3
    <3>7. ASSUME LateWrite \/ SyncRestart \/ UNCHANGED <<vars, syncVars>> PROVE FALSE
      BY <2>1, <3>1, <3>3, <3>7 DEF LateWrite, SyncRestart, Restart, vars, syncVars
    <3>8. /\ record[w] \in Records /\ record[w].kind = "issue" /\ pc[w] = "attempt"
          /\ FindRow(w) \/ FindNone(w) \/ WriteRow(w)
      <4>1. FindRow(w) \/ FindNone(w) \/ WriteRow(w)
        BY <3>4, <3>5, <3>6, <3>7 DEF SyncNext
      <4> QED
        BY <1>8, <2>1, <4>1 DEF FindRow, FindNone, WriteRow, Working, CoverInv, TypeOK
    <3>9. CASE FindRow(w)
      BY <2>2, <3>2, <3>9 DEF FindRow, Issue, Shown
    <3>10. CASE FindNone(w)
      <4>1. sync'[w] = [sync[w] EXCEPT !.step = "write"] /\ UNCHANGED pc
        BY <3>1, <3>8, <3>10 DEF FindNone, Move, vars
      <4>2. sync'[w].next = sync[w].next /\ sync'[w].row = sync[w].row
        BY <3>1, <4>1 DEF SyncState
      <4> QED
        BY <1>8, <3>2, <3>8, <4>1, <4>2 DEF PastIssue
    <3>11. CASE WriteRow(w)
      <4>1. /\ Write(w) \in WriteType /\ Write(w).row <= Len(table)
            /\ Write(w).row = 0 /\ Write(w).event = record[w]
            /\ table' = Apply(table, Write(w))
        BY <3>2, <3>11, WriteIsTyped DEF WriteRow, Write
      <4>2. Len(table) + 1 \in RowsOf(record[w].issues[1])'
        BY <2>1, <4>1, RowsAfterWrite DEF CoverInv
      <4> QED
        BY <4>2 DEF Shown
    <3> QED
      BY <3>8, <3>9, <3>10, <3>11
  <2> QED
    BY <2>3, <2>4
<1> QED
  BY <1>6, <1>7, <1>8 DEF RowInv

(* When the deliveries of an event are of one kind: a 200 for an issue      *)
(* event means that its issue has a row, whichever calls to Feishu and      *)
(* statements failed, were given up or came late, as long as no restart     *)
(* has backfilled the deliveries.                                           *)
THEOREM AckedIssuesHaveRows ==
  ASSUME KindsAgree
  PROVE  SyncSpec => []AckedIssueHasRow
<1>1. RowInv => AckedIssueHasRow
  BY DEF RowInv
<1>2. CoverInv /\ ClaimInv /\ RowInv /\ [SyncNext]_<<vars, syncVars>> => RowInv'
  BY RowStep
<1> QED
  BY <1>1, <1>2, RowInit, CoverInvHolds, PTL DEF SyncSpec

-------------------------------------------------------------------------------
(* A second row for an event.                                               *)

(* A write reaches the rows created by some deliveries.                     *)
LEMMA RowsByAfterWrite ==
  ASSUME table \in Seq(RowType), NEW write \in WriteType, write.row <= Len(table),
         table' = Apply(table, write), NEW es
  PROVE  RowsBy(es)' = IF write.row = 0 /\ write.event \in es
                         THEN RowsBy(es) \cup {Len(table) + 1}
                         ELSE RowsBy(es)
<1>1. /\ write.row \in Nat /\ write.seen \in Columns /\ write.event \in Records
  BY DEF WriteType
<1>2. CASE write.row = 0
  <2> DEFINE new == NewRow(write.event)
  <2>1. new.by = write.event
    BY DEF NewRow
  <2>2. table' = Append(table, new)
    BY <1>2 DEF Apply
  <2> HIDE DEF new
  <2>3. /\ DOMAIN table' = DOMAIN table \cup {Len(table) + 1}
        /\ \A i \in DOMAIN table : table'[i] = table[i]
        /\ table'[Len(table) + 1] = new
    BY <2>2
  <2> QED
    BY <1>2, <2>1, <2>3 DEF RowsBy
<1>3. CASE write.row # 0
  <2> DEFINE old == table[write.row]
             new == IF write.event.kind = "issue"
                      THEN IssueFields(old, write.event)
                      ELSE MergeRequestFields(old, write.seen, write.event)
  <2>1. write.row \in DOMAIN table /\ old \in RowType
    BY <1>1, <1>3
  <2>2. new.by = old.by
    BY <2>1 DEF IssueFields, MergeRequestFields, RowType
  <2>3. table' = [table EXCEPT ![write.row] = new]
    BY <1>3, <2>1 DEF Apply
  <2> HIDE DEF new
  <2>4. DOMAIN table' = DOMAIN table /\ \A i \in DOMAIN table : table'[i].by = table[i].by
    BY <2>1, <2>2, <2>3
  <2> QED
    BY <1>3, <2>4 DEF RowsBy
<1> QED
  BY <1>2, <1>3

(* A worker that found no row for its issue and is about to create one.     *)
Creates(w, es) ==
  /\ pc[w] = "attempt" /\ sync[w].step = "write" /\ sync[w].row = 0
  /\ record[w] \in es
Creations(es) == IF \E w \in Workers : Creates(w, es) THEN 1 ELSE 0

(* The rows of an event, the writes that may still add one, and the row     *)
(* that is being created.                                                   *)
DupInv ==
  \A es \in SUBSET Records : OneIssueEvent(es) =>
    /\ IsFiniteSet(RowsBy(es))
    /\ Cardinality(RowsBy(es)) + Cardinality(late) + Creations(es) <= 1 + givenUp

(* No two workers create a row for one event.                               *)
LEMMA OneCreates ==
  ASSUME CoverInv, ClaimInv, NEW es \in SUBSET Records, OneIssueEvent(es),
         NEW v \in Workers, NEW w \in Workers,
         Creates(v, es), pc[w] = "attempt", record[w] \in es
  PROVE  v = w
<1>1. /\ record[v] \in es /\ record[w] \in es /\ Owns(v) /\ Owns(w)
  BY DEF Creates, Owns
<1>2. Conflict(record[v], record[w])
  BY <1>1 DEF OneIssueEvent
<1> QED
  BY <1>1, <1>2, OwnersAreExclusive DEF ClaimExclusive

LEMMA DupInit == SyncInit => DupInv
<1> SUFFICES ASSUME SyncInit PROVE DupInv
  OBVIOUS
<1>1. \A es : RowsBy(es) = {} /\ Creations(es) = 0
  BY DEF SyncInit, Init, RowsBy, Creations, Creates
<1> QED
  BY <1>1, FS_EmptySet DEF SyncInit, DupInv

(* A step that creates nothing, and prepares no creation.                   *)
LEMMA NothingCreated ==
  ASSUME DupInv, LateInv, UNCHANGED <<late, givenUp>>, NEW es \in SUBSET Records, OneIssueEvent(es), RowsBy(es)' = RowsBy(es),
         \A w \in Workers : Creates(w, es)' => Creates(w, es)
  PROVE  /\ IsFiniteSet(RowsBy(es)')
         /\ Cardinality(RowsBy(es)') + Cardinality(late') + Creations(es)' <= 1 + givenUp'
<1>1. IsFiniteSet(RowsBy(es)) /\ Cardinality(RowsBy(es)) \in Nat /\ Cardinality(late) \in Nat /\ givenUp \in Nat
  BY FS_CardinalityType DEF DupInv, LateInv
<1>2. Creations(es)' <= Creations(es) /\ Creations(es) \in {0, 1} /\ Creations(es)' \in {0, 1}
  BY DEF Creations
<1>3. Cardinality(RowsBy(es)) + Cardinality(late) + Creations(es) <= 1 + givenUp
  BY DEF DupInv
<1> QED
  BY <1>1, <1>2, <1>3

LEMMA DupStep ==
  ASSUME CoverInv, ClaimInv, LateInv, DupInv, [SyncNext]_<<vars, syncVars>>
  PROVE  DupInv'
<1> SUFFICES ASSUME NEW es \in SUBSET Records, OneIssueEvent(es)
             PROVE  /\ IsFiniteSet(RowsBy(es)')
                    /\ Cardinality(RowsBy(es)') + Cardinality(late') + Creations(es)' <= 1 + givenUp'
  BY DEF DupInv
<1> DEFINE Fits == /\ IsFiniteSet(RowsBy(es)')
                   /\ Cardinality(RowsBy(es)') + Cardinality(late') + Creations(es)' <= 1 + givenUp'
<1>1. /\ IsFiniteSet(RowsBy(es)) /\ Cardinality(RowsBy(es)) \in Nat
      /\ IsFiniteSet(late) /\ Cardinality(late) \in Nat /\ Cardinality(late) <= givenUp
      /\ givenUp \in Nat /\ Creations(es) \in {0, 1} /\ Creations(es)' \in {0, 1}
      /\ Cardinality(RowsBy(es)) + Cardinality(late) + Creations(es) <= 1 + givenUp
  BY FS_CardinalityType DEF DupInv, LateInv, Creations
<1>2. /\ pc \in [Workers -> Labels] /\ sync \in [Workers -> SyncState]
      /\ \A w \in Workers : pc[w] # "attempt" => sync[w] = Fresh
  BY DEF CoverInv, TypeOK
<1>3. UNCHANGED table => RowsBy(es)' = RowsBy(es)
  BY DEF RowsBy
<1>4. ASSUME NEW w \in Workers, Handler(w) PROVE Fits
  <2>1. /\ UNCHANGED syncVars
        /\ \A v \in Workers : pc[v] = "attempt" => pc'[v] = "attempt" /\ record'[v] = record[v]
    BY <1>4 DEF Handler, Runs, Arrive, Claim, ClaimConflicts, ClaimLost, LookupProcessed,
       LookupInProgress, LookupMissing, Poll, Cancelled, Complete, CompleteFails, Release,
       ReleaseFails, Answer, Goto, CoverInv, TypeOK
  <2>2. \A v \in Workers : Creates(v, es)' => Creates(v, es)
    BY <1>2, <2>1, FreshIsTyped DEF Creates, syncVars
  <2> QED
    BY <1>3, <2>1, <2>2, NothingCreated DEF syncVars
(* A worker that moves on, and does not get as far as creating a row.       *)
<1>5. ASSUME NEW w \in Workers, NEW s \in SyncState, Move(w, s), s.step = "find" \/ s.row # 0,
             UNCHANGED <<late, givenUp, record>>, RowsBy(es)' = RowsBy(es),
             \A v \in Workers \ {w} : pc'[v] = pc[v]
      PROVE  Fits
  <2>1. sync'[w] = s /\ \A v \in Workers \ {w} : sync'[v] = sync[v]
    BY <1>2, <1>5 DEF Move
  <2>2. \A v \in Workers : Creates(v, es)' => Creates(v, es)
    BY <1>5, <2>1 DEF Creates
  <2> QED
    BY <1>5, <2>2, NothingCreated
<1>6. ASSUME NEW w \in Workers, FindRow(w) PROVE Fits
  <2> DEFINE s(i) == [next |-> sync[w].next, step |-> "write", row |-> i,
                      seen |-> Copy(table[i])]
  <2>1. PICK i \in DOMAIN table : Move(w, s(i))
    BY <1>6 DEF FindRow, RowsOf
  <2>2. i \in Nat \ {0} /\ table[i] \in RowType
    BY DEF CoverInv
  <2>3. s(i) \in SyncState /\ s(i).row # 0
    BY <1>2, <2>2, CopyIsTyped DEF SyncState
  <2> HIDE DEF s
  <2> QED
    BY <1>3, <1>5, <1>6, <2>1, <2>3 DEF FindRow, vars
<1>7. ASSUME NEW w \in Workers, NextIssue(w), UNCHANGED <<late, givenUp, vars>>,
             RowsBy(es)' = RowsBy(es)
      PROVE  Fits
  <2> DEFINE s == [Fresh EXCEPT !.next = sync[w].next + 1]
  <2>1. s \in SyncState /\ s.step = "find"
    BY <1>2, FreshIsTyped DEF SyncState
  <2>2. Move(w, s)
    BY <1>7 DEF NextIssue
  <2> HIDE DEF s
  <2> QED
    BY <1>5, <1>7, <2>1, <2>2 DEF vars
<1>8. ASSUME NEW w \in Workers, FindNone(w) PROVE Fits
  <2>1. CASE record[w].kind # "issue"
    BY <1>3, <1>7, <1>8, <2>1 DEF FindNone
  <2>2. CASE record[w] \notin es /\ record[w].kind = "issue"
    <3>1. \A v \in Workers : Creates(v, es)' => Creates(v, es)
      BY <1>2, <1>8, <2>2 DEF FindNone, Move, Creates, vars
    <3> QED
      BY <1>3, <1>8, <3>1, NothingCreated DEF FindNone
(* Every row of the event is a row of the issue, and there is none.         *)
  <2>3. CASE record[w] \in es /\ record[w].kind = "issue"
    <3>1. record[w] \in Records /\ Working(w, "find") /\ RowsOf(Issue(w)) = {}
      BY <1>8 DEF FindNone, Working, CoverInv, TypeOK
    <3>2. Issue(w) = record[w].issues[1]
      <4>1. Len(record[w].issues) = 1
        BY <2>3, <3>1, RecordsAreEvents
      <4>2. sync[w].next \in Nat \ {0}
        BY <1>2 DEF SyncState
      <4>3. sync[w].next = 1
        BY <3>1, <4>1, <4>2 DEF Working
      <4> QED
        BY <4>3 DEF Issue
    <3>3. RowsBy(es) = {}
      <4>1. \A i \in RowsBy(es) : i \in RowsOf(Issue(w))
        <5> SUFFICES ASSUME NEW i \in RowsBy(es) PROVE i \in RowsOf(Issue(w))
          OBVIOUS
        <5>1. i \in DOMAIN table /\ table[i].by \in es /\ table[i] \in RowType
          BY DEF RowsBy, CoverInv
        <5>2. table[i].issue = table[i].by.issues[1]
          BY <5>1 DEF RowType
        <5>3. table[i].by.issues[1] = record[w].issues[1]
          BY <2>3, <5>1 DEF OneIssueEvent
        <5> QED
          BY <3>2, <5>1, <5>2, <5>3 DEF RowsOf
      <4> QED
        BY <3>1, <4>1
    <3>4. RowsBy(es)' = {} /\ Cardinality({}) = 0 /\ IsFiniteSet({})
      BY <1>3, <1>8, <3>3, FS_EmptySet DEF FindNone
    <3>5. UNCHANGED <<late, givenUp>>
      BY <1>8 DEF FindNone
    <3> QED
      BY <1>1, <3>4, <3>5
  <2> QED
    BY <2>1, <2>2, <2>3
<1>9. ASSUME NEW w \in Workers, WriteRow(w) PROVE Fits
  <2>1. /\ Write(w) \in WriteType /\ Write(w).row <= Len(table)
        /\ Write(w).row = sync[w].row /\ Write(w).event = record[w]
        /\ table' = Apply(table, Write(w)) /\ NextIssue(w) /\ UNCHANGED <<vars, late, givenUp>>
        /\ pc[w] = "attempt" /\ sync[w].step = "write"
    BY <1>9, WriteIsTyped DEF WriteRow, Write, Working
  <2>2. CASE sync[w].row = 0 /\ record[w] \in es
    <3>1. Creates(w, es)
      BY <2>1, <2>2 DEF Creates
    <3>2. \A v \in Workers : ~Creates(v, es)'
      <4>1. sync'[w].step = "find" /\ \A v \in Workers \ {w} : sync'[v] = sync[v]
        BY <1>2, <2>1, FreshIsTyped DEF NextIssue, Move, Fresh
      <4>2. \A v \in Workers \ {w} : ~Creates(v, es)
        BY <2>1, <2>2, <3>1, OneCreates
      <4> QED
        BY <2>1, <4>1, <4>2 DEF Creates, vars
    <3>3. Creations(es) = 1 /\ Creations(es)' = 0
      BY <3>1, <3>2 DEF Creations
    <3>4. RowsBy(es)' = RowsBy(es) \cup {Len(table) + 1}
      BY <2>1, <2>2, RowsByAfterWrite DEF CoverInv
    <3>5. /\ IsFiniteSet(RowsBy(es)') /\ Cardinality(RowsBy(es)') \in Nat
          /\ Cardinality(RowsBy(es)') <= Cardinality(RowsBy(es)) + 1
      BY <1>1, <3>4, OneMore
    <3> QED
      BY <1>1, <2>1, <3>3, <3>5
  <2>3. CASE ~(sync[w].row = 0 /\ record[w] \in es)
    <3>1. RowsBy(es)' = RowsBy(es)
      BY <2>1, <2>3, RowsByAfterWrite DEF CoverInv
    <3> QED
      BY <1>7, <2>1, <3>1
  <2> QED
    BY <2>2, <2>3
<1>10. ASSUME NEW w \in Workers, SyncSucceeds(w) \/ SyncFails(w) PROVE Fits
  <2>1. Move(w, Fresh) /\ UNCHANGED <<late, givenUp, record, table>>
        /\ \A v \in Workers \ {w} : pc'[v] = pc[v]
    BY <1>2, <1>10 DEF SyncSucceeds, SyncFails, AttemptSucceeds, AttemptFails, Goto
  <2> QED
    BY <1>3, <1>5, <2>1, FreshIsTyped
(* What is given up may still come.                                         *)
<1>11. ASSUME NEW w \in Workers, GiveUpWrite(w) PROVE Fits
  <2> DEFINE more == late \cup {Write(w)}
  <2>1. /\ Move(w, Fresh) /\ UNCHANGED <<record, table>> /\ givenUp' = givenUp + 1 /\ late' = more
        /\ \A v \in Workers \ {w} : pc'[v] = pc[v]
    BY <1>2, <1>11 DEF GiveUpWrite, AttemptFails, Goto
  <2>2. Cardinality(more) <= Cardinality(late) + 1 /\ Cardinality(more) \in Nat
    BY <1>1, OneMore
  <2> HIDE DEF more
  <2>3. Creations(es)' <= Creations(es)
    <3>1. \A v \in Workers : Creates(v, es)' => Creates(v, es)
      BY <1>2, <2>1, FreshIsTyped DEF Move, Creates
    <3> QED
      BY <3>1 DEF Creations
  <2> QED
    BY <1>1, <1>3, <2>1, <2>2, <2>3
<1>12. ASSUME LateWrite PROVE Fits
  <2>1. PICK write \in late : table' = Apply(table, write) /\ late' = late \ {write}
    BY <1>12 DEF LateWrite
  <2>2. UNCHANGED <<vars, sync, givenUp>>
    BY <1>12 DEF LateWrite
  <2>3. Cardinality(late') = Cardinality(late) - 1
    BY <1>1, <2>1, FS_RemoveElement
  <2>4. RowsBy(es)' \in {RowsBy(es), RowsBy(es) \cup {Len(table) + 1}}
    BY <2>1, RowsByAfterWrite DEF CoverInv
  <2>5. /\ IsFiniteSet(RowsBy(es)') /\ Cardinality(RowsBy(es)') \in Nat
        /\ Cardinality(RowsBy(es)') <= Cardinality(RowsBy(es)) + 1
    <3>1. CASE RowsBy(es)' = RowsBy(es)
      BY <1>1, <3>1
    <3>2. CASE RowsBy(es)' = RowsBy(es) \cup {Len(table) + 1}
      BY <1>1, <3>2, OneMore
    <3> QED
      BY <2>4, <3>1, <3>2
  <2>6. Creations(es)' = Creations(es)
    BY <2>2 DEF Creations, Creates, vars
  <2> QED
    BY <1>1, <2>2, <2>3, <2>5, <2>6
<1>13. ASSUME SyncRestart PROVE Fits
  <2>1. UNCHANGED <<table, late, givenUp>> /\ \A v \in Workers : ~Creates(v, es)'
    BY <1>13 DEF SyncRestart, Restart, Creates
  <2> QED
    BY <1>3, <2>1, NothingCreated
<1>14. ASSUME UNCHANGED <<vars, syncVars>> PROVE Fits
  <2>1. UNCHANGED <<table, late, givenUp>> /\ \A v \in Workers : Creates(v, es)' = Creates(v, es)
    BY <1>14 DEF vars, syncVars, Creates
  <2> QED
    BY <1>3, <2>1, NothingCreated
<1> QED
  BY <1>4, <1>6, <1>8, <1>9, <1>10, <1>11, <1>12, <1>13, <1>14 DEF SyncNext

(* The unique claim keeps two attempts for one event from both missing the  *)
(* row of its issue, whichever other events of the issue are handled at the *)
(* same time, and only a create that was given up and came late adds a      *)
(* second row; for every number of workers, deliveries and failures.        *)
THEOREM SecondRowsAreLate == SyncSpec => []SecondRowIsLate
<1>1. LateInv /\ DupInv => SecondRowIsLate
  <2> SUFFICES ASSUME LateInv, DupInv, NEW es \in SUBSET Records, OneIssueEvent(es)
               PROVE  Cardinality(RowsBy(es)) <= 1 + givenUp
    BY DEF SecondRowIsLate
  <2>1. /\ IsFiniteSet(RowsBy(es)) /\ Cardinality(RowsBy(es)) \in Nat /\ Cardinality(late) \in Nat
        /\ givenUp \in Nat /\ Creations(es) \in {0, 1}
        /\ Cardinality(RowsBy(es)) + Cardinality(late) + Creations(es) <= 1 + givenUp
    BY FS_CardinalityType DEF DupInv, LateInv, Creations
  <2> QED
    BY <2>1
<1>2. CoverInv /\ ClaimInv /\ LateInv /\ DupInv /\ [SyncNext]_<<vars, syncVars>> => DupInv'
  BY DupStep
<1> QED
  BY <1>1, <1>2, DupInit, LateInit, LateStep, CoverInvHolds, PTL DEF SyncSpec

-------------------------------------------------------------------------------
(* What a write would lose.                                                 *)

(* A copy of a row shows what the row shows, until a merge request event    *)
(* writes the row; the events of the issue leave these columns alone.       *)
Follows(copy, row) ==
  /\ copy.writes <= row.writes
  /\ copy.writes = row.writes => copy.prs = row.prs /\ copy.last = row.last

SeenInv ==
  /\ \A w \in Workers : sync[w].row # 0 => Follows(sync[w].seen, table[sync[w].row])
  /\ \A write \in late : write.row # 0 => Follows(write.seen, table[write.row])

LEMMA SeenInit == SyncInit => SeenInv
  BY DEF SyncInit, SeenInv, Fresh

(* A write keeps the other rows, and a copy follows the row that is written. *)
LEMMA ApplyKeepsCopies ==
  ASSUME table \in Seq(RowType), NEW write \in WriteType, write.row <= Len(table),
         table' = Apply(table, write), NEW i \in 1 .. Len(table),
         NEW copy \in Columns, Follows(copy, table[i])
  PROVE  Follows(copy, table'[i])
<1>1. /\ write.row \in Nat /\ write.seen \in Columns /\ write.event \in Records
      /\ table[i] \in RowType /\ copy.writes \in Nat
  BY DEF WriteType, Columns, PRColumns
<1>2. CASE write.row # i
  <2>1. table'[i] = table[i]
    <3> DEFINE new == NewRow(write.event)
               changed == IF write.event.kind = "issue"
                            THEN IssueFields(table[write.row], write.event)
                            ELSE MergeRequestFields(table[write.row], write.seen, write.event)
    <3>1. CASE write.row = 0
      <4>1. table' = Append(table, new)
        BY <3>1 DEF Apply
      <4> HIDE DEF new
      <4> QED
        BY <4>1
    <3>2. CASE write.row # 0
      <4>1. write.row \in 1 .. Len(table) /\ table' = [table EXCEPT ![write.row] = changed]
        BY <1>1, <3>2 DEF Apply
      <4> HIDE DEF changed
      <4> QED
        BY <1>2, <4>1
    <3> QED
      BY <3>1, <3>2
  <2> QED
    BY <2>1
<1>3. CASE write.row = i
  <2>1. table'[i] = IF write.event.kind = "issue"
                      THEN IssueFields(table[i], write.event)
                      ELSE MergeRequestFields(table[i], write.seen, write.event)
    BY <1>3 DEF Apply
  <2>2. CASE write.event.kind = "issue"
    <3>1. /\ table'[i].prs = table[i].prs /\ table'[i].last = table[i].last
          /\ table'[i].writes = table[i].writes
      BY <1>1, <2>1, <2>2 DEF IssueFields, RowType
    <3> QED
      BY <3>1 DEF Follows
  <2>3. CASE write.event.kind # "issue"
    <3>1. table'[i].writes = table[i].writes + 1 /\ table[i].writes \in Nat
      BY <1>1, <2>1, <2>3 DEF MergeRequestFields, RowType
    <3> QED
      BY <1>1, <3>1 DEF Follows
  <2> QED
    BY <2>2, <2>3
<1> QED
  BY <1>2, <1>3

LEMMA SeenStep ==
  ASSUME CoverInv, SeenInv, [SyncNext]_<<vars, syncVars>>
  PROVE  SeenInv'
<1>1. /\ sync \in [Workers -> SyncState] /\ table \in Seq(RowType)
      /\ \A w \in Workers : sync[w].row \in 0 .. Len(table) /\ sync[w].seen \in Columns
      /\ \A m \in late : m.row \in 0 .. Len(table) /\ m.seen \in Columns
  BY DEF CoverInv, SyncState, WriteType
(* A worker moves on without a row, or with a copy of one.                  *)
<1>2. ASSUME NEW w \in Workers, NEW s, Move(w, s), UNCHANGED table,
             s.row = 0 \/ Follows(s.seen, table[s.row]),
             late' \subseteq late \cup {Write(w)}
      PROVE  SeenInv'
  <2>1. \A v \in Workers : sync'[v] = IF v = w THEN s ELSE sync[v]
    BY <1>1, <1>2 DEF Move
  <2>2. \A v \in Workers : sync'[v].row # 0 => Follows(sync'[v].seen, table[sync'[v].row])
    BY <1>2, <2>1 DEF SeenInv
  <2>3. \A m \in late' : m.row # 0 => Follows(m.seen, table[m.row])
    <3>1. Write(w).row # 0 => Follows(Write(w).seen, table[Write(w).row])
      BY DEF Write, SeenInv
    <3> QED
      BY <1>2, <3>1 DEF SeenInv
  <2> QED
    BY <1>2, <2>2, <2>3 DEF SeenInv
<1>3. ASSUME NEW w \in Workers, Handler(w) PROVE SeenInv'
  BY <1>3 DEF Handler, syncVars, SeenInv
<1>4. ASSUME NEW w \in Workers, FindRow(w) PROVE SeenInv'
  <2> DEFINE s(i) == [next |-> sync[w].next, step |-> "write", row |-> i, seen |-> Copy(table[i])]
  <2>1. PICK i \in DOMAIN table : Move(w, s(i))
    BY <1>4 DEF FindRow, RowsOf
  <2>2. table[i] \in RowType /\ s(i).row = i /\ s(i).seen = Copy(table[i])
    BY <1>1
  <2>3. Follows(s(i).seen, table[i])
    <3>1. Copy(table[i]).writes \in Nat
      BY <2>2, CopyIsTyped DEF Columns, PRColumns
    <3> QED
      BY <2>2, <3>1, CopyIsTyped DEF Follows
  <2>4. UNCHANGED <<table, late>>
    BY <1>4 DEF FindRow
  <2> HIDE DEF s
  <2> QED
    BY <1>2, <2>1, <2>2, <2>3, <2>4
<1>5. ASSUME NEW w \in Workers, NextIssue(w) PROVE sync'[w].row = 0
                                             /\ \A v \in Workers \ {w} : sync'[v] = sync[v]
  BY <1>1, <1>5 DEF NextIssue, Move, Fresh
<1>6. ASSUME NEW w \in Workers, FindNone(w) PROVE SeenInv'
  <2>1. CASE record[w].kind = "issue"
    <3> DEFINE s == [sync[w] EXCEPT !.step = "write"]
    <3>1. Move(w, s) /\ UNCHANGED <<table, late>> /\ sync[w] \in SyncState
      BY <1>1, <1>6, <2>1 DEF FindNone
    <3>2. s.row = sync[w].row /\ s.seen = sync[w].seen
      BY <3>1 DEF SyncState
    <3>3. s.row = 0 \/ Follows(s.seen, table[s.row])
      BY <3>2 DEF SeenInv
    <3> HIDE DEF s
    <3> QED
      BY <1>2, <3>1, <3>3
  <2>2. CASE record[w].kind # "issue"
    <3>1. NextIssue(w) /\ UNCHANGED <<table, late>>
      BY <1>6, <2>2 DEF FindNone
    <3> QED
      BY <1>5, <3>1 DEF SeenInv
  <2> QED
    BY <2>1, <2>2
<1>7. ASSUME NEW w \in Workers, SyncSucceeds(w) \/ SyncFails(w) \/ GiveUpWrite(w) PROVE SeenInv'
  <2>1. Move(w, Fresh) /\ UNCHANGED table /\ late' \subseteq late \cup {Write(w)}
    BY <1>7 DEF SyncSucceeds, SyncFails, GiveUpWrite
  <2> QED
    BY <1>2, <2>1, FreshIsTyped
(* Copies of the row that is written still follow it.                       *)
<1>8. ASSUME NEW write \in WriteType, write.row <= Len(table), table' = Apply(table, write),
             late' \subseteq late,
             \A v \in Workers : sync'[v] = sync[v] \/ sync'[v].row = 0
      PROVE  SeenInv'
  <2>1. \A i \in 1 .. Len(table), copy \in Columns :
          Follows(copy, table[i]) => Follows(copy, table'[i])
    BY <1>1, <1>8, ApplyKeepsCopies
  <2>2. \A v \in Workers : sync'[v].row # 0 => Follows(sync'[v].seen, table'[sync'[v].row])
    BY <1>1, <1>8, <2>1 DEF SeenInv
  <2>3. \A m \in late' : m.row # 0 => Follows(m.seen, table'[m.row])
    BY <1>1, <1>8, <2>1 DEF SeenInv
  <2> QED
    BY <2>2, <2>3 DEF SeenInv
<1>9. ASSUME NEW w \in Workers, WriteRow(w) PROVE SeenInv'
  <2>1. /\ Write(w) \in WriteType /\ Write(w).row <= Len(table) /\ table' = Apply(table, Write(w))
        /\ NextIssue(w) /\ late' = late
    BY <1>9, WriteIsTyped DEF WriteRow
  <2> QED
    BY <1>5, <1>8, <2>1
<1>10. ASSUME LateWrite PROVE SeenInv'
  <2>1. PICK write \in late : table' = Apply(table, write) /\ late' = late \ {write}
    BY <1>10 DEF LateWrite
  <2>2. write \in WriteType /\ write.row <= Len(table) /\ UNCHANGED sync
    BY <1>10 DEF LateWrite, CoverInv
  <2> QED
    BY <1>8, <2>1, <2>2
<1>11. ASSUME SyncRestart PROVE SeenInv'
  BY <1>11, FreshIsTyped DEF SyncRestart, SeenInv
<1>12. ASSUME UNCHANGED <<vars, syncVars>> PROVE SeenInv'
  BY <1>12 DEF syncVars, SeenInv
<1> QED
  BY <1>3, <1>4, <1>6, <1>7, <1>9, <1>10, <1>11, <1>12 DEF SyncNext

(* What a write does to a row it has not lost sight of.                     *)
LEMMA WriteTakesNothing ==
  ASSUME table \in Seq(RowType), NEW write \in WriteType, write.row <= Len(table),
         table' = Apply(table, write), NEW i \in 1 .. Len(table),
         write.row # 0 => Follows(write.seen, table[write.row]),
         Loses(i)
  PROVE  write.row = i /\ Overtaken(write)
<1>1. /\ write.row \in Nat /\ write.seen \in Columns /\ write.event \in Records
      /\ table[i] \in RowType /\ table[i].prs \in [PRs -> Times] /\ table[i].last \in Nat
  <2>1. write.row \in Nat /\ write.seen \in Columns /\ write.event \in Records
    BY DEF WriteType
  <2>2. table[i] \in RowType
    OBVIOUS
  <2>3. table[i].prs \in [PRs -> Times] /\ table[i].last \in Times
    BY <2>2 DEF RowType
  <2> QED
    BY <2>1, <2>2, <2>3, TimesAreNumbers
<1>2. ~(table'[i].prs = table[i].prs /\ table'[i].last = table[i].last)
  BY <1>1 DEF Loses
<1>3. write.row = i
  <2> SUFFICES ASSUME write.row # i PROVE table'[i] = table[i]
    BY <1>2
  <2> DEFINE new == NewRow(write.event)
             changed == IF write.event.kind = "issue"
                          THEN IssueFields(table[write.row], write.event)
                          ELSE MergeRequestFields(table[write.row], write.seen, write.event)
  <2>1. CASE write.row = 0
    <3>1. table' = Append(table, new)
      BY <2>1 DEF Apply
    <3> HIDE DEF new
    <3> QED
      BY <3>1
  <2>2. CASE write.row # 0
    <3>1. write.row \in 1 .. Len(table) /\ table' = [table EXCEPT ![write.row] = changed]
      BY <1>1, <2>2 DEF Apply
    <3> HIDE DEF changed
    <3> QED
      BY <3>1
  <2> QED
    BY <2>1, <2>2
<1>4. table'[i] = IF write.event.kind = "issue"
                    THEN IssueFields(table[i], write.event)
                    ELSE MergeRequestFields(table[i], write.seen, write.event)
  BY <1>3 DEF Apply
<1>5. write.event.kind = "merge"
  <2> SUFFICES ASSUME write.event.kind = "issue"
               PROVE  table'[i].prs = table[i].prs /\ table'[i].last = table[i].last
    BY <1>1, <1>2, RecordsAreEvents
  <2> QED
    BY <1>1, <1>4 DEF IssueFields, RowType
(* Had it not been overtaken, it would have put back all that is there.     *)
<1>6. write.seen.writes # table[write.row].writes
  <2> SUFFICES ASSUME write.seen.writes = table[write.row].writes PROVE FALSE
    OBVIOUS
  <2>1. write.seen.prs = table[i].prs /\ write.seen.last = table[i].last
    BY <1>3 DEF Follows
  <2>2. write.event.stamp \in Nat \ {0} /\ write.event.pr \in PRs
    BY <1>1, <1>5, RecordsAreEvents
  <2> DEFINE prs == [table[i].prs EXCEPT ![write.event.pr] = write.event.stamp]
             last == Later(table[i].last, write.event.stamp)
  <2>3. table'[i] = [table[i] EXCEPT !.prs = prs, !.last = last, !.writes = @ + 1]
    BY <1>4, <1>5, <2>1 DEF MergeRequestFields
  <2>4. last >= table[i].last /\ last \in Nat
    BY <1>1, <2>2 DEF Later
  <2>5. \A p \in PRs : table[i].prs[p] # 0 => prs[p] # 0
    BY <1>1, <2>2
  <2> HIDE DEF prs, last
  <2>6. table'[i].prs = prs /\ table'[i].last = last
    BY <1>1, <2>3 DEF RowType
  <2> QED
    BY <1>1, <2>4, <2>5, <2>6 DEF Loses
<1> QED
  BY <1>3, <1>5, <1>6 DEF Overtaken

LEMMA RowsLoseToOvertaken ==
  ASSUME CoverInv, SeenInv, [SyncNext]_<<vars, syncVars>>, NEW i \in DOMAIN table, Loses(i)
  PROVE  \E write \in Pending : /\ write.row = i /\ Overtaken(write)
                                /\ table' = Apply(table, write)
<1>1. table \in Seq(RowType) /\ table[i] \in RowType /\ i \in 1 .. Len(table)
  BY DEF CoverInv
<1>2. ~UNCHANGED table
  <2> SUFFICES ASSUME table' = table PROVE FALSE
    OBVIOUS
  <2>1. table[i].last \in Nat
    BY <1>1, TimesAreNumbers DEF RowType
  <2> QED
    BY <2>1 DEF Loses
<1>3. ASSUME NEW w \in Workers, WriteRow(w)
      PROVE  /\ Write(w) \in Pending /\ Write(w).row = i /\ Overtaken(Write(w))
             /\ table' = Apply(table, Write(w))
  <2>1. /\ Write(w) \in WriteType /\ Write(w).row <= Len(table) /\ table' = Apply(table, Write(w))
        /\ Working(w, "write")
    BY <1>3, WriteIsTyped DEF WriteRow
  <2>2. Write(w).row # 0 => Follows(Write(w).seen, table[Write(w).row])
    BY DEF Write, SeenInv
  <2>3. Write(w).row = i /\ Overtaken(Write(w))
    BY <1>1, <2>1, <2>2, WriteTakesNothing
  <2> QED
    BY <2>1, <2>3 DEF Pending
<1>4. ASSUME LateWrite
      PROVE  \E write \in late : /\ write.row = i /\ Overtaken(write)
                                 /\ table' = Apply(table, write)
  <2>1. PICK write \in late : table' = Apply(table, write)
    BY <1>4 DEF LateWrite
  <2>2. /\ write \in WriteType /\ write.row <= Len(table)
        /\ write.row # 0 => Follows(write.seen, table[write.row])
    BY DEF CoverInv, SeenInv
  <2> QED
    BY <1>1, <2>1, <2>2, WriteTakesNothing
<1>5. UNCHANGED table \/ LateWrite \/ \E w \in Workers : WriteRow(w)
  BY DEF SyncNext, Handler, FindRow, FindNone, SyncSucceeds, SyncFails, GiveUpWrite, SyncRestart,
         syncVars
<1> QED
  BY <1>2, <1>3, <1>4, <1>5 DEF Pending

(* A row loses a pull request, or its LastPRUpdatedAt goes back, only to    *)
(* the write of a merge request event that another one has overtaken; for   *)
(* every number of workers, events, failures, restarts and late writes.     *)
THEOREM RowsLoseToOvertakenOnly == SyncSpec => OnlyOvertakenTakes
<1>1. CoverInv /\ SeenInv /\ [SyncNext]_<<vars, syncVars>> =>
        \A i \in DOMAIN table : Loses(i) =>
          \E write \in Pending : /\ write.row = i /\ Overtaken(write)
                                 /\ table' = Apply(table, write)
  BY RowsLoseToOvertaken
<1>2. CoverInv /\ SeenInv /\ [SyncNext]_<<vars, syncVars>> => SeenInv'
  BY SeenStep
<1> QED
  BY <1>1, <1>2, SeenInit, CoverInvHolds, PTL DEF SyncSpec, OnlyOvertakenTakes
================================================================================
