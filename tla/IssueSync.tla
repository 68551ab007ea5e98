-------------------------------- MODULE IssueSync --------------------------------
(***************************************************************************)
(* The attempt of a webhook delivery: internal/issuesync/service.go mirrors *)
(* issues and pull requests into a Feishu Bitable.                          *)
(*                                                                         *)
(* DeliveryClaims sees an attempt as its result.  Here an attempt is the    *)
(* calls it makes: find a row, then create or update it, for each issue of *)
(* the event.  The deliveries are the events themselves.                    *)
(*                                                                         *)
(* Of an issue's fields a row keeps the time of the event they were copied *)
(* from, and of a pull request's three lines the same; 0 is "nothing yet". *)
(* Two fields are history: by, the delivery that created the row, and      *)
(* writes, how many merge request events have written it.                  *)
(***************************************************************************)
EXTENDS DeliveryClaims, Sequences

CONSTANTS
  PRs,             \* pull request numbers
  MaxLate          \* bound on writes that arrive after their request was given up

(* What ParseEvent returns: an issue event has one issue, a merge request   *)
(* event a list of issues without repetition.                               *)
ASSUME RecordsAreEvents ==
  \A e \in Records : /\ e.kind \in {"issue", "merge"}
                     /\ e.stamp \in Nat \ {0}
                     /\ e.issues \in Seq(STRING)
                     /\ e.kind = "issue" => Len(e.issues) = 1
                     /\ e.kind = "merge" => e.pr \in PRs
ASSUME MaxLateIsNatural == MaxLate \in Nat

VARIABLES
  table,           \* the rows of the Bitable, in the order of their creation
  sync,            \* how far the attempt of each worker is
  late,            \* writes Feishu has received and not yet carried out
  givenUp          \* how many writes were given up

syncVars == <<table, sync, late, givenUp>>

NoPRs == [p \in PRs |-> 0]

(* What an update is computed from.                                         *)
Copy(row) == [prs |-> row.prs, last |-> row.last, writes |-> row.writes]

(* seen is the row as FindRecordByIssueKey returned it; row 0 is none.      *)
Fresh == [next |-> 1, step |-> "find", row |-> 0,
          seen |-> [prs |-> NoPRs, last |-> 0, writes |-> 0]]

SyncInit ==
  /\ Init
  /\ table = <<>>
  /\ sync = [w \in Workers |-> Fresh]
  /\ late = {}
  /\ givenUp = 0

-------------------------------------------------------------------------------
Issue(w) == record[w].issues[sync[w].next]

RowsOf(k) == {i \in DOMAIN table : table[i].issue = k}

Later(s, t) == IF s > t THEN s ELSE t

(* issueFields names no column of the pull requests.                        *)
NewRow(e) == [issue |-> e.issues[1], by |-> e, snapshot |-> e.stamp,
              prs |-> NoPRs, last |-> 0, writes |-> 0]

FaultyIssueFields(row, e) == NewRow(e)

IssueFields(row, e) == [row EXCEPT !.snapshot = e.stamp]

(* mergeRequestFields renders all columns of the pull requests anew, from   *)
(* what was read before.                                                    *)
FaultyMergeRequestFields(row, seen, e) ==
  [row EXCEPT !.prs = [seen.prs EXCEPT ![e.pr] = e.stamp], !.last = e.stamp, !.writes = @ + 1]

MergeRequestFields(row, seen, e) ==
  [row EXCEPT !.prs = [seen.prs EXCEPT ![e.pr] = e.stamp],
              !.last = Later(seen.last, e.stamp),
              !.writes = @ + 1]

(* The table after a CreateRecord or UpdateRecord.                          *)
Apply(t, write) ==
  IF write.row = 0 THEN Append(t, NewRow(write.event))
  ELSE [t EXCEPT ![write.row] = IF write.event.kind = "issue"
                                  THEN IssueFields(@, write.event)
                                  ELSE MergeRequestFields(@, write.seen, write.event)]

Write(w) == [row |-> sync[w].row, seen |-> sync[w].seen, event |-> record[w]]

Move(w, s) == sync' = [sync EXCEPT ![w] = s]

(* The next issue of the event, of which a merge request has several.       *)
NextIssue(w) == Move(w, [Fresh EXCEPT !.next = sync[w].next + 1])

Working(w, step) ==
  /\ pc[w] = "attempt"
  /\ sync[w].step = step
  /\ sync[w].next <= Len(record[w].issues)

-------------------------------------------------------------------------------
(* FindRecordByIssueKey returns the first of the matching rows; Bitable     *)
(* says nothing of their order.                                             *)
FindRow(w) ==
  /\ Working(w, "find")
  /\ \E i \in RowsOf(Issue(w)) :
       Move(w, [next |-> sync[w].next, step |-> "write", row |-> i, seen |-> Copy(table[i])])
  /\ UNCHANGED <<vars, table, late, givenUp>>

(* No row: an issue event creates one, a merge request event skips it.      *)
FaultyFindNone(w) ==
  /\ Working(w, "find")
  /\ RowsOf(Issue(w)) = {}
  /\ NextIssue(w)
  /\ UNCHANGED <<vars, table, late, givenUp>>

FindNone(w) ==
  /\ Working(w, "find")
  /\ RowsOf(Issue(w)) = {}
  /\ IF record[w].kind = "issue" THEN Move(w, [sync[w] EXCEPT !.step = "write"])
                                 ELSE NextIssue(w)
  /\ UNCHANGED <<vars, table, late, givenUp>>

WriteRow(w) ==
  /\ Working(w, "write")
  /\ table' = Apply(table, Write(w))
  /\ NextIssue(w)
  /\ UNCHANGED <<vars, late, givenUp>>

SyncSucceeds(w) ==
  /\ pc[w] = "attempt"
  /\ sync[w].next > Len(record[w].issues)
  /\ AttemptSucceeds(w)
  /\ Move(w, Fresh)
  /\ UNCHANGED <<table, late, givenUp>>

(* A call fails, or the client went away and cancelled it.                  *)
SyncFails(w) ==
  /\ pc[w] = "attempt"
  /\ sync[w].next <= Len(record[w].issues)
  /\ AttemptFails(w)
  /\ Move(w, Fresh)
  /\ UNCHANGED <<table, late, givenUp>>

(* The same, but the write has reached Feishu.                              *)
GiveUpWrite(w) ==
  /\ Working(w, "write")
  /\ givenUp < MaxLate
  /\ givenUp' = givenUp + 1
  /\ late' = late \cup {Write(w)}
  /\ AttemptFails(w)
  /\ Move(w, Fresh)
  /\ UNCHANGED table

LateWrite ==
  \E write \in late : /\ table' = Apply(table, write)
                      /\ late' = late \ {write}
                      /\ UNCHANGED <<vars, sync, givenUp>>

SyncRestart ==
  /\ Restart
  /\ sync' = [w \in Workers |-> Fresh]
  /\ UNCHANGED <<table, late, givenUp>>

(* What a delivery does before and after its attempt touches no table.      *)
Handler(w) ==
  /\ \/ \E r \in Records : Arrive(w, r)
     \/ Runs(w)
     \/ Cancelled(w) \/ ClaimLost(w)
  /\ UNCHANGED syncVars

SyncNext ==
  \/ \E w \in Workers : \/ Handler(w)
                        \/ FindRow(w) \/ FindNone(w) \/ WriteRow(w)
                        \/ SyncSucceeds(w) \/ SyncFails(w) \/ GiveUpWrite(w)
  \/ LateWrite
  \/ SyncRestart

SyncSpec == SyncInit /\ [][SyncNext]_<<vars, syncVars>>

-------------------------------------------------------------------------------
(* The variables of the synchronisation have their types.                   *)
Stamps == {e.stamp : e \in Records}
PRColumns == [prs : [PRs -> Stamps \cup {0}], last : Stamps \cup {0}, writes : Nat]

SyncTypeOK ==
  /\ TypeOK
  /\ \A i \in DOMAIN table : /\ table[i].snapshot \in Stamps
                             /\ Copy(table[i]) \in PRColumns
  /\ \A w \in Workers : /\ sync[w].seen \in PRColumns
                        /\ sync[w].row \in {0} \cup DOMAIN table
                        /\ pc[w] # "attempt" => sync[w] = Fresh
  /\ Cardinality(late) <= givenUp

(* Of the deliveries of one event, whichever other events of the issue come *)
(* at the same time, only a CreateRecord that was given up and carried out  *)
(* late adds a second row: two attempts for one event do not both miss the  *)
(* row and create it.  Two events of a new issue may.                       *)
OneIssueEvent(es) ==
  \A a, b \in es : /\ a.kind = "issue" /\ Conflict(a, b)
                   /\ a.issues[1] = b.issues[1]

RowsBy(es) == {i \in DOMAIN table : table[i].by \in es}

SecondRowIsLate ==
  \A es \in SUBSET Records : OneIssueEvent(es) => Cardinality(RowsBy(es)) <= 1 + givenUp

(* LastPRUpdatedAt is never older than a pull request the row shows, though *)
(* workers compute both from copies that may be stale.                      *)
LastCoversPRs ==
  \A i \in DOMAIN table : \A p \in PRs : table[i].prs[p] <= table[i].last

(* A 200 for an issue event means that the issue has its row, up to the     *)
(* first restart: the store's backfill then acknowledges events that were   *)
(* never applied.                                                           *)
AckedIssueHasRow ==
  restarts = 0 =>
    \A e \in acked : e.kind = "issue" => \E s \in Records : /\ Conflict(e, s)
                                                            /\ RowsOf(s.issues[1]) # {}

(* A row loses something: it no longer shows a pull request, or             *)
(* LastPRUpdatedAt goes back.                                               *)
Loses(i) ==
  \/ \E p \in PRs : table[i].prs[p] # 0 /\ table'[i].prs[p] = 0
  \/ table'[i].last < table[i].last

(* The writes that workers are about to make, and those that are late.      *)
Pending == late \cup {Write(w) : w \in {v \in Workers : Working(v, "write")}}

(* A write whose row was written by another merge request event since       *)
(* FindRecordByIssueKey returned it.                                        *)
Overtaken(write) == write.event.kind = "merge" /\ write.seen.writes # table[write.row].writes

(* A row loses something only to the write of a merge request event that    *)
(* another one has overtaken.  Events of the issue never take anything from *)
(* its row, however their calls overlap with those of merge request events, *)
(* and neither does a write that comes late but was not overtaken, nor one  *)
(* that is repeated after a failure.                                        *)
OnlyOvertakenTakes ==
  [][\A i \in DOMAIN table : Loses(i) =>
       \E write \in Pending : /\ write.row = i /\ Overtaken(write)
                              /\ table' = Apply(table, write)]_<<vars, syncVars>>
================================================================================
