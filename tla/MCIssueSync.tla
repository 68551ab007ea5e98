------------------------------- MODULE MCIssueSync -------------------------------
(***************************************************************************)
(* Instances of IssueSync.                                                 *)
(***************************************************************************)
EXTENDS IssueSync, TLC

IssueEvent(d, u, t) == [delivery |-> d, uuid |-> u, kind |-> "issue", issues |-> <<"i1">>, stamp |-> t]

MergeEvent(d, u, p, is, t) ==
  [delivery |-> d, uuid |-> u, kind |-> "merge", issues |-> is, pr |-> p, stamp |-> t]

Opened   == IssueEvent("d1", "u1", 1)
OpenedAgain == IssueEvent("d2", "u1", 1)
Closed   == IssueEvent("d3", "u2", 3)
Proposed == MergeEvent("d4", "u3", "p1", <<"i2", "i1">>, 2)
Other    == MergeEvent("d5", "u4", "p2", <<"i1">>, 3)

Overlapping == {Opened, OpenedAgain, Closed, Proposed, Other}

SameWorkers == Permutations(Workers)
================================================================================
