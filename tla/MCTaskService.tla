---------------------------- MODULE MCTaskService ----------------------------
(***************************************************************************)
(* TLC instances of TaskService.                                           *)
(***************************************************************************)
EXTENDS TaskService, TLC

AllCommands == {"start", "reply", "stop", "complete", "reopen", "delete"}
\* Command sets of the runs.
StartAndReply == {"start", "reply"}
AllButStopAndDelete == AllCommands \ {"stop", "delete"}
StartAndStop == {"start", "stop"}
OperatorSymmetry == Permutations(Operators)
===============================================================================
