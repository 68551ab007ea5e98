-------------------------- MODULE MCAppServerManager --------------------------
(***************************************************************************)
(* Instances of AppServerManager: the operations its callers call.         *)
(***************************************************************************)
EXTENDS AppServerManager

Talking == {"attach", "input", "respond"}
ThreadLife == {"start", "attach", "respond", "cleanup", "snapshot"}
===============================================================================
