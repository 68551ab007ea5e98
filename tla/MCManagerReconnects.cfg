SPECIFICATION Spec
CONSTANTS
  Callers = {o1}
  Loop = loop
  NoOne = none
  Threads = {t1}
  Old = {t1}
  Kinds = {"event", "delta"}
  Ops <- Talking
  NotifyCap = 1
  WatcherCap = 1
  RunnerCap = 1
  MaxClients = 2
  MaxOps = 2
  MaxNotes = 2
  MaxBreaks = 1
  MaxFaults = 1
INVARIANTS EventsInOrder WatchersReattach
CHECK_DEADLOCK FALSE
