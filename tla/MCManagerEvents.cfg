SPECIFICATION FairSpec
CONSTANTS
  Callers = {o1}
  Loop = loop
  NoOne = none
  Threads = {t1, t2}
  Old = {t1}
  Kinds = {"event"}
  Ops <- ThreadLife
  NotifyCap = 1
  WatcherCap = 1
  RunnerCap = 1
  MaxClients = 1
  MaxOps = 2
  MaxNotes = 3
  MaxBreaks = 0
  MaxFaults = 1
INVARIANTS TypeOK
PROPERTIES EventsFlow CallsEnd
CHECK_DEADLOCK FALSE
