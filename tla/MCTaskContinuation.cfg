SPECIFICATION Spec
CONSTANTS
  Operators = {o1}
  Loop = loop
  Commands = {"start", "reply", "stop", "reopen"}
  MaxThreads = 1
  MaxTurns = 3
  MaxRequests = 0
  MaxFaults = 0
  MaxCrashes = 1
CHECK_DEADLOCK FALSE
PROPERTIES
  ContinuedAgainByItsEvent
