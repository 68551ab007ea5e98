SPECIFICATION Spec
CONSTANTS
  Operators = {o1}
  Loop = loop
  Commands <- StartAndStop
  MaxThreads = 1
  MaxTurns = 1
  MaxRequests = 1
  MaxFaults = 0
  MaxCrashes = 0
CHECK_DEADLOCK FALSE
PROPERTIES
  OnlyOperatorsReopen
