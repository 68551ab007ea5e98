SPECIFICATION FairSpec
CONSTANTS
  Operators = {o1}
  Loop = loop
  Commands <- AllButStopAndDelete
  MaxThreads = 1
  MaxTurns = 2
  MaxRequests = 1
  MaxFaults = 0
  MaxCrashes = 1
CHECK_DEADLOCK FALSE
PROPERTIES
  RequestAttended
  TaskIsStarted
