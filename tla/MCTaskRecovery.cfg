SPECIFICATION Spec
CONSTANTS
  Operators = {o1}
  Loop = loop
  Commands <- StartAndReply
  MaxThreads = 2
  MaxTurns = 3
  MaxRequests = 1
  MaxFaults = 1
  MaxCrashes = 1
CHECK_DEADLOCK FALSE
INVARIANTS
  AutoReplyAtMostOnce
  TurnContinuedAtMostOnce
  TurnIsOfThread
