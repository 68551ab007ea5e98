SPECIFICATION Spec
CONSTANTS
  Operators = {o1, o2}
  Loop = loop
  Commands <- AllCommands
  MaxThreads = 1
  MaxTurns = 1
  MaxRequests = 1
  MaxFaults = 0
  MaxCrashes = 0
SYMMETRY OperatorSymmetry
CHECK_DEADLOCK FALSE
INVARIANTS
  TypeOK
  PendingIsRecorded
  WaitingHasQuestion
PROPERTIES
  DeletedStaysDeleted
