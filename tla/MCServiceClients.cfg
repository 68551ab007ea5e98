SPECIFICATION Spec
CONSTANTS
  Callers = {c1, c2}
  NoteCap = 1
  MaxExtra = 1
  Users = {u1, u2, u3}
  MaxLookups = 4
INVARIANTS
  TypeOK
  RpcSafety
  TokenSafety
PROPERTIES
  RpcLiveness
  LookupEnds
\* Calls are bounded: the system stops when the last one has returned.
CHECK_DEADLOCK FALSE
