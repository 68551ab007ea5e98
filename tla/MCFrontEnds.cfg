SPECIFICATION Spec
CONSTANTS
  Browsers = {b1}
  StreamCap = 1
  MaxChanges = 2
  MaxStreams = 2
  MaxRefreshes = 1
  RequireMention = TRUE
  Messages = {m1, m2, r1}
  ResetMessages = {r1}
  Goroutines = {g1, g2}
  TTL = 1
  MaxTime = 2
  MaxMessages = 4
  Visitors = {v1, v2}
  Accounts = {ann, bob}
  AllowUsers = {ann}
  StateTTL = 1
  MaxNano = 2
  MaxLogins = 3
INVARIANTS
  TypeOK
  StreamSafety
  DoorSafety
PROPERTIES
  StreamLiveness
  MessagesSafety
  LoginSafety
\* Users may do nothing more once every bound is reached.
CHECK_DEADLOCK FALSE
