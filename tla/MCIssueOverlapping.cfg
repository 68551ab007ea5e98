SPECIFICATION SyncSpec
CONSTANTS
  Workers = {w1, w2}
  Records <- Overlapping
  NoRecord = NoRecord
  Faults = {"complete_fails"}
  MaxRequests = 4
  MaxFaults = 1
  MaxRestarts = 1
  PRs = {"p1", "p2"}
  MaxLate = 1
CHECK_DEADLOCK FALSE
SYMMETRY SameWorkers
INVARIANTS
  LastCoversPRs
  SecondRowIsLate
  AckedIssueHasRow
PROPERTIES
  OnlyOvertakenTakes
