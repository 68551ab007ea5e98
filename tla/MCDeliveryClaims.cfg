SPECIFICATION FairSpec
CONSTANTS
  Workers = {w1, w2, w3}
  Records <- ThreeDeliveries
  NoRecord = NoRecord
  Faults = {"claim_lost", "complete_fails", "complete_lost", "release_fails"}
  MaxRequests = 3
  MaxFaults = 1
  MaxRestarts = 1
CHECK_DEADLOCK FALSE
INVARIANTS
  ClaimExclusive
  AppliedOnce
  ClaimsAreOwned
  OnlyRestartLoses
PROPERTIES
  KeepsPromise
  RequestAnswered
