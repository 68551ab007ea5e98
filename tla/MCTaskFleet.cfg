SPECIFICATION Spec
CONSTANTS
  InitialFiles <- MCInitialFiles
  Documents <- MCDocuments
  MaxEdits = 2
  Deployments <- MCDeployments
  MaxTime = 1
  MaxTasks = 2
  MaxRestarts = 1
INVARIANTS
  TypeOK
  RegistrySafety
  FleetSafety
PROPERTIES
  TasksAreServed
\* Nothing is left to do when no task is active and every bound is reached.
CHECK_DEADLOCK FALSE
