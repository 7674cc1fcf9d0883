CONSTANTS
  Procs = {1, 2}
  NoPid = NoPid
  Calls = {1, 2}
  Home <- MCHome
  MaxRetries = 1
  MaxBatches = 2
  MaxCrashes = 1
  MaxFailures = 0
SPECIFICATION Spec
PROPERTY RecoversDeadLocks
CHECK_DEADLOCK FALSE
