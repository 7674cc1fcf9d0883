CONSTANTS
  Procs = {1, 2, 3}
  NoPid = NoPid
  Calls = {1, 2, 3}
  Home <- MCHome
  MaxRetries = 1
  MaxBatches = 4
  MaxCrashes = 1
  MaxFailures = 1
SPECIFICATION FairSpec
INVARIANTS ExclusionUntilCrash
PROPERTIES NotRefusedByTheDead ImplementsAppend EveryAppendEnds
CHECK_DEADLOCK FALSE
