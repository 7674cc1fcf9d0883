CONSTANTS
  ReplayLimit = 100
  Tasks = {t1}
  NoTask = NoTask
  Procs = {1}
  Calls = {c1, c2}
  Home <- MCHome
  CallerStamps = {1}
  MaxCalls = 5
  MaxFaults = 2
SPECIFICATION Spec
INVARIANTS TypeOK CreatedOnce CreatedHasSpec OnlyAbandonedOrphans EventsHaveSpec ResumedOnce WaitIsAnswerable
PROPERTIES DoneSettles
SYMMETRY Interchangeable
CHECK_DEADLOCK FALSE
