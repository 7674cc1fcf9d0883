CONSTANTS
  ReplayLimit = 100
  Tasks = {t1, t2}
  NoTask = NoTask
  Procs = {1}
  Calls = {1}
  Home <- MCHome
  CallerStamps = {}
  MaxCalls = 5
  MaxFaults = 1
SPECIFICATION SerialSpec
PROPERTIES ImplementsLifecycle EffectIsSeen
CHECK_DEADLOCK FALSE
