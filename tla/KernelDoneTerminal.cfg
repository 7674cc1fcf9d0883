CONSTANTS
  ReplayLimit = 100
  Tasks = {t1}
  NoTask = NoTask
  Procs = {1}
  Calls = {1}
  Home <- MCHome
  CallerStamps = {}
  MaxCalls = 5
  MaxFaults = 0
SPECIFICATION LateApprovalSpec
PROPERTY DoneIsTerminal
CHECK_DEADLOCK FALSE
