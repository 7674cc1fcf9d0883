CONSTANTS
    a1 = a1
    a2 = a2
    a3 = a3
    w1 = w1
    w2 = w2
    Agents <- MCAgents
    WUs <- MCWUs
    Clones <- MCClones
    Home <- MCHome
    MaxAttempts = 3
    MaxCommands = 4
    MaxEvents = 4
    MaxRunning = 2
SPECIFICATION Spec
CHECK_DEADLOCK FALSE
INVARIANTS TypeOK ClaimsAlternate FailedLeavesNothing LaneExclusive FilesAgree
PROPERTIES FollowsTable
SYMMETRY Sym
