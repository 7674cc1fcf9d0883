CONSTANTS
    p1 = p1
    p2 = p2
    c1 = c1
    c2 = c2
    Procs <- MCProcs
    Calls <- MCCalls
    Home <- MCHome
    NoOne = NoOne
    Orphan = Orphan
    Threshold = 2
    MaxStarts = 2
    MaxAsks = 1
    MaxFaults = 1
SPECIFICATION Spec
SYMMETRY CallSymmetry
CHECK_DEADLOCK FALSE
INVARIANTS OwnCallsShown OnlyOpenCallsReconciled
PROPERTIES TracesAreKept ReadsCatchUp ReconcileSettles
