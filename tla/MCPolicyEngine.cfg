CONSTANTS
    MaxLayers = 4
    MaxSaid = 5
SPECIFICATION Spec
CHECK_DEADLOCK FALSE
INVARIANTS  DenyWins AccessAgrees
