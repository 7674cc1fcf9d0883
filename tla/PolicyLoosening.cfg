CONSTANTS
    MaxLayers = 4
    MaxSaid = 4
SPECIFICATION Spec
CHECK_DEADLOCK FALSE
INVARIANT AllowNeedsLeave
