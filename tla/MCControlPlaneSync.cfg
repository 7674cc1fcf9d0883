CONSTANTS
    MaxPasses = 2
    MaxSize = 5
    MaxTroubles = 2
SPECIFICATION FairSpec
CHECK_DEADLOCK FALSE
INVARIANTS TypeOK ToldOnceAndInOrder ForwardedOnce ForwardedInOrder
PROPERTIES EveryEventIsTold EveryEventIsForwarded
