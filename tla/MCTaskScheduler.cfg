CONSTANTS
  TaskIds = {1, 2}
  Lanes = {"a", "b"}
  NoLane = "none"
  Priorities = {0, 1}
  Limit <- MCLimit
  MaxEnqueued = 4
SPECIFICATION FairSpec
INVARIANTS CountsMatch OverrunBounded FirstInFirstOut
PROPERTIES EveryTaskIsHandedOut
CHECK_DEADLOCK FALSE
