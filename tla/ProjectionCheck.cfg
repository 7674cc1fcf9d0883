CONSTANTS
  ReplayLimit = 2
  Task = t1
  RunIds = {1, 2}
  Stamps = {1, 2, 3}
  MaxEvents = 3
  PageSizes = {1, 2}
SPECIFICATION Spec
INVARIANTS ProjectionAgrees PagingRetrievesAll
CHECK_DEADLOCK FALSE
