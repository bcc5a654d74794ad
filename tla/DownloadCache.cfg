\* Three processes, two rounds, one of them dies.
CONSTANTS
  Proc = {p1, p2, p3}
  FETCH_RETRY_COUNT = 2
  MaxCrashes = 1
SPECIFICATION LiveSpec
INVARIANT SeenIsThere
PROPERTY GetReturns
CHECK_DEADLOCK FALSE
