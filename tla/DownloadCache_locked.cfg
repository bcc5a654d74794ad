\* Processes that find the file locked and look for it.
CONSTANTS
  Proc = {p1, p2, p3}
  FETCH_RETRY_COUNT = 2
  MaxCrashes = 0
SPECIFICATION Spec
INVARIANT LockedMeansThere
CHECK_DEADLOCK FALSE
