\* A build that is resumed.
CONSTANTS
  NumBoards = 2
  Options <- MCOptions
  Forgiving <- MCForgiving
  Bounds <- MCBounds
SPECIFICATION Spec
INVARIANT NothingIsRedone
CHECK_DEADLOCK FALSE
