\* Three runs of a build of one board, with two processes killed, and one run of a build
\* of two boards, with one.
CONSTANTS
  NumBoards = 2
  Options <- MCOptions
  Forgiving <- MCForgiving
  Bounds <- MCBounds
SPECIFICATION LiveSpec
INVARIANTS SuccessIsTrue SuccessIsComplete PublishedIsGood
PROPERTY RunEnds
CHECK_DEADLOCK FALSE
