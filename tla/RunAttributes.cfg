\* Three stages, two values, four calls, one of the stages killed.
CONSTANTS
  Stage = {s1, s2, s3}
  Value = {v1, v2}
  NoValue = NoValue
  Free = Free
  MaxCalls = 4
  MaxKills = 1
SPECIFICATION LiveSpec
INVARIANTS TypeOK AtMostOneValue NeverLost LatestSurvives
PROPERTY WaitersAreServed
CHECK_DEADLOCK FALSE
