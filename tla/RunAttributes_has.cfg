\* HasParallel while another stage is in GetParallel.
CONSTANTS
  Stage = {s1, s2, s3}
  Value = {v1, v2}
  NoValue = NoValue
  Free = Free
  MaxCalls = 4
  MaxKills = 1
SPECIFICATION Spec
INVARIANT HasParallelIsTruthful
CHECK_DEADLOCK FALSE
