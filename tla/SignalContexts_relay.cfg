\* A SIGTERM and an alarm that DeferSignals holds back.
CONSTANTS
  Run = {1}
  Retry = 1
  MaxDepth = 2
  MaxSwallows = 0
  MaxTerms = 1
SPECIFICATION LiveSpec
INVARIANT EverySignalIsRelayed
CHECK_DEADLOCK FALSE
