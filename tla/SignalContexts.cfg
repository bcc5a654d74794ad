\* Up to three contexts inside each other, timeouts of one and two ticks, one SIGTERM
\* and one suppressed exception.
CONSTANTS
  Run = {1, 2}
  Retry = 1
  MaxDepth = 3
  MaxSwallows = 1
  MaxTerms = 1
SPECIFICATION LiveSpec
INVARIANTS HandlersAreTheInnermosts EarliestDeadlineIsSet AlarmsAreDue
PROPERTY TimeoutsEnd
CHECK_DEADLOCK FALSE
