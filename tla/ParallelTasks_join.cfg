\* Three steps that may have to wait for a permit.
CONSTANTS
  NumSteps = 3
  Limits = {0, 1, 2}
  Halts = {TRUE, FALSE}
SPECIFICATION Spec
INVARIANT BlocksUntilCompleted
CHECK_DEADLOCK FALSE
