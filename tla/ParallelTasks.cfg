\* Three steps, every argument.  A child may wait for ever for the permit of one
\* that died: the system may stop.
CONSTANTS
  NumSteps = 3
  Limits = {0, 1, 2}
  Halts = {TRUE, FALSE}
SPECIFICATION LiveSpec
INVARIANTS AtMostMaxParallel VerdictsAreRight ResultIsRight NobodyLeftBehind
PROPERTY ParentLeaves
CHECK_DEADLOCK FALSE
