\* Three inputs, three workers, of which any may fail or die.
CONSTANTS
  NumInputs = 3
  NumWorkers = 3
SPECIFICATION LiveSpec
PROPERTIES CallerLeaves ImplementsPool
CHECK_DEADLOCK FALSE
