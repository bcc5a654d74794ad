\* A parent that gets up to three signals it raises for, and a SIGKILL.
CONSTANTS
  MaxInterrupts = 3
  MaxKills = 1
SPECIFICATION LiveSpec
INVARIANT WatchdogWaitsForTheEnd
PROPERTIES KilledBuildIsCleaned ParentExits
CHECK_DEADLOCK FALSE
