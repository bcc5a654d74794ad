\* A build whose process group is interrupted before the watchdog has left it.
CONSTANTS
  MaxInterrupts = 1
  MaxKills = 0
SPECIFICATION Spec
INVARIANT DirectoryIsKept
CHECK_DEADLOCK FALSE
