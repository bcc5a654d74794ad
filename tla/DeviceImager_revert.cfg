\* A full update of a device that never reboots by itself and leaves no command behind.
CONSTANTS
  UpdaterSets = {{"rootfs", "kernel", "stateful", "minios"}}
  Reboots = {TRUE}
  MayLinger = FALSE
  MaxCuts = 0
SPECIFICATION Spec
PROPERTY RevertReverts
CHECK_DEADLOCK FALSE
