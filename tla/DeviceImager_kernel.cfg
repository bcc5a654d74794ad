\* An update of both images; nothing goes wrong.
CONSTANTS
  UpdaterSets = {{"rootfs", "kernel"}}
  Reboots = {FALSE}
  MayLinger = FALSE
  MaxCuts = 0
SPECIFICATION Spec
INVARIANT KernelIsWritten
CHECK_DEADLOCK FALSE
