\* Full updates and updates of one part, commands that linger on the device, and one
\* reboot of the device at any moment.
CONSTANTS
  UpdaterSets = {{"rootfs", "kernel", "stateful"}, {"rootfs", "kernel", "minios"}, {"stateful"}}
  Reboots = {TRUE, FALSE}
  MayLinger = TRUE
  MaxCuts = 1
SPECIFICATION LiveSpec
INVARIANTS RunningSideIsWhole PrioritiesAreWhole SuccessMeansUpdated
PROPERTY RunEnds
CHECK_DEADLOCK FALSE
