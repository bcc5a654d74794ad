\* A parent that is killed while it unwinds.
CONSTANTS
  MaxInterrupts = 0
  MaxKills = 1
SPECIFICATION LiveSpec
PROPERTY SectionIsRun
CHECK_DEADLOCK FALSE
