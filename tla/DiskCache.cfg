\* Two references, one Remove, one death.
CONSTANTS
  Proc = {p1, p2}
  Ops = {"Exists", "SetDefault", "Assign", "Remove", "DeleteStale"}
  MaxRemoves = 1
  MaxCrashes = 1
SPECIFICATION LiveSpec
INVARIANTS ReadLockKeepsEntryAtFirst EntriesAreWhole
PROPERTY OperationsReturn
CHECK_DEADLOCK FALSE
