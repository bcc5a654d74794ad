\* Entries are removed, and their lock files with them.
CONSTANTS
  Proc = {p1, p2, p3}
  Ops = {"SetDefault", "Remove"}
  MaxRemoves = 2
  MaxCrashes = 0
SPECIFICATION Spec
INVARIANT ReadLockKeepsEntry
CHECK_DEADLOCK FALSE
