\* Two lockers, one of which may die and start again as another.
CONSTANTS
  Locker = {l1, l2}
  NoFile = NoFile
  Gone = Gone
  MaxCrashes = 1
SPECIFICATION LiveSpec
INVARIANTS MutualExclusion HolderHasTheFile
PROPERTY Recovered
