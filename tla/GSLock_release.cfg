\* A Release whose precondition fails.
CONSTANTS
  Locker = {l1, l2}
  NoFile = NoFile
  Gone = Gone
  MaxCrashes = 0
SPECIFICATION Spec
PROPERTY ReleaseReleases
