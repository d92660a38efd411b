SPECIFICATION Spec
CONSTANTS
  N = 2
  Nested = {2}
  Op <- TwoFiles
  Symlinks = {}
  MaxCrashes = 2
  MaxFaults = 0
  MaxEdits = 0
INVARIANTS
  RollbackCanFinish
CHECK_DEADLOCK FALSE
