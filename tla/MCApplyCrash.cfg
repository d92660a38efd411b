SPECIFICATION FairSpec
CONSTANTS
  N = 3
  Nested = {2, 3}
  Op <- SharedDirectory
  Symlinks = {}
  MaxCrashes = 3
  MaxFaults = 0
  MaxEdits = 0
PROPERTIES
  CallsSettle
  ImplementsAtomicApply
CHECK_DEADLOCK FALSE
