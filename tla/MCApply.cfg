SPECIFICATION Spec
CONSTANTS
  N = 3
  Nested = {3}
  Op <- AllKinds
  Symlinks = {2}
  MaxCrashes = 2
  MaxFaults = 2
  MaxEdits = 1
INVARIANTS
  WellFormed
  WriteAhead
  AllOrNothing
PROPERTIES
  UserContentSurvives
CHECK_DEADLOCK FALSE
