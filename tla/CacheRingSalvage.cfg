SPECIFICATION Spec
CONSTANTS
  Cap = 13
  MaxLen = 2
  Tolerance = 1
  ScanBudget = 6
  FlushEvery = 3
  Lens <- MCLens
  RotTo <- MCRotTo
  Faults <- MCRot
  MaxFaults = 1
  MaxWrites = 3
PROPERTIES PopTakesWhatWasRead
CHECK_DEADLOCK FALSE
