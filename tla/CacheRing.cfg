SPECIFICATION FairSpec
CONSTANTS
  Cap = 16
  MaxLen = 2
  Tolerance = 1
  ScanBudget = 4
  FlushEvery = 2
  Lens <- MCLens
  RotTo <- MCRotTo
  Faults <- MCAll
  MaxFaults = 1
  MaxWrites = 3
INVARIANTS RingShape
PROPERTIES ImplementsFifo WholePopTakesWhatWasRead ReadsInsideRing FrontHeals DamageIsContained
