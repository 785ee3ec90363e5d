SPECIFICATION FairSpec
CONSTANTS
  Slots = 3
  SeqSpace = 8
  Budget = 1
  LegacyCounts <- MCUpgrade
  Faults <- MCFaults
  MaxFaults = 2
  MaxAppends = 6
INVARIANTS
  RingShape
  NothingLeftBehind
PROPERTIES
  RetainsRecords
  ImplementsFifo
  FrontHeals
