SPECIFICATION Spec
CONSTANTS
  Slots = 3
  SeqSpace = 8
  Budget = 1
  LegacyCounts <- MCUpgrade
  Faults = {}
  MaxFaults = 0
  MaxAppends = 2
CHECK_DEADLOCK FALSE
INVARIANTS
  NothingFabricated
