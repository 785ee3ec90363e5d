SPECIFICATION Spec
CONSTANTS
  RtcCap = 1
  LfsCap = 3
  EmergCap = 1
  DrainMax = 2
  StreakMax = 2
  Commands <- MCNone
  Faults <- MCNone
  MaxFaults = 0
  MaxRecords = 3
INVARIANT NoDrop
CHECK_DEADLOCK FALSE
