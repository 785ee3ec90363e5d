SPECIFICATION FairSpec
CONSTANTS
  RtcCap = 1
  LfsCap = 2
  EmergCap = 1
  DrainMax = 2
  StreakMax = 1
  Commands <- MCNone
  Faults <- MCAll
  MaxFaults = 2
  MaxRecords = 2
INVARIANTS Coherent NoOtherDrop
PROPERTY RingsDrain
CHECK_DEADLOCK FALSE
