SPECIFICATION Spec
CONSTANTS
  RtcCap = 2
  LfsCap = 2
  EmergCap = 1
  DrainMax = 2
  StreakMax = 2
  Commands <- MCAllCommands
  Faults <- MCAll
  MaxFaults = 1
  MaxRecords = 3
INVARIANTS NoOtherDrop PopIsOwed OldestInFlash
