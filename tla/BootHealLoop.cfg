SPECIFICATION FairSpec
CONSTANTS
  Values = {v0}
  Default = v0
  None = none
  Faults <- MCNone
  MaxFaults = 0
  MaxCount = 16
  MaxCrashes = 9
PROPERTY ReachesSafeMode
