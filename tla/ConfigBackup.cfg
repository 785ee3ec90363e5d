SPECIFICATION LossySpec
CONSTANTS
  Values = {v0, v1}
  Default = v0
  None = none
  Faults <- MCRot
  MaxFaults = 1
  MaxCount = 16
  MaxCrashes = 1
PROPERTY LoadKeepsConfig
