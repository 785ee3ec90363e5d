SPECIFICATION FairSpec
CONSTANTS
  Values = {v0, v1}
  Default = v0
  None = none
  Faults <- MCNoticed
  MaxFaults = 1
  MaxCount = 16
  MaxCrashes = 9
INVARIANTS TypeOK ResetComesFirst
PROPERTIES ImplementsRegister HealingIsEarned ComesUp
