SPECIFICATION Spec
CONSTANTS
  BuiltIns <- MCNone
  Saved = {"a", "h"}
  Hidden = {"h"}
  None = "none"
  Strengths = {0, 2, 3}
  MaxSaved = 2
  Channels = 2
  MaxFaults = 1
  MaxEdits = 1

PROPERTY SuccessWasTested
