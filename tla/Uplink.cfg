SPECIFICATION FairSpec
CONSTANTS
  Threshold = 1
  Reset = 2
  Samples = 2
  Uplinks = {"AUTO","RELAY"}
  Answers <- MCSilentOrLocal
  Happens = {"qos","sendnow","config","mode","pause","lost","noclock","direct"}
  MaxEdits = 1
INVARIANTS Coherent
PROPERTIES RelayHasReason CloudIsTried DirectIsTried
