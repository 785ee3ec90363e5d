SPECIFICATION Spec
CONSTANTS
  Sensors = {"sht"}
  MaxFails = 2
  Uploads = {"u1", "u2"}
  Chunks = 3
INVARIANT SuccessIsWhole
