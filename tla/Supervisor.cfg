SPECIFICATION FairSpec
CONSTANTS
  Sensors = {"sht", "bh1750"}
  MaxFails = 2
  Uploads = {"u1", "u2"}
  Chunks = 3
INVARIANTS Coherent PausedForAReason
PROPERTY StalledUploadEnds
