SPECIFICATION FairSpec
CONSTANTS
  Sensors = {"sht", "bh1750"}
  MaxFails = 2
  Uploads <- MCNone
  Chunks = 3
PROPERTY StaysFresh
