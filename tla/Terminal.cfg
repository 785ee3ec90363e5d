SPECIFICATION FairSpec
CONSTANTS
  Headers = {"uplink"}
  Strings = {"upload", "portal"}
  MaxRefusals = 1
  Ids <- MCIds
  Slots <- MCSlots
  QueueSize = 2
  MaxFails = 1
  FailWrap = 2
  MaxCommands = 2
INVARIANTS Coherent StringsInForce
PROPERTIES OnlyLoggedInAreObeyed CommandsInOrder NewestRuns
CHECK_DEADLOCK FALSE
