SPECIFICATION SettingsSpec
CONSTANTS
  Headers = {"timing", "uplink", "calibration"}
  Strings = {"upload", "ota", "token"}
  MaxRefusals = 1
INVARIANT AnswersAreTrue
