CONSTANTS
  MaxStray = 2
  ChildSticks = TRUE
  Byte = {0, 1}
  CHUNK = 2
  MaxFile = 8
  MaxNeedle = 3
  TimeoutTicks = 3
  Wrap = 6
  MaxIdleTicks = 7
  Timeouts <- Presets
  DefaultTimeout <- FiveMinutes
  Paths <- VaultPaths
SPECIFICATION PartsSpec
INVARIANTS Verdict CountsEachOnce StateOutlivesMessages
PROPERTIES DumpsTheHeldState EndsAlone IdleIsTrue StopReturns SettingsSurvive
CHECK_DEADLOCK FALSE
