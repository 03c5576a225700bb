SPECIFICATION ToolsSpec
CONSTANTS
  MaxFaults = 2
  Variants = {"normal", "decoder_failure"}
  Kinds = {"live", "action", "finite"}
  LIMIT = 4
  READY = 2
  Tolerance = 1
  MaxTime = 6
  STARTUP = 2
  CAPTURE = 1
  RESULT = 1
  Capacity = 1
  MaxCaptures = 2
  MAX_PREPARATION_ANR_RECOVERIES = 2
  MAX_OBSERVATION_TIMEOUTS = 2
  MaxPosition = 4
  MAX_SYSTEM_ANR_RECOVERIES = 2
CHECK_DEADLOCK FALSE
INVARIANTS PassIsEarned DeviceIsRestored TapsAreBounded ExpiredCaptureEndsRun
PROPERTY EveryRunEnds
