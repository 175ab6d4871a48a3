SPECIFICATION ObsSpec
CONSTANTS
  MaxStarts = 1
  MaxAttempt = 1
PROPERTIES
  WaitsOnTheSameStream
CHECK_DEADLOCK FALSE
