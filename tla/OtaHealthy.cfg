SPECIFICATION HealthySpec
CONSTANTS
  Image <- MCImage
  Junk <- MCJunk
  OTA_WAIT_TIME = 3
  MaxQueue = 2
INVARIANT NothingRepeated
PROPERTY HealthySucceeds
CHECK_DEADLOCK FALSE
