SPECIFICATION TimelySpec
CONSTANTS
  Image <- MCImage
  Junk <- MCJunk
  OTA_WAIT_TIME = 3
  MaxQueue = 2
INVARIANTS AckBeforeAdvance FailureIsHonest
PROPERTY StopAndWaitSpec
CHECK_DEADLOCK FALSE
