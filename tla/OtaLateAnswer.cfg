SPECIFICATION Spec
CONSTANTS
  Image <- MCShortImage
  Junk <- MCZeros
  OTA_WAIT_TIME = 2
  MaxQueue = 1
INVARIANT AckBeforeAdvance
CHECK_DEADLOCK FALSE
