SPECIFICATION FairSpec
CONSTANTS
  Image <- MCShortImage
  Junk <- MCZeros
  OTA_WAIT_TIME = 2
  MaxQueue = 1
INVARIANTS TypeOK SuccessIsEarned
PROPERTIES DeliveryInOrder SeenByScreen WorkShrinks Terminates
CHECK_DEADLOCK FALSE
