SPECIFICATION PartsSpec
CONSTANTS
  MaxSessions = 3
  Channels = {0, 1}
  Devices = {d1, d2}
  TextCap = 31
  NameSize = 8
  MaxCalls = 3
  Offers <- MCOffers
  Requests <- MCRequests
  Paths <- MCPaths
  Mnt <- MCMnt
  Parent <- MCParent
  Images <- MCImages
  NoPath = NoPath
  MaxChanges = 2
INVARIANTS
  SessionsKept
  FoundIsOffered
  AddedAsLookedUp
  WellDefined
  QuirkDone
  StaysInside
  ChosenIsImage
CHECK_DEADLOCK FALSE
SYMMETRY DeviceSymmetry
