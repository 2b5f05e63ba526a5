SPECIFICATION FairSpec
CONSTANTS
  d1 = d1
  d2 = d2
  NoDevice = NoDevice
  Devices <- MCDevices
  MaxPickers = 2
INVARIANTS TypeOK PickedIsShown ListAsFound ScanUndisturbed DialogIsScan
PROPERTY DialogGoes
CHECK_DEADLOCK FALSE
