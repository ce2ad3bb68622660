SPECIFICATION FairSpec
CONSTANTS
  Devs = {d1, d2}
  Names = {n1, n2}
  None = None
  MaxDevices = 2
  MaxUPower = 1
  OpenMayFail = FALSE
  MaxEvents = 2
CHECK_DEADLOCK FALSE
PROPERTY ReaderOnArrival
