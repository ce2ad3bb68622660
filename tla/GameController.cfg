SPECIFICATION FairSpec
CONSTANTS
  Devs = {d1, d2}
  Names = {n1, n2}
  None = None
  MaxDevices = 2
  MaxUPower = 1
  OpenMayFail = TRUE
  MaxEvents = 2
INVARIANT TypeOK
INVARIANT ReaderInv
INVARIANT NoStaleReader
INVARIANT MirrorDrained
INVARIANT WithinLimits
PROPERTY StaleReaderDropped
CHECK_DEADLOCK FALSE
