SPECIFICATION FairSpec
CONSTANTS
  Paths = {p1}
  Drives = {usb, disk}
  Removable = {usb}
  None = None
  Flaky = {TRUE, FALSE}
  MaxEvents = 5
INVARIANT TypeOK
INVARIANT NoGhostWatcher
INVARIANT WatcherInv
INVARIANT NoneMissed
INVARIANT ReadyReported
PROPERTY ReportedInTheEnd
CHECK_DEADLOCK FALSE
