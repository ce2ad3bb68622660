SPECIFICATION FairSpec
CONSTANTS
  Clients = {"bluez", "udisks2", "login1", "upower", "systemd1"}
  Paths = {p1, p2}
  AnyDevice = AnyDevice
  Limit = 1
  MaxEvents = 3
INVARIANT TypeOK
INVARIANT NoGhost
INVARIANT Complete
INVARIANT WithinLimit
INVARIANT Fresh
PROPERTY NeverOlder
PROPERTY Settles
CHECK_DEADLOCK FALSE
