SPECIFICATION Spec
CONSTANTS
  Sources = {s1, s2}
  Stoppers = {t1}
  ExitCodes = {3}
  WakeOutcomes = {TRUE, FALSE}
  MaxEvents = 2
  Loop = Loop
  Bus = Bus
SYMMETRY AddressSymmetry
INVARIANT TypeOK
INVARIANT NoUseAfterFree
INVARIANT MemoryInv
INVARIANT PolledAreWanted
INVARIANT NoLostWakeup
INVARIANT ReturnsStopCode
CHECK_DEADLOCK FALSE
PROPERTY ImplementsReclamation
