SPECIFICATION FairSpec
CONSTANTS
  Sources = {s1}
  Stoppers = {t1}
  ExitCodes = {0}
  WakeOutcomes = {TRUE}
  MaxEvents = 2
  Loop = Loop
  Bus = Bus
CHECK_DEADLOCK FALSE
PROPERTY StopAlwaysReturns
