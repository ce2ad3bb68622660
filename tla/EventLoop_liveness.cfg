SPECIFICATION FairSpec
CONSTANTS
  Sources = {s1}
  Stoppers = {t1}
  ExitCodes = {3}
  WakeOutcomes = {TRUE}
  MaxEvents = 2
  Loop = Loop
  Bus = Bus
CHECK_DEADLOCK FALSE
PROPERTY StopReturns
PROPERTY RetiredReclaimed
PROPERTY ReadyDispatched
PROPERTY MessagesProcessed
