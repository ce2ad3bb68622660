CONSTANTS
  Programs = {"connman"}
  Technologies = {t1}
  Services = {}
  InitialDelay = 1
  MaxDelay = 2
  MaxEvents = 1
SPECIFICATION FairSpec
PROPERTY GracefulShutdown
CHECK_DEADLOCK FALSE
