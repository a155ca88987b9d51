SPECIFICATION FairSpec
CONSTANTS
  NPROC = 3
  NCPU = 3
  MAXFORK = 1
  Victims = {}
PROPERTIES
  InitWaitReturns
CHECK_DEADLOCK FALSE
