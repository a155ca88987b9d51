SPECIFICATION FairSpec
CONSTANTS
  NPROC = 3
  NCPU = 3
  MAXFORK = 2
  Victims = {2}
INVARIANTS
  TypeOK
  OneThreadPerStack
  NoOrphan
  NoMissedExit
PROPERTIES
  OnlyParentChanges
  
CHECK_DEADLOCK FALSE
