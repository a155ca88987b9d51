SPECIFICATION Spec
CONSTANTS
  NPROC = 4
  NCPU = 2
  MAXFORK = 3
  Victims = {}
INVARIANTS
  NoLockCycle
CHECK_DEADLOCK FALSE
