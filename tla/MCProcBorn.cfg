SPECIFICATION Spec
CONSTANTS
  NPROC = 3
  NCPU = 2
  MAXFORK = 1
  Victims = {3}
PROPERTIES
  BornAlive
CHECK_DEADLOCK FALSE
