SPECIFICATION Spec
CONSTANTS
  Proc = {p1, p2}
  Block = {b1, b2, b3}
  Val = {v1, v2}
  MAXOPBLOCKS = 4
  OPBLOCKS = 2
  LOGSIZE = 8
  NLOG = 8
SYMMETRY Symmetry
INVARIANTS
  TypeOK
  SleeperHasWaker
PROPERTY AtomicGroups
