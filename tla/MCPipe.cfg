SPECIFICATION Spec
CONSTANTS
  Proc = {p1, p2, p3}
  Victims = {p1, p2, p3}
  Byte = {x, y}
  PIPESIZE = 2
  WRAP = 4
  MAXREQ = 3
  NoProc = NoProc
SYMMETRY Symmetry
VIEW View
INVARIANTS
  TypeOK
  ReaderSleepsOnEmpty
  WriterSleepsOnFull
PROPERTY IsFifo
CHECK_DEADLOCK FALSE
