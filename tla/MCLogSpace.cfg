SPECIFICATION FairSpec
CONSTANTS
  Proc = {p1, p2, p3}
  Block = {b1, b2, b3}
  Val = {v1}
  MAXOPBLOCKS = 2
  OPBLOCKS = 1
  LOGSIZE = 4
  NLOG = 4
INVARIANT LogFits
PROPERTY WaitersProgress
