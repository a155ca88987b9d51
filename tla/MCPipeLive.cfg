SPECIFICATION FairSpec
CONSTANTS
  Proc = {p1, p2}
  Victims = {p1, p2}
  Byte = {x}
  PIPESIZE = 2
  WRAP = 4
  MAXREQ = 3
  NoProc = NoProc
PROPERTY HangupSeen
CHECK_DEADLOCK FALSE
