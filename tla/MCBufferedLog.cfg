SPECIFICATION Spec
CONSTANTS
  b1 = b1
  b2 = b2
  b3 = b3
  l1 = l1
  l2 = l2
  h = h
  Proc = {p1, p2}
  Val = {v1, v2}
  FsBlock = {b1, b2, b3}
  Blocks = {b1, b2, b3, l1, l2, h}
  LogBlock <- MCLogBlock
  Header = h
  BootLog <- MCCleanLog
  NBUF = 3
  REFMOD = 8
  NoBlock = NoBlock
  NoProc = NoProc
SYMMETRY Symmetry
VIEW View
INVARIANTS
  TypeOK
  OneCopy
  PinnedStaysCached
  RefcntExact
  NoLostUpdate
PROPERTY PanicOnlyWhenFull
