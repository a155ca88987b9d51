SPECIFICATION FairSpec
CONSTANTS
  Proc = {p1, p2, p3, p4}
  NoProc = NoProc
INVARIANTS
  TypeOK
  HolderIsUnique
  NoLostWakeup
PROPERTY SleeperRetries
