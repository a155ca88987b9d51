SPECIFICATION Spec
CONSTANTS
  CPU = {c1, c2}
  NTHREAD = 2
  NLOCK = 2
  NoCpu = NoCpu
SYMMETRY Symmetry
INVARIANTS
  TypeOK
  MutualExclusion
  HoldingExact
  InterruptsRestored
  
