SPECIFICATION Spec
CONSTANTS
  c1 = c1
  c2 = c2
  l1 = l1
  l2 = l2
  Candidates <- OneCandidate
  Legs <- OneLeg
  MaxQty = 1
  MaxOrders = 2
  MaxCycles = 3
  Faults <- Crashes
  NewestFirst = TRUE
  Windows <- BeforeTheLastDay
INVARIANTS UnexplainedExposureUnclean
