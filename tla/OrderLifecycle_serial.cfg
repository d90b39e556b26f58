SPECIFICATION Spec
CONSTANTS
  c1 = c1
  c2 = c2
  l1 = l1
  l2 = l2
  Candidates <- OneCandidate
  Legs <- OneLeg
  MaxQty = 2
  MaxOrders = 5
  MaxCycles = 4
  Faults <- Reductions
  NewestFirst = TRUE
  Windows <- LastHour
INVARIANTS TypeOK ExposureIsOwned ChainWithinApproval OneWorkingClose UnexplainedExposureUnclean
