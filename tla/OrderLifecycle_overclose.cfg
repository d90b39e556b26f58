SPECIFICATION Spec
CONSTANTS
  c1 = c1
  c2 = c2
  l1 = l1
  l2 = l2
  Candidates <- OneCandidate
  Legs <- OneLeg
  MaxQty = 2
  MaxOrders = 4
  MaxCycles = 3
  Faults <- Midcycle
  NewestFirst = TRUE
  Windows <- BeforeTheLastDay
INVARIANTS CloseChainWithinRequest
