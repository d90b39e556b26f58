SPECIFICATION Spec
CONSTANTS
  c1 = c1
  c2 = c2
  l1 = l1
  l2 = l2
  Candidates <- TwoCandidates
  Legs <- TwoLegs
  MaxQty = 1
  MaxOrders = 3
  MaxCycles = 3
  Faults <- AllFaults
  NewestFirst = TRUE
  Windows <- LastHour
INVARIANTS UniqueClientIds
PROPERTIES NoEntryOverUnknownOrder
