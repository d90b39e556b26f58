SPECIFICATION Spec
CONSTANTS
  Instants <- TwoDays
  Equities = {88000, 98000, 112000}
  Candidates <- Selectable
  MaxCycles = 3
  MaxEntries = 2
  ProfitTarget = 104000
PROPERTIES LatchNeedsSessionMark
