SPECIFICATION Spec
CONSTANTS
  Workers = {w1, w2}
  NoOne = NoOne
  FinalStart = 5
  Flatten = 8
  Eod = 13
  Horizon = 14
  Overrun = 1
  MaxEntries = 0
  Racing = TRUE
INVARIANTS DistinctWindows NeverUnattended
