SPECIFICATION Spec
CONSTANTS
  Workers = {w1, w2}
  NoOne = NoOne
  FinalStart = 10
  Flatten = 12
  Eod = 13
  Horizon = 15
  Overrun = 0
  MaxEntries = 2
  Racing = FALSE
INVARIANT TypeOK
INVARIANT OneCycleAtATime
INVARIANT OneEntry
PROPERTY ImplementsSerialCycles
