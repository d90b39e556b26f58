SPECIFICATION ServicesSpec
CONSTANTS
  MaxCycles = 4
  MaxCommands = 4
  OpenedStructures <- BothKinds
  Intervals = {1, 5}
  MaxLostOrders = 1
  Commands = {c1, c2}
  Shares = 2
  Polls = 1
  MaxBrokenCommands = 2
  MaxTripFaults = 1
  ScoringStart = 2
  EodSnapshot = 7
  ReportInterval = 2
  LastReport = 7
  MaxSnapshots = 2
  Requests = {r1, r2, r3}
  Endpoints <- BothEndpoints
  ReadTimeout = 2
INVARIANTS TypeOK ServicesTypeOK EntryConcessionsBounded SaleHasItsIntent SecondSaleAfterFirst RunTellsExposure SnapshotsNeverGoBack
PROPERTIES LatchBlocksEntries EntryAfterFailureNeedsCleanCycle ImplementsSwitch EntrySettles HardExitConcedesAll CommandsEnd BrokerSpared RequestAnswered
