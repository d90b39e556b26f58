SPECIFICATION Spec
CONSTANTS
  Instants <- Afternoon
  Trends <- Swings
  Delays = {0, 1}
  MaxCycles = 5
  MaxEntries = 2
  MaxFaults = 1
INVARIANT TypeOK
PROPERTIES SeenTwice ReentryFreshlyConfirmed ReversalIsEarned SetupRotates
