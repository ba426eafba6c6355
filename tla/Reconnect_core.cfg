CONSTANTS
  Paired = TRUE
  MaxFaults = 4
  MaxSignals = 4
SPECIFICATION FairSpec
INVARIANTS
  TypeOK
  QuietSleep
PROPERTIES
  Reconnects
