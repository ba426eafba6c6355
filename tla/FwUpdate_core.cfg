CONSTANTS
  u1 = u1
  u2 = u2
  Updaters <- One
  Gate = 2
  Newest = 4
  Chunks = 2
  Files = {3}
  MaxFaults = 3
  RotPending = FALSE
  None = None
SPECIFICATION FairSpec
INVARIANTS
  TypeOK
  ResumesToTarget
PROPERTIES
  ImplementsPromise
  
