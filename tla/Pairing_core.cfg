CONSTANTS
  c1 = c1
  c2 = c2
  Clients <- Two
  Ops = {"pair", "owner", "clear", "clear 1", "clear 2", "reset"}
  Retries = 1
  DiskFails = TRUE
  MaxAsks = 2
  MaxLost = 1
  MaxLate = 0
  MaxEvents = 2
SPECIFICATION Spec
SYMMETRY Symmetry
CHECK_DEADLOCK FALSE
INVARIANTS
  TypeOK
  ProgressMeansAttempt
  EmptyIsTold
  
PROPERTIES
  MineIsOurs
  DroppedForCause
