CONSTANTS
  c1 = c1
  c2 = c2
  Clients <- MCClients
  None = None
  Kinds = {"sign", "auth", "gateCancel"}
  QueueCap = 2
  MaxFailures = 2
  MaxAir = 2
  Marks = FALSE
  CancelAnswered = TRUE
  Reliable = FALSE
SPECIFICATION Spec
SYMMETRY MCSymmetry
INVARIANTS
  TypeOK
  OneReply
  FailureBudget
  WaitsMatchPhase
