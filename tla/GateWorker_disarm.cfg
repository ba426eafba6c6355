CONSTANTS
  c1 = c1
  c2 = c2
  Clients <- MCClients
  None = None
  Kinds = {"enroll", "auth", "gateCancel", "enrollCancel"}
  QueueCap = 2
  MaxFailures = 2
  MaxAir = 2
  Marks = TRUE
  CancelAnswered = TRUE
  Reliable = TRUE
SPECIFICATION Spec
SYMMETRY MCSymmetry
INVARIANTS
  IdleDisarmed
