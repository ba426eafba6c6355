CONSTANTS
  c1 = c1
  c2 = c2
  Clients <- MCClients
  None = None
  Requests = {"polkit", "sudo", "agent", "key"}
  UnlockWindow = 1
  AgentWindow = 1
  Suppress = 1
  LockScreen = TRUE
  Unlock = TRUE
  MaxJobs = 2
  Marks = FALSE
SPECIFICATION Spec
SYMMETRY MCSymmetry
INVARIANTS
  TypeOK
  SlotHeldByRequest
  WaitingIsReachable
  LockEndsUnlockWindow
