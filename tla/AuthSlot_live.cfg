CONSTANTS
  c1 = c1
  c2 = c2
  Clients <- MCClients
  None = None
  Requests = {"sudo", "key"}
  UnlockWindow = 1
  AgentWindow = 1
  Suppress = 1
  LockScreen = FALSE
  Unlock = TRUE
  MaxJobs = 2
  Marks = FALSE
SPECIFICATION FairSpec
PROPERTIES
  RequestsLeave
