CONSTANTS
  c1 = c1
  c2 = c2
  Clients <- MCClients
  None = None
  Kinds = {"enroll", "plain"}
  QueueCap = 1
  MaxFailures = 1
  MaxAir = 2
  Marks = FALSE
  CancelAnswered = TRUE
  Reliable = FALSE
SPECIFICATION FairSpec
PROPERTIES
  RequestsEnd
