CONSTANTS
  g = g
  t = t
  k = k
  Clients <- Desktop
  Kind <- MCKind
  Slots = {0}
  Kept = {1}
  Ops = {"enroll", "delete"}
  HangUps = TRUE
  Drops = TRUE
  MaxAir = 2
  MaxJobs = 2
  None = None
SPECIFICATION FairSpec
INVARIANTS
  TypeOK
  CompleteIsOwn
  CancelReleases
PROPERTIES
  CancelledLeaves
