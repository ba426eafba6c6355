CONSTANTS
  c1 = c1
  c2 = c2
  x = x
  y = y
  Clients <- Two
  None = None
  Names <- MCNames
  Cats = {"otp", "api"}
  Ops = {"delete"}
  MaxKeys = 2
  Drops = TRUE
  Foreign = TRUE
  ReadsFail = FALSE
  Aborts = FALSE
SPECIFICATION Spec
SYMMETRY Symmetry
INVARIANTS
  TypeOK
  CacheCurrent
  HitIsCurrent
