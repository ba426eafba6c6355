CONSTANTS
  c1 = c1
  c2 = c2
  x = x
  y = y
  Clients <- One
  None = None
  Names <- MCNames
  Cats = {"otp", "api"}
  Ops = {"import", "get"}
  MaxKeys = 2
  Drops = TRUE
  Foreign = FALSE
  ReadsFail = FALSE
  Aborts = TRUE
SPECIFICATION Spec
SYMMETRY NameSymmetry
INVARIANTS
  KeysWhole
  
