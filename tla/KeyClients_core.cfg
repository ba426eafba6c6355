CONSTANTS
  None = None
  o1 = o1
  o2 = o2
  o3 = o3
  o4 = o4
  o5 = o5
  a1 = a1
  s1 = s1
  s2 = s2
  page = page
  fill = fill
  term = term
  shell = shell
  agent = agent
  agent2 = agent2
  Pages = {page}
  Fills = {fill}
  Terms = {term}
  Shells = {shell}
  Signers = {agent}
  Crews <- Pairs
  Cats = {"otp", "api", "ssh"}
  Kept <- TwoCodes
  New <- OneNew
  File <- TwoFile
  Deletable <- Apart
  Impatient = {page, fill, agent}
  Flaky = {"api", "ssh"}
  MaxKeys = 4
  MaxRequests <- Bounds
  MaxGens = 3
SPECIFICATION Spec
CHECK_DEADLOCK FALSE
INVARIANTS
  TypeOK
  
  SignsOwn
  ShownIsTimed
  CopyIsTakenBack
  ImportsInOrder
PROPERTIES
  ClosedStaysSilent
