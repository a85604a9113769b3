SPECIFICATION FairSpec
CONSTANTS
  Clients = {c1, c2}
  Nobody = nobody
  Lines <- MCLines
  MaxReq = 3
  Mortal = {c1}
  Burst = FALSE
  Faults = TRUE
INVARIANTS
  TypeOK
  ServedByOne
  InStep
  OwnLine
PROPERTIES
  ClosedForAReason
  EveryoneServed
  Answers
CHECK_DEADLOCK FALSE
