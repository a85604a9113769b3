SPECIFICATION Spec
CONSTANTS
  Clients = {c1, c2}
  Nobody = nobody
  Lines <- MCLines
  MaxReq = 1
  Mortal = {}
  Burst = TRUE
  Faults = FALSE
INVARIANT ServedByOne
CHECK_DEADLOCK FALSE
