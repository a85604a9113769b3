\* One client is killed while its command runs.
CONSTANTS
  c1 = c1
  Nobody = Nobody
  Clients = {c1}
  Kinds = {"pipeline", "stop"}
  Texts = {"text"}
  MaxReq = 2
  MaxOut = 1
  Backlog = 1
  Split = FALSE
  Mortal = {c1}
  Faults = FALSE
SPECIFICATION Spec
INVARIANT StopsOnRequest
CHECK_DEADLOCK FALSE
