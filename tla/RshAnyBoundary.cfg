\* One client; the network cuts and joins sends anywhere, programs print any
\* bytes, it may be killed, and calls of the server fail.
CONSTANTS
  c1 = c1
  Nobody = Nobody
  Clients = {c1}
  Kinds = {"pipeline", "reader", "pipes", "inline", "exit", "stop"}
  Texts = {"text", "exit", "eot"}
  MaxReq = 3
  MaxOut = 2
  Backlog = 1
  Split = TRUE
  Mortal = {c1}
  Faults = TRUE
SPECIFICATION FairSpec
INVARIANTS
  AtMostOnce
PROPERTIES
  ServedIsAnswered
CHECK_DEADLOCK FALSE
