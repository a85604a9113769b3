\* One client; a request arrives in several pieces.
CONSTANTS
  c1 = c1
  Nobody = Nobody
  Clients = {c1}
  Kinds = {"pipeline", "stop"}
  Texts = {"text"}
  MaxReq = 2
  MaxOut = 1
  Backlog = 1
  Split = TRUE
  Mortal = {}
  Faults = FALSE
SPECIFICATION Spec
INVARIANT AnswersMatch
CHECK_DEADLOCK FALSE
