\* Two clients, whole sends, ordinary output; either client may be killed.
\* The system may stop: every user has left, or a program waits for its input.
CONSTANTS
  c1 = c1
  c2 = c2
  Nobody = Nobody
  Clients = {c1, c2}
  Kinds = {"pipeline", "reader", "pipes", "inline", "exit", "stop"}
  Texts = {"text"}
  MaxReq = 3
  MaxOut = 2
  Backlog = 2
  Split = FALSE
  Mortal = {c1, c2}
  Faults = FALSE
SPECIFICATION FairSpec
INVARIANTS
  TypeOK
  InStep
  AnswersMatch
  NoForgottenSocket
PROPERTIES
  DiesForAReason
  ServiceSpec
  ServedIsAnswered
  EveryoneAccepted
  StopTakesEffect
CHECK_DEADLOCK FALSE
