SPECIFICATION VSpec
CONSTANTS
  Clients = {c1, c2}
  Kinds = {"pass", "drop"}
  MaxRequests = 2
  StopAfter = 0
  Capacity = 1
CHECK_DEADLOCK FALSE
INVARIANTS
  NoLostWakeup
  AnswersInOrder
PROPERTIES
  RequestsAnswered
  ClientsAccepted
