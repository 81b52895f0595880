SPECIFICATION VSpec
CONSTANTS
  Clients = {c1}
  Kinds = {"ask", "drop", "halt"}
  MaxRequests = 1
  StopAfter = 1
  Capacity = 1
CHECK_DEADLOCK FALSE
PROPERTIES
  StopFinishes
