CONSTANTS
  Requests = {q1, q2}
  Ids = {i1}
  ApiMax = 2
  HelperMax = 2
  MaxPersonal = 1
  MaxFaults = 0
SPECIFICATION Spec
PROPERTY RollbackToPrevious
CHECK_DEADLOCK FALSE
