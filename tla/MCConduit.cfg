CONSTANTS
  Requests = {q1, q2}
  Ids = {i1, i2, i3}
  ApiMax = 2
  HelperMax = 2
  MaxPersonal = 1
  MaxFaults = 1
SPECIFICATION LiveSpec
INVARIANTS ControlTypeOK ServiceFollowsDisk
PROPERTIES NothingIsLost AnswersAreTrue EveryRequestAnswered
CHECK_DEADLOCK FALSE
