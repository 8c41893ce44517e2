SPECIFICATION LiveSpec
CONSTANTS
  Updates = {u1}
  Restores = {r1, r2}
  Late = FALSE
  MaxRequests = 2
  MaxFaults = 1
INVARIANT LifecycleTypeOK
INVARIANT NoOverlap
INVARIANT TreesAreKept
INVARIANT AnswersHold
PROPERTY HostBecomesAvailable
CHECK_DEADLOCK FALSE
