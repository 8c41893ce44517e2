CONSTANTS
  Requests = {r1, r2, r3, r4}
  LockTries = 2
  Faults = TRUE
SPECIFICATION CalmSpec
INVARIANTS ControlTypeOK SingleWriter CalmTogglesWork
CHECK_DEADLOCK FALSE
