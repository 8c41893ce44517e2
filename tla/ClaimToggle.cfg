CONSTANTS
  Requests = {r1, r2, r3}
  LockTries = 2
  Faults = FALSE
SPECIFICATION CalmSpec
INVARIANTS RecordingFollowsSetting
CHECK_DEADLOCK FALSE
