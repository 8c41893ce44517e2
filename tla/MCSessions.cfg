CONSTANTS
  Requests = {q1, q2, q3}
  Tokens = {t1, t2}
  Passwords = {p1, p2}
  Initial = p1
  MaxAttempts = 2
  LockFor = 1
  Timeout = 1
  MaxTime = 4
  MaxRestarts = 1
SPECIFICATION LiveSpec
INVARIANTS SessionsTypeOK SessionsOfThisPassword LockoutIsExact
PROPERTIES EndedStaysEnded ExpiredRowsArePurged
CHECK_DEADLOCK FALSE
