SPECIFICATION Spec
CONSTANTS
  q1 = q1
  q2 = q2
  q3 = q3
  Requests = {q1, q2}
  MinSize = 1
  MaxSize = 1
  Failures = FALSE
  Timeouts = FALSE
  LateSQL = FALSE
  OutsidePublic = TRUE
  MaxRestarts = 0
INVARIANT OnlyOwnObjects
CHECK_DEADLOCK FALSE
