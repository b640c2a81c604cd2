SPECIFICATION FairSpec
CONSTANTS
  q1 = q1
  q2 = q2
  q3 = q3
  Requests = {q1, q2}
  MinSize = 1
  MaxSize = 1
  Failures = TRUE
  Timeouts = TRUE
  LateSQL = TRUE
  OutsidePublic = FALSE
  MaxRestarts = 1
INVARIANTS
  PoolTypeOK
  OnlyOwnObjects
  NothingForgotten
PROPERTIES
  ExclusiveSpec
  RequestsAnswered
CHECK_DEADLOCK FALSE
