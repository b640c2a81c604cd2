SPECIFICATION Spec
CONSTANTS
  q1 = q1
  q2 = q2
  q3 = q3
  c1 = c1
  c2 = c2
  k1 = k1
  k2 = k2
  k3 = k3
  Requests = {q1, q2, q3}
  Clients = {c1}
  Keys = {k1, k2, k3}
  Limit = 2
  Window = 1
  TTL = 1
  MaxSize = 2
  MaxTime = 3
INVARIANTS
  ServerTypeOK
  HitsAreMarked
  WorkIsLimited
  RefusedOnlyWhenUsed
PROPERTIES
  HitsAreFresh
  OldestGoes
CHECK_DEADLOCK FALSE
SYMMETRY Symmetry
