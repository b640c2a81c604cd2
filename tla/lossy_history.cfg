SPECIFICATION Spec
CONSTANTS
  a1 = a1
  a2 = a2
  a3 = a3
  r1 = r1
  r2 = r2
  Migs = {1, 2}
  Initial = {1, 2}
  Legacy = {}
  Lasting = {}
  Appliers = {a1, a2}
  Rollbackers = {}
  MaxChanges = 1
  Idempotent = FALSE
  Lossy = TRUE
  Overlap = FALSE
  LiveEdits = FALSE
CHECK_DEADLOCK FALSE
INVARIANT HistoryUnmodified
