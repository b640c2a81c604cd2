SPECIFICATION Spec
CONSTANTS
  a1 = a1
  a2 = a2
  a3 = a3
  r1 = r1
  r2 = r2
  Migs = {1, 2}
  Initial = {1, 2}
  Legacy = {}
  Lasting = {}
  Appliers = {a1, a2}
  Rollbackers = {r1}
  MaxChanges = 0
  Idempotent = TRUE
  Lossy = FALSE
  Overlap = TRUE
  LiveEdits = FALSE
CHECK_DEADLOCK FALSE
INVARIANT LedgerMatchesSchema
