SPECIFICATION FairSpec
CONSTANTS
  a1 = a1
  a2 = a2
  a3 = a3
  r1 = r1
  r2 = r2
  Migs = {1, 2}
  Initial = {1, 2}
  Legacy = {1}
  Lasting = {2}
  Appliers = {a1}
  Rollbackers = {r1, r2}
  MaxChanges = 0
  Idempotent = FALSE
  Lossy = TRUE
  Overlap = TRUE
  LiveEdits = FALSE
CHECK_DEADLOCK FALSE
INVARIANTS TypeOK LedgerMatchesSchema
PROPERTIES LedgerSpec CommandsEnd
