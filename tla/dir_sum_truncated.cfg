SPECIFICATION DirSpec
CONSTANTS
  Migs = {1, 2}
  Initial = {1}
  MaxChanges = 3
CHECK_DEADLOCK FALSE

PROPERTY ModifiedStaysReported
