CONSTANTS
  N = 6
  Bits = {0, 1, 2, 3, 4, 5, 6}
  FirstRows <- MCFirstRows
  NewRows <- OneNewRow
  Editable = {}
  EditsPastEnd = FALSE
  Appends = TRUE
  EmptyOnFull = FALSE
  MaxBatch = 1
  MaxOps = 3
  SetSizeReq = 0
  StaleReads = FALSE
  InitAfterGrowth = FALSE
SPECIFICATION Spec
INVARIANTS ReadCorrect
CHECK_DEADLOCK FALSE
