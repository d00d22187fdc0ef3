CONSTANTS
  N = 4
  Bits = {0, 1, 2, 3, 4}
  FirstRows <- MCFirstRows
  NewRows <- OneNewRow
  Editable = {}
  EditsPastEnd = FALSE
  Appends = TRUE
  EmptyOnFull = TRUE
  MaxBatch = 1
  MaxOps = 3
  SetSizeReq = 0
  StaleReads = FALSE
  InitAfterGrowth = FALSE
SPECIFICATION Spec
INVARIANTS ReadCorrect
CHECK_DEADLOCK FALSE
