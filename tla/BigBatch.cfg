CONSTANTS
  N = 4
  Bits = {0, 1, 2, 3, 4}
  FirstRows <- MCFirstRows
  NewRows <- OneNewRow
  Editable = {}
  EditsPastEnd = FALSE
  Appends = TRUE
  EmptyOnFull = FALSE
  MaxBatch = 5
  MaxOps = 5
  SetSizeReq = 0
  StaleReads = FALSE
  InitAfterGrowth = FALSE
SPECIFICATION Spec
INVARIANTS RowsInUseExist
CHECK_DEADLOCK FALSE
