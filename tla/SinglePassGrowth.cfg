CONSTANTS
  N = 4
  Bits = {0, 1, 2, 3, 4}
  FirstRows <- MCFirstRows
  NewRows <- OneNewRow
  Editable = {1, 6}
  EditsPastEnd = FALSE
  Appends = TRUE
  EmptyOnFull = FALSE
  MaxBatch = 2
  MaxOps = 5
  SetSizeReq = 0
  StaleReads = FALSE
  InitAfterGrowth = FALSE
SPECIFICATION Spec
INVARIANTS TypeOK PermsInverse HintParity ReadCorrect OffsetAgrees EveryRowCovered NeverPanics VersionsAgree
PROPERTY ImplementsStore
CHECK_DEADLOCK FALSE
