CONSTANTS
  Keys = {1, 2}
  ReadKeys = {1}
  NoRow = NoRow
  Garbage = Garbage
  DefragRatio = 4
  PirType = "Punc"
  SmallestLayerSize = 1
  RowAdded <- MCRowAdded
  AddSizes = {1, 2}
  DeleteSizes = {}
  MaxTime = 3
SPECIFICATION Spec
INVARIANTS UpdateSuffices
CHECK_DEADLOCK FALSE
