CONSTANTS
  Keys = {1}
  ReadKeys = {1}
  NoRow = NoRow
  Garbage = Garbage
  DefragRatio = 4
  PirType = "Punc"
  SmallestLayerSize = 1
  RowAdded <- MCRowAdded
  AddSizes = {1}
  DeleteSizes = {}
  MaxTime = 2
SPECIFICATION Spec
INVARIANTS NilErrorMeansRow
CHECK_DEADLOCK FALSE
