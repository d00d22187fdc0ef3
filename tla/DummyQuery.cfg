CONSTANTS
  Keys = {1, 2}
  ReadKeys = {1}
  NoRow = NoRow
  Garbage = Garbage
  DefragRatio = 4
  PirType = "SinglePass"
  SmallestLayerSize = 1
  RowAdded <- MCRowAdded
  AddSizes = {2, 4}
  DeleteSizes = {}
  MaxTime = 6
SPECIFICATION Spec
INVARIANTS DummyUnused
CHECK_DEADLOCK FALSE
