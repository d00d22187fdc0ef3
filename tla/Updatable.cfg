CONSTANTS
  Keys = {1, 2}
  ReadKeys = {1}
  NoRow = NoRow
  Garbage = Garbage
  DefragRatio = 4
  PirType = "Punc"
  SmallestLayerSize = 1
  RowAdded <- MCRowAdded
  AddSizes = {1, 4}
  DeleteSizes = {1, 2}
  MaxTime = 6
SPECIFICATION Spec
INVARIANTS LogSaysTheMap ClientLogIsPrefix PositionsRight TypeOK HintsFit ReadsSnapshot OnlyStaleCallsPanic LayersTile
PROPERTY TimestampsAdvance
CHECK_DEADLOCK FALSE
