CONSTANTS
  SetSizes <- MCSetSizes
  Seeds = {1, 2}
  UnivSize = 256
  Width = 8
  Word <- MCWord
  Universe <- MCUniverse
  Sizes <- MCSizes
  VecSizes = {16, 32}
  RowLens <- MCRowLens
  XorRows = 3
  MaxElems = 3
  HashRows = {1, 8, 11, 17}
  BitBytes <- MCBitBytes
  PassRows = 8
  PassSetSize = 2
  PassDraws = 16
  RaceThreads = {"t1", "t2"}
  RaceRows = 6
  RaceSetSize = 2
  RaceDraws = 4
  MaxBlocks = 25
  IndexWidth = 32
  Bases <- MCBases
SPECIFICATION Spec
INVARIANTS PuncturedIsRest FilterRight XorsExact AccessesInside HintsAreParities DrawsAreFair BlocksExact
PROPERTIES CallsReturn
