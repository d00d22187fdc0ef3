CONSTANTS
  NRows = 4
  SetSize = 2
  NumHints = 2
  BaseSets <- MCBaseSets
  Readers = {"a", "b"}
  MaxReads = 3
  OtherRows = 7
  OtherSetSize = 3
  OtherHints = 2
  OtherBases <- MCOtherBases
  OtherReaders = {"a"}
  OtherReads = 2
  UnitRows = 2
  UnitHints = 2
  UnitBases <- MCUnitBases
  UnitReaders = {"a", "b"}
  UnitReads = 2
  KeyWidth = 4
  KeyLengths <- MCKeyLengths
  RpcCallers = {"a", "b", "c"}
  RpcMaxCalls = 4
SPECIFICATION ClientsSpec
INVARIANTS PointersRight ReadsRight SpinsOnOneElement OtherSizesRight RoundTrips
PROPERTIES RpcCallsReturn RpcSafe
CHECK_DEADLOCK FALSE
