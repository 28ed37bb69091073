SPECIFICATION Spec
CONSTANTS
  Keys = {a, b}
  PageSize = 2
  MaxLen = 5
  MaxStale = 3
  MaxBatchLen = 3
INVARIANTS
  TypeOK
  NeverCorrupt
  RangeWalksPages
  RegisterAllIsARegisterLoop
  ContainsFindsRegisteredKeys
  FootprintCountsEntries
PROPERTIES
  ImplementsAppendLog
CHECK_DEADLOCK FALSE
