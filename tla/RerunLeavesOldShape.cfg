SPECIFICATION Spec
CONSTANTS
  Keys = {a, b}
  Managed = {a, b}
  Broken = {}
  PageSize = 2
  MaxLen = 4
  MaxVersion = 2
  Migrations <- OneStep
  MaxBatch = 2
  Limits = {0, 1, 2, 3}
INVARIANTS
  NothingLeftBehind
CHECK_DEADLOCK FALSE
