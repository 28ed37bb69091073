SPECIFICATION Spec
CONSTANTS
  Keys = {a, b}
  Managed = {a, b}
  Broken = {}
  PageSize = 2
  MaxLen = 3
  MaxVersion = 2
  Migrations <- OneStep
  MaxBatch = 2
  Limits = {0, 1, 2, 3}
PROPERTIES
  AbortLeavesBeginPossible
CHECK_DEADLOCK FALSE
