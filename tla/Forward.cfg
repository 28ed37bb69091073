SPECIFICATION ForwardSpec
CONSTANTS
  Keys = {a, b}
  Managed = {a}
  Broken <- UnmanagedSecondShape
  PageSize = 2
  MaxLen = 4
  MaxVersion = 3
  Migrations <- TwoSteps
  MaxBatch = 2
  Limits = {0, 1, 2, 3}
INVARIANTS
  NoKeyForgotten
  NothingLeftBehind
  IndexMatchesShapes
  CursorCountsCarriedKeys
PROPERTIES
  OnlyAnAbortedRunOrphansKeys
  VersionMovesWithTheLastKey
CHECK_DEADLOCK FALSE
