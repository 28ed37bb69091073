SPECIFICATION Spec
CONSTANTS
  MaxVersion = 2
  MaxLen = 3
  Migrations <- OneMigration
  Target <- AddFreezeFlag
  MaxBatch = 2
  Limits = {0, 1, 2, 3}
  MaxBatches = 2
  Operators = {o1, o2}
SYMMETRY Symmetry
INVARIANTS
  TypeOK
  NeverStalls
PROPERTIES
  DoneAnswersAreTrue
  ResumingKeepsProgress
  RollbackIsLeftAlone
  ReplayPredicts
CHECK_DEADLOCK FALSE
