SPECIFICATION FairSpec
CONSTANTS
  MaxVersion = 2
  MaxLen = 2
  Migrations <- OneMigration
  Target <- AddFreezeFlag
  MaxBatch = 1
  Limits = {1}
  MaxBatches = 2
  Operators = {o1, o2}
PROPERTIES
  EveryRunEnds
  MigrationFinishes
CHECK_DEADLOCK FALSE
