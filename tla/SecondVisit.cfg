CONSTANTS
  Names = {"a", "b", "c"}
  Bases = {"T", "T2", "U"}
  Encoding <- MCEncoding
  Spellings = {"short", "long"}
  InitialSources <- AlikeSources
  Sources <- AlikeSources
  InitialKeyEnums <- MCInitialKeyEnums
  KeyEnums <- MCInitialKeyEnums
  MaxVersion = 3
  MaxEdits = 0
CHECK_DEADLOCK FALSE
SPECIFICATION Spec
INVARIANT SecondVisitChangesNothing
