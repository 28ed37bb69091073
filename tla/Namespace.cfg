CONSTANTS
  Names = {"a", "b", "c"}
  Bases = {"T", "T2", "U"}
  Encoding <- MCEncoding
  Spellings = {"short", "long"}
  InitialSources <- UnchangedSources
  Sources <- UnchangedSources
  InitialKeyEnums <- UnmarkedKeyEnums
  KeyEnums <- MCKeyEnums
  MaxVersion = 3
  MaxEdits = 2
CHECK_DEADLOCK FALSE
SPECIFICATION Spec
INVARIANT NamespaceStays
