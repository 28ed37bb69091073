CONSTANTS
  Names = {"a", "b", "c"}
  Bases = {"T", "T2", "U"}
  Encoding <- MCEncoding
  Spellings = {"short", "long"}
  InitialSources <- RequiredSources
  Sources <- RequiredSources
  InitialKeyEnums <- MCInitialKeyEnums
  KeyEnums <- MCInitialKeyEnums
  MaxVersion = 3
  MaxEdits = 0
CHECK_DEADLOCK FALSE
SPECIFICATION Spec
INVARIANT RequiredFieldsAreSet
