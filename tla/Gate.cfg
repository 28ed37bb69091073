CONSTANTS
  Names = {"a", "b", "c"}
  Bases = {"T", "T2", "U"}
  Encoding <- MCEncoding
  Spellings = {"short", "long"}
  InitialSources <- MCInitialSources
  Sources <- MCSources
  InitialKeyEnums <- MCInitialKeyEnums
  KeyEnums <- MCKeyEnums
  MaxVersion = 3
  MaxEdits = 2
CHECK_DEADLOCK FALSE
SPECIFICATION Spec
INVARIANTS
  TypeOK
  DiffDeniesWhatBreaks
  FilledDraftIsAccepted
  SourceBreaksAreNamed
  WarnGateMeansReadable
  KeysStayReachable
  GeneratedFromCommittedShapes
  UpKeepsWhatTheNewBuildWrote
  NothingElseIsLost
  DerivedMatchesGenerated
  DownUndoesUp
