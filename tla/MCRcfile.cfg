CONSTANTS
  Files <- MCFiles
  LineSize = 14
  LocalDirs <- MCLocalDirs
  Netrc <- MCNetrc
SPECIFICATION RcSpec
INVARIANTS
  RcTypeOK
  SettingsAreOwn
  RejectsExactlyBad
  AcceptedFitsEngine
  WrittenReadsBack
CHECK_DEADLOCK FALSE
