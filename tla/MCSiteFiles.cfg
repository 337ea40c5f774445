CONSTANTS
  xf = xf
  yf = yf
  zg = zg
  c1 = c1
  c2 = c2
  m644 = m644
  m755 = m755
  NoData = NoData
  Absent = Absent
  Names = {xf, yf}
  BaseName <- MCBaseName
  Contents = {c1, c2, NoData}
  SizeOf <- MCSizeOf
  Modes = {m644, m755}
  ExecModes = {m755}
  Ignored = {xf}
  TypesOf <- MCLinkTypesOf
  Options <- WorkOptions
SPECIFICATION Spec
INVARIANTS
  TypeOK
  DiffCorrect
  EveryEntryIsAFile
  CountersExact
  FlagsExact
CHECK_DEADLOCK FALSE
