CONSTANTS
  xf = xf
  yf = yf
  zg = zg
  c1 = c1
  c2 = c2
  m644 = m644
  m755 = m755
  NoData = NoData
  Absent = Absent
  Names = {xf, yf, zg}
  BaseName <- MCBaseName
  Contents = {c1, c2, NoData}
  SizeOf <- MCSizeOf
  Modes = {m644}
  ExecModes = {}
  Ignored = {xf}
  TypesOf <- MCTypesOf
  Options <- MergeOptions
SPECIFICATION MergeSpec
INVARIANTS
  DiffCorrect
  TotalsExact
  NoNameTwice
  MergeLosesNothing
CHECK_DEADLOCK FALSE
