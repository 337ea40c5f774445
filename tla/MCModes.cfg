CONSTANTS
  d = d
  df = df
  tf = tf
  ltf = ltf
  c1 = c1
  c2 = c2
  m644 = m644
  m755 = m755
  NoData = NoData
  Absent = Absent
  Root = Root
  Garbage = Garbage
  Foreign = Foreign
  Names = {d, df, tf}
  BaseName <- MCBaseName
  Contents = {c1, c2, NoData}
  SizeOf <- MCSizeOf
  Modes = {m644, m755}
  ExecModes = {m755}
  Ignored = {}
  Options <- ModeOptions
  Parent <- MCParent
  RemoteName <- MCRemoteName
  DefaultMode = m644
  Faults = {}
  MaxFaults = 1
  LocalTrees <- ModeTrees
  MaxRuns = 2
  MaxClock = 1
  OutsiderPcs = {}
  EditPcs = {"idle"}
  Kills = FALSE
SPECIFICATION RunSpec
INVARIANTS
  UnchangedIsOnServer
  SuccessMeansMirror
CHECK_DEADLOCK FALSE
