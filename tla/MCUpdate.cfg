CONSTANTS
  d = d
  df = df
  tf = tf
  ltf = ltf
  c1 = c1
  c2 = c2
  m644 = m644
  m755 = m755
  NoData = NoData
  Absent = Absent
  Root = Root
  Garbage = Garbage
  Foreign = Foreign
  Names = {d, df, tf, ltf}
  BaseName <- MCBaseName
  Contents = {c1, c2, NoData}
  SizeOf <- MCSizeOf
  Modes = {m644}
  ExecModes = {}
  Ignored = {}
  Options <- UpdateOptions
  Parent <- MCParent
  RemoteName <- LowerRemoteName
  DefaultMode = m644
  Faults = {"refused"}
  MaxFaults = 1
  LocalTrees <- SwapTrees
  MaxRuns = 2
  MaxClock = 1
  OutsiderPcs = {}
  EditPcs = {"idle"}
  Kills = FALSE
SPECIFICATION FairSpec
INVARIANTS
  RunTypeOK
  UnchangedIsOnServer
  SuccessMeansMirror
PROPERTIES
  Converges
CHECK_DEADLOCK FALSE
