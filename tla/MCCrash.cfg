CONSTANTS
  d = d
  df = df
  tf = tf
  ltf = ltf
  c1 = c1
  c2 = c2
  m644 = m644
  m755 = m755
  NoData = NoData
  Absent = Absent
  Root = Root
  Garbage = Garbage
  Foreign = Foreign
  Names = {d, df, tf}
  BaseName <- MCBaseName
  Contents = {c1, c2, Foreign, NoData}
  SizeOf <- MCSizeOf
  Modes = {m644}
  ExecModes = {}
  Ignored = {}
  Options <- CrashOptions
  Parent <- MCParent
  RemoteName <- MCRemoteName
  DefaultMode = m644
  Faults = {"refused", "lost_reply", "partial", "reconnect"}
  MaxFaults = 1
  LocalTrees <- CrashTrees
  MaxRuns = 2
  MaxClock = 2
  OutsiderPcs = {"idle"}
  EditPcs = {"idle"}
  Kills = TRUE
SPECIFICATION RunSpec
INVARIANTS
  NoPartialFileVisible
  InfoRoundTrip
PROPERTIES
  NodeleteDeletesNothing
  PublishedStaysPublished
  SafeModeKeepsForeign
CHECK_DEADLOCK FALSE
