CONSTANTS
  d = d
  dd = dd
  df = df
  tf = tf
  xf = xf
  b1 = b1
  b2 = b2
  NoData = NoData
  NoSum = NoSum
  Part = Part
  Absent = Absent
  Root = Root
  Garbage = Garbage
  Names = {d, dd, df, tf, xf}
  BaseName <- MCBaseName
  Contents <- MCContents
  SizeOf <- MCSizeOf
  Modes <- MCModes
  ExecModes = {493}
  Ignored = {tf}
  Options <- CopyOptions
  Parent <- MCParent
  RemoteName <- MCRemoteName
  DefaultMode = 420
  Faults = {}
  MaxFaults = 1
  Bytes = {b1, b2, Part}
  ByteSize <- MCByteSize
  Times <- MCTimes
  Now = 1
  Excluded = {xf}
  Orders <- MCOrders
  DirStackSize = 1
  ListNoise <- Noise
  FirstDisks <- Disks
  FirstServers <- Servers
  Versions <- MCVersions
  MaxEdits = 1
  Kills = TRUE
SPECIFICATION FairSpec
INVARIANTS
  CopyTypeOK
  FetchComplete
  FetchSeesChange
  SynchMeansCopy
  ConnectedForDownload
  PartIsNoticed
PROPERTIES
  SynchConverges
  UntouchedStays
  EmptyStateKeepsFiles
  VerifyMeansPresent
