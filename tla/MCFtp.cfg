CONSTANTS
  home = home
  sub = sub
  b = b
  Dirs = {home, sub}
  Home = home
  Bases = {b}
  Networks <- SomeNetworks
  Options <- AllOptions
  Calls <- AllCalls
  Trees <- OneFile
  MaxUnread = 0
SPECIFICATION FairSpec
INVARIANTS
  FtpTypeOK
  SessionAgrees
  OpenRecursesOnce
PROPERTIES
  Implements
  Returns
