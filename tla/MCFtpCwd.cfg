CONSTANTS
  home = home
  sub = sub
  b = b
  Dirs = {home, sub}
  Home = home
  Bases = {b}
  Networks <- Breaking
  Options <- CwdOptions
  Calls <- UploadCalls
  Trees <- OneFile
  MaxUnread = 0
SPECIFICATION Spec
PROPERTIES
  UploadGoesWhereMeant
