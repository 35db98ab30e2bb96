SPECIFICATION LibrarySpec
CONSTANTS
  lib = lib
  show = show
  old = old
  new = new
  kShow = kShow
  kOld = kOld
  kNew = kNew
  m = m
  n = n
  tick = tick
  post = post
  Root = Root
  Plain = Plain
  Gone = Gone
  NoId = NoId
  Arrivals <- Either
  Libs <- OneLib
  Paths <- ShowPaths
  Within <- ShowTree
  LibOf <- ShowLibs
  KeyOf <- ShowKeys
  Identities <- TwoIdentities
  Disks <- ShowDisks
  Volatile <- ShowVolatile
  Scanners <- TickAndPost
  Tickers <- OneTick
  LibsOf <- AllLibs
  FaultKinds = {"vanish", "appear", "move", "restart", "unreadable", "query"}
  MaxFaults = 2
INVARIANTS
  LibraryTypeOK
  ReachableFromTop
PROPERTIES
  UntouchedKeepId
  PresentFilesListed
  GoneFilesMissing
