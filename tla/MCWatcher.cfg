SPECIFICATION WatchSpec
CONSTANTS
  lib = lib
  dir = dir
  deep = deep
  flat = flat
  kDir = kDir
  kVideo = kVideo
  boot = boot
  watchman = watchman
  Boot = boot
  Watchman = watchman
  Root = Root
  Plain = Plain
  Gone = Gone
  NoId = NoId
  Arrivals <- JustPlain
  Libs <- OneLib
  Paths <- MCPaths
  Within <- MCTree
  LibOf <- MCLibs
  KeyOf <- MCKeys
  Directories <- MCDirectories
  Identities <- NoIdentities
  Disks <- MCDisks
  Volatile <- MCPaths
  Scanners <- TwoScanners
  Tickers <- NoTickers
  LibsOf <- OwnLib
  FaultKinds = {"appear", "vanish", "move", "write"}
  MaxFaults = 3
INVARIANTS
  WatchTypeOK
PROPERTIES
  NewFilesListed
  GoneFilesNoticed
CHECK_DEADLOCK FALSE
