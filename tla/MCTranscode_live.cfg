SPECIFICATION StallingSpec
CONSTANTS
  j1 = j1
  w1 = w1
  w2 = w2
  mon = mon
  dog = dog
  view = view
  play = play
  Jobs <- OneJob
  Queued <- OneJob
  Workers <- TwoWorkers
  NoWorker = NoWorker
  Callers <- AllCallers
  NoCall = NoCall
  Monitors <- OneMonitor
  Watchdogs <- None
  Viewers <- None
  Players <- None
  Segs <- TwoSegs
  Restarts <- ZeroOne
  MaxRestarts = 1
  MaxDisc = 1
  MaxDuration = 4
  FaultKinds = {"crash", "sigterm", "lostCall", "lateBeat", "slowFirst", "noManifest", "launch", "ffmpeg", "cpCrash", "slowReport"}
  MaxFaults = 1
PROPERTIES
  JobsSettle
  LosersStop
  AbsentWorkersReplaced
CHECK_DEADLOCK FALSE
