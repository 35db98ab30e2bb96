SPECIFICATION FairSpec
CONSTANTS
  j1 = j1
  w1 = w1
  w2 = w2
  mon = mon
  dog = dog
  view = view
  play = play
  Jobs <- OneJob
  Queued <- OneJob
  Workers <- OneWorker
  NoWorker = NoWorker
  Callers <- AllCallers
  NoCall = NoCall
  Monitors <- OneMonitor
  Watchdogs <- OneWatchdog
  Viewers <- None
  Players <- None
  Segs <- TwoSegs
  Restarts <- ZeroOne
  MaxRestarts = 1
  MaxDisc = 1
  MaxDuration = 4
  FaultKinds = {"cpCrash", "crash", "lostCall", "slowReport", "query"}
  MaxFaults = 1
PROPERTIES
  IdleJobsReaped
CHECK_DEADLOCK FALSE
