SPECIFICATION FairSpec
CONSTANTS
  j1 = j1
  w1 = w1
  w2 = w2
  mon = mon
  dog = dog
  view = view
  play = play
  Jobs <- OneJob
  Queued <- OneJob
  Workers <- OneWorker
  NoWorker = NoWorker
  Callers <- AllCallers
  NoCall = NoCall
  Monitors <- None
  Watchdogs <- None
  Viewers <- OneViewer
  Players <- None
  Segs <- TwoSegs
  Restarts <- ZeroOne
  MaxRestarts = 1
  MaxDisc = 1
  MaxDuration = 4
  FaultKinds = {}
  MaxFaults = 0
PROPERTIES
  RetriesAnswered
CHECK_DEADLOCK FALSE
