SPECIFICATION Spec
CONSTANTS
  j1 = j1
  w1 = w1
  w2 = w2
  mon = mon
  dog = dog
  view = view
  play = play
  Jobs <- OneJob
  Queued <- NoJobs
  Workers <- OneWorker
  NoWorker = NoWorker
  Callers <- AllCallers
  NoCall = NoCall
  Monitors <- None
  Watchdogs <- None
  Viewers <- OneViewer
  Players <- OnePlayer
  Segs <- TwoSegs
  Restarts <- ZeroOne
  MaxRestarts = 1
  MaxDisc = 1
  MaxDuration = 1
  FaultKinds = {"disconnect", "query"}
  MaxFaults = 1
INVARIANTS
  OwnerServesRequest
CHECK_DEADLOCK FALSE
