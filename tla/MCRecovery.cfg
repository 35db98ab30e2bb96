SPECIFICATION HistorySpec
CONSTANTS
  j1 = j1
  w1 = w1
  w2 = w2
  mon = mon
  Jobs <- OneJob
  Queued <- OneJob
  Workers <- TwoWorkers
  NoWorker = NoWorker
  Callers <- OnlyMonitor
  NoCall = NoCall
  Monitors <- OnlyMonitor
  Watchdogs <- None
  Viewers <- None
  Players <- None
  Segs <- TwoSegs
  Restarts <- ZeroTwo
  MaxRestarts = 2
  MaxDisc = 2
  MaxDuration = 4
  FaultKinds = {"crash", "launch", "noManifest", "slowReport", "ffmpeg"}
  MaxFaults = 4
SYMMETRY Symmetry
INVARIANTS
  TypeOK
  OwnerServesRequest
PROPERTIES
  CleanupOnlyAfterLoss
  StoredSegmentsKept
  OnlyDeadWorkersMarked
  GivenUpOnlyWhenExhausted
  CompletedStays
CHECK_DEADLOCK FALSE
