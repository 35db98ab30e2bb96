SPECIFICATION QueueSpec
CONSTANTS
  j1 = j1
  w1 = w1
  w2 = w2
  c1 = c1
  c2 = c2
  Jobs <- OneJob
  Workers <- TwoWorkers
  NoWorker = NoWorker
  Callers <- TwoCallers
  NoCall = NoCall
  Segs <- ZeroOne
  Restarts <- ZeroOne
  MaxDisc = 1
  MaxDuration = 3
SYMMETRY Symmetry
INVARIANTS
  QueueTypeOK
  ReferentialIntegrity
  SegmentAccounting
  ClaimIsRecoverable
PROPERTIES
  RecoveryNotRepeated
  StaleWorkerCannotClobber
  ProgressNeverLost
  ImplementsLifecycle
