SPECIFICATION RangesSpec
CONSTANTS
  p = p
  r0 = r0
  r1 = r1
  w1 = w1
  clean = clean
  Parent = p
  SubIds <- Subs
  Player = clean
  Dog = clean
  Jobs <- Rows
  Workers <- OneWorker
  NoWorker = NoWorker
  Callers <- OneCaller
  NoCall = NoCall
  Segs <- Numbered
  Restarts <- Zero
  MaxDisc = 0
  MaxDuration = 40
  Media <- Files
  HlsTime = 2
  FaultKinds = {"query", "probe"}
  MaxFaults = 1
INVARIANTS
  RangesTypeOK
  SubJobsHaveParent
  NumbersCovered
  RangesCoverMedia
  IdealCutsServed
PROPERTIES
  FamiliesReaped
CHECK_DEADLOCK FALSE
