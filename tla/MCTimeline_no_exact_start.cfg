SPECIFICATION TimelineSpec
CONSTANTS
  HlsTime = 2
  End = 8
  Seeks <- Positions
  MaxNumber = 6
  FaultKinds = {"crash", "ffmpeg", "seek"}
  MaxFaults = 2
PROPERTIES
  ResumesAtItsPlace
CHECK_DEADLOCK FALSE
