SPECIFICATION IOFairSpec
CONSTANTS
  Counts <- MCCounts
  UINT16_MAX = 65535
  MaxSent = 4
  MaxFrames = 2
  ShortWrites = FALSE
CHECK_DEADLOCK FALSE
INVARIANTS
  IOTypeOK
  StreamKept
  FramesWhole
PROPERTY
  CallEnds
