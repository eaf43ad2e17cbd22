SPECIFICATION Spec
CONSTANTS
  Tracks = 2
  RingFrames = 3
  MaxBlock = 2
  SegmentFrames = 2
  CallbackBlocks <- Periods
  MaxFrames = 5
  MayFail = FALSE
  MayRecover = FALSE
CHECK_DEADLOCK FALSE
PROPERTIES
  ImplementsCaptureStream
  StopEndsProcess
