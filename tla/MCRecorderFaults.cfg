SPECIFICATION Spec
CONSTANTS
  Tracks = 2
  RingFrames = 3
  MaxBlock = 2
  SegmentFrames = 2
  CallbackBlocks <- Periods
  MaxFrames = 5
  MayFail = TRUE
  MayRecover = TRUE
CHECK_DEADLOCK FALSE
INVARIANTS
  Tiled
  ExactRecording
  InOrder
  FilesClosed
  StoppedExitsZero
PROPERTIES
  ImplementsRecorderProcess
