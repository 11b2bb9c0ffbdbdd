SPECIFICATION Spec
CONSTANTS
  MaxFrame = 2
  MaxPictures = 2
  Expected = 2
  ReprocCount = 2
  PPBufs = 1
  LongshotPasses = FALSE
  ReprocessMayFail = FALSE
  EncoderIsQuick = FALSE
INVARIANTS
  EveryFrameOnce
  QuietWhenStopped
PROPERTIES
  FramesComeBack
  StopReturns
CHECK_DEADLOCK FALSE
