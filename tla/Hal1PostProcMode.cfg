SPECIFICATION Spec
CONSTANTS
  MaxFrame = 2
  MaxPictures = 2
  Expected = 2
  ReprocCount = 2
  PPBufs = 1
  LongshotPasses = FALSE
  ReprocessMayFail = FALSE
  EncoderIsQuick = FALSE
INVARIANTS
  SnapshotModeAsAsked
CHECK_DEADLOCK FALSE
