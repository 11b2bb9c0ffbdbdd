SPECIFICATION FairSpec
CONSTANTS
  Buf = {b1, b2}
  InitialReg = {b1}
  IsBundled = TRUE
  IsLinked = TRUE
  HasCb = TRUE
  LateSessions = FALSE
  MaxCalls = 1
  MaxFail = 1
INVARIANTS
  RefcountExact
  HeldFrameNotInDriver
  CountExact
  NoBufferLost
PROPERTIES
  FramesAreTaken
  ControlReturns
