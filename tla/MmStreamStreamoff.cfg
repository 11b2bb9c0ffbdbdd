SPECIFICATION Spec
CONSTANTS
  Buf = {b1}
  InitialReg = {b1}
  IsBundled = TRUE
  IsLinked = FALSE
  HasCb = TRUE
  LateSessions = FALSE
  MaxCalls = 2
  MaxFail = 0
INVARIANTS
  AsyncUpdatesDone
