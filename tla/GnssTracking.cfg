SPECIFICATION FairSpec
CONSTANTS
  Client = {c1, c2}
  Interval = {1, 2}
  MaxSession = 3
  MaxMsgs = 2
  MaxRequests = 2
  MaxTrouble = 1
CHECK_DEADLOCK FALSE
INVARIANTS
  EngineFollowsSessions
  EngineRuns
  ResponseFindsItsRequest
  NoSessionLeaks
PROPERTIES
  StartIsAnswered
