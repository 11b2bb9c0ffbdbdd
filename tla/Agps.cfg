CONSTANTS
  Handle = {h1, h2, h3}
  Type = {"SUPL", "SUPL_ES", "WWAN"}
  MAX_START_DATA_CALL_RETRIES = 2
  MaxTimers = 1
  MaxQueue = 4
SPECIFICATION FairSpec
CHECK_DEADLOCK FALSE
INVARIANTS
  ConnectionMatchesSubscribers
  RequestNotLost
PROPERTIES
  EmergencyCloseWaits
  AskedIsAnswered
