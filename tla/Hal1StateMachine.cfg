SPECIFICATION MachineSpec
CONSTANTS
  Caller <- MCCaller
  Calls <- MCCalls
  EarlyRestart = FALSE
  CarefulApp = TRUE
  DaemonMayDie = TRUE
  MaxEvents = 1
  CallsWhenDead <- MCCallsWhenDead
  MaxFail = 0
INVARIANTS
  NoCallerForgotten
  PreviewMessagesKept
  ChannelsFitState
  PostProcessorFitsState
PROPERTIES
  CallsReturn
CHECK_DEADLOCK FALSE
