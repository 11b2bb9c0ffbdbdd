SPECIFICATION Spec
CONSTANTS
  Session = {s1, s2}
  MaxJob = 2
  MaxFail = 1
  MaxSession = 2
  OrderlyEncoder = TRUE
  none = none
INVARIANTS
  TypeOK
  OutputHasOwner
PROPERTIES
  AnsweredOnce
  EveryJobEnds
CHECK_DEADLOCK FALSE
