SPECIFICATION Spec
CONSTANTS
  Streams = {meta, snap}
  Meta = meta
  Linked = {meta}
  Attrs <- MCAttrs
  MetaInputs <- MCMetaInputs
  MaxFuture = 3
  DivertedWidth = 4
  MaxFrame = 3
  MaxRequest = 2
  MaxEvents = 5
  meta = meta
  snap = snap
INVARIANTS
  CountIsAtHead
  QueueBounded
  ZslOnlyForRequest
  PendingServed
PROPERTIES
  ImplementsBundles
CHECK_DEADLOCK FALSE
