SPECIFICATION Spec
CONSTANTS
  MaxFrame = 3
  Reprocess = {1}
  Stream = {preview, blob}
  Asked = {{preview}, {preview, blob}}
  preview = preview
  blob = blob
  MinInFlight = 1
  MaxInFlight = 2
  MaxFlush = 1
  MaxRestart = 1
  MaxPull = 2
  FaultsApart = FALSE
CHECK_DEADLOCK FALSE
INVARIANTS
  NoErrorAfterResult
