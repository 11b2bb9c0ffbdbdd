SPECIFICATION MappingSpec
CONSTANTS
  N = 4
  InKernel = {1, 2, 4}
INVARIANTS
  OnWhenMapped
  NoLostWakeup
