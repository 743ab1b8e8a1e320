SPECIFICATION Spec
CONSTANTS
  NULL = NULL
  HEAP_SIZE = 256
  UIntRange = 4096
  Sizes = {10, 64, 96}
  TightFits = TRUE
INVARIANTS
  TypeOK
  LiveDisjoint
  LiveKept
  NoLeak
  AvailableBytes
