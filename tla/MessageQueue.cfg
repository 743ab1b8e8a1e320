SPECIFICATION FairQueueSpec
CONSTANTS
  Items = {x, y}
  max_capacity = 2
  Tasks = {a, b, c}
  DestroyRace = FALSE
CHECK_DEADLOCK FALSE
INVARIANTS
  QueueTypeOK
  BufferExclusive
  NeverFullNorEmpty
  NobodyInside
  IndicesAgree
PROPERTIES
  Refines
  BufferPassedOn
  DestroyReleases
