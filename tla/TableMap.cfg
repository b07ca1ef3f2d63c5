SPECIFICATION Spec
CONSTANTS
  Chunks = {4,6}
  Hash <- MCHash
  NBuckets = 4
  MaxSegments = 5
  SegLength = 1
  InitialDirectoryLength = 1
  MinLoad = 1
  MaxLoad = 0
  BincountMax = 5
CHECK_DEADLOCK FALSE
INVARIANT Placed
PROPERTY IsMap
