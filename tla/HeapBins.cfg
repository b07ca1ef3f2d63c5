SPECIFICATION Spec
CONSTANTS
  NThreads = 1
  Requests = {2, 3}
  Alignments = {2}
  Pads = {0}
  ForeignSteps = {}
  InitialBrk = 0
  SbrkLimit = 12
  MmapTop = 16
  MaxFast = 1
  MinLarge = 2
  NBins = 4
  LargeIndex <- MCLargeIndex
  PageSize = 4
  TopPad = 0
  TrimThreshold = 6
  ConsolidateThreshold = 5
  MmapUnit = 4
  MaxIters = 2
INVARIANT BinsInOrder
PROPERTIES BestFit IsAllocator
