SPECIFICATION FairSpec
CONSTANTS
  NThreads = 1
  Requests = {2, 5}
  Alignments = {2}
  Pads = {}
  ForeignSteps = {1}
  InitialBrk = 3
  SbrkLimit = 12
  MmapTop = 16
  MaxFast = 2
  MinLarge = 4
  NBins = 6
  LargeIndex <- MCLargeIndex
  PageSize = 4
  TopPad = 0
  TrimThreshold = 6
  ConsolidateThreshold = 5
  MmapUnit = 4
  MaxIters = 2
INVARIANTS BoundaryTags OnePlace FastKnown Tiling RegionsCoverHeap NoAbort
PROPERTY CallsReturn
