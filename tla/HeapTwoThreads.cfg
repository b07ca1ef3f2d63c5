SPECIFICATION Spec
CONSTANTS
  NThreads = 2
  Requests = {2, 3}
  Alignments = {}
  Pads = {}
  ForeignSteps = {}
  InitialBrk = 0
  SbrkLimit = 8
  MmapTop = 8
  MaxFast = 2
  MinLarge = 4
  NBins = 6
  LargeIndex <- MCLargeIndex
  PageSize = 4
  TopPad = 0
  TrimThreshold = 6
  ConsolidateThreshold = 5
  MmapUnit = 4
  MaxIters = 2
PROPERTY JoinsCurrentTop
