SPECIFICATION HeapsSpec
CONSTANTS
    Requests = {2, 3, 5}
    HEAP_MIN_SIZE = 6
    HEAP_MAX_SIZE = 9
    MaxHeaps = 3
    HeapInfo = 1
    ArenaState = 1
    PageSize = 3
    TopPad = 1
    TrimThreshold = 5
    ConsolidateThreshold = 4
INVARIANTS Tiling BoundaryTags Accessible NoAbort
