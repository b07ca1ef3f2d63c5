SPECIFICATION Spec
SYMMETRY ThreadSymmetry
CONSTANTS
    Threads = {t1, t2}
    Arenas = {1, 2, 3}
    NSlots = 3
    Sizes = {1, 2}
    HeapChunks = 2
    n_mmaps_max = 2
    MaxCalls = 3
INVARIANTS OwnerFound Disjoint NoneStale NoAbort NoHoldAndWait
