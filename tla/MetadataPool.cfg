SPECIFICATION Spec
SYMMETRY ThreadSymmetry
CONSTANTS
    Threads = {t1, t2}
    BP_LENGTH = 4
    SP_LENGTH = 1
    MaxPools = 2
    METADATA_CACHE_SIZE = 4
    MaxNeed = 2
    MaxCalls = 4
INVARIANTS TypeOK InOnePlace CountTrue NoAbort
