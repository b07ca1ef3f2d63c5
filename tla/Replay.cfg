SPECIFICATION Spec
CONSTANTS
    Threads = {t1, t2}
    Addrs = {a, b}
    Replayers = {r}
    Vals = {v, w, x, y}
    NULL = null
    MaxCalls = 4
SYMMETRY Symmetry
INVARIANTS ValuesOwned NeverMissing MirrorsProgram
CHECK_DEADLOCK FALSE
