SPECIFICATION FairSpec
CONSTANTS
    Threads = {t1, t2}
    Keys = {1, 2}
    Values = {1}
    Hash <- MCHash
    InitialMax = 1
    MaxTables = 3
    MIGRATIONS_PER_ACCESS = 2
    MaxCalls = 4
INVARIANTS Probing AssertsHold
PROPERTIES IsMap OperationsReturn
CHECK_DEADLOCK FALSE
