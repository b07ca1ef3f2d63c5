SPECIFICATION FairSpec
CONSTANTS
  Threads = {t1,t2}
  ArenaMax = 0
  ArenaTest = 1
  CoresLimit = 2
  MaxArenas = 3
  Corruptible = {1}
  MaxForks = 1
CHECK_DEADLOCK FALSE
INVARIANTS WithinLimit OneMutex FreeListDetached AttachedCounted
PROPERTY CallsReturn
