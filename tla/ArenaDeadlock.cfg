SPECIFICATION Spec
CONSTANTS
  Threads = {t1,t2,t3}
  ArenaMax = 2
  ArenaTest = 1
  CoresLimit = 2
  MaxArenas = 2
  Corruptible = {}
  MaxForks = 0
SYMMETRY Symmetric
INVARIANT NoDeadlock
