------------------------------ MODULE MCArenaList ------------------------------
EXTENDS ArenaList, TLC

Symmetric == Permutations(Threads)
=============================================================================
