---------------------------- MODULE MCChunkHeap ----------------------------
EXTENDS ChunkHeap

\* two large bins, the first for two sizes
MCLargeIndex(s) == IF s < MinLarge + 2 THEN MinLarge + 1 ELSE MinLarge + 2
=============================================================================
