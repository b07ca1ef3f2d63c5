----------------------------- MODULE MCMetadataPool -----------------------------
(* Threads for the model checker, which may be exchanged.                  *)
EXTENDS MetadataPool, TLC

ThreadSymmetry == Permutations(Threads)
================================================================================
