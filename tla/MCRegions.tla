-------------------------------- MODULE MCRegions --------------------------------
(* Threads for the model checker, which may be exchanged.                  *)
EXTENDS Regions, TLC

ThreadSymmetry == Permutations(Threads)
================================================================================
