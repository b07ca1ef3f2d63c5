------------------------------ MODULE MCReplay ------------------------------
(* Threads, addresses, values and replayers can be exchanged. *)
EXTENDS Replay, TLC

Symmetry == Permutations(Threads) \union Permutations(Addrs) \union Permutations(Vals)
            \union Permutations(Replayers)
=============================================================================
