---------------------------- MODULE MCBlockPool ----------------------------
(* Instance of BlockPool for TLC; the threads are interchangeable. *)
EXTENDS BlockPool, TLC

Symmetry == Permutations(Threads)
============================================================================
