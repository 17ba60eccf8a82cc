------------------------------- MODULE MCSync -------------------------------
(* Instances of Sync for TLC. *)
EXTENDS Sync, TLC

\* Guards are interchangeable.
GuardSymmetry == Permutations(Guards)
=============================================================================
