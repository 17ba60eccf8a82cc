------------------------------ MODULE MCProducers ------------------------------
(* Instance of Producers for TLC: all thread ids collide in every table. *)
EXTENDS Producers

MCHashOf(t) == 1
==============================================================================
