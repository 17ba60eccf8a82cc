-------------------------- MODULE MCBlockingQueue --------------------------
(* Instance of BlockingQueue for TLC: one consumer has a token and uses it for *)
(* single and for bulk calls, one has none and makes single calls, one has    *)
(* none and makes bulk calls.                                                 *)
EXTENDS BlockingQueue

CONSTANTS c1, c2, c3

MCOffset == [c \in TokenUsers |-> 0]
Single == [bulk |-> FALSE, max |-> 1]
Bulk == [bulk |-> TRUE, max |-> 2]
MCRequests == [c \in Consumers |-> CASE c = c1 -> {Single, Bulk}
                                     [] c = c2 -> {Single}
                                     [] OTHER  -> {Bulk}]
==============================================================================
