------------------------------ MODULE MCProducer ------------------------------
(* Instance of Producer for TLC.  Consumers and blocks are interchangeable; of *)
(* the counts of claims and of claims taken back only the differences matter,  *)
(* and so it is with the indices, up to a multiple of BLOCK_SIZE.              *)
EXTENDS Producer, TLC

Shifted(i) == Minus(i, Base(headIndex))

ShiftedCell(i) == IF i = None THEN None ELSE Shifted(i)

Relative(k) ==
    LET since(n) == Minus(n, dequeueOvercommit)
    IN  CASE k.pc = "claim" -> [k EXCEPT !.overcommit = since(@)]
          [] k.pc = "recheck" ->
                [k EXCEPT !.overcommit = since(@), !.myDequeueCount = Shifted(since(@))]
          [] k.pc \in {"idle", "overcommit", "take"} -> k
          [] k.pc = "load" -> [k EXCEPT !.index = Shifted(@)]
          [] OTHER -> [k EXCEPT !.index = Shifted(@), !.header = Len(blockIndex) - @]

\* The headers that can still be read.
Referred == {Len(blockIndex)} \cup {call[c].header : c \in {d \in Consumers : call[d].header # 0}}

ShiftedHeader(h) ==
    IF isExplicit
    THEN [h EXCEPT !.entries = [i \in DOMAIN @ |->
             IF @[i].block = NoBlock THEN @[i] ELSE [@[i] EXCEPT !.base = Shifted(@)]]]
    ELSE h

ShiftedEntry(e) == IF e.key = INVALID_BLOCK_BASE THEN e ELSE [e EXCEPT !.key = Shifted(@)]

View == <<isExplicit, Shifted(tailIndex), Shifted(headIndex),
          Shifted(Minus(dequeueOptimisticCount, dequeueOvercommit)), tailBlock,
          {<<Len(blockIndex) - i, ShiftedHeader(blockIndex[i])>> : i \in Referred \ {0}},
          [b \in Blocks |-> [o \in Offsets |-> ShiftedCell(cell[b][o])]],
          [b \in Blocks |-> IF b \in freeBlocks THEN {} ELSE emptied[b]], freeBlocks,
          [c \in Consumers |-> Relative(call[c])], prod, undone,
          explicitVars, [e \in DOMAIN entry |-> ShiftedEntry(entry[e])]>>

Symmetry == Permutations(Consumers) \cup Permutations(Blocks)
==============================================================================
