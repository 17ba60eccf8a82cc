--------------------------- MODULE ExplicitProducer ---------------------------
(***************************************************************************)
(* The sub-queue of a producer token.  Its blocks form a ring that only    *)
(* grows: a block ahead of the tail that consumers have emptied is used    *)
(* again.  Consumers find the block of an index in a circular array that   *)
(* the producer overwrites in place, or replaces by one twice as large.    *)
(*                                                                         *)
(* Elements are of a type whose constructor may throw (a message of        *)
(* fes::async_fast holds the arguments of a call by value): they are       *)
(* constructed before the index is published.                              *)
(***************************************************************************)
EXTENDS ProducerBase

CONSTANT EXPLICIT_INITIAL_INDEX_SIZE

ASSUME ExplicitIndexAssumption ==
    /\ EXPLICIT_INITIAL_INDEX_SIZE \in Nat \ {0, 1}
    /\ EXPLICIT_INITIAL_INDEX_SIZE % 2 = 0

VARIABLES
    nextBlock,                  \* the ring
    pr_blockIndexSlotsUsed,
    pr_blockIndexFront          \* the slot after the newest entry

explicitVars == <<nextBlock, pr_blockIndexSlotsUsed, pr_blockIndexFront>>

NoEntry == [base |-> 0, block |-> NoBlock]

pr_blockIndexSize ==
    IF blockIndex = <<>> THEN EXPLICIT_INITIAL_INDEX_SIZE \div 2 ELSE Header.size

\* The header new_block_index makes: twice as large, the entries in use first.
NewHeader(size, expose) ==
    [size |-> size, front |-> expose - 1,
     entries |-> [i \in 0..(size - 1) |->
        IF i < pr_blockIndexSlotsUsed
        THEN Header.entries[(pr_blockIndexFront - pr_blockIndexSlotsUsed + i) % (size \div 2)]
        ELSE NoEntry]]

\* The constructor; its allocation of an index may fail.
ExplicitInit ==
    /\ nextBlock = [b \in Blocks |-> NoBlock]
    /\ pr_blockIndexSlotsUsed = 0
    /\ pr_blockIndexFront = 0

FirstHeader ==
    [size |-> EXPLICIT_INITIAL_INDEX_SIZE, front |-> -1,
     entries |-> [i \in 0..(EXPLICIT_INITIAL_INDEX_SIZE - 1) |-> NoEntry]]

\* The block index with e in the slot front of its current header.
WithEntry(index, front, e) == [index EXCEPT ![Len(index)].entries[front] = e]

-----------------------------------------------------------------------------
(* dequeue: where the elements are *)

\* The block of the index, counted from the newest entry.  BLOCK_SIZE being
\* unsigned, so is the division; the slot comes out right all the same.
Locate(c) ==
    LET k == call[c]
        h == blockIndex[k.header]
        offset == Minus(Base(k.index), h.entries[k.slot].base) \div BLOCK_SIZE
    IN  /\ SetCall(c, "locate", [k EXCEPT !.pc = "move", !.slot = (@ + offset) % h.size])
        /\ UNCHANGED <<counters, storage>>

ExplicitMove(c) ==
    call[c].pc = "move" /\ MoveOut(c, blockIndex[call[c].header].entries[call[c].slot].block)

ExplicitRelease(c) ==
    LET k == call[c]
    IN  /\ SetCall(c, "release", Advance(k, blockIndex[k.header].size))
        /\ SetManyEmpty(k)
        /\ UNCHANGED <<counters, cell, freeBlocks>>

-----------------------------------------------------------------------------
(* enqueue and enqueue_bulk *)

StartExplicit(pc, count, bulk) ==
    SetProd("idle", [NoEnqueue EXCEPT !.pc = pc, !.count = count,
                                      !.bulk = bulk, !.startBlock = tailBlock,
                                      !.front = pr_blockIndexFront,
                                      !.slots = pr_blockIndexSlotsUsed])

ExplicitEnqueue ==
    /\ StartExplicit(IF Offset(tailIndex) = 0 THEN "ahead" ELSE "construct",
                     1, FALSE)
    /\ UNCHANGED <<tailBlock, blockIndex, storage, explicitVars, undone>>

ExplicitEnqueueBulk(count) ==
    /\ StartExplicit(IF NewBlocks(count) > 0 THEN "ahead" ELSE "construct",
                     count, TRUE)
    /\ UNCHANGED <<tailBlock, blockIndex, storage, explicitVars, undone>>

\* A block b is linked for the enqueue.  enqueue_bulk writes its entry at once;
\* front0 is where the front goes back to if the enqueue has to be undone.
Link(b, index, front, front0) ==
    /\ prod' = [prod EXCEPT !.chain = Append(@, b), !.front = front0,
                            !.pc = IF Need = 1 THEN "construct" ELSE @]
    /\ tailBlock' = b
    /\ IF prod.bulk
       THEN /\ blockIndex' = WithEntry(index, front,
                                       [base |-> NextBase(prod.chain), block |-> b])
            /\ pr_blockIndexFront' = (front + 1) % index[Len(index)].size
       ELSE blockIndex' = index /\ pr_blockIndexFront' = front

\* Mutant: the block ahead is used again although consumers are still in it.
BlockAheadBusy ==
    /\ tailBlock # NoBlock
    /\ prod.chain # <<>> => nextBlock[tailBlock] # prod.chain[1]

\* There is a block ahead of the tail, not one of this enqueue, and it is empty.
BlockAhead ==
    /\ tailBlock # NoBlock
    /\ prod.chain # <<>> => nextBlock[tailBlock] # prod.chain[1]
    /\ is_empty(nextBlock[tailBlock])

\* The block ahead is empty: use it again.
Reuse ==
    /\ prod.pc = "ahead"
    /\ BlockAhead
    /\ Link(nextBlock[tailBlock], blockIndex, pr_blockIndexFront, prod.front)
    /\ emptied' = IF prod.bulk THEN emptied ELSE [emptied EXCEPT ![nextBlock[tailBlock]] = {}]
    /\ UNCHANGED <<cell, freeBlocks, nextBlock, pr_blockIndexSlotsUsed, undone>>

NoneAhead ==
    /\ SetProd("ahead", [prod EXCEPT !.pc = "room"])
    /\ ~BlockAhead
    /\ UNCHANGED <<tailBlock, blockIndex, storage, explicitVars, undone>>

\* The enqueue is taken back: blocks that were linked stay in the ring.
Undo(front) ==
    /\ prod' = NoEnqueue
    /\ pr_blockIndexFront' = front
    /\ pr_blockIndexSlotsUsed' = prod.slots
    /\ tailBlock' = IF prod.startBlock = NoBlock /\ prod.chain # <<>>
                    THEN prod.chain[1] ELSE prod.startBlock
    /\ undone' = (undone \/ prod.chain # <<>>)

\* Mutant: the index is taken to have one slot more than it has.
IndexFullLate == blockIndex = <<>> \/ pr_blockIndexSlotsUsed > pr_blockIndexSize

IndexFull == blockIndex = <<>> \/ pr_blockIndexSlotsUsed = pr_blockIndexSize

\* A larger index, exposing the slots that were in use before the enqueue.
Grown == Append(blockIndex, NewHeader(2 * pr_blockIndexSize, prod.slots))

\* There is no room, or no memory for an index or for a block.
RoomFails ==
    /\ prod.pc = "room"
    /\ Undo(prod.front)
    /\ UNCHANGED <<blockIndex, storage, nextBlock>>

\* There is memory for a larger index, but not for a block: the index is kept.
BlockFails ==
    /\ prod.pc = "room" /\ ~Full(NextBase(prod.chain)) /\ IndexFull
    /\ blockIndex' = Grown
    /\ Undo(IF prod.bulk THEN prod.slots ELSE pr_blockIndexSlotsUsed)
    /\ UNCHANGED <<storage, nextBlock>>

\* A block of the pool is inserted in the ring, after the tail block.
NewBlock(b) ==
    /\ prod.pc = "room" /\ ~Full(NextBase(prod.chain))
    /\ IF IndexFull
       THEN Link(b, Grown, pr_blockIndexSlotsUsed, prod.slots)
       ELSE Link(b, blockIndex, pr_blockIndexFront, prod.front)
    /\ freeBlocks' = freeBlocks \ {b}
    /\ emptied' = [emptied EXCEPT ![b] = IF prod.bulk THEN Offsets ELSE {}]
    /\ nextBlock' = IF tailBlock = NoBlock THEN [nextBlock EXCEPT ![b] = b]
                    ELSE [nextBlock EXCEPT ![b] = nextBlock[tailBlock], ![tailBlock] = b]
    /\ pr_blockIndexSlotsUsed' = pr_blockIndexSlotsUsed + 1
    /\ UNCHANGED <<cell, undone>>

Linked == {prod.chain[i] : i \in DOMAIN prod.chain}

\* enqueue_bulk resets the blocks it has linked before it fills them.
ResetLinked == emptied' = [b \in Blocks |-> IF b \in Linked THEN {} ELSE emptied[b]]

\* The elements are constructed; enqueue writes the entry of its block.
ExplicitConstruct ==
    /\ SetProd("construct", [prod EXCEPT !.pc = IF Linked = {} THEN "publish" ELSE "store"])
    /\ Construct
    /\ ResetLinked
    /\ IF prod.bulk \/ Linked = {}
       THEN UNCHANGED <<blockIndex, pr_blockIndexFront>>
       ELSE /\ blockIndex' = WithEntry(blockIndex, pr_blockIndexFront,
                                       [base |-> tailIndex, block |-> tailBlock])
            /\ pr_blockIndexFront' = (pr_blockIndexFront + 1) % pr_blockIndexSize
    /\ UNCHANGED <<tailBlock, freeBlocks, nextBlock, pr_blockIndexSlotsUsed, undone>>

\* A constructor throws: what was constructed is destroyed again.
ExplicitThrow ==
    /\ prod.pc = "construct"
    /\ ResetLinked
    /\ Undo(IF prod.bulk THEN prod.front ELSE pr_blockIndexFront)
    /\ UNCHANGED <<blockIndex, cell, freeBlocks, nextBlock>>

\* front.store: consumers count from the new entry.
StoreFront ==
    /\ SetProd("store", [prod EXCEPT !.pc = "publish"])
    /\ blockIndex' = [blockIndex EXCEPT ![Len(blockIndex)].front =
                        (pr_blockIndexFront - 1) % pr_blockIndexSize]
    /\ UNCHANGED <<tailBlock, storage, explicitVars, undone>>

-----------------------------------------------------------------------------
(* the destructor *)

\* The blocks of the ring.
Ring ==
    LET After[n \in 0..Cardinality(Blocks)] ==
          IF n = 0 THEN {tailBlock} ELSE After[n - 1] \cup {nextBlock[b] : b \in After[n - 1]}
    IN  IF tailBlock = NoBlock THEN {} ELSE After[Cardinality(Blocks)]

\* The block that is partly dequeued: the first entry in use that does not end
\* before the head.
HalfDequeuedBlock ==
    LET entry(n) == Header.entries[(pr_blockIndexFront - pr_blockIndexSlotsUsed + n)
                                   % pr_blockIndexSize]
        reaches(n) == ~circular_less_than(Plus(entry(n).base, BLOCK_SIZE), headIndex)
        n0 == CHOOSE n \in 0..pr_blockIndexSize :
                 reaches(n) /\ \A m \in 0..(n - 1) : ~reaches(m)
    IN  IF Offset(headIndex) = 0 THEN NoBlock ELSE entry(n0).block

\* The cells whose elements ~ExplicitProducer destroys.
ExplicitDestroyed ==
    LET from(b) == IF b = HalfDequeuedBlock THEN Offset(headIndex) ELSE 0
        lastValidIndex == IF Offset(tailIndex) = 0 THEN BLOCK_SIZE ELSE Offset(tailIndex)
    IN  {d \in Ring \X Offsets :
            /\ ~is_empty(d[1])
            /\ from(d[1]) <= d[2]
            /\ d[1] = tailBlock => d[2] < lastValidIndex}
==============================================================================
