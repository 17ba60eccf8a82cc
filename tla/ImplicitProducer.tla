--------------------------- MODULE ImplicitProducer ---------------------------
(***************************************************************************)
(* The sub-queue of a thread that enqueues without a token.  A block that  *)
(* has been emptied goes back to the pool at once; the consumer that       *)
(* releases its last cell returns it.  The block index maps the base of a  *)
(* block to the block through entries that outlive a change of index.      *)
(*                                                                         *)
(* enqueue takes the steps of enqueue_bulk with count = 1.                 *)
(***************************************************************************)
EXTENDS ProducerBase

CONSTANT IMPLICIT_INITIAL_INDEX_SIZE

ASSUME ImplicitIndexAssumption == IMPLICIT_INITIAL_INDEX_SIZE \in Nat \ {0, 1}

INVALID_BLOCK_BASE == 1

VARIABLE entry      \* the entries, of every index so far; header.index refers to them

NewEntry == [key |-> INVALID_BLOCK_BASE, value |-> NoBlock]

\* The constructor; its allocation of an index may fail, and is not repeated.
ImplicitHeader ==
    [size |-> IMPLICIT_INITIAL_INDEX_SIZE, front |-> IMPLICIT_INITIAL_INDEX_SIZE - 1,
     index |-> [i \in 0..(IMPLICIT_INITIAL_INDEX_SIZE - 1) |-> i + 1]]

ImplicitEntries == [e \in 1..IMPLICIT_INITIAL_INDEX_SIZE |-> NewEntry]

\* get_block_index_index_for_index, with front as the tail that was loaded.
SlotOf(h, front, i) ==
    (front + Minus(Base(i), entry[h.index[front]].key) \div BLOCK_SIZE) % h.size

-----------------------------------------------------------------------------
(* dequeue: where the elements are, and the way of an emptied block *)

EntryOf(k) == blockIndex[k.header].index[k.slot]

ImplicitLocate(c) ==
    LET k == call[c]
    IN  /\ SetCall(c, "locate",
                   [k EXCEPT !.pc = "move",
                             !.slot = SlotOf(blockIndex[k.header], k.slot, k.index)])
        /\ UNCHANGED <<counters, storage, entry>>

ImplicitMove(c) ==
    /\ call[c].pc = "move"
    /\ MoveOut(c, entry[EntryOf(call[c])].value)
    /\ UNCHANGED entry

\* Mutant: every consumer of the block gives it back.
LastCellAny(k) == TRUE

\* set_many_empty returns true: these were the last cells of the block.
LastCell(k) == emptied[k.block] \cup PartOffsets(k) = Offsets

ImplicitRelease(c) ==
    LET k == call[c]
    IN  /\ SetCall(c, "release", IF LastCell(k) THEN [k EXCEPT !.pc = "erase"]
                                 ELSE Advance(k, blockIndex[k.header].size))
        /\ SetManyEmpty(k)
        /\ UNCHANGED <<counters, cell, freeBlocks, entry>>

\* entry->value.store(nullptr)
Erase(c) ==
    /\ SetCall(c, "erase", [call[c] EXCEPT !.pc = "free"])
    /\ entry' = [entry EXCEPT ![EntryOf(call[c])].value = NoBlock]
    /\ UNCHANGED <<counters, storage>>

\* add_block_to_free_list
Free(c) ==
    LET k == call[c]
    IN  /\ SetCall(c, "free", Advance(k, blockIndex[k.header].size))
        /\ freeBlocks' = freeBlocks \cup {k.block}
        /\ UNCHANGED <<counters, cell, emptied, entry>>

-----------------------------------------------------------------------------
(* enqueue and enqueue_bulk *)

\* The consumers with elements that have been taken and not yet released: one
\* that stalls makes the index grow with every block that is enqueued.
Holding == {c \in Consumers :
    call[c].pc \in {"load", "locate", "move", "release", "erase", "free"}}

Unreleased == {call[c].index : c \in Holding}

ImplicitEnqueue(count) ==
    /\ \A i \in Unreleased : Minus(Plus(tailIndex, count), i) <= MaxSpan
    /\ SetProd("idle", [NoEnqueue EXCEPT
                          !.pc = IF NewBlocks(count) > 0 THEN "insert" ELSE "construct",
                          !.count = count, !.startBlock = tailBlock])
    /\ UNCHANGED <<tailBlock, blockIndex, storage, entry>>

NextSlot(h) == (h.front + 1) % h.size

\* Mutant: an entry is taken to be free although its block is in use.
SlotFreeAlways(h) == TRUE

\* The slot after the newest entry was never used, or its block is gone.
SlotFree(h) ==
    LET e == entry[h.index[NextSlot(h)]]
    IN  e.key = INVALID_BLOCK_BASE \/ e.value = NoBlock

\* new_block_index: the old entries, oldest first, and as many new ones.
GrownIndex ==
    [size |-> 2 * Header.size, front |-> Header.size - 1,
     index |-> [i \in 0..(2 * Header.size - 1) |->
        IF i < Header.size THEN Header.index[(NextSlot(Header) + i) % Header.size]
        ELSE Len(entry) + 1 + i - Header.size]]

MoreEntries == entry \o [e \in 1..Header.size |-> NewEntry]

\* The next block's base goes in the next slot of h, the current header of index.
InsertIn(index, h, entries) ==
    /\ entry' = [entries EXCEPT ![h.index[NextSlot(h)]].key = NextBase(prod.chain)]
    /\ blockIndex' = [index EXCEPT ![Len(index)].front = NextSlot(h)]

\* insert_block_index_entry
Insert ==
    /\ SetProd("insert", [prod EXCEPT !.pc = "acquire"])
    /\ blockIndex # <<>>
    /\ ~Full(NextBase(prod.chain))
    /\ IF SlotFree(Header)
       THEN InsertIn(blockIndex, Header, entry)
       ELSE InsertIn(Append(blockIndex, GrownIndex), GrownIndex, MoreEntries)
    /\ UNCHANGED <<tailBlock, storage>>

\* Mutant: the tail of the index is left where it is.
RewindLess(n) == UNCHANGED blockIndex

\* rewind_block_index_tail, n times
Rewind(n) == blockIndex' = [blockIndex EXCEPT ![Len(blockIndex)].front = (@ - n) % Header.size]

\* The enqueue fails: the entries inserted for it, n of them, are taken back and
\* its blocks go back to the pool.
Revert(n) ==
    /\ prod' = NoEnqueue
    /\ IF n = 0 THEN UNCHANGED <<blockIndex, entry>>
       ELSE LET gone == {Header.index[(Header.front - i) % Header.size] : i \in 0..(n - 1)}
            IN  /\ Rewind(n)
                /\ entry' = [e \in DOMAIN entry |->
                               IF e \in gone THEN [entry[e] EXCEPT !.value = NoBlock]
                                             ELSE entry[e]]
    /\ freeBlocks' = freeBlocks \cup {prod.chain[i] : i \in DOMAIN prod.chain}
    /\ UNCHANGED <<tailBlock, cell, emptied>>

\* No room, or no memory for a larger index.
InsertFails == prod.pc = "insert" /\ Revert(Len(prod.chain))

\* A new block: its entry gets its value.
Acquire(b) ==
    /\ SetProd("acquire", [prod EXCEPT !.chain = Append(@, b),
                                       !.pc = IF Need = 1 THEN "construct" ELSE "insert"])
    /\ freeBlocks' = freeBlocks \ {b}
    /\ emptied' = [emptied EXCEPT ![b] = {}]
    /\ entry' = [entry EXCEPT ![Header.index[Header.front]].value = b]
    /\ UNCHANGED <<tailBlock, blockIndex, cell>>

\* requisition_block returns nullptr.
AcquireFails == prod.pc = "acquire" /\ Revert(Len(prod.chain) + 1)

ImplicitConstruct ==
    /\ SetProd("construct", [prod EXCEPT !.pc = "publish"])
    /\ Construct
    /\ tailBlock' = IF prod.chain = <<>> THEN tailBlock ELSE prod.chain[Len(prod.chain)]
    /\ UNCHANGED <<blockIndex, emptied, freeBlocks, entry>>

\* A constructor throws: what was constructed is destroyed again.
ImplicitThrow == prod.pc = "construct" /\ Revert(Len(prod.chain))

-----------------------------------------------------------------------------
(* the destructor *)

\* The block of an index that has not been dequeued.
BlockAt(i) == entry[Header.index[SlotOf(Header, Header.front, i)]].value

Remaining == {Plus(headIndex, n) : n \in 0..(Minus(tailIndex, headIndex) - 1)}

\* The cells whose elements ~ImplicitProducer destroys.
ImplicitDestroyed == {<<BlockAt(i), Offset(i)>> : i \in Remaining}

\* The blocks it gives back: those of the elements, and the tail block if it
\* may still have cells to use.
ImplicitFreed ==
    {BlockAt(i) : i \in Remaining}
    \cup (IF tailBlock # NoBlock /\ (Remaining # {} \/ Offset(tailIndex) # 0)
          THEN {tailBlock} ELSE {})
==============================================================================
