----------------------------- MODULE ProducerBase -----------------------------
(***************************************************************************)
(* A sub-queue of moodycamel::ConcurrentQueue (concurrentqueue.h), as far  *)
(* as explicit and implicit producers share it: one thread enqueues, any   *)
(* number dequeue.  Consumers agree on who gets which element with three   *)
(* counters: dequeueOptimisticCount is raised before it is known whether   *)
(* there is an element, dequeueOvercommit takes back what was raised in    *)
(* vain, and headIndex hands out the elements.                             *)
(*                                                                         *)
(* An element is named by its index.  Indices are IndexSize wide and wrap  *)
(* around, so that the state space is finite without a bound on the number *)
(* of elements.  dequeue takes the steps of dequeue_bulk with max = 1.     *)
(* An assignment that throws while an element is moved out changes nothing *)
(* here: the handlers destroy and release what is left in the same order.  *)
(* Allocations may fail at any time, so the try_ variants, which may not   *)
(* allocate, need no steps of their own.                                   *)
(***************************************************************************)
EXTENDS Integers, FiniteSets, Sequences

CONSTANTS
    Consumers,
    Blocks,             \* the blocks of the pool this producer draws on
    NoBlock,            \* nullptr
    BLOCK_SIZE,
    IndexSize,          \* number of values of index_t
    MAX_SUBQUEUE_SIZE,
    Counts,             \* the counts enqueue_bulk is called with
    MaxDemand,          \* the largest maximum dequeue_bulk is called with
    MaxLag,             \* bound: what others take back between a consumer's load of
                        \* dequeueOvercommit and its claim
    MaxSpan             \* bound: indices between the oldest element that is not
                        \* released and the newest

ASSUME BlockSizeAssumption ==
    /\ BLOCK_SIZE \in Nat \ {0, 1}
    /\ IndexSize \in Nat /\ IndexSize % (2 * BLOCK_SIZE) = 0
    /\ MAX_SUBQUEUE_SIZE \in 0..(IndexSize - 1)
    /\ MAX_SUBQUEUE_SIZE % BLOCK_SIZE = 0 \/ MAX_SUBQUEUE_SIZE = IndexSize - 1
    /\ NoBlock \notin Blocks
\* A bulk takes at most a quarter of the range of index_t; what the consumers can
\* have claimed, or taken back, at one time takes at most half of it.
ASSUME CountsAssumption == Counts \subseteq 1..(IndexSize \div 4)
ASSUME SpanAssumption == MaxSpan \in 0..(IndexSize \div 2)
ASSUME ClaimsAssumption ==
    /\ IsFiniteSet(Consumers) /\ MaxDemand \in Nat /\ MaxLag \in Nat
    /\ Cardinality(Consumers) * MaxDemand + MaxLag <= IndexSize \div 2

Index == 0..(IndexSize - 1)
Offsets == 0..(BLOCK_SIZE - 1)
None == -1      \* no element in a cell

\* Unsigned arithmetic.
Plus(a, b) == (a + b) % IndexSize
Minus(a, b) == (a - b) % IndexSize
Smaller(a, b) == IF a < b THEN a ELSE b
circular_less_than(a, b) == Minus(a, b) > IndexSize \div 2
Offset(i) == i % BLOCK_SIZE
Base(i) == i - Offset(i)

VARIABLES
    isExplicit,
    tailIndex,
    headIndex,
    dequeueOptimisticCount,
    dequeueOvercommit,
    tailBlock,
    blockIndex,     \* the block index headers, the current one last
    cell,           \* the element in each cell of each block
    emptied,        \* the cells of each block that consumers have released
    freeBlocks,     \* the pool: blocks that requisition_block can return
    call,           \* local variables of each consumer's dequeue
    prod,           \* local variables of the producer's enqueue
    undone          \* history: an explicit producer has taken back an enqueue
                    \* after it had linked blocks for it

counters == <<tailIndex, headIndex, dequeueOptimisticCount, dequeueOvercommit>>
storage == <<cell, emptied, freeBlocks>>

NoCall == [pc |-> "idle", overcommit |-> 0, desiredCount |-> 0, myDequeueCount |-> 0,
           count |-> 0, index |-> 0, header |-> 0, slot |-> 0, block |-> NoBlock]

NoEnqueue == [pc |-> "idle", count |-> 0, bulk |-> FALSE,
              startBlock |-> NoBlock, chain |-> <<>>, front |-> 0, slots |-> 0]

BaseInit ==
    /\ isExplicit \in BOOLEAN
    /\ tailIndex = 0 /\ headIndex = 0
    /\ dequeueOptimisticCount = 0 /\ dequeueOvercommit = 0
    /\ tailBlock = NoBlock
    /\ cell = [b \in Blocks |-> [o \in Offsets |-> None]]
    /\ emptied = [b \in Blocks |-> {}]
    /\ freeBlocks = Blocks
    /\ call = [c \in Consumers |-> NoCall]
    /\ prod = NoEnqueue
    /\ undone = FALSE

Header == blockIndex[Len(blockIndex)]

-----------------------------------------------------------------------------
(* dequeue and dequeue_bulk, up to the index of the elements *)

SetCall(c, from, to) == call[c].pc = from /\ call' = [call EXCEPT ![c] = to]

\* The loads of tailIndex, dequeueOvercommit and dequeueOptimisticCount.  They
\* are taken at the instant of the second: an older tail and a newer count only
\* make desiredCount smaller, as a smaller max does.
Look(c, max) ==
    LET available == Minus(tailIndex, Minus(dequeueOptimisticCount, dequeueOvercommit))
    IN  /\ circular_less_than(0, available)
        /\ SetCall(c, "idle", [NoCall EXCEPT !.pc = "claim",
                                             !.overcommit = dequeueOvercommit,
                                             !.desiredCount = Smaller(available, max)])
        /\ UNCHANGED <<counters, storage>>

\* dequeueOptimisticCount.fetch_add(desiredCount)
Claim(c) ==
    /\ SetCall(c, "claim", [call[c] EXCEPT !.pc = "recheck",
                                           !.myDequeueCount = dequeueOptimisticCount])
    /\ dequeueOptimisticCount' = Plus(dequeueOptimisticCount, call[c].desiredCount)
    /\ UNCHANGED <<tailIndex, headIndex, dequeueOvercommit, storage>>

\* Mutant: the claim is compared without what was taken back of earlier ones.
ActualOptimist(k) == Minus(tailIndex, k.myDequeueCount) + k.desiredCount

\* What the claim k is worth, given the current tail.
Actual(k) == Minus(tailIndex, Minus(k.myDequeueCount, k.overcommit))

\* How many of the claimed elements exist.
Existing(k) ==
    IF circular_less_than(0, Actual(k)) THEN Smaller(k.desiredCount, Actual(k)) ELSE 0

\* Mutant: the head is raised by one, as in dequeue, whatever has been taken.
TakeFromOne(c, pc, count) ==
    /\ SetCall(c, pc, [NoCall EXCEPT !.pc = "load", !.count = count, !.index = headIndex])
    /\ headIndex' = Plus(headIndex, 1)
    /\ UNCHANGED <<tailIndex, dequeueOptimisticCount, dequeueOvercommit, storage>>

\* headIndex.fetch_add(actualCount)
TakeFrom(c, pc, count) ==
    /\ SetCall(c, pc, [NoCall EXCEPT !.pc = "load", !.count = count, !.index = headIndex])
    /\ headIndex' = Plus(headIndex, count)
    /\ UNCHANGED <<tailIndex, dequeueOptimisticCount, dequeueOvercommit, storage>>

\* The second load of tailIndex shows that all the claimed elements exist: as
\* the tail only moves on, the load may be taken at the instant they are taken.
TakeAll(c) ==
    Existing(call[c]) = call[c].desiredCount /\ TakeFrom(c, "recheck", call[c].desiredCount)

\* It shows that they do not.
Recheck(c) ==
    /\ Existing(call[c]) < call[c].desiredCount
    /\ SetCall(c, "recheck", [call[c] EXCEPT !.pc = "overcommit", !.count = Existing(call[c]),
                                             !.overcommit = 0, !.myDequeueCount = 0])
    /\ UNCHANGED <<counters, storage>>

\* What has been taken back since the consumer of call k loaded dequeueOvercommit.
Lag(k) == Minus(dequeueOvercommit, k.overcommit)

\* dequeueOvercommit.fetch_add: what was claimed in vain.
Overcommit(c) ==
    LET k == call[c]
    IN  /\ \A d \in Consumers : call[d].pc = "claim" =>
              Lag(call[d]) + k.desiredCount - k.count <= MaxLag
        /\ SetCall(c, "overcommit", IF k.count = 0 THEN NoCall
                                    ELSE [NoCall EXCEPT !.pc = "take", !.count = k.count])
        /\ dequeueOvercommit' = Plus(dequeueOvercommit, k.desiredCount - k.count)
        /\ UNCHANGED <<tailIndex, headIndex, dequeueOptimisticCount, storage>>

Take(c) == TakeFrom(c, "take", call[c].count)

\* blockIndex.load(), and the slot of the newest entry of that index: an index
\* that has been replaced does not change any more.
Load(c) ==
    /\ SetCall(c, "load", [call[c] EXCEPT !.pc = "locate", !.header = Len(blockIndex),
                                          !.slot = Header.front])
    /\ UNCHANGED <<counters, storage>>

-----------------------------------------------------------------------------
(* the elements of one block *)

\* How many of the consumer's elements are in the block of its index.
InBlock(k) == Smaller(k.count, BLOCK_SIZE - Offset(k.index))
PartOffsets(k) == Offset(k.index)..(Offset(k.index) + InBlock(k) - 1)

\* The elements of this call in block b are moved out and destroyed.
MoveOut(c, b) ==
    /\ SetCall(c, "move", [call[c] EXCEPT !.pc = "release", !.block = b])
    /\ cell' = [cell EXCEPT ![b] = [o \in Offsets |->
                   IF o \in PartOffsets(call[c]) THEN None ELSE @[o]]]
    /\ UNCHANGED <<counters, emptied, freeBlocks>>

\* The next block of the call, if any.
Advance(k, size) ==
    IF k.count = InBlock(k) THEN NoCall
    ELSE [k EXCEPT !.pc = "move", !.count = @ - InBlock(k), !.block = NoBlock,
                   !.index = Plus(@, InBlock(k)), !.slot = (@ + 1) % size]

is_empty(b) == emptied[b] = Offsets

\* set_many_empty: the cells of the call in its block are released.
SetManyEmpty(k) == emptied' = [emptied EXCEPT ![k.block] = @ \cup PartOffsets(k)]

-----------------------------------------------------------------------------
(* enqueue and enqueue_bulk: what both kinds of producer do *)

\* Mutant: the block that is to be added is not counted.
FullLate(current) ==
    \/ ~circular_less_than(headIndex, Plus(current, BLOCK_SIZE))
    \/ MAX_SUBQUEUE_SIZE < Minus(current, headIndex)

\* Whether a block that starts at index current would exceed the limits.
Full(current) ==
    \/ ~circular_less_than(headIndex, Plus(current, BLOCK_SIZE))
    \/ /\ MAX_SUBQUEUE_SIZE # IndexSize - 1
       /\ \/ MAX_SUBQUEUE_SIZE = 0
          \/ MAX_SUBQUEUE_SIZE - BLOCK_SIZE < Minus(current, headIndex)

\* How many blocks an enqueue of count elements has to start, and the base of
\* the next one when it has got those in chain.
NewBlocks(count) ==
    Minus(Base(Plus(tailIndex, count - 1)), Base(Minus(tailIndex, 1))) \div BLOCK_SIZE
NextBase(chain) == Plus(Base(Minus(tailIndex, 1)), BLOCK_SIZE * (Len(chain) + 1))

Need == NewBlocks(prod.count) - Len(prod.chain)

SetProd(from, to) == prod.pc = from /\ prod' = to

\* The block that index i of the enqueue goes to: the one the producer was in,
\* or one of those it has just got.
BlockOf(i) ==
    LET k == Minus(Base(i), Base(tailIndex)) \div BLOCK_SIZE
             + (IF Offset(tailIndex) = 0 THEN 1 ELSE 0)
    IN  IF k = 0 THEN prod.startBlock ELSE prod.chain[k]

NewIndices == {Plus(tailIndex, n) : n \in 0..(prod.count - 1)}

\* The elements of the enqueue are constructed.
Construct ==
    cell' = [b \in Blocks |-> [o \in Offsets |->
                LET own == {i \in NewIndices : BlockOf(i) = b /\ Offset(i) = o}
                IN  IF own = {} THEN cell[b][o] ELSE CHOOSE i \in own : TRUE]]

\* tailIndex.store: the elements exist.
Publish ==
    /\ SetProd("publish", NoEnqueue)
    /\ tailIndex' = Plus(tailIndex, prod.count)
    /\ UNCHANGED <<headIndex, dequeueOptimisticCount, dequeueOvercommit, storage, call,
                   tailBlock, blockIndex, undone>>
==============================================================================
