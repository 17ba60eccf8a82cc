------------------------------- MODULE Producer -------------------------------
(***************************************************************************)
(* A sub-queue of either kind, with its producer and its consumers.        *)
(*                                                                         *)
(* An explicit producer that has undone an enqueue after linking blocks    *)
(* for it does not leave its block index as it was: Spec says nothing of   *)
(* what follows, UndoneSpec goes on.                                       *)
(***************************************************************************)
EXTENDS ExplicitProducer, ImplicitProducer

vars == <<isExplicit, counters, tailBlock, blockIndex, storage, call, prod, undone,
          explicitVars, entry>>

Init ==
    /\ BaseInit
    /\ ExplicitInit
    /\ blockIndex \in {<<>>, IF isExplicit THEN <<FirstHeader>> ELSE <<ImplicitHeader>>}
    /\ entry = IF isExplicit \/ blockIndex = <<>> THEN <<>> ELSE ImplicitEntries

ExplicitEnqueueStep ==
    \/ ExplicitEnqueue
    \/ \E count \in Counts : ExplicitEnqueueBulk(count)
    \/ Reuse \/ NoneAhead \/ RoomFails \/ BlockFails
    \/ \E b \in freeBlocks : NewBlock(b)
    \/ ExplicitConstruct \/ ExplicitThrow \/ StoreFront

ImplicitEnqueueStep ==
    \/ \E count \in Counts \cup {1} : ImplicitEnqueue(count)
    \/ Insert \/ InsertFails \/ AcquireFails
    \/ \E b \in freeBlocks : Acquire(b)
    \/ ImplicitConstruct \/ ImplicitThrow

\* Up to its elements a dequeue does not depend on the kind of producer.
CountersStep(c) ==
    \/ \E max \in 1..MaxDemand : Look(c, max)
    \/ Claim(c) \/ TakeAll(c) \/ Recheck(c) \/ Overcommit(c) \/ Take(c) \/ Load(c)

ExplicitDequeueStep(c) == Locate(c) \/ ExplicitMove(c) \/ ExplicitRelease(c)

ImplicitDequeueStep(c) ==
    ImplicitLocate(c) \/ ImplicitMove(c) \/ ImplicitRelease(c) \/ Erase(c) \/ Free(c)

Enqueuing ==
    \/ Publish /\ UNCHANGED <<explicitVars, entry>>
    \/ isExplicit /\ ExplicitEnqueueStep /\ UNCHANGED <<counters, call, entry>>
    \/ ~isExplicit /\ ImplicitEnqueueStep /\ UNCHANGED <<counters, call, explicitVars, undone>>

\* ProducerBase::dequeue and dequeue_bulk choose by isExplicit.
Dequeuing(c) ==
    /\ UNCHANGED <<tailBlock, blockIndex, prod, undone, explicitVars>>
    /\ \/ CountersStep(c) /\ UNCHANGED entry
       \/ isExplicit /\ ExplicitDequeueStep(c) /\ UNCHANGED entry
       \/ ~isExplicit /\ ImplicitDequeueStep(c)

Step == UNCHANGED isExplicit /\ (Enqueuing \/ \E c \in Consumers : Dequeuing(c))

Next == ~undone /\ Step

Spec == Init /\ [][Next]_vars
UndoneSpec == isExplicit = TRUE /\ Init /\ [][Step]_vars

-----------------------------------------------------------------------------
(* Properties *)

\* The range of every variable; in particular a block that is dequeued from is
\* never nullptr.
TypeOK ==
    /\ isExplicit \in BOOLEAN /\ undone \in BOOLEAN
    /\ {tailIndex, headIndex, dequeueOptimisticCount, dequeueOvercommit} \subseteq Index
    /\ tailBlock \in Blocks \cup {NoBlock}
    /\ cell \in [Blocks -> [Offsets -> Index \cup {None}]]
    /\ emptied \in [Blocks -> SUBSET Offsets]
    /\ freeBlocks \subseteq Blocks
    /\ nextBlock \in [Blocks -> Blocks \cup {NoBlock}]
    /\ pr_blockIndexSlotsUsed \in 0..pr_blockIndexSize
    /\ pr_blockIndexFront \in 0..(pr_blockIndexSize - 1)
    /\ \A c \in Consumers : call[c].pc \in {"release", "erase", "free"} =>
          call[c].block \in Blocks

\* The sum of the values of f: the size of a heap with f[s] items for each s.
Heap(f) == UNION {{s} \X (1..f[s]) : s \in DOMAIN f}
Total(f) == Cardinality(Heap(f))

Pending(c) == CASE call[c].pc \in {"recheck", "overcommit"} -> call[c].desiredCount
                [] call[c].pc = "take" -> call[c].count
                [] OTHER -> 0

Sure(c) == IF call[c].pc \in {"overcommit", "take"} THEN call[c].count ELSE 0

\* "Guaranteed to be at least one element to dequeue": the consumers that have
\* been promised elements will not take headIndex past the tail, whatever the
\* order in which they raise the counters, and whatever they raise in vain is
\* taken back in the end.
PromisesKept ==
    /\ Total([c \in Consumers |-> Sure(c)]) <= Minus(tailIndex, headIndex)
    /\ ~circular_less_than(tailIndex, headIndex)
    /\ Minus(dequeueOptimisticCount, dequeueOvercommit)
         = Plus(headIndex, Total([c \in Consumers |-> Pending(c)]))

\* The elements a consumer has taken, and those that exist or are being made.
TakenBy(c) == {Plus(call[c].index, n) : n \in 0..(call[c].count - 1)}
Coming == {Plus(headIndex, n) : n \in 0..(Minus(tailIndex, headIndex) + prod.count - 1)}

\* Every element goes to one consumer: what headIndex.fetch_add hands out has
\* been handed out to nobody else, will not be handed out again, and no new
\* element comes to the same index while somebody still has it, although
\* indices wrap around and consumers stall.
DistinctElements == \A c \in Holding :
    /\ TakenBy(c) \cap Coming = {}
    /\ \A d \in Holding \ {c} : TakenBy(c) \cap TakenBy(d) = {}

\* The block a consumer is about to move elements out of.
SourceBlock(k) == IF isExplicit THEN blockIndex[k.header].entries[k.slot].block
                                ELSE entry[EntryOf(k)].value

\* A consumer finds its own elements: while it looks for their block, the
\* producer may have overwritten or replaced the index it looks in and reused
\* or returned blocks, but not those.
ReadsOwnElements == \A c \in Consumers : call[c].pc = "move" =>
    LET b == SourceBlock(call[c])
    IN  /\ b \in Blocks
        /\ \A o \in PartOffsets(call[c]) :
              /\ cell[b][o] = Base(call[c].index) + o
              /\ o \notin emptied[b]

\* The producer stays inside its storage and its block index (TypeOK), and
\* constructs elements in blocks it owns and in cells that hold none: no
\* consumer is still moving an element out of them.
WritesFreeCells == TypeOK /\ (prod.pc = "construct" => \A i \in NewIndices :
    LET b == BlockOf(i)
    IN  /\ b \notin freeBlocks
        /\ cell[b][Offset(i)] = None
        /\ \A c \in Consumers : call[c].pc = "release" /\ call[c].block = b =>
              Offset(i) \notin PartOffsets(call[c]))

\* Nobody is inside a call: the destructor may run.
Quiescent == prod.pc = "idle" /\ \A c \in Consumers : call[c].pc = "idle"

Live == {d \in Blocks \X Offsets : cell[d[1]][d[2]] # None}

\* The destructor destroys the elements that were not dequeued, each once and
\* nothing else, and gives every block back that is not in the pool.
DestructorExact == Quiescent /\ ~undone =>
    IF isExplicit
    THEN ExplicitDestroyed = Live /\ Ring = Blocks \ freeBlocks
    ELSE ImplicitDestroyed = Live /\ ImplicitFreed = Blocks \ freeBlocks

\* MAX_SUBQUEUE_SIZE is kept.  (An explicit producer that reuses a block does
\* not look at it.)
WithinLimit == ~isExplicit => Minus(tailIndex, headIndex) <= MAX_SUBQUEUE_SIZE
==============================================================================
