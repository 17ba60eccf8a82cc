------------------------------ MODULE BlockPool ------------------------------
(***************************************************************************)
(* Where the blocks of a moodycamel::ConcurrentQueue come from and go to   *)
(* (concurrentqueue.h): requisition_block tries the initial pool, then the *)
(* lock-free FreeList, then the allocator; a block that has been emptied   *)
(* is given to FreeList::add.  A list node carries a reference count and,  *)
(* in the top bit of the same word, SHOULD_BE_ON_FREELIST: the last thread *)
(* to drop its reference puts a marked node back on the list.              *)
(*                                                                         *)
(* One action per atomic operation.  The load of freeListRefs in try_get   *)
(* and the compare_exchange that follows are one action: the exchange only *)
(* succeeds on the value that was loaded, and when it fails the thread     *)
(* loads the head again, as if it had not begun.                           *)
(***************************************************************************)
EXTENDS Naturals, FiniteSets

CONSTANTS
    Threads,                \* threads that enqueue (take) and dequeue (give back)
    initialBlockPoolSize,   \* blocks created with the queue
    MaxBlocks,              \* bound: blocks the allocator can provide, those included
    MaxHeld                 \* bound: blocks a thread uses at a time

ASSUME PoolThreadsAssumption == IsFiniteSet(Threads)
ASSUME PoolSizeAssumption ==
    /\ initialBlockPoolSize \in Nat /\ MaxBlocks \in Nat /\ MaxHeld \in Nat
    /\ initialBlockPoolSize <= MaxBlocks

Blocks == 1..MaxBlocks
Null == 0

VARIABLES
    initialBlockPoolIndex,
    freeListHead,
    freeListNext,
    freeListRefs,   \* the reference count of each block
    shouldBe,       \* blocks whose SHOULD_BE_ON_FREELIST bit is set
    created,        \* blocks that exist
    owned,          \* the blocks each thread uses
    pc,
    head,           \* local head of try_get
    node,           \* local prevHead of try_get; the argument of add
    next,           \* local next of try_get; local head of add_knowing_...
    getting         \* threads inside try_get

pool == <<initialBlockPoolIndex, created>>
list == <<freeListHead, freeListNext, freeListRefs, shouldBe>>
locals == <<head, node, next, getting>>
vars == <<pool, list, owned, pc, locals>>

Init ==
    /\ initialBlockPoolIndex = 0
    /\ created = 1..initialBlockPoolSize
    /\ freeListHead = Null
    /\ freeListNext = [b \in Blocks |-> Null]
    /\ freeListRefs = [b \in Blocks |-> 0]
    /\ shouldBe = {}
    /\ owned = [t \in Threads |-> {}]
    /\ pc = [t \in Threads |-> "idle"]
    /\ head = [t \in Threads |-> Null]
    /\ node = [t \in Threads |-> Null]
    /\ next = [t \in Threads |-> Null]
    /\ getting = {}

Goto(t, from, to) == pc[t] = from /\ pc' = [pc EXCEPT ![t] = to]

\* t gets block b for its own use and its call is over.
Own(t, b) == owned' = [owned EXCEPT ![t] = @ \cup {b}]

\* Its local variables go out of scope.
Forget(t, local) == local' = [local EXCEPT ![t] = Null]

-----------------------------------------------------------------------------
(* requisition_block *)

Requisition(t) ==
    /\ Cardinality(owned[t]) < MaxHeld
    /\ Goto(t, "idle",
            IF initialBlockPoolIndex >= initialBlockPoolSize THEN "get" ELSE "pool")
    /\ UNCHANGED <<pool, list, owned, locals>>

\* Mutant: the index is loaded again instead of taken from the fetch_add.
TakeInitialStale(t) ==
    /\ Goto(t, "pool", "idle")
    /\ Own(t, initialBlockPoolSize)
    /\ initialBlockPoolIndex' = initialBlockPoolIndex + 1
    /\ UNCHANGED <<created, list, locals>>

TakeInitial(t) ==
    /\ pc[t] = "pool"
    /\ initialBlockPoolIndex' = initialBlockPoolIndex + 1
    /\ IF initialBlockPoolIndex < initialBlockPoolSize
       THEN Goto(t, "pool", "idle") /\ Own(t, initialBlockPoolIndex + 1)
       ELSE Goto(t, "pool", "get") /\ UNCHANGED owned
    /\ UNCHANGED <<created, list, locals>>

\* create<Block>(), or nullptr if the allocator fails or the caller said CannotAlloc.
Create(t) ==
    /\ Goto(t, "create", "idle")
    /\ \/ \E b \in Blocks \ created : created' = created \cup {b} /\ Own(t, b)
       \/ UNCHANGED <<created, owned>>
    /\ UNCHANGED <<initialBlockPoolIndex, list, locals>>

-----------------------------------------------------------------------------
(* FreeList::try_get *)

\* Where try_get goes on with h as its local head.
Loop(h) == IF h = Null THEN "create" ELSE "ref"

LoadHead(t) ==
    /\ Goto(t, "get", Loop(freeListHead))
    /\ head' = [head EXCEPT ![t] = freeListHead]
    /\ getting' = IF freeListHead = Null THEN getting \ {t} ELSE getting \cup {t}
    /\ UNCHANGED <<pool, list, owned, node, next>>

\* Mutant: a node that nobody references, not even the list, gets a reference.
AddRefAlways(t) ==
    /\ Goto(t, "ref", "next")
    /\ freeListRefs' = [freeListRefs EXCEPT ![head[t]] = @ + 1]
    /\ UNCHANGED <<pool, freeListHead, freeListNext, shouldBe, owned, locals>>

AddRef(t) ==
    /\ pc[t] = "ref"
    /\ IF freeListRefs[head[t]] = 0
       THEN Goto(t, "ref", "get") /\ UNCHANGED freeListRefs
       ELSE /\ Goto(t, "ref", "next")
            /\ freeListRefs' = [freeListRefs EXCEPT ![head[t]] = @ + 1]
    /\ UNCHANGED <<pool, freeListHead, freeListNext, shouldBe, owned, locals>>

LoadNext(t) ==
    /\ Goto(t, "next", "take")
    /\ next' = [next EXCEPT ![t] = freeListNext[head[t]]]
    /\ UNCHANGED <<pool, list, owned, head, node, getting>>

\* compare_exchange of the list's head: on failure head is what it saw.
Take(t) ==
    /\ pc[t] = "take"
    /\ IF freeListHead = head[t]
       THEN /\ Goto(t, "take", "taken")
            /\ freeListHead' = next[t]
            /\ UNCHANGED <<head, node>>
       ELSE /\ Goto(t, "take", "drop")
            /\ node' = [node EXCEPT ![t] = head[t]]
            /\ head' = [head EXCEPT ![t] = freeListHead]
            /\ UNCHANGED freeListHead
    /\ UNCHANGED <<pool, freeListNext, freeListRefs, shouldBe, owned, next, getting>>

\* fetch_sub(2): the thread's own reference and the list's.
Taken(t) ==
    /\ Goto(t, "taken", "idle")
    /\ freeListRefs' = [freeListRefs EXCEPT ![head[t]] = @ - 2]
    /\ Own(t, head[t])
    /\ getting' = getting \ {t}
    /\ Forget(t, head) /\ Forget(t, next)
    /\ UNCHANGED <<pool, freeListHead, freeListNext, shouldBe, node>>

\* Mutant: the node is left to others whatever its mark.
DropOnly(t) ==
    /\ Goto(t, "drop", Loop(head[t]))
    /\ freeListRefs' = [freeListRefs EXCEPT ![node[t]] = @ - 1]
    /\ getting' = IF head[t] = Null THEN getting \ {t} ELSE getting
    /\ Forget(t, node) /\ Forget(t, next)
    /\ UNCHANGED <<pool, freeListHead, freeListNext, shouldBe, owned, head>>

\* fetch_sub(1) after a failed exchange: the last one out puts a marked node back.
Drop(t) ==
    LET last == freeListRefs[node[t]] = 1 /\ node[t] \in shouldBe
    IN  /\ pc[t] = "drop"
        /\ Goto(t, "drop", IF last THEN "push" ELSE Loop(head[t]))
        /\ freeListRefs' = [freeListRefs EXCEPT ![node[t]] = @ - 1]
        /\ getting' = IF ~last /\ head[t] = Null THEN getting \ {t} ELSE getting
        /\ IF last THEN UNCHANGED node ELSE Forget(t, node)
        /\ Forget(t, next)
        /\ UNCHANGED <<pool, freeListHead, freeListNext, shouldBe, owned, head>>

-----------------------------------------------------------------------------
(* FreeList::add *)

\* add_block_to_free_list(b): the mark is set with fetch_add, and a node that
\* nobody references is put on the list at once.
Add(t, b) ==
    /\ b \in owned[t]
    /\ IF freeListRefs[b] = 0 /\ b \notin shouldBe
       THEN Goto(t, "idle", "push") /\ node' = [node EXCEPT ![t] = b]
       ELSE Goto(t, "idle", "idle") /\ UNCHANGED node
    /\ owned' = [owned EXCEPT ![t] = @ \ {b}]
    /\ shouldBe' = shouldBe \cup {b}
    /\ UNCHANGED <<pool, freeListHead, freeListNext, freeListRefs, head, next, getting>>

PushLoad(t) ==
    /\ Goto(t, "push", "store")
    /\ next' = [next EXCEPT ![t] = freeListHead]
    /\ UNCHANGED <<pool, list, owned, head, node, getting>>

PushStore(t) ==
    /\ Goto(t, "store", "setrefs")
    /\ freeListNext' = [freeListNext EXCEPT ![node[t]] = next[t]]
    /\ UNCHANGED <<pool, freeListHead, freeListRefs, shouldBe, owned, locals>>

\* freeListRefs.store(1): one reference, the list's, and no mark.
PushRefs(t) ==
    /\ Goto(t, "setrefs", "link")
    /\ freeListRefs' = [freeListRefs EXCEPT ![node[t]] = 1]
    /\ shouldBe' = shouldBe \ {node[t]}
    /\ UNCHANGED <<pool, freeListHead, freeListNext, owned, locals>>

\* Back to the caller: add returns, try_get goes on with its loop.
PushDone(t, from) ==
    /\ Goto(t, from, IF t \in getting THEN Loop(head[t]) ELSE "idle")
    /\ getting' = IF head[t] = Null THEN getting \ {t} ELSE getting
    /\ Forget(t, node) /\ Forget(t, next)

PushLink(t) ==
    /\ pc[t] = "link"
    /\ IF freeListHead = next[t]
       THEN /\ PushDone(t, "link")
            /\ freeListHead' = node[t]
       ELSE /\ Goto(t, "link", "unlink")
            /\ next' = [next EXCEPT ![t] = freeListHead]
            /\ UNCHANGED <<freeListHead, getting, node>>
    /\ UNCHANGED <<pool, freeListNext, freeListRefs, shouldBe, owned, head>>

\* Mutant: after a failed exchange the thread tries again although others
\* hold references.
PushUndoRetry(t) ==
    /\ Goto(t, "unlink", "store")
    /\ freeListRefs' = [freeListRefs EXCEPT ![node[t]] = @ - 1]
    /\ shouldBe' = shouldBe \cup {node[t]}
    /\ UNCHANGED <<pool, freeListHead, freeListNext, owned, locals>>

\* fetch_add(SHOULD_BE_ON_FREELIST - 1): try again if nobody else references
\* the node, or leave it, marked, to whoever does.
PushUndo(t) ==
    /\ pc[t] = "unlink"
    /\ IF freeListRefs[node[t]] = 1 /\ node[t] \notin shouldBe
       THEN Goto(t, "unlink", "store") /\ UNCHANGED <<getting, node, next>>
       ELSE PushDone(t, "unlink")
    /\ freeListRefs' = [freeListRefs EXCEPT ![node[t]] = @ - 1]
    /\ shouldBe' = shouldBe \cup {node[t]}
    /\ UNCHANGED <<pool, freeListHead, freeListNext, owned, head>>

-----------------------------------------------------------------------------
Next == \E t \in Threads :
    \/ Requisition(t) \/ TakeInitial(t) \/ Create(t)
    \/ LoadHead(t) \/ AddRef(t) \/ LoadNext(t) \/ Take(t) \/ Taken(t) \/ Drop(t)
    \/ \E b \in owned[t] : Add(t, b)
    \/ PushLoad(t) \/ PushStore(t) \/ PushRefs(t) \/ PushLink(t) \/ PushUndo(t)

Spec == Init /\ [][Next]_vars

-----------------------------------------------------------------------------
(* Properties *)

\* The range of every variable; in particular no reference count goes below
\* zero and the list only links blocks.
TypeOK ==
    /\ initialBlockPoolIndex \in Nat
    /\ created \subseteq Blocks
    /\ freeListHead \in Blocks \cup {Null}
    /\ freeListNext \in [Blocks -> Blocks \cup {Null}]
    /\ freeListRefs \in [Blocks -> Nat]
    /\ shouldBe \subseteq Blocks
    /\ owned \in [Threads -> SUBSET Blocks]
    /\ pc \in [Threads -> {"idle", "pool", "get", "create", "ref", "next", "take",
                           "taken", "drop", "push", "store", "setrefs", "link", "unlink"}]
    /\ head \in [Threads -> Blocks \cup {Null}]
    /\ node \in [Threads -> Blocks \cup {Null}]
    /\ next \in [Threads -> Blocks \cup {Null}]
    /\ getting \subseteq Threads

At(phases) == {t \in Threads : pc[t] \in phases}

\* The pointer first and the next pointers of S lead to blocks of S or nowhere.
Closed(S, first, succ) ==
    /\ first \in S \cup {Null}
    /\ \A b \in S : succ[b] \in S \cup {Null}

\* The blocks reachable from first: the smallest closed set.
Reach(first, succ) ==
    {b \in Blocks : \A S \in SUBSET Blocks : Closed(S, first, succ) => b \in S}

OnList == Reach(freeListHead, freeListNext)

PushSteps == {"push", "store", "setrefs", "link", "unlink"}
Pushed == {node[t] : t \in At(PushSteps)}

\* Blocks left, marked, to a thread that still references them.
Left == shouldBe \ Pushed

\* The places a block that was handed out can be in.
Places(b) ==
    Cardinality({t \in Threads : b \in owned[t]})
    + Cardinality({t \in At({"taken"}) : head[t] = b})
    + Cardinality({t \in At(PushSteps) : node[t] = b})
    + Cardinality({b} \cap OnList)
    + Cardinality({b} \cap Left)

\* Every block that exists and was handed out is in exactly one place: used by
\* one thread, on the list, being put there, or marked for somebody to put it
\* there.  So the pool neither loses a block nor gives it to two producers.
EveryBlockOnce == \A b \in created :
    Places(b) = IF b <= initialBlockPoolSize /\ b > initialBlockPoolIndex THEN 0 ELSE 1

\* The count of a block is the references the threads hold plus the list's.
\* When it is zero nobody can follow the block's next pointer, which is what
\* lets add change it.
RefsCounted == \A b \in Blocks :
    freeListRefs[b] =
        Cardinality({t \in At({"next", "take", "taken"}) : head[t] = b})
        + Cardinality({t \in At({"drop", "link", "unlink"}) : node[t] = b})
        + Cardinality({t \in At({"taken"}) : head[t] = b})
        + Cardinality({b} \cap OnList)

\* A marked block that is not on its way to the list is referenced by a thread
\* that will find the mark, and one that has just been taken off the list is
\* not marked: the assertion in try_get.
MarkedIsHeld ==
    /\ \A b \in Left : freeListRefs[b] > 0
    /\ \A t \in At({"taken"}) : head[t] \notin shouldBe
    /\ \A t \in Threads : owned[t] \cap shouldBe = {}

\* The reference counts and their marks are right at every step of add and
\* try_get, which is what FreeList needs not to suffer from ABA.
ReferencesSound == TypeOK /\ RefsCounted /\ MarkedIsHeld
==============================================================================
