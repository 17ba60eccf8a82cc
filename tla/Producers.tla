------------------------------- MODULE Producers -------------------------------
(***************************************************************************)
(* How a thread of moodycamel::ConcurrentQueue comes by its producer.      *)
(*                                                                         *)
(* A thread that enqueues without a token finds its implicit producer in a *)
(* lock-free hash table under its thread id, or adds one.  A table that    *)
(* is getting full is succeeded by a larger one, the old ones stay as      *)
(* links of a chain, and threads that loaded an old one go on adding to    *)
(* it.  A ProducerToken owns an explicit producer; the producer of a token *)
(* that was destroyed is recycled.  All producers are on one list, which   *)
(* consumers scan and which only grows.                                    *)
(*                                                                         *)
(* Slots are never freed (MOODYCAMEL_CPP11_THREAD_LOCAL_SUPPORTED is off), *)
(* and a thread's id is written by that thread only, so a probe sequence   *)
(* ends where it would end if it were one step: it is one here.  So is the *)
(* loop that links a producer, which nobody sees before it has succeeded.  *)
(***************************************************************************)
EXTENDS Integers, FiniteSets, Sequences

CONSTANTS
    Threads,
    HashOf(_),          \* hash_thread_id
    Tokens,             \* the ProducerToken objects of the program
    NoToken, NoThread,  \* nullptr, invalid_thread_id
    INITIAL_IMPLICIT_PRODUCER_HASH_SIZE,
    MaxProducers,       \* bound: producers there is memory for
    MaxFailures         \* bound: allocations that fail though there is memory

ASSUME HashAssumption ==
    /\ IsFiniteSet(Threads) /\ NoThread \notin Threads /\ NoToken \notin Tokens
    /\ \A t \in Threads : HashOf(t) \in Nat
    /\ INITIAL_IMPLICIT_PRODUCER_HASH_SIZE \in Nat \ {0}
    /\ MaxProducers \in Nat /\ MaxFailures \in Nat

Null == 0
Producers == 1..MaxProducers

VARIABLES
    implicitProducerHash,       \* the chain of hash tables, the main one last
    implicitProducerHashCount,
    resizeInProgress,
    explicit,       \* whether each producer that was created is an explicit one
    producerList,   \* the producers, the tail of the list last
    producerCount,
    inactive,       \* producers to be recycled
    tokenOf,        \* the token each producer refers to
    producerOf,     \* the producer of each token object
    alive,          \* the token objects that exist
    call,           \* the local variables of each thread
    result,         \* history: the implicit producer each thread enqueues to
    failures        \* bound: allocations that have failed

hashVars == <<implicitProducerHash, implicitProducerHashCount, resizeInProgress>>
listVars == <<explicit, producerList, producerCount>>
tokenVars == <<inactive, tokenOf, producerOf, alive>>
vars == <<hashVars, listVars, tokenVars, call, result, failures>>

NoCall == [pc |-> "idle", token |-> NoToken, mainHash |-> 0, newCount |-> 0,
           position |-> 0, producer |-> Null]

EmptyTable(capacity) ==
    [capacity |-> capacity,
     entries |-> [i \in 0..(capacity - 1) |-> [key |-> NoThread, value |-> Null]]]

Init ==
    /\ implicitProducerHash = <<EmptyTable(INITIAL_IMPLICIT_PRODUCER_HASH_SIZE)>>
    /\ implicitProducerHashCount = 0
    /\ resizeInProgress = FALSE
    /\ explicit = <<>>
    /\ producerList = <<>>
    /\ producerCount = 0
    /\ inactive = {}
    /\ tokenOf = [p \in Producers |-> NoToken]
    /\ producerOf = [k \in Tokens |-> Null]
    /\ alive = {}
    /\ call = [t \in Threads |-> NoCall]
    /\ result = [t \in Threads |-> Null]
    /\ failures = 0

At(t, pc) == call[t].pc = pc
Goto(t, to) == call' = [call EXCEPT ![t] = to]

\* An allocation fails.
AllocationFails(memory) ==
    IF memory THEN failures < MaxFailures /\ failures' = failures + 1 ELSE UNCHANGED failures

-----------------------------------------------------------------------------
(* the hash tables *)

Table(i) == implicitProducerHash[i]

\* The slot at which the probe for t ends, if it ends: its own or an empty one.
Ends(h, t, n) == h.entries[(HashOf(t) + n) % h.capacity].key \in {t, NoThread}
Probe(h, t) ==
    LET n == CHOOSE n \in 0..(h.capacity - 1) :
                Ends(h, t, n) /\ \A m \in 0..(n - 1) : ~Ends(h, t, m)
    IN  (HashOf(t) + n) % h.capacity
ProbeEnds(h, t) == \E n \in 0..(h.capacity - 1) : Ends(h, t, n)

Holds(h, t) == ProbeEnds(h, t) /\ h.entries[Probe(h, t)].key = t

\* Table i with t's producer in it.
WithProducer(i, t, p) ==
    [implicitProducerHash EXCEPT ![i].entries[Probe(Table(i), t)] = [key |-> t, value |-> p]]

\* get_or_add_implicit_producer: the main table is loaded.
GetImplicit(t) ==
    /\ At(t, "idle")
    /\ Goto(t, [NoCall EXCEPT !.pc = "look", !.mainHash = Len(implicitProducerHash)])
    /\ UNCHANGED <<hashVars, listVars, tokenVars, result, failures>>

\* Mutant: the previous tables are not searched.
FoundInMain(t) == {i \in {call[t].mainHash} : Holds(Table(i), t)}

\* The tables of the chain, from the main one on, that hold t.
FoundIn(t) == {i \in 1..call[t].mainHash : Holds(Table(i), t)}

\* It is found; in an older table only, and it is added to the main one.
Found(t) ==
    /\ At(t, "look")
    /\ FoundIn(t) # {}
    /\ LET main == call[t].mainHash
           i == CHOOSE i \in FoundIn(t) : \A j \in FoundIn(t) : j <= i
           p == Table(i).entries[Probe(Table(i), t)].value
       IN  /\ IF i = main THEN UNCHANGED implicitProducerHash
              ELSE /\ ProbeEnds(Table(main), t)
                   /\ implicitProducerHash' = WithProducer(main, t, p)
           /\ result' = [result EXCEPT ![t] = p]
    /\ Goto(t, NoCall)
    /\ UNCHANGED <<implicitProducerHashCount, resizeInProgress, listVars, tokenVars, failures>>

\* Every table on the way ends the probe at an empty slot: a slot is reserved.
NotFound(t) ==
    /\ At(t, "look")
    /\ \A i \in 1..call[t].mainHash : ProbeEnds(Table(i), t) /\ i \notin FoundIn(t)
    /\ Goto(t, [call[t] EXCEPT !.pc = "room",
                                       !.newCount = implicitProducerHashCount + 1])
    /\ implicitProducerHashCount' = implicitProducerHashCount + 1
    /\ UNCHANGED <<implicitProducerHash, resizeInProgress, listVars, tokenVars, result,
                   failures>>

Half(h) == h.capacity \div 2

\* Mutant: a table may be filled to the last slot.
HasRoomFull(h, newCount) == newCount <= h.capacity

\* Less than three quarters full.
HasRoom(h, newCount) == newCount < Half(h) + h.capacity \div 4

\* The table is half full and nobody else is allocating one.
AcquireResize(t) ==
    /\ At(t, "room")
    /\ call[t].newCount >= Half(Table(call[t].mainHash))
    /\ ~resizeInProgress
    /\ Goto(t, [call[t] EXCEPT !.pc = "resize", !.mainHash = Len(implicitProducerHash)])
    /\ resizeInProgress' = TRUE
    /\ UNCHANGED <<implicitProducerHash, implicitProducerHashCount, listVars, tokenVars,
                   result, failures>>

\* After the resize, or without one: add to the table, or wait for a larger one.
AfterResize(t, main) ==
    IF HasRoom(Table(main), call[t].newCount)
    THEN [call[t] EXCEPT !.pc = "scan", !.mainHash = main]
    ELSE [call[t] EXCEPT !.pc = "room", !.mainHash = Len(implicitProducerHash)]

NoResize(t) ==
    /\ At(t, "room")
    /\ call[t].newCount < Half(Table(call[t].mainHash)) \/ resizeInProgress
    /\ Goto(t, AfterResize(t, call[t].mainHash))
    /\ UNCHANGED <<hashVars, listVars, tokenVars, result, failures>>

\* Twice the capacity, and twice that as long as the count is not below a half
\* of it: this ends with capacity.
NewCapacity(h, newCount, capacity) ==
    /\ \E e \in 1..(newCount + 1) : capacity = h.capacity * 2^e
    /\ newCount < capacity \div 2
    /\ capacity = 2 * h.capacity \/ newCount >= capacity \div 4

Outgrown(t) == call[t].newCount >= Half(Table(call[t].mainHash))

\* The larger table becomes the main one.
Resize(t) ==
    /\ At(t, "resize")
    /\ Outgrown(t)
    /\ Goto(t, [call[t] EXCEPT !.pc = "unlock",
                                         !.mainHash = Len(implicitProducerHash) + 1])
    /\ LET h == Table(call[t].mainHash)
       IN  \E capacity \in (2 * h.capacity)..(2 * h.capacity + 4 * call[t].newCount) :
              /\ NewCapacity(h, call[t].newCount, capacity)
              /\ implicitProducerHash' = Append(implicitProducerHash, EmptyTable(capacity))
    /\ UNCHANGED <<implicitProducerHashCount, resizeInProgress, listVars, tokenVars, result,
                   failures>>

\* Mutant: the lock is not released.
ResizeFailsLocked(t) ==
    /\ At(t, "resize")
    /\ Outgrown(t)
    /\ AllocationFails(TRUE)
    /\ Goto(t, NoCall)
    /\ implicitProducerHashCount' = implicitProducerHashCount - 1
    /\ UNCHANGED <<implicitProducerHash, resizeInProgress, listVars, tokenVars, result>>

\* There is no memory for it: the reservation is taken back.
ResizeFails(t) ==
    /\ At(t, "resize")
    /\ Outgrown(t)
    /\ AllocationFails(TRUE)
    /\ Goto(t, NoCall)
    /\ implicitProducerHashCount' = implicitProducerHashCount - 1
    /\ resizeInProgress' = FALSE
    /\ UNCHANGED <<implicitProducerHash, listVars, tokenVars, result>>

\* Somebody else has just allocated a larger one.
ResizeNeedless(t) ==
    /\ At(t, "resize")
    /\ ~Outgrown(t)
    /\ Goto(t, [call[t] EXCEPT !.pc = "unlock"])
    /\ UNCHANGED <<hashVars, listVars, tokenVars, result, failures>>

Unlock(t) ==
    /\ At(t, "unlock")
    /\ Goto(t, AfterResize(t, call[t].mainHash))
    /\ resizeInProgress' = FALSE
    /\ UNCHANGED <<implicitProducerHash, implicitProducerHashCount, listVars, tokenVars,
                   result, failures>>

-----------------------------------------------------------------------------
(* recycle_or_create_producer; implicit producers are never inactive *)

IsImplicit(t) == call[t].token = NoToken

\* The next explicit producer of the list before position i.
CandidateBefore(i) ==
    LET S == {j \in 1..(i - 1) : explicit[producerList[j]]}
    IN  IF S = {} THEN 0 ELSE CHOOSE j \in S : \A k \in S : k <= j

\* ProducerToken(queue): the tail of the list is loaded.
NewToken(t, k) ==
    /\ At(t, "idle")
    /\ k \notin alive
    /\ \A u \in Threads : call[u].token # k
    /\ Goto(t, [NoCall EXCEPT !.pc = "scan", !.token = k,
                                      !.position = CandidateBefore(Len(producerList) + 1)])
    /\ UNCHANGED <<hashVars, listVars, tokenVars, result, failures>>

\* Mutant: an active producer is taken.
RecyclableAny(p) == TRUE

\* The exchange of inactive with false succeeds.
Recyclable(p) == p \in inactive

\* The token gets its producer.
GiveToken(t, p) ==
    /\ producerOf' = [producerOf EXCEPT ![call[t].token] = p]
    /\ tokenOf' = IF p = Null THEN tokenOf ELSE [tokenOf EXCEPT ![p] = call[t].token]
    /\ alive' = alive \cup {call[t].token}

Recycle(t) ==
    LET p == producerList[call[t].position]
    IN  /\ At(t, "scan")
        /\ call[t].position # 0
        /\ Recyclable(p)
        /\ inactive' = inactive \ {p}
        /\ GiveToken(t, p)
        /\ Goto(t, NoCall)
        /\ UNCHANGED <<hashVars, listVars, result, failures>>

PassBy(t) ==
    /\ At(t, "scan")
    /\ call[t].position # 0
    /\ ~Recyclable(producerList[call[t].position])
    /\ Goto(t, [call[t] EXCEPT !.position = CandidateBefore(@)])
    /\ UNCHANGED <<hashVars, listVars, tokenVars, result, failures>>

\* Mutant: an implicit producer is not linked.
CreateUnlinked(t) ==
    /\ At(t, "scan")
    /\ call[t].position = 0
    /\ Len(explicit) < MaxProducers
    /\ Goto(t, [call[t] EXCEPT !.pc = IF IsImplicit(t) THEN "insert" ELSE "link",
                                       !.producer = Len(explicit) + 1])
    /\ explicit' = Append(explicit, ~IsImplicit(t))
    /\ producerCount' = producerCount + 1
    /\ UNCHANGED <<hashVars, producerList, tokenVars, result, failures>>

\* create, and the first step of add_producer.
Create(t) ==
    /\ At(t, "scan")
    /\ call[t].position = 0
    /\ Len(explicit) < MaxProducers
    /\ Goto(t, [call[t] EXCEPT !.pc = "link", !.producer = Len(explicit) + 1])
    /\ explicit' = Append(explicit, ~IsImplicit(t))
    /\ producerCount' = producerCount + 1
    /\ UNCHANGED <<hashVars, producerList, tokenVars, result, failures>>

\* Mutant: the reservation is kept.
CreateFailsKeeps(t) ==
    /\ At(t, "scan")
    /\ call[t].position = 0
    /\ AllocationFails(Len(explicit) < MaxProducers)
    /\ Goto(t, NoCall)
    /\ IF IsImplicit(t) THEN UNCHANGED tokenVars ELSE GiveToken(t, Null) /\ UNCHANGED inactive
    /\ UNCHANGED <<hashVars, listVars, result>>

\* create returns nullptr: the token is invalid, or the reservation is taken back.
CreateFails(t) ==
    /\ At(t, "scan")
    /\ call[t].position = 0
    /\ AllocationFails(Len(explicit) < MaxProducers)
    /\ Goto(t, NoCall)
    /\ IF IsImplicit(t)
       THEN /\ implicitProducerHashCount' = implicitProducerHashCount - 1
            /\ UNCHANGED tokenVars
       ELSE GiveToken(t, Null) /\ UNCHANGED <<implicitProducerHashCount, inactive>>
    /\ UNCHANGED <<implicitProducerHash, resizeInProgress, listVars, result>>

\* The producer is linked; the token has it, or it still has to go into the table.
LinkProducer(t) ==
    /\ At(t, "link")
    /\ producerList' = Append(producerList, call[t].producer)
    /\ IF IsImplicit(t)
       THEN Goto(t, [call[t] EXCEPT !.pc = "insert"]) /\ UNCHANGED tokenVars
       ELSE /\ Goto(t, NoCall)
            /\ GiveToken(t, call[t].producer)
            /\ UNCHANGED inactive
    /\ UNCHANGED <<hashVars, explicit, producerCount, result, failures>>

\* The first empty slot of the table that was chosen is claimed for the thread.
InsertProducer(t) ==
    /\ At(t, "insert")
    /\ ProbeEnds(Table(call[t].mainHash), t)
    /\ Goto(t, NoCall)
    /\ implicitProducerHash' = WithProducer(call[t].mainHash, t, call[t].producer)
    /\ result' = [result EXCEPT ![t] = call[t].producer]
    /\ UNCHANGED <<implicitProducerHashCount, resizeInProgress, listVars, tokenVars, failures>>

-----------------------------------------------------------------------------
(* tokens *)

\* A token nobody is constructing or destroying.
Settled(k) == k \in alive /\ \A t \in Threads : call[t].token # k

\* ProducerToken(ProducerToken&& other)
MoveToken(k, other) ==
    /\ k \notin alive /\ Settled(other)
    /\ \A t \in Threads : call[t].token # k
    /\ producerOf' = [producerOf EXCEPT ![k] = producerOf[other], ![other] = Null]
    /\ tokenOf' = IF producerOf[other] = Null THEN tokenOf
                  ELSE [tokenOf EXCEPT ![producerOf[other]] = k]
    /\ alive' = alive \cup {k}
    /\ UNCHANGED <<hashVars, listVars, inactive, call, result, failures>>

\* Mutant: the producers are not told.
SwappedOnlyTokens(k, other) == tokenOf

\* What the producers refer to when two tokens have been swapped.
Swapped(k, other) ==
    [p \in Producers |-> CASE p = producerOf[k] -> other
                           [] p = producerOf[other] -> k
                           [] OTHER -> tokenOf[p]]

\* swap, and move assignment
SwapTokens(k, other) ==
    /\ k # other /\ Settled(k) /\ Settled(other)
    /\ producerOf' = [producerOf EXCEPT ![k] = producerOf[other], ![other] = producerOf[k]]
    /\ tokenOf' = Swapped(k, other)
    /\ UNCHANGED <<hashVars, listVars, inactive, alive, call, result, failures>>

\* Mutant: the producer is given up before its token is reset.
DestroyTokenEarly(t, k) ==
    /\ At(t, "idle")
    /\ Settled(k)
    /\ Goto(t, [NoCall EXCEPT !.pc = "retire", !.token = k,
                                      !.producer = producerOf[k]])
    /\ inactive' = IF producerOf[k] = Null THEN inactive ELSE inactive \cup {producerOf[k]}
    /\ UNCHANGED <<hashVars, listVars, producerOf, alive, tokenOf, result, failures>>

\* ~ProducerToken: first the producer forgets its token ...
DestroyToken(t, k) ==
    /\ At(t, "idle")
    /\ Settled(k)
    /\ Goto(t, [NoCall EXCEPT !.pc = "retire", !.token = k,
                                      !.producer = producerOf[k]])
    /\ tokenOf' = IF producerOf[k] = Null THEN tokenOf
                  ELSE [tokenOf EXCEPT ![producerOf[k]] = NoToken]
    /\ UNCHANGED <<hashVars, listVars, producerOf, alive, inactive, result, failures>>

\* Mutant: whether the token is valid is not looked at.
RetireUnchecked(t) ==
    /\ At(t, "retire")
    /\ Goto(t, NoCall)
    /\ inactive' = inactive \cup {call[t].producer}
    /\ producerOf' = [producerOf EXCEPT ![call[t].token] = Null]
    /\ alive' = alive \ {call[t].token}
    /\ UNCHANGED <<hashVars, listVars, tokenOf, result, failures>>

\* ... and then it may be recycled.
Retire(t) ==
    /\ At(t, "retire")
    /\ Goto(t, NoCall)
    /\ inactive' = IF call[t].producer = Null THEN inactive
                   ELSE inactive \cup {call[t].producer}
    /\ producerOf' = [producerOf EXCEPT ![call[t].token] = Null]
    /\ alive' = alive \ {call[t].token}
    /\ UNCHANGED <<hashVars, listVars, tokenOf, result, failures>>

-----------------------------------------------------------------------------
Get(t) ==
    \/ Found(t) \/ NotFound(t) \/ AcquireResize(t) \/ NoResize(t) \/ Resize(t)
    \/ ResizeFails(t) \/ ResizeNeedless(t) \/ Unlock(t) \/ Create(t) \/ CreateFails(t)
    \/ Recycle(t) \/ PassBy(t) \/ LinkProducer(t) \/ InsertProducer(t) \/ Retire(t)

Next ==
    \/ \E t \in Threads : Get(t) \/ GetImplicit(t)
    \/ \E t \in Threads, k \in Tokens : NewToken(t, k) \/ DestroyToken(t, k)
    \/ \E k, other \in Tokens : MoveToken(k, other) \/ SwapTokens(k, other)

\* A thread that is inside a call goes on with it.
Spec == Init /\ [][Next]_vars /\ \A t \in Threads : WF_vars(Get(t))

-----------------------------------------------------------------------------
(* Properties *)

\* The range of every variable.
TypeOK ==
    /\ \A i \in DOMAIN implicitProducerHash :
          \A s \in 0..(Table(i).capacity - 1) :
             /\ Table(i).entries[s].key \in Threads \cup {NoThread}
             /\ Table(i).entries[s].value \in Producers \cup {Null}
    /\ implicitProducerHashCount \in Nat
    /\ resizeInProgress \in BOOLEAN
    /\ producerCount = Len(explicit) /\ Len(explicit) <= MaxProducers
    /\ inactive \subseteq {p \in DOMAIN explicit : explicit[p]}
    /\ tokenOf \in [Producers -> Tokens \cup {NoToken}]
    /\ producerOf \in [Tokens -> Producers \cup {Null}]
    /\ alive \subseteq Tokens
    /\ result \in [Threads -> Producers \cup {Null}]

Filled(h) == {s \in 0..(h.capacity - 1) : h.entries[s].key # NoThread}

\* "At least one slot is free in the hash table": every table of the chain that
\* is in use is less than three quarters full, whichever table each thread has
\* loaded, whatever reservations have been taken back, and although threads of
\* older tables are added later without a look at the count.  So no probe goes
\* round for ever.
SlotIsFree == \A i \in DOMAIN implicitProducerHash :
    Filled(Table(i)) # {} =>
        Cardinality(Filled(Table(i))) < Half(Table(i)) + Table(i).capacity \div 4

\* implicitProducerHashCount is the number of threads that have a slot or a
\* reservation: a failure on the way takes back exactly its own.
CountExact == implicitProducerHashCount = Cardinality({t \in Threads :
    \/ call[t].pc \in {"room", "resize", "unlock", "insert"}
    \/ call[t].pc \in {"scan", "link"} /\ IsImplicit(t)
    \/ \E i \in DOMAIN implicitProducerHash : Holds(Table(i), t)})

\* A thread enqueues to the same implicit producer for ever, whichever tables
\* it sees: this is what keeps its elements in order.
SameProducer == [][\A t \in Threads : result[t] # Null => result'[t] = result[t]]_vars

\* Producer p belongs to a thread, to a token, to whoever is about to hand it
\* over, or to nobody and is inactive; those are the ways it can be held.
Holders(p) ==
    {<<"thread", t>> : t \in {u \in Threads : result[u] = p}}
    \cup {<<"token", k>> : k \in {j \in alive : producerOf[j] = p}}
    \cup {<<"call", t>> : t \in {u \in Threads :
            call[u].pc \in {"link", "insert"} /\ call[u].producer = p}}
    \cup {<<"pool">> : x \in inactive \cap {p}}

\* One holder at a time: two threads never enqueue to one producer, which takes
\* one, and no producer is lost.
OneOwner == \A p \in DOMAIN explicit : Cardinality(Holders(p)) = 1

\* A producer and its token refer to each other, so that the destructor of the
\* queue invalidates every token that is left and no other.
TokensKnown == \A p \in DOMAIN explicit :
    /\ tokenOf[p] # NoToken => tokenOf[p] \in alive /\ producerOf[tokenOf[p]] = p
    /\ \A k \in alive : Settled(k) /\ producerOf[k] = p => tokenOf[p] = k

\* Who may use a producer is never in doubt, neither to the threads nor to the
\* tokens, although producers are recycled and tokens are moved and swapped.
Ownership == TypeOK /\ OneOwner /\ TokensKnown

\* Whoever has a producer can rely on consumers to find it: it is on the list,
\* once, and producerCount does not lag behind the list.
OnTheList ==
    /\ \A t \in Threads : result[t] # Null => \E i \in DOMAIN producerList : producerList[i] = result[t]
    /\ \A k \in alive : producerOf[k] # Null => \E i \in DOMAIN producerList : producerList[i] = producerOf[k]
    /\ \A i, j \in DOMAIN producerList : producerList[i] = producerList[j] => i = j
    /\ producerCount >= Len(producerList)

\* A call returns, though it may have to wait for the thread that allocates the
\* next table, and that thread may fail.
CallsReturn == \A t \in Threads : call[t].pc # "idle" ~> call[t].pc = "idle"
==============================================================================
