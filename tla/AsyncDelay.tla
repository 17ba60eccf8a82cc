------------------------------ MODULE AsyncDelay ------------------------------
(***************************************************************************)
(* fes::async_delay (include/async_delay.h): a channel whose messages are  *)
(* delivered at a given time, the earliest first and the highest priority  *)
(* first among those of one time.                                          *)
(*                                                                         *)
(* The queue is a plain std::vector, so the module describes what the code *)
(* supports: one thread, which may run several coroutines.  Control passes *)
(* from one coroutine to another only where _get(yield) yields.  Calls can *)
(* still interleave in two ways: several coroutines are inside get(yield)  *)
(* at once, and a subscriber, which runs inside get(), may call the        *)
(* channel again or throw.                                                 *)
(***************************************************************************)
EXTENDS Integers, FiniteSets, Sequences

CONSTANTS
    Coroutines,     \* the coroutines of the thread; the main one is one of them
    Apis,           \* the receiving calls they make, a subset of AllApis
    Priorities,     \* priorities given to messages
    HandlerDelays,  \* a subscriber may post for the present time plus one of these
    HandlerActs,    \* what else a subscriber may do, a subset of {"get", "throw"}
    MaxTime,        \* bound: last instant of the clock
    MaxPosts,       \* bound: messages posted
    MaxDepth,       \* bound: nested calls of one coroutine
    MaxThrown       \* bound: subscribers that throw

AllApis == {"get", "get_yield", "update", "wait", "wait_yield"}
YieldApis == {"get_yield", "wait_yield"}

ASSUME CoroutinesAssumption == IsFiniteSet(Coroutines)
ASSUME ApisAssumption == Apis \subseteq AllApis
ASSUME NumbersAssumption ==
    Priorities \subseteq Int /\ HandlerDelays \subseteq Int
ASSUME BoundsAssumption ==
    /\ MaxTime \in Nat /\ MaxPosts \in Nat /\ MaxDepth \in Nat /\ MaxThrown \in Nat

VARIABLES
    now,            \* high_resolution_clock()
    queue,          \* _queue, whose back is the next message
    sem,            \* tokens of _sem
    cur,            \* the coroutine that is running
    stack,          \* per coroutine, its calls of _get, the innermost last
    posted,         \* history: messages posted
    thrown,         \* history: calls of _get left by an exception
    log             \* history: messages given to the subscribers, in order

vars == <<now, queue, sem, cur, stack, posted, thrown, log>>

\* A message that has been moved out of the queue leaves its shell behind, with
\* the time and the priority it had.
Moved == 0
Ids == 1..MaxPosts
Times == 0..MaxTime
Messages == [id : Ids \cup {Moved}, time : Int, prio : Int]

Phases == {"sem", "due", "call"}
Frames == [api : AllApis, phase : Phases]

Back == queue[Len(queue)]
Idle(c) == stack[c] = <<>>
Top(c) == stack[c][Len(stack[c])]
InPhase(c, phase) == ~Idle(c) /\ Top(c).phase = phase

Init ==
    /\ now = 0
    /\ queue = <<>>
    /\ sem = 0
    /\ cur \in Coroutines
    /\ stack = [c \in Coroutines |-> <<>>]
    /\ posted = 0
    /\ thrown = 0
    /\ log = <<>>

-----------------------------------------------------------------------------
(* operator() *)

\* Mutant: of two messages of one time the lower priority goes first.
message_comp_inverted(one, other) ==
    \/ one.time > other.time
    \/ one.time = other.time /\ one.prio > other.prio

\* message_comp: "first order by timestamp, after by priority".  What comes
\* later in this order is nearer to the back, hence delivered sooner.
message_comp(one, other) ==
    \/ one.time > other.time
    \/ one.time = other.time /\ one.prio < other.prio

IsSorted(q) == \A i, j \in DOMAIN q : i < j => ~message_comp(q[j], q[i])

\* std::sort: some sorted permutation; equivalent messages in any order.
Bijections(D) == {p \in [D -> D] : \A j \in D : \E i \in D : p[i] = j}
SortResults(q) ==
    {s \in {[i \in DOMAIN q |-> q[p[i]]] : p \in Bijections(DOMAIN q)} : IsSorted(s)}

\* Mutant: the message is appended and not sorted in.
PostUnsorted(priority, time) ==
    /\ posted < MaxPosts
    /\ posted' = posted + 1
    /\ queue' = Append(queue, [id |-> posted + 1, time |-> time, prio |-> priority])
    /\ sem' = sem + 1
    /\ UNCHANGED <<now, cur, stack, thrown, log>>

\* The body of operator(): append, sort, notify.
Post(priority, time) ==
    /\ posted < MaxPosts
    /\ posted' = posted + 1
    /\ queue' \in SortResults(
          Append(queue, [id |-> posted + 1, time |-> time, prio |-> priority]))
    /\ sem' = sem + 1
    /\ UNCHANGED <<now, cur, stack, thrown, log>>

\* A coroutine posts between its receiving calls.
Publish(c) ==
    /\ cur = c /\ Idle(c)
    /\ \E priority \in Priorities, time \in Times : Post(priority, time)

\* A subscriber posts to the channel that is calling it: what the lambda of
\* connect(priority, delay, queue) does when the channel is connected to itself.
HandlerPost(c) ==
    /\ cur = c /\ InPhase(c, "call")
    /\ \E priority \in Priorities, delay \in HandlerDelays :
          /\ now + delay <= MaxTime
          /\ Post(priority, now + delay)

-----------------------------------------------------------------------------
(* get(), update() and wait() *)

\* get() is always entered; update() only if the channel is not empty, and so
\* is wait(timeout), which in a single thread sees the same emptiness until
\* its timeout.
Receive(c) ==
    /\ cur = c
    /\ Idle(c) \/ (InPhase(c, "call") /\ "get" \in HandlerActs)
    /\ Len(stack[c]) < MaxDepth
    /\ \E api \in Apis :
          /\ api \in {"update", "wait", "wait_yield"} => sem > 0
          /\ stack' = [stack EXCEPT ![c] = Append(@, [api |-> api, phase |-> "sem"])]
    /\ UNCHANGED <<now, queue, sem, cur, posted, thrown, log>>

SetPhase(c, phase) ==
    stack' = [stack EXCEPT ![c][Len(stack[c])].phase = phase]

\* Mutant: the token is taken without waiting for one.
SemWaitUnchecked(c) ==
    /\ cur = c /\ InPhase(c, "sem")
    /\ sem' = sem - 1
    /\ SetPhase(c, "due")
    /\ UNCHANGED <<now, queue, cur, posted, thrown, log>>

\* _sem.wait().  When there is no token the whole thread sleeps.
SemWait(c) ==
    /\ cur = c /\ InPhase(c, "sem")
    /\ sem > 0
    /\ sem' = sem - 1
    /\ SetPhase(c, "due")
    /\ UNCHANGED <<now, queue, cur, posted, thrown, log>>

\* Mutant: the message is due only after its time.
DispatchLate(c) ==
    /\ cur = c /\ InPhase(c, "due")
    /\ now > Back.time
    /\ log' = Append(log, Back.id)
    /\ queue' = [queue EXCEPT ![Len(queue)].id = Moved]
    /\ SetPhase(c, "call")
    /\ UNCHANGED <<now, sem, cur, posted, thrown>>

\* The loop on the clock ends: the back is moved out of the queue, where its
\* shell stays, and given to the subscribers.
Dispatch(c) ==
    /\ cur = c /\ InPhase(c, "due")
    /\ now >= Back.time
    /\ log' = Append(log, Back.id)
    /\ queue' = [queue EXCEPT ![Len(queue)].id = Moved]
    /\ SetPhase(c, "call")
    /\ UNCHANGED <<now, sem, cur, posted, thrown>>

PopFrame(c) ==
    stack' = [stack EXCEPT ![c] = SubSeq(@, 1, Len(@) - 1)]

\* Mutant: the shell is left in the queue.
ReturnNoPop(c) ==
    /\ cur = c /\ InPhase(c, "call")
    /\ PopFrame(c)
    /\ UNCHANGED <<now, queue, sem, cur, posted, thrown, log>>

\* The subscribers have returned: pop_back, whatever is at the back by now.
Return(c) ==
    /\ cur = c /\ InPhase(c, "call")
    /\ queue' = SubSeq(queue, 1, Len(queue) - 1)
    /\ PopFrame(c)
    /\ UNCHANGED <<now, sem, cur, posted, thrown, log>>

\* A subscriber throws: _get is left before pop_back.
Throw(c) ==
    /\ "throw" \in HandlerActs
    /\ thrown < MaxThrown
    /\ cur = c /\ InPhase(c, "call")
    /\ PopFrame(c)
    /\ thrown' = thrown + 1
    /\ UNCHANGED <<now, queue, sem, cur, posted, log>>

\* Coroutine c goes on.  The one that was running is between two calls or has
\* just found, in _get(yield), that the back is not due.
Resume(c) ==
    /\ cur # c
    /\ \/ Idle(cur)
       \/ InPhase(cur, "due") /\ Top(cur).api \in YieldApis /\ now < Back.time
    /\ cur' = c
    /\ UNCHANGED <<now, queue, sem, stack, posted, thrown, log>>

Tick ==
    /\ now < MaxTime
    /\ now' = now + 1
    /\ UNCHANGED <<queue, sem, cur, stack, posted, thrown, log>>

-----------------------------------------------------------------------------
Next ==
    \/ Tick
    \/ \E c \in Coroutines :
          \/ Publish(c) \/ HandlerPost(c) \/ Receive(c) \/ SemWait(c)
          \/ Dispatch(c) \/ Return(c) \/ Throw(c) \/ Resume(c)

SafeSpec == Init /\ [][Next]_vars

\* Time passes, a running coroutine goes on, and each coroutine receives again
\* and again (strongly fair: it makes a call when it is resumed).
Fairness ==
    /\ WF_vars(Tick)
    /\ \A c \in Coroutines :
          /\ WF_vars(SemWait(c)) /\ WF_vars(Dispatch(c)) /\ WF_vars(Return(c))
          /\ WF_vars(Resume(c))
          /\ SF_vars(Receive(c))

Spec == SafeSpec /\ Fairness

-----------------------------------------------------------------------------
(* Properties *)

\* The range of every variable.
TypeOK ==
    /\ now \in Times
    /\ queue \in Seq(Messages)
    /\ sem \in Nat
    /\ cur \in Coroutines
    /\ stack \in [Coroutines -> Seq(Frames)]
    /\ posted \in 0..MaxPosts
    /\ thrown \in Nat
    /\ log \in Seq(Ids \cup {Moved})

\* The calls of _get that are past _sem.wait().
InFlight == UNION {
    {<<c, i>> : i \in {j \in DOMAIN stack[c] : stack[c][j].phase # "sem"}} : c \in Coroutines}

\* Every entry of the vector stands for a token, for a call of _get that has
\* its token and has not popped yet, or for a call that an exception cut short.
\* This holds whatever the subscribers do, and implies that back() and
\* pop_back() are never applied to an empty vector, which would be undefined.
EntriesMatch == Len(queue) = sem + Cardinality(InFlight) + thrown

\* The vector stays sorted, shells of moved messages included: message_comp
\* compares only what moving a message leaves in place.
Sorted == IsSorted(queue)

\* A message is given to the subscribers when its time has come, and then it is
\* the most urgent one: nothing in the queue has an earlier time, or the same
\* time and a higher priority ("more high, is more urgent", README).
MostUrgentWhenDue == [][
    log' # log =>
      /\ Back.time <= now
      /\ \A i \in DOMAIN queue :
            \/ queue[i].time > Back.time
            \/ queue[i].time = Back.time /\ queue[i].prio <= Back.prio]_vars

\* How many times a message exists, in the queue or given to the subscribers.
Copies(id) ==
    Cardinality({i \in DOMAIN queue : queue[i].id = id})
    + Cardinality({i \in DOMAIN log : log[i] = id})

\* A posted message is never lost and never given twice to the subscribers, and
\* they are never given the shell of a message that was moved away.
ExactlyOnce ==
    /\ \A id \in Ids : Copies(id) = IF id <= posted THEN 1 ELSE 0
    /\ \A i \in DOMAIN log : log[i] # Moved
==============================================================================
