------------------------------ MODULE AsyncFast ------------------------------
(***************************************************************************)
(* fes::async_fast (include/async_fast.h): a channel that any thread may   *)
(* publish to and any thread may consume from.  A message crosses three    *)
(* pieces of shared state, each updated in a step of its own:              *)
(*                                                                         *)
(*   inner  the lock-free ConcurrentQueue inside _queue: a FIFO sub-queue  *)
(*          per publishing thread, which a consumer may take from in any   *)
(*          order;                                                         *)
(*   lw     the semaphore inside _queue (BlockingConcurrentQueue::sema);   *)
(*   sem    the channel's own _sem, which also answers size() and empty(). *)
(*                                                                         *)
(* Both semaphores are taken at the level of CountingSemaphore.  A thread  *)
(* may be a publisher, a consumer or both; one that is both also publishes *)
(* from inside its subscribers (the channel connected to itself).          *)
(***************************************************************************)
EXTENDS Integers, FiniteSets, Sequences

CONSTANTS
    Publishers,     \* threads that call operator()
    Consumers,      \* threads that call get(), update() or wait()
    Calls,          \* the calls the consumers make, a subset of AllCalls
    MaxPublish,     \* bound: messages per publisher
    MaxDrops,       \* bound: publications lost to a failed allocation
    NoMsg           \* no message in hand

AllCalls == {"get", "get_yield", "update", "wait", "wait_yield"}
YieldCalls == {"get_yield", "wait_yield"}

ASSUME ActorsAssumption == IsFiniteSet(Publishers) /\ IsFiniteSet(Consumers)
ASSUME CallsAssumption == Calls \subseteq AllCalls
ASSUME BoundsAssumption == MaxPublish \in Nat /\ MaxDrops \in Nat

Threads == Publishers \cup Consumers

\* The n-th message of publisher p is <<p, n>>.
Messages == Publishers \X (1..MaxPublish)

ASSUME NoMsgAssumption == NoMsg \notin Messages

VARIABLES
    inner,          \* the messages in the ConcurrentQueue
    lw,             \* tokens of BlockingConcurrentQueue::sema
    sem,            \* tokens of _sem
    pub,            \* where a thread is inside operator()
    pc,             \* where a consumer is
    call,           \* the call a consumer is in
    held,           \* the message a consumer has dequeued
    published,      \* history: messages published, per publisher
    dropped,        \* history: publications whose enqueue failed
    log             \* history: messages dispatched, per consumer, in order

vars == <<inner, lw, sem, pub, pc, call, held, published, dropped, log>>

PcValues == {"idle", "poll", "sem_wait", "yield", "lw_wait", "dequeue",
             "dispatch", "handler"}

SemWaiting == {c \in Consumers : pc[c] = "sem_wait"}
LwWaiting == {c \in Consumers : pc[c] = "lw_wait"}

Sem == INSTANCE CountingSemaphore
         WITH Threads <- Consumers, value <- sem, waiting <- SemWaiting
Lw == INSTANCE CountingSemaphore
         WITH Threads <- Consumers, value <- lw, waiting <- LwWaiting

Init ==
    /\ inner = {}
    /\ lw = 0
    /\ sem = 0
    /\ pub = [t \in Threads |-> "none"]
    /\ pc = [c \in Consumers |-> "idle"]
    /\ call = [c \in Consumers |-> "none"]
    /\ held = [c \in Consumers |-> NoMsg]
    /\ published = [p \in Publishers |-> 0]
    /\ dropped = 0
    /\ log = [c \in Consumers |-> <<>>]

-----------------------------------------------------------------------------
(* operator() *)

\* A thread publishes between its own calls or from inside a subscriber.
CanPublish(p) ==
    /\ pub[p] = "none"
    /\ p \in Consumers => pc[p] \in {"idle", "handler"}

\* _queue.enqueue: the message goes to the sub-queue of the calling thread.
Enqueue(p) ==
    /\ CanPublish(p)
    /\ published[p] < MaxPublish
    /\ published' = [published EXCEPT ![p] = @ + 1]
    /\ inner' = inner \cup {<<p, published[p] + 1>>}
    /\ pub' = [pub EXCEPT ![p] = "signal"]
    /\ UNCHANGED <<lw, sem, pc, call, held, dropped, log>>

\* _queue.enqueue returns false when it cannot allocate: nothing is queued
\* and sema is not signalled, but operator() ignores the result and goes on
\* to _sem.notify().
EnqueueFails(p) ==
    /\ CanPublish(p)
    /\ dropped < MaxDrops
    /\ dropped' = dropped + 1
    /\ pub' = [pub EXCEPT ![p] = "notify"]
    /\ UNCHANGED <<inner, lw, sem, pc, call, held, published, log>>

\* Mutant: the inner semaphore is not signalled.
SignalMissing(p) ==
    /\ pub[p] = "signal"
    /\ pub' = [pub EXCEPT ![p] = "notify"]
    /\ UNCHANGED <<inner, lw, sem, pc, call, held, published, dropped, log>>

\* sema->signal() at the end of a successful enqueue.
Signal(p) ==
    /\ pub[p] = "signal"
    /\ pub' = [pub EXCEPT ![p] = "notify"]
    /\ UNCHANGED <<inner, sem, pc, call, held, published, dropped, log>>
    /\ Lw!Post

\* _sem.notify()
Notify(p) ==
    /\ pub[p] = "notify"
    /\ pub' = [pub EXCEPT ![p] = "none"]
    /\ UNCHANGED <<inner, lw, pc, call, held, published, dropped, log>>
    /\ Sem!Post

-----------------------------------------------------------------------------
(* get(), update() and wait() *)

CanCall(c, name) ==
    /\ name \in Calls
    /\ pc[c] = "idle"
    /\ pub[c] = "none"
    /\ call' = [call EXCEPT ![c] = name]

\* get(), get(yield), and wait without a timeout, which is get.
Get(c) ==
    /\ \E name \in {"get", "get_yield"} : CanCall(c, name)
    /\ pc' = [pc EXCEPT ![c] = "sem_wait"]
    /\ Sem!Ask(c)
    /\ UNCHANGED <<inner, lw, pub, held, published, dropped, log>>

\* update(): goes into get() if the channel was not empty.
Update(c) ==
    /\ CanCall(c, "update")
    /\ sem > 0
    /\ pc' = [pc EXCEPT ![c] = "sem_wait"]
    /\ Sem!Ask(c)
    /\ UNCHANGED <<inner, lw, pub, held, published, dropped, log>>

\* wait(timeout) and wait(yield, timeout) poll empty() until the clock passes
\* the mark.
WaitTimed(c) ==
    /\ \E name \in {"wait", "wait_yield"} : CanCall(c, name)
    /\ pc' = [pc EXCEPT ![c] = "poll"]
    /\ UNCHANGED <<inner, lw, sem, pub, held, published, dropped, log>>

PollHit(c) ==
    /\ pc[c] = "poll"
    /\ sem > 0
    /\ pc' = [pc EXCEPT ![c] = "sem_wait"]
    /\ Sem!Ask(c)
    /\ UNCHANGED <<inner, lw, pub, call, held, published, dropped, log>>

PollTimeout(c) ==
    /\ pc[c] = "poll"
    /\ pc' = [pc EXCEPT ![c] = "idle"]
    /\ call' = [call EXCEPT ![c] = "none"]
    /\ UNCHANGED <<inner, lw, sem, pub, held, published, dropped, log>>

\* Mutant: the token is looked at but not taken.
SemTakePeek(c) ==
    /\ pc[c] = "sem_wait" /\ sem > 0
    /\ pc' = [pc EXCEPT ![c] = IF call[c] \in YieldCalls THEN "yield" ELSE "lw_wait"]
    /\ UNCHANGED <<inner, lw, sem, pub, call, held, published, dropped, log>>

\* _sem.wait() returns: the consumer owns one message of the channel.
SemTake(c) ==
    /\ pc' = [pc EXCEPT ![c] = IF call[c] \in YieldCalls THEN "yield" ELSE "lw_wait"]
    /\ Sem!Take(c)
    /\ UNCHANGED <<inner, lw, pub, call, held, published, dropped, log>>

\* _get(yield): after _sem.wait() it yields for as long as _sem.size() == 0.
YieldDone(c) ==
    /\ pc[c] = "yield"
    /\ sem # 0
    /\ pc' = [pc EXCEPT ![c] = "lw_wait"]
    /\ Lw!Ask(c)
    /\ UNCHANGED <<inner, sem, pub, call, held, published, dropped, log>>

\* _queue.wait_dequeue, first half: sema->wait() returns.
LwTake(c) ==
    /\ pc' = [pc EXCEPT ![c] = "dequeue"]
    /\ Lw!Take(c)
    /\ UNCHANGED <<inner, sem, pub, call, held, published, dropped, log>>

\* Mutant: any message of a sub-queue may be taken, not only its oldest.
DequeueAnywhere(c, m) ==
    /\ pc[c] = "dequeue"
    /\ m \in inner
    /\ pc' = [pc EXCEPT ![c] = "dispatch"]
    /\ held' = [held EXCEPT ![c] = m]
    /\ inner' = inner \ {m}
    /\ UNCHANGED <<lw, sem, pub, call, published, dropped, log>>

\* Mutant: the element is read but its slot is not released.
DequeueKeep(c, m) ==
    /\ pc[c] = "dequeue"
    /\ m \in inner
    /\ \A k \in 1..(m[2] - 1) : <<m[1], k>> \notin inner
    /\ pc' = [pc EXCEPT ![c] = "dispatch"]
    /\ held' = [held EXCEPT ![c] = m]
    /\ UNCHANGED <<inner, lw, sem, pub, call, published, dropped, log>>

\* Mutant: the element never reaches the consumer.
DequeueForget(c, m) ==
    /\ pc[c] = "dequeue"
    /\ m \in inner
    /\ \A k \in 1..(m[2] - 1) : <<m[1], k>> \notin inner
    /\ pc' = [pc EXCEPT ![c] = "dispatch"]
    /\ inner' = inner \ {m}
    /\ UNCHANGED <<lw, sem, pub, call, held, published, dropped, log>>

\* _queue.wait_dequeue, second half: inner.try_dequeue gets the oldest message
\* of some sub-queue.
Dequeue(c, m) ==
    /\ pc[c] = "dequeue"
    /\ m \in inner
    /\ \A k \in 1..(m[2] - 1) : <<m[1], k>> \notin inner
    /\ pc' = [pc EXCEPT ![c] = "dispatch"]
    /\ held' = [held EXCEPT ![c] = m]
    /\ inner' = inner \ {m}
    /\ UNCHANGED <<lw, sem, pub, call, published, dropped, log>>

\* get(t, seq): _output is called with the message, on the consumer's thread.
Dispatch(c) ==
    /\ pc[c] = "dispatch"
    /\ pc' = [pc EXCEPT ![c] = "handler"]
    /\ log' = [log EXCEPT ![c] = Append(@, held[c])]
    /\ UNCHANGED <<inner, lw, sem, pub, call, held, published, dropped>>

\* The subscribers return (or one throws): the call is over and the message
\* is gone from the channel either way.
Return(c) ==
    /\ pc[c] = "handler"
    /\ pub[c] = "none"
    /\ pc' = [pc EXCEPT ![c] = "idle"]
    /\ call' = [call EXCEPT ![c] = "none"]
    /\ held' = [held EXCEPT ![c] = NoMsg]
    /\ UNCHANGED <<inner, lw, sem, pub, published, dropped, log>>

-----------------------------------------------------------------------------
Next ==
    \/ \E p \in Publishers :
          Enqueue(p) \/ EnqueueFails(p) \/ Signal(p) \/ Notify(p)
    \/ \E c \in Consumers :
          \/ Get(c) \/ Update(c) \/ WaitTimed(c) \/ PollHit(c) \/ PollTimeout(c)
          \/ SemTake(c) \/ YieldDone(c) \/ LwTake(c) \/ Dispatch(c) \/ Return(c)
          \/ \E m \in inner : Dequeue(c, m)

SafeSpec == Init /\ [][Next]_vars

\* Threads inside a call keep running, and a consumer calls get() or update()
\* again and again, the loop that the README shows, whatever calls it makes in
\* between (hence the strong fairness).  Publishing is not assumed.
Fairness ==
    /\ \A p \in Publishers : WF_vars(Signal(p)) /\ WF_vars(Notify(p))
    /\ \A c \in Consumers :
          /\ SF_vars(Get(c) \/ Update(c)) /\ WF_vars(PollHit(c) \/ PollTimeout(c))
          /\ WF_vars(SemTake(c)) /\ WF_vars(YieldDone(c)) /\ WF_vars(LwTake(c))
          /\ WF_vars(\E m \in inner : Dequeue(c, m))
          /\ WF_vars(Dispatch(c)) /\ WF_vars(Return(c))

Spec == SafeSpec /\ Fairness

-----------------------------------------------------------------------------
(* Properties *)

\* The range of every variable; in particular no semaphore goes below zero and
\* nothing is dispatched that was not dequeued.
TypeOK ==
    /\ inner \subseteq Messages
    /\ lw \in Nat /\ sem \in Nat
    /\ pub \in [Threads -> {"none", "signal", "notify"}]
    /\ pc \in [Consumers -> PcValues]
    /\ call \in [Consumers -> AllCalls \cup {"none"}]
    /\ held \in [Consumers -> Messages \cup {NoMsg}]
    /\ published \in [Publishers -> 0..MaxPublish]
    /\ dropped \in Nat
    /\ log \in [Consumers -> Seq(Messages)]
    /\ \A c \in Consumers : pc[c] = "dispatch" => held[c] # NoMsg

Signalling == {p \in Publishers : pub[p] = "signal"}
Notifying == {p \in Publishers : pub[p] = "notify"}
\* Consumers past _sem.wait() that have not passed sema->wait().
Granted == {c \in Consumers : pc[c] \in {"yield", "lw_wait"}}
\* Consumers past sema->wait() that have not dequeued.
Dequeuing == {c \in Consumers : pc[c] = "dequeue"}

\* The three counters of the channel agree, counting the threads that are
\* between two of them.  A publication whose enqueue failed leaves _sem one
\* token ahead for good: operator() notifies without looking at the result.
TokensMatch ==
    /\ Cardinality(inner) = lw + Cardinality(Dequeuing) + Cardinality(Signalling)
    /\ lw + dropped = sem + Cardinality(Granted) + Cardinality(Notifying)

\* A consumer that got its token from _sem is not held up again: wait_dequeue
\* finds sema positive and then finds a message, as long as no allocation has
\* failed.  (_get waits on two semaphores one after the other.)
GrantedNeverBlocks == dropped = 0 =>
    /\ Granted # {} => lw > 0
    /\ Dequeuing # {} => inner # {}

Delivered == UNION {{log[c][i] : i \in DOMAIN log[c]} : c \in Consumers}

\* How many times a message exists: in the queue, in the hands of a consumer
\* that has not dispatched it yet, or dispatched.
Copies(m) ==
    Cardinality({m} \cap inner)
    + Cardinality({c \in Consumers : pc[c] = "dispatch" /\ held[c] = m})
    + Cardinality({d \in Consumers \X (1..Cardinality(Messages)) :
                     d[2] \in DOMAIN log[d[1]] /\ log[d[1]][d[2]] = m})

\* A message that was published is never lost and never duplicated, and
\* nothing is delivered that was not published.
ExactlyOnce == \A m \in Messages :
    Copies(m) = IF m[2] <= published[m[1]] THEN 1 ELSE 0

\* Whatever the number of consumers, each of them sees the messages of one
\* publisher in the order in which they were published.
InOrder == \A c \in Consumers : \A i, j \in DOMAIN log[c] :
    (i < j /\ log[c][i][1] = log[c][j][1]) => log[c][i][2] < log[c][j][2]

\* A message in the queue is eventually given to the subscribers.
EventuallyDelivered == \A m \in Messages : (m \in inner) ~> (m \in Delivered)

\* A get(yield) that has taken the last token waits for another one.
Withheld == \E c \in Consumers : pc[c] = "yield" /\ sem = 0

\* A message in the queue is eventually given to the subscribers, but for two
\* ways of the code to hold it back: an enqueue that failed has left the two
\* semaphores out of step, or a get(yield) waits for a second message.
DeliveredUnlessWithheld == \A m \in Messages :
    (m \in inner) ~> (m \in Delivered \/ dropped > 0 \/ Withheld)
==============================================================================
