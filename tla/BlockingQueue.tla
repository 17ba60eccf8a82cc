---------------------------- MODULE BlockingQueue ----------------------------
(***************************************************************************)
(* moodycamel::BlockingConcurrentQueue, the queue inside fes::async_fast:  *)
(* a ConcurrentQueue and a semaphore that counts its elements.  A consumer *)
(* first gets tokens from the semaphore and then looks for as many         *)
(* elements, in rounds over the sub-queues of all producers, until it has  *)
(* found them: no round has to succeed, as an element may seem to be gone  *)
(* while another consumer claims it in vain.                               *)
(*                                                                         *)
(* The sub-queues are taken at the level of their counters (the storage    *)
(* is the matter of module Producer), the semaphore at the level of        *)
(* CountingSemaphore.  A sub-queue is named by its place in the list of    *)
(* producers: next_prod of the n-th one is the one before it.  An enqueue  *)
(* that fails changes nothing; the overloads differ in what they copy.     *)
(***************************************************************************)
EXTENDS Integers, Sequences, FiniteSets

CONSTANTS
    Enqueuers,
    Consumers,
    TokenUsers,         \* the consumers that have a ConsumerToken
    InitialOffset,      \* the initialOffset of each token
    Counts,             \* the counts of elements that are enqueued
    Requests,           \* the calls each consumer makes: bulk or not, and max
    QUOTA,              \* EXPLICIT_CONSUMER_CONSUMPTION_QUOTA_BEFORE_ROTATE
    MaxElements         \* bound: elements per enqueuer

ASSUME QueueAssumption ==
    /\ IsFiniteSet(Enqueuers) /\ IsFiniteSet(Consumers) /\ TokenUsers \subseteq Consumers
    /\ InitialOffset \in [TokenUsers -> Nat]
    /\ Counts \subseteq Nat \ {0}
    /\ \A c \in Consumers : \A r \in Requests[c] :
          r \in [bulk : BOOLEAN, max : Nat \ {0}] /\ (r.bulk \/ r.max = 1)
    /\ QUOTA \in Nat \ {0} /\ MaxElements \in Nat

Null == 0
Places == 1..Cardinality(Enqueuers)

VARIABLES
    producerCount,
    producerListTail,   \* the number of sub-queues on the list
    place,              \* the sub-queue of each enqueuer
    subqueue,           \* tailIndex, headIndex, and the claims that are open
    available,          \* tokens of the semaphore
    enq,                \* where an enqueuer is, and how many elements it has to signal
    deq,                \* local variables of each consumer
    token,              \* the ConsumerToken of each consumer
    globalExplicitConsumerOffset

listVars == <<producerCount, producerListTail, place>>
consumerVars == <<deq, token, globalExplicitConsumerOffset>>
vars == <<listVars, subqueue, available, enq, consumerVars>>

Smaller(a, b) == IF a < b THEN a ELSE b

NoCall == [pc |-> "idle", bulk |-> FALSE, max |-> 0, want |-> 0,
           first |-> FALSE, target |-> Null, todo |-> <<>>, tail |-> Null,
           weight |-> 0, nonEmpty |-> 0, desired |-> 0, my |-> 0, lag |-> 0,
           tried |-> {}, began |-> 0]

\* lastKnownGlobalOffset starts as -1, unsigned.
NoToken == [desired |-> Null, current |-> Null, lastKnown |-> -1, consumed |-> 0]

Waiting == {c \in Consumers : deq[c].pc = "waiting"}

Sema == INSTANCE CountingSemaphore
          WITH Threads <- Consumers, value <- available, waiting <- Waiting

Init ==
    /\ producerCount = 0
    /\ producerListTail = 0
    /\ place = [e \in Enqueuers |-> Null]
    /\ subqueue = [p \in Places |-> [tail |-> 0, head |-> 0, claims |-> 0]]
    /\ available = 0
    /\ enq = [e \in Enqueuers |-> [pc |-> "new", count |-> 0]]
    /\ deq = [c \in Consumers |-> NoCall]
    /\ token = [c \in TokenUsers |-> NoToken]
    /\ globalExplicitConsumerOffset = 0

-----------------------------------------------------------------------------
(* enqueue, enqueue_bulk and their try_ variants *)

\* add_producer counts the producer before it links it.
CountProducer(e) ==
    /\ enq[e].pc = "new"
    /\ enq' = [enq EXCEPT ![e].pc = "link"]
    /\ producerCount' = producerCount + 1
    /\ UNCHANGED <<producerListTail, place, subqueue, available, consumerVars>>

LinkProducer(e) ==
    /\ enq[e].pc = "link"
    /\ enq' = [enq EXCEPT ![e].pc = "idle"]
    /\ producerListTail' = producerListTail + 1
    /\ place' = [place EXCEPT ![e] = producerListTail + 1]
    /\ UNCHANGED <<producerCount, subqueue, available, consumerVars>>

\* The elements are published in the sub-queue.
Enqueue(e, count) ==
    /\ enq[e].pc = "idle"
    /\ subqueue[place[e]].tail + count <= MaxElements
    /\ enq' = [enq EXCEPT ![e] = [pc |-> "signal", count |-> count]]
    /\ subqueue' = [subqueue EXCEPT ![place[e]].tail = @ + count]
    /\ UNCHANGED <<listVars, available, consumerVars>>

\* Mutant: one token, however many elements.
SignalOnce(e) ==
    /\ enq[e].pc = "signal"
    /\ enq' = [enq EXCEPT ![e] = [pc |-> "idle", count |-> 0]]
    /\ available' = available + 1
    /\ UNCHANGED <<listVars, subqueue, consumerVars>>

\* sema->signal(count)
Signal(e) ==
    /\ enq[e].pc = "signal"
    /\ enq' = [enq EXCEPT ![e] = [pc |-> "idle", count |-> 0]]
    /\ UNCHANGED <<listVars, subqueue, consumerVars>>
    /\ Sema!PostMany(enq[e].count)

-----------------------------------------------------------------------------
(* The calls: tokens first. *)

Goto(c, from, to) == deq[c].pc = from /\ deq' = [deq EXCEPT ![c] = to]

UnchangedByDequeue == UNCHANGED <<listVars, enq>>

\* try_, wait_ and wait_..._timed calls differ in when they give up.
Call(c, r) ==
    /\ Goto(c, "idle", [NoCall EXCEPT !.pc = "waiting", !.bulk = r.bulk, !.max = r.max])
    /\ UnchangedByDequeue /\ UNCHANGED <<subqueue, token, globalExplicitConsumerOffset>>
    /\ Sema!Ask(c)

\* Mutant: the consumer looks for as many elements as it was asked for.
GrantMax(c, n) ==
    /\ Goto(c, "waiting", [deq[c] EXCEPT !.pc = "round", !.want = deq[c].max])
    /\ available' = available - n
    /\ UnchangedByDequeue /\ UNCHANGED <<subqueue, token, globalExplicitConsumerOffset>>

\* wait or waitMany returns with n tokens.
Grant(c, n) ==
    /\ n <= deq[c].max
    /\ Goto(c, "waiting", [deq[c] EXCEPT !.pc = "round", !.want = n])
    /\ UnchangedByDequeue /\ UNCHANGED <<subqueue, token, globalExplicitConsumerOffset>>
    /\ Sema!TakeMany(c, n)

\* tryWait finds no token, or the time is over; wait_dequeue never does this.
GiveUp(c) ==
    /\ Goto(c, "waiting", NoCall)
    /\ UnchangedByDequeue /\ UNCHANGED <<subqueue, token, globalExplicitConsumerOffset>>
    /\ Sema!GiveUp(c)

-----------------------------------------------------------------------------
(* The rounds of ConcurrentQueue::try_dequeue and try_dequeue_bulk *)

\* The list from the tail on, and the same without p.
FromTail(tail) == [i \in 1..tail |-> tail + 1 - i]
FromTailBut(p, tail) ==
    [i \in 1..(tail - 1) |-> IF tail + 1 - i > p THEN tail + 1 - i ELSE tail - i]

\* Mutant: the walk ends at the end of the list.
CircleOpen(p, tail) == [i \in 1..(p - 1) |-> p - i]

\* The list from the one after p on, going round at its end, up to p.
Circle(p, tail) == [i \in 1..(tail - 1) |-> IF i < p THEN p - i ELSE tail + p - i]

\* n times next_prod, going round at the end of the list.
Walk(p, n, tail) == ((p - 1 - n) % tail) + 1

\* On to the next sub-queue of the round, if there is one.
Advance(k) == IF k.todo = <<>> THEN [k EXCEPT !.pc = "failed"]
              ELSE [k EXCEPT !.pc = "look", !.target = Head(k.todo), !.todo = Tail(@)]

Begin(k) == [k EXCEPT !.began = producerListTail, !.tried = {}, !.tail = producerListTail,
                      !.weight = 0, !.nonEmpty = 0, !.target = Null, !.first = FALSE]

\* Where update_current_producer_after_rotation leads.
Desired(c) ==
    LET tail == producerListTail
        first == IF token[c].desired # Null THEN token[c].desired
                 ELSE Walk(tail, producerCount - 1 - (InitialOffset[c] % producerCount), tail)
        delta == globalExplicitConsumerOffset - token[c].lastKnown
    IN  Walk(first, delta % producerCount, tail)

update_current_producer_after_rotation(c) ==
    IF \/ producerListTail = 0
       \/ token[c].desired # Null /\ token[c].lastKnown = globalExplicitConsumerOffset
    THEN UNCHANGED token
    ELSE token' = [token EXCEPT ![c] = [desired |-> Desired(c), current |-> Desired(c),
                                        lastKnown |-> globalExplicitConsumerOffset,
                                        consumed |-> 0]]

\* A round of a consumer with a token starts at its current producer.
TokenRound(c) ==
    /\ deq[c].pc = "round" /\ c \in TokenUsers
    /\ update_current_producer_after_rotation(c)
    /\ deq' = [deq EXCEPT ![c] =
                 IF token'[c].current = Null THEN [Begin(@) EXCEPT !.pc = "failed"]
                 ELSE [Begin(@) EXCEPT !.pc = "look", !.first = TRUE, !.target = token'[c].current]]
    /\ UnchangedByDequeue /\ UNCHANGED <<subqueue, available, globalExplicitConsumerOffset>>

UnchangedBySearch ==
    UnchangedByDequeue /\ UNCHANGED <<subqueue, available, token, globalExplicitConsumerOffset>>

\* try_dequeue_bulk without a token goes through the list.
BulkRound(c) ==
    /\ c \notin TokenUsers /\ deq[c].bulk
    /\ Goto(c, "round", Advance([Begin(deq[c]) EXCEPT !.todo = FromTail(producerListTail)]))
    /\ UnchangedBySearch

\* try_dequeue without a token first looks for the longest of up to three
\* sub-queues that are not empty.
WeighRound(c) ==
    /\ c \notin TokenUsers /\ ~deq[c].bulk
    /\ Goto(c, "round", [Begin(deq[c]) EXCEPT !.pc = "weigh", !.todo = FromTail(producerListTail)])
    /\ UnchangedBySearch

size_approx(p) == subqueue[p].tail - subqueue[p].head

Weigh(c) ==
    LET k == [deq[c] EXCEPT !.todo = Tail(@)]
        p == Head(deq[c].todo)
    IN  /\ deq[c].pc = "weigh" /\ deq[c].todo # <<>> /\ deq[c].nonEmpty < 3
        /\ Goto(c, "weigh",
                CASE size_approx(p) = 0 -> [k EXCEPT !.tried = @ \cup {p}]
                  [] size_approx(p) > k.weight ->
                       [k EXCEPT !.nonEmpty = @ + 1, !.weight = size_approx(p), !.target = p]
                  [] OTHER -> [k EXCEPT !.nonEmpty = @ + 1])
        /\ UnchangedBySearch

Weighed(c) ==
    /\ deq[c].todo = <<>> \/ deq[c].nonEmpty = 3
    /\ Goto(c, "weigh", [deq[c] EXCEPT !.todo = <<>>, !.first = TRUE,
                           !.pc = IF deq[c].nonEmpty = 0 THEN "failed" ELSE "look"])
    /\ UnchangedBySearch

\* The round has not found all that is wanted: the caller tries again.
Again(c) ==
    /\ Goto(c, "failed", [deq[c] EXCEPT !.pc = "round"])
    /\ UnchangedBySearch

-----------------------------------------------------------------------------
(* dequeue and dequeue_bulk of one sub-queue *)

\* The sub-queues to try after k.target, where n elements were found.
Others(c, k, n) ==
    CASE c \in TokenUsers /\ k.first -> Circle(k.target, producerListTail)
      [] c \in TokenUsers /\ ~k.first /\ n > 0 -> Circle(k.target, k.tail)
      [] c \notin TokenUsers /\ k.first -> FromTailBut(k.target, producerListTail)
      [] OTHER -> k.todo

\* The call has its elements, or the round goes on with the next sub-queue.
Found(c, k, n) ==
    IF n = k.want THEN NoCall
    ELSE Advance([k EXCEPT !.want = @ - n, !.tried = @ \cup {k.target}, !.first = FALSE,
                           !.todo = Others(c, k, n), !.desired = 0, !.my = 0, !.lag = 0,
                           !.tail = IF k.first THEN producerListTail ELSE @])

\* The token counts what its producer has given, and moves to another one
\* that has given something.  QUOTA elements from one make all tokens rotate.
Consumed(c, k, n) ==
    IF c \notin TokenUsers \/ n = 0 THEN UNCHANGED <<token, globalExplicitConsumerOffset>>
    ELSE LET consumed == token[c].consumed + n
             quota == IF k.bulk THEN n = k.want /\ consumed >= QUOTA ELSE consumed = QUOTA
         IN  IF k.first
             THEN /\ token' = [token EXCEPT ![c].consumed = consumed]
                  /\ globalExplicitConsumerOffset' =
                       globalExplicitConsumerOffset + (IF quota THEN 1 ELSE 0)
             ELSE /\ token' = [token EXCEPT ![c].current = k.target, ![c].consumed = n]
                  /\ UNCHANGED globalExplicitConsumerOffset

\* dequeueOptimisticCount - dequeueOvercommit is head + claims.
Look(c) ==
    LET k == deq[c]
        q == subqueue[k.target]
        avail == q.tail - q.head - q.claims
    IN  /\ k.pc = "look"
        /\ Goto(c, "look", IF avail <= 0 THEN Found(c, k, 0)
                           ELSE [k EXCEPT !.pc = "claim", !.desired = Smaller(avail, k.want)])
        /\ UnchangedBySearch

\* The overcommit that was read before may be too small by now: lag.
Claim(c) ==
    LET k == deq[c]
        q == subqueue[k.target]
    IN  /\ Goto(c, "claim", [k EXCEPT !.pc = "recheck", !.my = q.head + q.claims + k.lag, !.lag = 0])
        /\ subqueue' = [subqueue EXCEPT ![k.target].claims = @ + k.desired]
        /\ UnchangedByDequeue /\ UNCHANGED <<available, token, globalExplicitConsumerOffset>>

\* Mutant: the tail is not looked at again.
SecuredAll(c) == deq[c].desired

\* How many elements the claim of c has secured.
Secured(c) ==
    LET actual == subqueue[deq[c].target].tail - deq[c].my
    IN  IF actual < 0 THEN 0 ELSE Smaller(actual, deq[c].desired)

Recheck(c) ==
    LET k == deq[c]
        n == Secured(c)
    IN  /\ k.pc = "recheck"
        /\ IF n = k.desired
           THEN /\ Goto(c, "recheck", Found(c, k, n))
                /\ Consumed(c, k, n)
                /\ subqueue' = [subqueue EXCEPT ![k.target].head = @ + n, ![k.target].claims = @ - n]
           ELSE /\ Goto(c, "recheck", [k EXCEPT !.pc = "undo", !.my = n])
                /\ UNCHANGED <<token, globalExplicitConsumerOffset, subqueue>>
        /\ UnchangedByDequeue /\ UNCHANGED available

\* Those that have read dequeueOvercommit and not claimed yet are behind now.
LeaveBehind(c, n) ==
    [d \in Consumers |->
        IF d # c /\ deq[d].pc = "claim" /\ deq[d].target = deq[c].target
        THEN [deq[d] EXCEPT !.lag = @ + n] ELSE deq[d]]

\* Mutant: dequeueOvercommit is not incremented.
UndoForgets(c) ==
    LET k == deq[c]
    IN  /\ k.pc = "undo"
        /\ deq' = [LeaveBehind(c, k.desired - k.my) EXCEPT ![c] = Found(c, k, k.my)]
        /\ Consumed(c, k, k.my)
        /\ subqueue' = [subqueue EXCEPT ![k.target].head = @ + k.my]
        /\ UnchangedByDequeue /\ UNCHANGED available

Undo(c) ==
    LET k == deq[c]
    IN  /\ k.pc = "undo"
        /\ deq' = [LeaveBehind(c, k.desired - k.my) EXCEPT ![c] = Found(c, k, k.my)]
        /\ Consumed(c, k, k.my)
        /\ subqueue' = [subqueue EXCEPT ![k.target].head = @ + k.my,
                                        ![k.target].claims = @ - k.desired]
        /\ UnchangedByDequeue /\ UNCHANGED available

-----------------------------------------------------------------------------
Search(c) ==
    \/ TokenRound(c) \/ BulkRound(c) \/ WeighRound(c) \/ Weigh(c) \/ Weighed(c) \/ Again(c)
    \/ Look(c) \/ Claim(c) \/ Recheck(c) \/ Undo(c)

Next ==
    \/ \E e \in Enqueuers : CountProducer(e) \/ LinkProducer(e) \/ Signal(e)
    \/ \E e \in Enqueuers, count \in Counts : Enqueue(e, count)
    \/ \E c \in Consumers : \E r \in Requests[c] : Call(c, r)
    \/ \E c \in Consumers : GiveUp(c) \/ Search(c)
    \/ \E c \in Consumers, n \in 1..available : Grant(c, n)

\* A thread that holds tokens takes its next step some time: nothing in a
\* round waits for anybody else.
Fairness == \A c \in Consumers : WF_vars(Search(c))

SafeSpec == Init /\ [][Next]_vars
Spec == SafeSpec /\ Fairness

-----------------------------------------------------------------------------
(* Properties *)

Calls_ == [pc : {"idle", "waiting", "round", "weigh", "look", "claim", "recheck", "undo", "failed"},
           bulk : BOOLEAN, max : Nat, want : Nat, first : BOOLEAN,
           target : Places \cup {Null}, todo : Seq(Places), tail : 0..Cardinality(Enqueuers),
           weight : Nat, nonEmpty : 0..3, desired : Nat, my : Nat, lag : Nat,
           tried : SUBSET Places, began : 0..Cardinality(Enqueuers)]

\* The variables keep their types; in particular no sub-queue gives more
\* elements than it has got (head never passes tail).
TypeOK ==
    /\ producerCount \in 0..Cardinality(Enqueuers)
    /\ producerListTail \in 0..producerCount
    /\ place \in [Enqueuers -> 0..producerListTail]
    /\ subqueue \in [Places -> [tail : 0..MaxElements, head : 0..MaxElements, claims : Nat]]
    /\ \A p \in Places : subqueue[p].head <= subqueue[p].tail
    /\ available \in Nat
    /\ enq \in [Enqueuers -> [pc : {"new", "link", "idle", "signal"}, count : Nat]]
    /\ deq \in [Consumers -> Calls_]
    /\ token \in [TokenUsers -> [desired : 0..producerListTail, current : 0..producerListTail,
                                 lastKnown : Int, consumed : Nat]]
    /\ globalExplicitConsumerOffset \in Nat

\* The sum of the values of f: the size of a heap with f[s] items for each s.
Heap(f) == UNION {{s} \X (1..f[s]) : s \in DOMAIN f}
Total(f) == Cardinality(Heap(f))

Elements == Total([p \in Places |-> subqueue[p].tail - subqueue[p].head])
Unsignalled == Total([e \in Enqueuers |-> enq[e].count])
Outstanding == Total([c \in Consumers |-> deq[c].want])

\* Every element is covered by exactly one token: one in the semaphore, one
\* that its enqueuer is about to signal, or one that a consumer holds and has
\* not found an element for.  This is why `while (!inner.try_dequeue(item))`
\* may loop without asking the semaphore again, and why no element stays
\* behind without a token.
TokensCovered == Elements = available + Unsignalled + Outstanding

\* The semaphore and the sub-queues agree, and no sub-queue is overdrawn.
CountsAgree == TypeOK /\ TokensCovered

\* "Returns false if all producer streams appeared empty at the time they
\* were checked": a round that ends without all it was to find has seen each
\* sub-queue that was on the list when it began without an element left for
\* it, wherever its token stood and however the list has grown since.
RoundIsComplete ==
    \A c \in Consumers : deq[c].pc = "failed" => 1..deq[c].began \subseteq deq[c].tried

\* wait_dequeue "blocks the current thread until there's something to dequeue,
\* then dequeues it", and the queue is lock-free: as long as no more elements
\* come, consumers with tokens do not go round forever, although each single
\* claim may be in vain, be it that another consumer was faster or that the
\* overcommit it had read was outdated.  (MaxElements makes them stop coming.)
LockFree == []<>(Outstanding = 0)
==============================================================================
