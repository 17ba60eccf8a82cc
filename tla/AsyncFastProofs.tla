--------------------------- MODULE AsyncFastProofs ---------------------------
(***************************************************************************)
(* Proofs about fes::async_fast, for any finite sets of publishers and     *)
(* consumers and any bounds.                                               *)
(***************************************************************************)
EXTENDS AsyncFast, FiniteSetTheorems, FunctionTheorems, TLAPS

\* Every variable of the channel keeps its type; neither semaphore goes below
\* zero.
THEOREM TypeCorrect == SafeSpec => []TypeOK
<1> USE DEF TypeOK, PcValues, AllCalls, Threads, Messages
<1>1. Init => TypeOK
  BY BoundsAssumption DEF Init
<1>2. TypeOK /\ [Next]_vars => TypeOK'
  <2> SUFFICES ASSUME TypeOK, [Next]_vars PROVE TypeOK'
    OBVIOUS
  <2> USE BoundsAssumption
  <2>1. ASSUME NEW p \in Publishers, Enqueue(p) PROVE TypeOK'
    BY <2>1 DEF Enqueue
  <2>2. ASSUME NEW p \in Publishers, EnqueueFails(p) PROVE TypeOK'
    BY <2>2 DEF EnqueueFails
  <2>3. ASSUME NEW p \in Publishers, Signal(p) PROVE TypeOK'
    BY <2>3 DEF Signal, Lw!Post
  <2>4. ASSUME NEW p \in Publishers, Notify(p) PROVE TypeOK'
    BY <2>4 DEF Notify, Sem!Post
  <2>5. ASSUME NEW c \in Consumers, Get(c) PROVE TypeOK'
    BY <2>5, CallsAssumption DEF Get, CanCall, Sem!Ask
  <2>6. ASSUME NEW c \in Consumers, Update(c) PROVE TypeOK'
    BY <2>6, CallsAssumption DEF Update, CanCall, Sem!Ask
  <2>7. ASSUME NEW c \in Consumers, WaitTimed(c) PROVE TypeOK'
    BY <2>7, CallsAssumption DEF WaitTimed, CanCall
  <2>8. ASSUME NEW c \in Consumers, PollHit(c) PROVE TypeOK'
    BY <2>8 DEF PollHit, Sem!Ask
  <2>9. ASSUME NEW c \in Consumers, PollTimeout(c) PROVE TypeOK'
    BY <2>9 DEF PollTimeout
  <2>10. ASSUME NEW c \in Consumers, SemTake(c) PROVE TypeOK'
    BY <2>10 DEF SemTake, Sem!Take
  <2>11. ASSUME NEW c \in Consumers, YieldDone(c) PROVE TypeOK'
    BY <2>11 DEF YieldDone, Lw!Ask
  <2>12. ASSUME NEW c \in Consumers, LwTake(c) PROVE TypeOK'
    BY <2>12 DEF LwTake, Lw!Take
  <2>13. ASSUME NEW c \in Consumers, NEW m \in inner, Dequeue(c, m) PROVE TypeOK'
    BY <2>13, NoMsgAssumption DEF Dequeue
  <2>14. ASSUME NEW c \in Consumers, Dispatch(c) PROVE TypeOK'
    BY <2>14 DEF Dispatch
  <2>15. ASSUME NEW c \in Consumers, Return(c) PROVE TypeOK'
    BY <2>15 DEF Return
  <2>16. CASE UNCHANGED vars
    BY <2>16 DEF vars
  <2> QED
    BY <2>1, <2>2, <2>3, <2>4, <2>5, <2>6, <2>7, <2>8, <2>9, <2>10, <2>11,
       <2>12, <2>13, <2>14, <2>15, <2>16 DEF Next
<1> QED
  BY <1>1, <1>2, PTL DEF SafeSpec

\* The sets whose sizes TokensMatch adds up are finite, and their sizes are
\* natural numbers.
LEMMA Countable ==
  ASSUME TypeOK
  PROVE  \A S \in {inner, Dequeuing, Signalling, Granted, Notifying} :
           IsFiniteSet(S) /\ Cardinality(S) \in Nat
<1>1. IsFiniteSet(1..MaxPublish)
  BY FS_Interval, BoundsAssumption
<1>2. IsFiniteSet(Messages)
  BY <1>1, FS_Product, ActorsAssumption DEF Messages
<1>3. IsFiniteSet(inner)
  BY <1>2, FS_Subset DEF TypeOK
<1>4. IsFiniteSet(Dequeuing) /\ IsFiniteSet(Granted)
  BY FS_Subset, ActorsAssumption DEF Dequeuing, Granted
<1>5. IsFiniteSet(Signalling) /\ IsFiniteSet(Notifying)
  BY FS_Subset, ActorsAssumption DEF Signalling, Notifying
<1> QED
  BY <1>3, <1>4, <1>5, FS_CardinalityType

\* What one thread's step does to the size of a set it enters or leaves.
LEMMA EnterLeave ==
  ASSUME NEW S, IsFiniteSet(S), NEW T, NEW x
  PROVE  /\ (T = S \cup {x} /\ x \notin S) => Cardinality(T) = Cardinality(S) + 1
         /\ (T = S \ {x} /\ x \in S) => Cardinality(T) = Cardinality(S) - 1
BY FS_AddElement, FS_RemoveElement

\* A message in the queue has been published: the next one published is new.
InnerPublished == \A m \in inner : m[2] <= published[m[1]]

\* The counters of the channel agree in every reachable state: operator() and
\* _get move the tokens one by one, and a thread stopped between two of its
\* steps accounts for the difference.  TokensMatch is inductive once it is
\* known that an enqueued message is not in the queue already.
THEOREM TokensMatchInvariant == SafeSpec => [](TokensMatch /\ InnerPublished)
<1>1. Init => TokensMatch /\ InnerPublished
  <2> SUFFICES ASSUME Init PROVE TokensMatch /\ InnerPublished
    OBVIOUS
  <2>1. inner = {} /\ Dequeuing = {} /\ Signalling = {} /\ Granted = {} /\ Notifying = {}
    BY DEF Init, Dequeuing, Signalling, Granted, Notifying, Threads
  <2> QED
    BY <2>1, FS_EmptySet DEF Init, TokensMatch, InnerPublished
<1>2. TypeOK /\ TokensMatch /\ InnerPublished /\ [Next]_vars
        => TokensMatch' /\ InnerPublished'
  <2> SUFFICES ASSUME TypeOK, TokensMatch, InnerPublished, [Next]_vars
               PROVE  TokensMatch' /\ InnerPublished'
    OBVIOUS
  <2> DEFINE Goal == TokensMatch' /\ InnerPublished'
  <2>0. /\ IsFiniteSet(inner) /\ Cardinality(inner) \in Nat
        /\ IsFiniteSet(Dequeuing) /\ Cardinality(Dequeuing) \in Nat
        /\ IsFiniteSet(Signalling) /\ Cardinality(Signalling) \in Nat
        /\ IsFiniteSet(Granted) /\ Cardinality(Granted) \in Nat
        /\ IsFiniteSet(Notifying) /\ Cardinality(Notifying) \in Nat
        /\ lw \in Nat /\ sem \in Nat /\ dropped \in Nat
    BY Countable DEF TypeOK
  <2>1. ASSUME NEW p \in Publishers, Enqueue(p) PROVE Goal
    <3>1. <<p, published[p] + 1>> \notin inner /\ InnerPublished'
      BY <2>1 DEF Enqueue, InnerPublished, TypeOK, Messages
    <3>2. Cardinality(inner') = Cardinality(inner) + 1
      BY <2>0, <2>1, <3>1, EnterLeave DEF Enqueue
    <3>3. p \notin Signalling /\ Signalling' = Signalling \cup {p}
      BY <2>1 DEF Enqueue, CanPublish, Signalling, TypeOK, Threads
    <3>4. Notifying' = Notifying /\ Dequeuing' = Dequeuing /\ Granted' = Granted
      BY <2>1 DEF Enqueue, CanPublish, Notifying, Dequeuing, Granted, TypeOK, Threads
    <3>5. Cardinality(Signalling') = Cardinality(Signalling) + 1
      BY <2>0, <3>3, EnterLeave
    <3> QED
      BY <2>0, <2>1, <3>1, <3>2, <3>4, <3>5 DEF TokensMatch, Enqueue
  <2>2. ASSUME NEW p \in Publishers, EnqueueFails(p) PROVE Goal
    <3>1. p \notin Notifying /\ Notifying' = Notifying \cup {p}
      BY <2>2 DEF EnqueueFails, CanPublish, Notifying, TypeOK, Threads
    <3>2. Signalling' = Signalling /\ Dequeuing' = Dequeuing /\ Granted' = Granted
      BY <2>2 DEF EnqueueFails, CanPublish, Signalling, Dequeuing, Granted, TypeOK, Threads
    <3>3. Cardinality(Notifying') = Cardinality(Notifying) + 1
      BY <2>0, <3>1, EnterLeave
    <3> QED
      BY <2>0, <2>2, <3>2, <3>3 DEF TokensMatch, InnerPublished, EnqueueFails
  <2>3. ASSUME NEW p \in Publishers, Signal(p) PROVE Goal
    <3>1. /\ p \in Signalling /\ Signalling' = Signalling \ {p}
          /\ p \notin Notifying /\ Notifying' = Notifying \cup {p}
          /\ Dequeuing' = Dequeuing /\ Granted' = Granted
      BY <2>3 DEF Signal, Signalling, Notifying, Dequeuing, Granted, TypeOK, Threads
    <3>2. /\ Cardinality(Signalling') = Cardinality(Signalling) - 1
          /\ Cardinality(Notifying') = Cardinality(Notifying) + 1
      BY <2>0, <3>1, EnterLeave
    <3> QED
      BY <2>0, <2>3, <3>1, <3>2 DEF TokensMatch, InnerPublished, Signal, Lw!Post
  <2>4. ASSUME NEW p \in Publishers, Notify(p) PROVE Goal
    <3>1. /\ p \in Notifying /\ Notifying' = Notifying \ {p}
          /\ Signalling' = Signalling /\ Dequeuing' = Dequeuing /\ Granted' = Granted
      BY <2>4 DEF Notify, Signalling, Notifying, Dequeuing, Granted, TypeOK, Threads
    <3>2. Cardinality(Notifying') = Cardinality(Notifying) - 1
      BY <2>0, <3>1, EnterLeave
    <3> QED
      BY <2>0, <2>4, <3>1, <3>2 DEF TokensMatch, InnerPublished, Notify, Sem!Post
  <2>5. ASSUME NEW c \in Consumers,
               Get(c) \/ Update(c) \/ WaitTimed(c) \/ PollHit(c) \/ PollTimeout(c)
                 \/ Dispatch(c) \/ Return(c) \/ YieldDone(c)
        PROVE  Goal
    <3>1. /\ Signalling' = Signalling /\ Notifying' = Notifying
          /\ UNCHANGED <<inner, published, lw, sem, dropped>>
      BY <2>5 DEF Get, Update, WaitTimed, PollHit, PollTimeout, Dispatch, Return, YieldDone,
                  CanCall, Sem!Ask, Lw!Ask, Signalling, Notifying
    <3>2. Dequeuing' = Dequeuing /\ Granted' = Granted
      BY <2>5 DEF Get, Update, WaitTimed, PollHit, PollTimeout, Dispatch, Return, YieldDone,
                  CanCall, Dequeuing, Granted, TypeOK
    <3> QED
      BY <3>1, <3>2 DEF TokensMatch, InnerPublished
  <2>6. ASSUME NEW c \in Consumers, SemTake(c) PROVE Goal
    <3>1. /\ c \notin Granted /\ Granted' = Granted \cup {c}
          /\ Dequeuing' = Dequeuing
      BY <2>6 DEF SemTake, Sem!Take, SemWaiting, Granted, Dequeuing, TypeOK
    <3>2. Signalling' = Signalling /\ Notifying' = Notifying
      BY <2>6 DEF SemTake, Signalling, Notifying
    <3>3. Cardinality(Granted') = Cardinality(Granted) + 1
      BY <2>0, <3>1, EnterLeave
    <3> QED
      BY <2>0, <2>6, <3>1, <3>2, <3>3 DEF TokensMatch, InnerPublished, SemTake, Sem!Take
  <2>7. ASSUME NEW c \in Consumers, LwTake(c) PROVE Goal
    <3>1. /\ c \in Granted /\ Granted' = Granted \ {c}
          /\ c \notin Dequeuing /\ Dequeuing' = Dequeuing \cup {c}
      BY <2>7 DEF LwTake, Lw!Take, LwWaiting, Granted, Dequeuing, TypeOK
    <3>2. Signalling' = Signalling /\ Notifying' = Notifying
      BY <2>7 DEF LwTake, Signalling, Notifying
    <3>3. /\ Cardinality(Granted') = Cardinality(Granted) - 1
          /\ Cardinality(Dequeuing') = Cardinality(Dequeuing) + 1
      BY <2>0, <3>1, EnterLeave
    <3> QED
      BY <2>0, <2>7, <3>2, <3>3 DEF TokensMatch, InnerPublished, LwTake, Lw!Take
  <2>8. ASSUME NEW c \in Consumers, NEW m \in inner, Dequeue(c, m) PROVE Goal
    <3>1. /\ c \in Dequeuing /\ Dequeuing' = Dequeuing \ {c}
          /\ Granted' = Granted
      BY <2>8 DEF Dequeue, Granted, Dequeuing, TypeOK
    <3>2. Signalling' = Signalling /\ Notifying' = Notifying
      BY <2>8 DEF Dequeue, Signalling, Notifying
    <3>3. inner' = inner \ {m} /\ InnerPublished'
      BY <2>8 DEF Dequeue, InnerPublished
    <3>4. /\ Cardinality(Dequeuing') = Cardinality(Dequeuing) - 1
          /\ Cardinality(inner') = Cardinality(inner) - 1
      BY <2>0, <3>1, <3>3, EnterLeave
    <3> QED
      BY <2>0, <2>8, <3>1, <3>2, <3>3, <3>4 DEF TokensMatch, Dequeue
  <2>9. CASE UNCHANGED vars
    BY <2>9 DEF vars, TokensMatch, InnerPublished, Dequeuing, Signalling, Granted, Notifying
  <2> QED
    BY <2>1, <2>2, <2>3, <2>4, <2>5, <2>6, <2>7, <2>8, <2>9 DEF Next
<1> QED
  BY <1>1, <1>2, TypeCorrect, PTL DEF SafeSpec

\* A consumer that _sem has let through is not held up again by the inner
\* semaphore nor by an empty queue, as long as no allocation has failed: the
\* two semaphores of _get count the same messages.
THEOREM GrantedNeverBlocksInvariant == SafeSpec => []GrantedNeverBlocks
<1>1. TypeOK /\ TokensMatch => GrantedNeverBlocks
  <2> SUFFICES ASSUME TypeOK, TokensMatch, dropped = 0
               PROVE  /\ Granted # {} => lw > 0
                      /\ Dequeuing # {} => inner # {}
    BY DEF GrantedNeverBlocks
  <2>1. /\ Cardinality(inner) \in Nat
        /\ IsFiniteSet(Dequeuing) /\ Cardinality(Dequeuing) \in Nat
        /\ IsFiniteSet(Granted) /\ Cardinality(Granted) \in Nat
        /\ Cardinality(Signalling) \in Nat /\ Cardinality(Notifying) \in Nat
        /\ lw \in Nat /\ sem \in Nat
    BY Countable DEF TypeOK
  <2>2. /\ Granted # {} => Cardinality(Granted) # 0
        /\ Dequeuing # {} => Cardinality(Dequeuing) # 0
    BY <2>1, FS_EmptySet
  <2>3. inner = {} => Cardinality(inner) = 0
    BY FS_EmptySet
  <2> QED
    BY <2>1, <2>2, <2>3 DEF TokensMatch
<1> QED
  BY <1>1, TypeCorrect, TokensMatchInvariant, PTL

-----------------------------------------------------------------------------
(* Where a message is *)

\* m is one of the messages published when each publisher has made so many.
Among(m, counts) == m \in Messages /\ m[2] <= counts[m[1]]
InHand == {c \in Consumers : pc[c] = "dispatch"}

\* What is queued, in hand or dispatched has been published.
OnlyPublished ==
    /\ \A m \in inner : Among(m, published)
    /\ \A c \in InHand : Among(held[c], published)
    /\ \A c \in Consumers : \A i \in DOMAIN log[c] : Among(log[c][i], published)

\* No message is in two places, be they of the same kind or not.
OnePlace ==
    /\ \A c \in InHand : held[c] \notin inner
    /\ \A c, d \in InHand : held[c] = held[d] => c = d
    /\ \A c \in Consumers : \A i \in DOMAIN log[c] : log[c][i] \notin inner
    /\ \A c \in Consumers : \A i \in DOMAIN log[c] : \A d \in InHand : log[c][i] # held[d]
    /\ \A c, d \in Consumers : \A i \in DOMAIN log[c] : \A j \in DOMAIN log[d] :
          log[c][i] = log[d][j] => c = d /\ i = j

\* No message is lost.
SomePlace == \A m \in Messages : Among(m, published) =>
    \/ m \in inner
    \/ \E c \in InHand : held[c] = m
    \/ \E c \in Consumers : \E i \in DOMAIN log[c] : log[c][i] = m

\* m is the earlier one of two messages of a publisher, if they are of one.
Earlier(m, n) == m[1] = n[1] => m[2] < n[2]

\* A message that has left the queue is older than those of its publisher that
\* have not, and the one in a consumer's hand is newer than those it has had.
AgesInOrder ==
    /\ \A c \in InHand : \A m \in inner : Earlier(held[c], m)
    /\ \A c \in Consumers : \A i \in DOMAIN log[c] : \A m \in inner : Earlier(log[c][i], m)
    /\ \A c \in InHand : \A i \in DOMAIN log[c] : Earlier(log[c][i], held[c])
    /\ \A c \in Consumers : \A i, j \in DOMAIN log[c] : i < j => Earlier(log[c][i], log[c][j])

PlacesInv == OnlyPublished /\ OnePlace /\ SomePlace /\ AgesInOrder

\* The steps that move no message.
LEMMA NothingMoves ==
  ASSUME PlacesInv, UNCHANGED <<inner, log, published>>, InHand' = InHand,
         \A c \in InHand : held'[c] = held[c]
  PROVE  PlacesInv'
<1>1. OnlyPublished'
  BY DEF PlacesInv, OnlyPublished, Among
<1>2. OnePlace'
  BY DEF PlacesInv, OnePlace
<1>3. SomePlace'
  BY DEF PlacesInv, SomePlace, Among
<1>4. AgesInOrder'
  BY DEF PlacesInv, AgesInOrder
<1> QED
  BY <1>1, <1>2, <1>3, <1>4 DEF PlacesInv

\* operator() puts a message into the queue that is newer than all of its
\* publisher.
LEMMA EnqueuePlaces ==
  ASSUME TypeOK, PlacesInv, NEW p \in Publishers, Enqueue(p)
  PROVE  PlacesInv'
<1> DEFINE n == <<p, published[p] + 1>>
<1>1. n \in Messages /\ n[1] = p /\ n[2] = published[p] + 1 /\ published[p] \in Nat
  BY BoundsAssumption DEF Enqueue, TypeOK, Messages
<1>2. /\ inner' = inner \cup {n} /\ published' = [published EXCEPT ![p] = @ + 1]
      /\ UNCHANGED <<held, log>> /\ InHand' = InHand
  BY DEF Enqueue, InHand
<1>3. \A m \in Messages : Among(m, published') <=> Among(m, published) \/ m = n
  <2>1. ASSUME NEW m \in Messages PROVE Among(m, published') <=> Among(m, published) \/ m = n
    <3>1. m = <<m[1], m[2]>> /\ m[1] \in Publishers /\ m[2] \in Nat /\ published[m[1]] \in Nat
      BY DEF Messages, TypeOK
    <3>2. CASE m[1] = p
      BY <1>1, <1>2, <3>1, <3>2 DEF Among, TypeOK
    <3>3. CASE m[1] # p
      BY <1>1, <1>2, <3>1, <3>3 DEF Among, TypeOK
    <3> QED
      BY <3>2, <3>3
  <2> QED
    BY <2>1
<1>4. ~Among(n, published) /\ \A m \in Messages : Among(m, published) => Earlier(m, n)
  BY <1>1 DEF Among, Earlier, Messages, TypeOK
<1> HIDE DEF n
<1>5. /\ \A m : Among(m, published) => m \in Messages /\ m # n /\ Earlier(m, n)
      /\ \A m : Among(m, published) => Among(m, published')
      /\ Among(n, published')
  <2>1. \A m : Among(m, published) => m \in Messages
    BY DEF Among
  <2> QED
    BY <1>1, <1>3, <1>4, <2>1
<1>6. OnlyPublished'
  BY <1>2, <1>5 DEF PlacesInv, OnlyPublished
<1>7. OnePlace'
  BY <1>2, <1>5 DEF PlacesInv, OnlyPublished, OnePlace
<1>8. SomePlace'
  BY <1>2, <1>3 DEF PlacesInv, SomePlace
<1>9. AgesInOrder'
  BY <1>2, <1>5 DEF PlacesInv, OnlyPublished, AgesInOrder
<1> QED
  BY <1>6, <1>7, <1>8, <1>9 DEF PlacesInv

\* try_dequeue moves the oldest message of a publisher from the queue to a hand.
LEMMA DequeuePlaces ==
  ASSUME TypeOK, PlacesInv, NEW c \in Consumers, NEW m \in inner, Dequeue(c, m)
  PROVE  PlacesInv'
<1>1. /\ inner' = inner \ {m} /\ c \notin InHand /\ InHand' = InHand \cup {c}
      /\ held'[c] = m /\ \A d \in InHand : held'[d] = held[d]
      /\ UNCHANGED <<log, published>>
  BY DEF Dequeue, InHand, TypeOK
<1>2. \A n \in inner' : Earlier(m, n)
  <2>1. ASSUME NEW n \in inner, n # m, n[1] = m[1] PROVE m[2] < n[2]
    <3>1. m = <<m[1], m[2]>> /\ n = <<n[1], n[2]>> /\ m[2] \in Nat \ {0} /\ n[2] \in Nat \ {0}
      BY DEF TypeOK, Messages
    <3>2. n[2] \notin 1..(m[2] - 1)
      BY <2>1, <3>1 DEF Dequeue
    <3>3. n[2] # m[2]
      BY <2>1, <3>1
    <3> QED
      BY <3>1, <3>2, <3>3
  <2> QED
    BY <1>1, <2>1 DEF Earlier
<1>3. OnlyPublished'
  BY <1>1 DEF PlacesInv, OnlyPublished, Among
<1>4. OnePlace'
  BY <1>1 DEF PlacesInv, OnePlace
<1>5. SomePlace'
  BY <1>1 DEF PlacesInv, SomePlace, Among
<1>6. AgesInOrder'
  BY <1>1, <1>2 DEF PlacesInv, AgesInOrder
<1> QED
  BY <1>3, <1>4, <1>5, <1>6 DEF PlacesInv

\* get moves the message in hand to the end of what the consumer has dispatched.
LEMMA DispatchPlaces ==
  ASSUME TypeOK, PlacesInv, NEW c \in Consumers, Dispatch(c)
  PROVE  PlacesInv'
<1> DEFINE n == Len(log[c])
           m == held[c]
<1>1. n \in Nat /\ DOMAIN log[c] = 1..n /\ m \in Messages
  BY DEF TypeOK, Dispatch
<1>2. /\ c \in InHand /\ InHand' = InHand \ {c}
      /\ UNCHANGED <<inner, held, published>>
  BY DEF Dispatch, InHand, TypeOK
<1>3. /\ DOMAIN log'[c] = 1..(n + 1) /\ log'[c][n + 1] = m
      /\ \A i \in 1..n : log'[c][i] = log[c][i]
  BY <1>1 DEF Dispatch, TypeOK
<1>4. \A d \in Consumers : d # c => log'[d] = log[d]
  BY DEF Dispatch, TypeOK
<1> HIDE DEF n
<1>5. \A i \in 1..(n + 1) : i \in 1..n \/ i = n + 1
  BY <1>1
<1>6. \A i \in 1..n : i \in 1..(n + 1) /\ i < n + 1 /\ i # n + 1
  BY <1>1
<1>7. n + 1 \in 1..(n + 1)
  BY <1>1
<1> HIDE DEF m
<1>h. held[c] = m
  BY DEF m
<1>8. OnlyPublished'
  BY <1>1, <1>2, <1>3, <1>4, <1>5, <1>h DEF PlacesInv, OnlyPublished, Among
<1> DEFINE Old(d, i) == d \in Consumers /\ i \in DOMAIN log[d]
           New(d, i) == d = c /\ i = n + 1
<1>9. \A d \in Consumers : \A i \in DOMAIN log'[d] :
         \/ Old(d, i) /\ log'[d][i] = log[d][i] /\ ~New(d, i)
         \/ New(d, i) /\ log'[d][i] = m
  BY <1>1, <1>3, <1>4, <1>5, <1>6
<1>10. \A d \in Consumers : \A i \in DOMAIN log[d] : i \in DOMAIN log'[d] /\ log'[d][i] = log[d][i]
  BY <1>1, <1>3, <1>4, <1>6
<1>11. ~(n + 1 < n + 1) /\ \A i \in DOMAIN log[c] : ~(n + 1 < i)
  BY <1>1
<1> HIDE DEF Old, New
<1>12. OnePlace'
  <2>1. \A d \in Consumers : \A i : Old(d, i) <=> i \in DOMAIN log[d]
    BY DEF Old
  <2>2. \A d, e \in Consumers : \A i, j : New(d, i) /\ New(e, j) => d = e /\ i = j
    BY DEF New
  <2> QED
    BY <1>2, <1>9, <1>h, <2>1, <2>2 DEF PlacesInv, OnePlace
<1>13. SomePlace'
  BY <1>2, <1>3, <1>7, <1>10, <1>h DEF PlacesInv, SomePlace, Among
<1>14. AgesInOrder'
  <2>1. \A d \in Consumers : \A i : Old(d, i) <=> i \in DOMAIN log[d]
    BY DEF Old
  <2>2. \A d \in InHand' : \A i \in DOMAIN log'[d] : i \in DOMAIN log[d] /\ log'[d][i] = log[d][i]
    BY <1>2, <1>4 DEF InHand
  <2>3. \A d \in Consumers : \A i, j : New(d, i) /\ New(d, j) => i = j
    BY DEF New
  <2>4. \A i, j \in DOMAIN log'[c] : i < j => Earlier(log'[c][i], log'[c][j])
    BY <1>1, <1>2, <1>3, <1>5, <1>6, <1>11, <1>h DEF PlacesInv, AgesInOrder
  <2>5. \A d \in Consumers : \A i \in DOMAIN log'[d] : \A k \in inner' : Earlier(log'[d][i], k)
    BY <1>2, <1>9, <1>h, <2>1 DEF PlacesInv, AgesInOrder
  <2>6. \A d \in InHand' : \A i \in DOMAIN log'[d] : Earlier(log'[d][i], held'[d])
    BY <1>2, <2>2 DEF PlacesInv, AgesInOrder
  <2>7. \A d \in InHand' : \A k \in inner' : Earlier(held'[d], k)
    BY <1>2 DEF PlacesInv, AgesInOrder
  <2> QED
    BY <1>4, <2>4, <2>5, <2>6, <2>7 DEF PlacesInv, AgesInOrder
<1> QED
  BY <1>8, <1>12, <1>13, <1>14 DEF PlacesInv

\* In every reachable state a published message is in one place.
LEMMA PlacesHold == SafeSpec => []PlacesInv
<1>1. Init => PlacesInv
  <2> SUFFICES ASSUME Init PROVE PlacesInv
    OBVIOUS
  <2>1. inner = {} /\ InHand = {} /\ \A c \in Consumers : DOMAIN log[c] = {}
    BY DEF Init, InHand
  <2>2. OnlyPublished /\ OnePlace /\ AgesInOrder
    BY <2>1 DEF OnlyPublished, OnePlace, AgesInOrder
  <2>3. SomePlace
    BY DEF Init, SomePlace, Among, Messages
  <2> QED
    BY <2>2, <2>3 DEF PlacesInv
<1>2. TypeOK /\ PlacesInv /\ [Next]_vars => PlacesInv'
  <2> SUFFICES ASSUME TypeOK, PlacesInv, [Next]_vars PROVE PlacesInv'
    OBVIOUS
  <2>1. ASSUME NEW p \in Publishers, Enqueue(p) PROVE PlacesInv'
    BY <2>1, EnqueuePlaces
  <2>2. ASSUME NEW p \in Publishers, EnqueueFails(p) \/ Signal(p) \/ Notify(p)
        PROVE  PlacesInv'
    BY <2>2, NothingMoves DEF EnqueueFails, Signal, Notify, InHand
  <2>3. ASSUME NEW c \in Consumers,
               \/ Get(c) \/ Update(c) \/ WaitTimed(c) \/ PollHit(c) \/ PollTimeout(c)
               \/ SemTake(c) \/ YieldDone(c) \/ LwTake(c) \/ Return(c)
        PROVE  PlacesInv'
    <3>1. InHand' = InHand
      BY <2>3 DEF Get, Update, WaitTimed, PollHit, PollTimeout, SemTake, YieldDone, LwTake, Return,
                  CanCall, Sem!Take, SemWaiting, Lw!Take, LwWaiting, InHand, TypeOK
    <3>2. UNCHANGED <<inner, log, published>> /\ \A d \in InHand : held'[d] = held[d]
      BY <2>3 DEF Get, Update, WaitTimed, PollHit, PollTimeout, SemTake, YieldDone, LwTake, Return,
                  InHand, TypeOK
    <3> QED
      BY <3>1, <3>2, NothingMoves
  <2>4. ASSUME NEW c \in Consumers, NEW m \in inner, Dequeue(c, m) PROVE PlacesInv'
    BY <2>4, DequeuePlaces
  <2>5. ASSUME NEW c \in Consumers, Dispatch(c) PROVE PlacesInv'
    BY <2>5, DispatchPlaces
  <2>6. CASE UNCHANGED vars
    BY <2>6, NothingMoves DEF vars, InHand
  <2> QED
    BY <2>1, <2>2, <2>3, <2>4, <2>5, <2>6 DEF Next
<1> QED
  BY <1>1, <1>2, TypeCorrect, PTL DEF SafeSpec

\* A consumer cannot dispatch more messages than there are, since it dispatches
\* none twice.
LEMMA LogFits ==
  ASSUME TypeOK, OnePlace, NEW c \in Consumers
  PROVE  DOMAIN log[c] \subseteq 1..Cardinality(Messages)
<1> DEFINE n == Len(log[c])
<1>1. n \in Nat /\ DOMAIN log[c] = 1..n /\ log[c] \in [1..n -> Messages]
  BY DEF TypeOK
<1>2. IsFiniteSet(1..MaxPublish)
  BY FS_Interval, BoundsAssumption
<1>3. IsFiniteSet(Messages)
  BY <1>2, FS_Product, ActorsAssumption DEF Messages
<1>4. \A i, j \in 1..n : log[c][i] = log[c][j] => i = j
  BY <1>1 DEF OnePlace
<1> HIDE DEF n
<1>5. log[c] \in Injection(1..n, Messages)
  BY <1>1, <1>4 DEF Injection, IsInjective
<1>6. Cardinality(1..n) <= Cardinality(Messages) /\ Cardinality(Messages) \in Nat
  BY <1>3, <1>5, FS_Injection, FS_CardinalityType
<1>7. Cardinality(1..n) = IF 1 > n THEN 0 ELSE n - 1 + 1
  BY <1>1, FS_Interval
<1>8. n <= Cardinality(Messages)
  BY <1>1, <1>6, <1>7
<1> QED
  BY <1>1, <1>6, <1>8

\* The size of a set with at most one element.
LEMMA AtMostOne ==
  ASSUME NEW S, \A x, y \in S : x = y
  PROVE  Cardinality(S) = IF S = {} THEN 0 ELSE 1
<1>1. CASE S = {}
  BY <1>1, FS_EmptySet
<1>2. CASE S # {}
  <2>1. PICK x : x \in S
    BY <1>2
  <2>2. S = {x}
    BY <2>1
  <2> QED
    BY <1>2, <2>2, FS_Singleton
<1> QED
  BY <1>1, <1>2

\* A message that was published is, in every reachable state and for any number
\* of publishers and consumers, in exactly one place: in the queue, in the hand
\* of one consumer, or dispatched once by one consumer.
THEOREM ExactlyOnceInvariant == SafeSpec => []ExactlyOnce
<1>1. TypeOK /\ PlacesInv => ExactlyOnce
  <2> SUFFICES ASSUME TypeOK, PlacesInv, NEW m \in Messages
               PROVE  Copies(m) = IF m[2] <= published[m[1]] THEN 1 ELSE 0
    BY DEF ExactlyOnce
  <2> DEFINE Q == {m} \cap inner
             H == {c \in Consumers : pc[c] = "dispatch" /\ held[c] = m}
             D == {d \in Consumers \X (1..Cardinality(Messages)) :
                     d[2] \in DOMAIN log[d[1]] /\ log[d[1]][d[2]] = m}
  <2>1. Copies(m) = Cardinality(Q) + Cardinality(H) + Cardinality(D)
    BY DEF Copies
  <2>2. H = {c \in InHand : held[c] = m}
    BY DEF InHand
  <2>3. \A c \in Consumers : \A i \in DOMAIN log[c] : log[c][i] = m => <<c, i>> \in D
    BY LogFits DEF PlacesInv
  <2>4. \A d \in D : d = <<d[1], d[2]>> /\ d[1] \in Consumers
                     /\ d[2] \in DOMAIN log[d[1]] /\ log[d[1]][d[2]] = m
    OBVIOUS
  <2> HIDE DEF H, D
  <2>5. \A x, y \in Q : x = y
    OBVIOUS
  <2>6. \A x, y \in H : x = y
    BY <2>2 DEF PlacesInv, OnePlace
  <2>7. \A x, y \in D : x = y
    BY <2>4 DEF PlacesInv, OnePlace
  <2>8. /\ Cardinality(Q) = IF Q = {} THEN 0 ELSE 1
        /\ Cardinality(H) = IF H = {} THEN 0 ELSE 1
        /\ Cardinality(D) = IF D = {} THEN 0 ELSE 1
    BY <2>5, <2>6, <2>7, AtMostOne
  <2>9. CASE m \in inner
    <3>1. Q # {} /\ H = {} /\ m[2] <= published[m[1]]
      BY <2>2, <2>9 DEF PlacesInv, OnePlace, OnlyPublished, Among
    <3>2. D = {}
      BY <2>4, <2>9 DEF PlacesInv, OnePlace
    <3> QED
      BY <2>1, <2>8, <3>1, <3>2
  <2>10. CASE m \notin inner /\ H # {}
    <3>1. Q = {} /\ m[2] <= published[m[1]]
      BY <2>2, <2>10 DEF PlacesInv, OnlyPublished, Among
    <3>2. D = {}
      BY <2>2, <2>4, <2>10 DEF PlacesInv, OnePlace
    <3> QED
      BY <2>1, <2>8, <2>10, <3>1, <3>2
  <2>11. CASE m \notin inner /\ H = {} /\ D # {}
    <3>1. Q = {} /\ m[2] <= published[m[1]]
      BY <2>4, <2>11 DEF PlacesInv, OnlyPublished, Among
    <3> QED
      BY <2>1, <2>8, <2>11, <3>1
  <2>12. CASE m \notin inner /\ H = {} /\ D = {}
    <3>1. Q = {}
      BY <2>12
    <3>2. ~(m[2] <= published[m[1]])
      BY <2>2, <2>3, <2>12 DEF PlacesInv, SomePlace, Among
    <3> QED
      BY <2>1, <2>8, <2>12, <3>1, <3>2
  <2> QED
    BY <2>9, <2>10, <2>11, <2>12
<1> QED
  BY <1>1, TypeCorrect, PlacesHold, PTL

\* However many consumers share the channel, each of them dispatches the messages
\* of one publisher in the order of publication.
THEOREM InOrderInvariant == SafeSpec => []InOrder
<1>1. PlacesInv => InOrder
  BY DEF PlacesInv, AgesInOrder, Earlier, InOrder
<1> QED
  BY <1>1, PlacesHold, PTL
=============================================================================
