-------------------------- MODULE AsyncDelayProofs --------------------------
(***************************************************************************)
(* Proofs about fes::async_delay, for any finite set of coroutines and any *)
(* bounds, and whatever the subscribers do.                                *)
(***************************************************************************)
EXTENDS AsyncDelayHistory, FiniteSetTheorems, SequenceTheorems, TLAPS

\* message_comp "must complain strict weak order" (comment in message.h), which
\* is what std::sort requires: it is irreflexive and transitive, and so is the
\* relation of being equivalent, that is, neither before the other.
THEOREM StrictWeakOrder ==
  ASSUME NEW a \in Messages, NEW b \in Messages, NEW c \in Messages
  PROVE  /\ ~message_comp(a, a)
         /\ message_comp(a, b) /\ message_comp(b, c) => message_comp(a, c)
         /\ /\ ~message_comp(a, b) /\ ~message_comp(b, a)
            /\ ~message_comp(b, c) /\ ~message_comp(c, b)
            => ~message_comp(a, c) /\ ~message_comp(c, a)
BY DEF message_comp, Messages

\* What std::sort leaves in the vector is sorted, is as long as before and holds
\* messages only.
LEMMA SortKeepsType ==
  ASSUME NEW q \in Seq(Messages), NEW s \in SortResults(q)
  PROVE  s \in Seq(Messages) /\ Len(s) = Len(q) /\ IsSorted(s)
<1>1. PICK p \in Bijections(DOMAIN q) : s = [i \in DOMAIN q |-> q[p[i]]]
  BY DEF SortResults
<1>2. p \in [DOMAIN q -> DOMAIN q]
  BY <1>1 DEF Bijections
<1>3. DOMAIN q = 1..Len(q) /\ Len(q) \in Nat
  OBVIOUS
<1>4. s \in [1..Len(q) -> Messages]
  BY <1>1, <1>2, <1>3
<1>5. s \in Seq(Messages) /\ Len(s) = Len(q)
  BY <1>3, <1>4
<1> QED
  BY <1>5 DEF SortResults

\* What pop_back leaves.
LEMMA PopBack ==
  ASSUME NEW S, NEW q \in Seq(S), Len(q) # 0
  PROVE  LET r == SubSeq(q, 1, Len(q) - 1)
         IN  r \in Seq(S) /\ Len(r) = Len(q) - 1 /\ \A i \in 1..(Len(q) - 1) : r[i] = q[i]
<1>1. Len(q) \in Nat \ {0}
  OBVIOUS
<1>2. \A i \in 1..(Len(q) - 1) : q[i] \in S
  BY <1>1
<1> DEFINE k == Len(q) - 1
<1>3. k \in Nat /\ \A i \in 1..k : q[i] \in S
  BY <1>1, <1>2
<1> HIDE DEF k
<1>4. /\ SubSeq(q, 1, k) \in Seq(S)
      /\ Len(SubSeq(q, 1, k)) = IF 1 <= k THEN k - 1 + 1 ELSE 0
      /\ \A i \in 1..(k - 1 + 1) : SubSeq(q, 1, k)[i] = q[1 + i - 1]
  BY <1>3, SubSeqProperties
<1>5. /\ SubSeq(q, 1, k) \in Seq(S)
      /\ Len(SubSeq(q, 1, k)) = k
      /\ \A i \in 1..k : SubSeq(q, 1, k)[i] = q[i]
  BY <1>3, <1>4
<1> QED
  BY <1>5 DEF k

\* Who is in flight, one call at a time.
LEMMA InFlightMembers ==
  ASSUME NEW x
  PROVE  x \in InFlight <=>
           \E c \in Coroutines : \E i \in DOMAIN stack[c] :
              stack[c][i].phase # "sem" /\ x = <<c, i>>
BY DEF InFlight

\* Setting the phase of the innermost call of c.
LEMMA SetPhaseEffect ==
  ASSUME TypeOK, NEW c \in Coroutines, ~Idle(c), NEW phase \in Phases, SetPhase(c, phase)
  PROVE  /\ stack' \in [Coroutines -> Seq(Frames)]
         /\ \A d \in Coroutines : DOMAIN stack'[d] = DOMAIN stack[d]
         /\ \A d \in Coroutines : \A i \in DOMAIN stack[d] :
               stack'[d][i].phase =
                 IF d = c /\ i = Len(stack[c]) THEN phase ELSE stack[d][i].phase
<1> DEFINE n == Len(stack[c])
           f == [stack[c][n] EXCEPT !.phase = phase]
<1>1. stack[c] \in Seq(Frames) /\ n \in 1..n /\ DOMAIN stack[c] = 1..n
  BY DEF TypeOK, Idle
<1>2. stack[c][n] \in Frames
  BY <1>1
<1>3. f \in Frames /\ f.phase = phase
  BY <1>2 DEF Frames
<1>4. stack' = [stack EXCEPT ![c] = [stack[c] EXCEPT ![n] = f]]
  BY DEF SetPhase, TypeOK
<1> HIDE DEF f
<1>5. [stack[c] EXCEPT ![n] = f] \in Seq(Frames)
  BY <1>1, <1>3
<1> QED
  BY <1>1, <1>3, <1>4, <1>5 DEF TypeOK

\* Leaving the innermost call of c.
LEMMA PopFrameEffect ==
  ASSUME TypeOK, NEW c \in Coroutines, ~Idle(c), PopFrame(c)
  PROVE  /\ stack' \in [Coroutines -> Seq(Frames)]
         /\ \A d \in Coroutines :
               DOMAIN stack'[d] = IF d = c THEN DOMAIN stack[c] \ {Len(stack[c])}
                                  ELSE DOMAIN stack[d]
         /\ \A d \in Coroutines : \A i \in DOMAIN stack'[d] : stack'[d][i] = stack[d][i]
<1> DEFINE n == Len(stack[c])
           s == SubSeq(stack[c], 1, n - 1)
<1>1. stack[c] \in Seq(Frames) /\ n \in Nat \ {0} /\ DOMAIN stack[c] = 1..n
  BY DEF TypeOK, Idle
<1>2. s \in Seq(Frames) /\ Len(s) = n - 1 /\ \A i \in 1..(n - 1) : s[i] = stack[c][i]
  BY <1>1, PopBack
<1>3. stack' = [stack EXCEPT ![c] = s]
  BY DEF PopFrame, TypeOK
<1> HIDE DEF s
<1>4. DOMAIN s = 1..(n - 1) /\ 1..(n - 1) = (1..n) \ {n}
  BY <1>1, <1>2
<1> QED
  BY <1>1, <1>2, <1>3, <1>4 DEF TypeOK

\* What operator() does to the vector: one more message, sorted in.
LEMMA PostEffect ==
  ASSUME TypeOK, NEW priority \in Priorities, NEW time \in Int, Post(priority, time)
  PROVE  /\ queue' \in Seq(Messages) /\ Len(queue') = Len(queue) + 1 /\ IsSorted(queue')
         /\ posted' \in 0..MaxPosts /\ sem' = sem + 1
         /\ UNCHANGED <<now, cur, stack, thrown, log>>
<1> DEFINE m == [id |-> posted + 1, time |-> time, prio |-> priority]
<1>1. posted + 1 \in Ids /\ posted' = posted + 1
  BY BoundsAssumption DEF Post, TypeOK, Ids
<1>2. m \in Messages
  BY <1>1, NumbersAssumption DEF Messages
<1>3. queue' \in SortResults(Append(queue, m))
  BY DEF Post
<1> HIDE DEF m
<1>4. Append(queue, m) \in Seq(Messages) /\ Len(Append(queue, m)) = Len(queue) + 1
  BY <1>2 DEF TypeOK
<1>5. queue' \in Seq(Messages) /\ Len(queue') = Len(queue) + 1 /\ IsSorted(queue')
  BY <1>3, <1>4, SortKeepsType
<1> QED
  BY <1>1, <1>5, BoundsAssumption DEF Post, Ids

Shape == TypeOK /\ EntriesMatch /\ IsFiniteSet(InFlight)

\* A call past _sem.wait() has an entry in the vector: back() is defined.
LEMMA BackExists ==
  ASSUME Shape, NEW c \in Coroutines, InPhase(c, "due") \/ InPhase(c, "call")
  PROVE  /\ Len(queue) \in Nat \ {0}
         /\ <<c, Len(stack[c])>> \in InFlight
         /\ Back \in Messages
<1>1. stack[c] \in Seq(Frames) /\ stack[c] # <<>>
  BY DEF Shape, TypeOK, InPhase, Idle
<1>2. Len(stack[c]) \in DOMAIN stack[c] /\ stack[c][Len(stack[c])].phase # "sem"
  BY <1>1 DEF InPhase, Top
<1>3. <<c, Len(stack[c])>> \in InFlight
  BY <1>2, InFlightMembers
<1>4. Cardinality(InFlight) \in Nat \ {0}
  BY <1>3, FS_CardinalityType, FS_EmptySet DEF Shape
<1>5. Len(queue) \in Nat \ {0}
  BY <1>4 DEF Shape, EntriesMatch, TypeOK
<1> QED
  BY <1>3, <1>5 DEF Back, Shape, TypeOK

\* The invariant holds before the first message.
LEMMA ShapeInit == Init => Shape
<1> SUFFICES ASSUME Init PROVE Shape
  OBVIOUS
<1>1. InFlight = {}
  <2>1. \A c \in Coroutines : DOMAIN stack[c] = {}
    BY DEF Init
  <2> QED
    BY <2>1, InFlightMembers
<1>2. TypeOK
  BY BoundsAssumption DEF Init, TypeOK, Times
<1> QED
  BY <1>1, <1>2, FS_EmptySet DEF Shape, EntriesMatch, Init

\* Every step keeps the invariant.
LEMMA ShapeNext == Shape /\ [Next]_vars => Shape'
<1> SUFFICES ASSUME Shape, [Next]_vars PROVE Shape'
  OBVIOUS
<1>0. TypeOK /\ EntriesMatch /\ IsFiniteSet(InFlight) /\ Cardinality(InFlight) \in Nat
  BY FS_CardinalityType DEF Shape
<1>1. ASSUME NEW priority \in Priorities, NEW time \in Int, Post(priority, time)
      PROVE  Shape'
  <2>1. InFlight' = InFlight
    BY <1>0, <1>1, PostEffect DEF InFlight
  <2>2. TypeOK'
    BY <1>0, <1>1, PostEffect DEF TypeOK
  <2>3. EntriesMatch'
    BY <1>0, <1>1, <2>1, PostEffect DEF EntriesMatch, TypeOK
  <2> QED
    BY <1>0, <2>1, <2>2, <2>3 DEF Shape
<1>2. ASSUME NEW c \in Coroutines, Publish(c) \/ HandlerPost(c) PROVE Shape'
  <2>1. now \in Int /\ Times \subseteq Int
    BY <1>0 DEF TypeOK, Times
  <2>2. PICK priority \in Priorities, time \in Int : Post(priority, time)
    BY <1>2, <2>1, NumbersAssumption DEF Publish, HandlerPost
  <2> QED
    BY <1>1, <2>2
<1>3. ASSUME NEW c \in Coroutines, Receive(c) PROVE Shape'
  <2>1. PICK api \in Apis :
          stack' = [stack EXCEPT ![c] = Append(@, [api |-> api, phase |-> "sem"])]
    BY <1>3 DEF Receive
  <2> DEFINE f == [api |-> api, phase |-> "sem"]
  <2>2. f \in Frames /\ f.phase = "sem"
    BY ApisAssumption DEF Frames, Phases
  <2> HIDE DEF f
  <2>3. stack' = [stack EXCEPT ![c] = Append(stack[c], f)] /\ stack[c] \in Seq(Frames)
    BY <1>0, <2>1 DEF f, TypeOK
  <2>4. stack' \in [Coroutines -> Seq(Frames)]
    BY <1>0, <2>2, <2>3 DEF TypeOK
  <2>5. InFlight' = InFlight
    <3>1. \A d \in Coroutines : d # c => stack'[d] = stack[d]
      BY <1>0, <2>3 DEF TypeOK
    <3>2. stack'[c] = Append(stack[c], f)
      BY <1>0, <2>3 DEF TypeOK
    <3>3. \A i \in DOMAIN stack[c] : i \in DOMAIN stack'[c] /\ stack'[c][i] = stack[c][i]
      BY <2>3, <3>2
    <3>4. \A i \in DOMAIN stack'[c] : i \in DOMAIN stack[c] \/ stack'[c][i].phase = "sem"
      BY <2>2, <2>3, <3>2
    <3>5. \A d \in Coroutines :
            {j \in DOMAIN stack'[d] : stack'[d][j].phase # "sem"} =
            {j \in DOMAIN stack[d] : stack[d][j].phase # "sem"}
      BY <3>1, <3>3, <3>4
    <3> QED
      BY <3>5 DEF InFlight
  <2> QED
    BY <1>0, <1>3, <2>4, <2>5 DEF Receive, Shape, TypeOK, EntriesMatch
<1>4. ASSUME NEW c \in Coroutines, SemWait(c) PROVE Shape'
  <2> DEFINE x == <<c, Len(stack[c])>>
  <2>1. ~Idle(c) /\ SetPhase(c, "due") /\ "due" \in Phases
    BY <1>4 DEF SemWait, InPhase, Phases
  <2>2. Len(stack[c]) \in DOMAIN stack[c] /\ stack[c][Len(stack[c])].phase = "sem"
    BY <1>0, <1>4 DEF SemWait, InPhase, Idle, Top, TypeOK
  <2>3. x \notin InFlight
    BY <2>2, InFlightMembers
  <2>4. InFlight' = InFlight \cup {x}
    BY <1>0, <2>1, <2>2, SetPhaseEffect DEF InFlight
  <2>5. IsFiniteSet(InFlight') /\ Cardinality(InFlight') = Cardinality(InFlight) + 1
    BY <1>0, <2>3, <2>4, FS_AddElement
  <2>6. TypeOK'
    BY <1>0, <1>4, <2>1, SetPhaseEffect DEF SemWait, TypeOK
  <2> QED
    BY <1>0, <1>4, <2>5, <2>6 DEF Shape, EntriesMatch, SemWait, TypeOK
<1>5. ASSUME NEW c \in Coroutines, Dispatch(c) PROVE Shape'
  <2>1. ~Idle(c) /\ SetPhase(c, "call") /\ "call" \in Phases
    BY <1>5 DEF Dispatch, InPhase, Phases
  <2>2. Len(queue) \in Nat \ {0} /\ Back \in Messages
    BY <1>5, BackExists DEF Dispatch
  <2>3. Len(stack[c]) \in DOMAIN stack[c] /\ stack[c][Len(stack[c])].phase # "sem"
    BY <1>0, <1>5 DEF Dispatch, InPhase, Idle, Top, TypeOK
  <2>4. InFlight' = InFlight
    BY <1>0, <2>1, <2>3, SetPhaseEffect DEF InFlight
  <2>5. queue' \in Seq(Messages) /\ Len(queue') = Len(queue)
    <3>1. queue' = [queue EXCEPT ![Len(queue)] = [Back EXCEPT !.id = Moved]]
      BY <1>0, <1>5, <2>2 DEF Dispatch, TypeOK, Back
    <3>2. [Back EXCEPT !.id = Moved] \in Messages
      BY <2>2 DEF Messages
    <3> QED
      BY <1>0, <2>2, <3>1, <3>2 DEF TypeOK
  <2>6. log' \in Seq(Ids \cup {Moved})
    BY <1>0, <1>5, <2>2 DEF Dispatch, TypeOK, Messages
  <2>7. TypeOK'
    BY <1>0, <1>5, <2>1, <2>5, <2>6, SetPhaseEffect DEF Dispatch, TypeOK
  <2> QED
    BY <1>0, <1>5, <2>4, <2>5, <2>7 DEF Shape, EntriesMatch, Dispatch
<1>6. ASSUME NEW c \in Coroutines, Return(c) \/ Throw(c) PROVE Shape'
  <2> DEFINE x == <<c, Len(stack[c])>>
  <2>1. ~Idle(c) /\ PopFrame(c)
    BY <1>6 DEF Return, Throw, InPhase
  <2>2. Len(queue) \in Nat \ {0} /\ x \in InFlight
    BY <1>6, BackExists DEF Return, Throw
  <2>3. InFlight' = InFlight \ {x}
    <3>1. \A d \in Coroutines :
            {j \in DOMAIN stack'[d] : stack'[d][j].phase # "sem"} =
            {j \in DOMAIN stack[d] : stack[d][j].phase # "sem"}
               \ (IF d = c THEN {Len(stack[c])} ELSE {})
      BY <1>0, <2>1, PopFrameEffect
    <3> QED
      BY <3>1 DEF InFlight
  <2>4. IsFiniteSet(InFlight') /\ Cardinality(InFlight') = Cardinality(InFlight) - 1
    BY <1>0, <2>2, <2>3, FS_RemoveElement
  <2>5. SubSeq(queue, 1, Len(queue) - 1) \in Seq(Messages)
        /\ Len(SubSeq(queue, 1, Len(queue) - 1)) = Len(queue) - 1
    BY <1>0, <2>2, PopBack DEF TypeOK
  <2>6. TypeOK'
    <3>1. stack' \in [Coroutines -> Seq(Frames)]
      BY <1>0, <2>1, PopFrameEffect
    <3>2. queue' \in Seq(Messages)
      BY <1>0, <1>6, <2>5 DEF Return, Throw, TypeOK
    <3>3. thrown' \in Nat /\ UNCHANGED <<now, sem, cur, posted, log>>
      BY <1>0, <1>6 DEF Return, Throw, TypeOK
    <3> QED
      BY <1>0, <3>1, <3>2, <3>3 DEF TypeOK
  <2>7. CASE Return(c)
    <3>1. Len(queue') = Len(queue) - 1 /\ sem' = sem /\ thrown' = thrown
      BY <2>5, <2>7 DEF Return
    <3>2. EntriesMatch'
      BY <1>0, <2>4, <3>1 DEF EntriesMatch, TypeOK
    <3> QED
      BY <2>4, <2>6, <3>2 DEF Shape
  <2>8. CASE Throw(c)
    <3>1. queue' = queue /\ sem' = sem /\ thrown' = thrown + 1
      BY <2>8 DEF Throw
    <3>2. EntriesMatch'
      BY <1>0, <2>4, <3>1 DEF EntriesMatch, TypeOK
    <3> QED
      BY <2>4, <2>6, <3>2 DEF Shape
  <2> QED
    BY <1>6, <2>7, <2>8
<1>7. ASSUME Tick \/ \E c \in Coroutines : Resume(c) PROVE Shape'
  <2>1. InFlight' = InFlight
    BY <1>7 DEF Tick, Resume, InFlight
  <2>2. UNCHANGED <<queue, sem, stack, posted, thrown, log>>
    BY <1>7 DEF Tick, Resume
  <2>3. now' \in Times /\ cur' \in Coroutines
    BY <1>0, <1>7, BoundsAssumption DEF Tick, Resume, TypeOK, Times
  <2>4. TypeOK'
    BY <1>0, <2>2, <2>3 DEF TypeOK
  <2>5. EntriesMatch'
    BY <1>0, <2>1, <2>2 DEF EntriesMatch
  <2> QED
    BY <1>0, <2>1, <2>4, <2>5 DEF Shape
<1>8. CASE UNCHANGED vars
  BY <1>0, <1>8 DEF vars, Shape, TypeOK, EntriesMatch, InFlight
<1> QED
  BY <1>2, <1>3, <1>4, <1>5, <1>6, <1>7, <1>8 DEF Next

\* Every variable of the channel keeps its type; in particular no call takes a
\* token that is not there.
THEOREM TypeCorrect == SafeSpec => []TypeOK
BY ShapeInit, ShapeNext, PTL DEF SafeSpec, Shape

\* The entries of the vector are those of the tokens, of the calls in flight and
\* of the calls cut short by an exception, whatever the subscribers do: nested
\* receives and exceptions included, back() and pop_back() always have an entry.
THEOREM EntriesMatchInvariant == SafeSpec => []EntriesMatch
BY ShapeInit, ShapeNext, PTL DEF SafeSpec, Shape

\* Every step keeps the vector sorted.
LEMMA SortedNext == Shape /\ Sorted /\ [Next]_vars => Sorted'
<1> SUFFICES ASSUME Shape, Sorted, [Next]_vars PROVE Sorted'
  OBVIOUS
<1>0. TypeOK /\ queue \in Seq(Messages)
  BY DEF Shape, TypeOK
<1>1. ASSUME NEW c \in Coroutines, Publish(c) \/ HandlerPost(c) PROVE Sorted'
  <2>1. now \in Int /\ Times \subseteq Int
    BY <1>0 DEF TypeOK, Times
  <2>2. PICK priority \in Priorities, time \in Int : Post(priority, time)
    BY <1>1, <2>1, NumbersAssumption DEF Publish, HandlerPost
  <2> QED
    BY <1>0, <2>2, PostEffect DEF Sorted
<1>2. ASSUME NEW c \in Coroutines, Dispatch(c) PROVE Sorted'
  <2>1. Len(queue) \in Nat \ {0}
    BY <1>2, BackExists DEF Dispatch
  <2>2. /\ DOMAIN queue' = DOMAIN queue
        /\ \A i \in DOMAIN queue :
              queue'[i].time = queue[i].time /\ queue'[i].prio = queue[i].prio
    <3>1. queue' = [queue EXCEPT ![Len(queue)] = [Back EXCEPT !.id = Moved]]
      BY <1>0, <1>2, <2>1 DEF Dispatch, Back
    <3>2. Back \in Messages
      BY <1>0, <2>1 DEF Back
    <3>3. /\ [Back EXCEPT !.id = Moved].time = Back.time
          /\ [Back EXCEPT !.id = Moved].prio = Back.prio
      BY <3>2 DEF Messages
    <3> QED
      BY <1>0, <2>1, <3>1, <3>3 DEF Back
  <2> QED
    BY <2>2 DEF Sorted, IsSorted, message_comp
<1>3. ASSUME NEW c \in Coroutines, Return(c) PROVE Sorted'
  <2>1. Len(queue) \in Nat \ {0} /\ queue' = SubSeq(queue, 1, Len(queue) - 1)
    BY <1>3, BackExists DEF Return
  <2>2. /\ queue' \in Seq(Messages) /\ Len(queue') = Len(queue) - 1
        /\ \A i \in 1..(Len(queue) - 1) : queue'[i] = queue[i]
    BY <1>0, <2>1, PopBack
  <2>3. /\ DOMAIN queue' \subseteq DOMAIN queue
        /\ \A i \in DOMAIN queue' : queue'[i] = queue[i] /\ i \in Int
    BY <1>0, <2>1, <2>2
  <2> QED
    BY <2>3 DEF Sorted, IsSorted
<1>4. ASSUME Tick \/ \E c \in Coroutines :
                \/ Receive(c) \/ SemWait(c) \/ Throw(c) \/ Resume(c)
      PROVE  Sorted'
  BY <1>4 DEF Tick, Receive, SemWait, Throw, Resume, Sorted
<1>5. CASE UNCHANGED vars
  BY <1>5 DEF vars, Sorted
<1> QED
  BY <1>1, <1>2, <1>3, <1>4, <1>5 DEF Next

\* The vector is sorted in every reachable state: operator() sorts it, moving a
\* message out keeps its time and priority, and pop_back takes the last entry.
THEOREM SortedInvariant == SafeSpec => []Sorted
<1>1. Init => Sorted
  BY DEF Init, Sorted, IsSorted
<1> QED
  BY <1>1, ShapeInit, ShapeNext, SortedNext, PTL DEF SafeSpec

\* What _get gives to the subscribers is due and is the most urgent entry of the
\* vector, whatever was posted while the call waited for the clock or yielded.
THEOREM MostUrgentWhenDueHolds == SafeSpec => MostUrgentWhenDue
<1> DEFINE Urgent ==
      log' # log =>
        /\ Back.time <= now
        /\ \A i \in DOMAIN queue :
              \/ queue[i].time > Back.time
              \/ queue[i].time = Back.time /\ queue[i].prio <= Back.prio
<1>1. Init => Sorted
  BY DEF Init, Sorted, IsSorted
<1>2. Shape /\ Sorted /\ [Next]_vars => [Urgent]_vars
  <2> SUFFICES ASSUME Shape, Sorted, Next, log' # log
               PROVE  /\ Back.time <= now
                      /\ \A i \in DOMAIN queue :
                            \/ queue[i].time > Back.time
                            \/ queue[i].time = Back.time /\ queue[i].prio <= Back.prio
    BY DEF vars
  <2>1. PICK c \in Coroutines : Dispatch(c)
    BY DEF Next, Tick, Publish, HandlerPost, Post, Receive, SemWait, Return, Throw, Resume
  <2>2. /\ Len(queue) \in Nat \ {0} /\ queue \in Seq(Messages) /\ now \in Int
        /\ DOMAIN queue = 1..Len(queue)
    <3>1. Len(queue) \in Nat \ {0}
      BY <2>1, BackExists DEF Dispatch
    <3>2. queue \in Seq(Messages) /\ now \in Int
      BY DEF Shape, TypeOK, Times
    <3> QED
      BY <3>1, <3>2
  <2>3. Back.time <= now
    BY <2>1, <2>2 DEF Dispatch, Back, Messages
  <2>4. ASSUME NEW i \in DOMAIN queue
        PROVE  \/ queue[i].time > Back.time
               \/ queue[i].time = Back.time /\ queue[i].prio <= Back.prio
    <3>1. queue[i] \in Messages /\ Back \in Messages
      BY <2>2 DEF Back
    <3>2. CASE i = Len(queue)
      BY <3>1, <3>2 DEF Back, Messages
    <3>3. CASE i < Len(queue)
      <4>1. ~message_comp(Back, queue[i])
        BY <2>2, <3>3 DEF Sorted, IsSorted, Back
      <4> QED
        BY <3>1, <4>1 DEF message_comp, Messages
    <3> QED
      BY <2>2, <3>2, <3>3
  <2> QED
    BY <2>3, <2>4
<1> QED
  BY <1>1, <1>2, ShapeInit, ShapeNext, SortedNext, PTL DEF SafeSpec, MostUrgentWhenDue

-----------------------------------------------------------------------------
(* Subscribers that leave the channel alone *)

\* Calls of _get do not nest, and only the running coroutine can be calling
\* subscribers.
CallsAlone == \A c \in Coroutines :
    /\ Len(stack[c]) <= 1
    /\ InPhase(c, "call") => c = cur

\* The only shell in the vector is the one of the call that is under way, and it
\* is at the back, where pop_back will find it.
ShellAtBack == \A i \in DOMAIN queue :
    queue[i].id = Moved <=> (i = Len(queue) /\ InPhase(cur, "call"))

\* Every posted message has one place, in the vector or in the log, and nothing
\* else is in either of them.
OnePlaceEach ==
    /\ \A i, j \in DOMAIN queue : queue[i].id = queue[j].id => i = j
    /\ \A i, j \in DOMAIN log : log[i] = log[j] => i = j
    /\ \A i \in DOMAIN queue, j \in DOMAIN log : queue[i].id # log[j]
    /\ \A i \in DOMAIN queue : queue[i].id <= posted
    /\ \A i \in DOMAIN log : 1 <= log[i] /\ log[i] <= posted
    /\ \A id \in 1..posted :
          \/ \E i \in DOMAIN queue : queue[i].id = id
          \/ \E i \in DOMAIN log : log[i] = id

\* The inductive invariant.
Undisturbed == ~disturbed => CallsAlone /\ ShellAtBack /\ OnePlaceEach

\* A rearrangement of a vector has each entry once.
LEMMA BijectionInjective ==
  ASSUME NEW n \in Nat, NEW p \in Bijections(1..n), NEW i \in 1..n, NEW j \in 1..n,
         p[i] = p[j]
  PROVE  i = j
<1>1. p \in Surjection(1..n, 1..n)
  BY DEF Bijections, Surjection
<1>2. IsFiniteSet(1..n)
  BY FS_Interval
<1>3. p \in Injection(1..n, 1..n)
  BY <1>1, <1>2, FS_SurjSameCardinalityImpliesInj
<1> QED
  BY <1>3 DEF Injection, IsInjective

\* Where the messages are after operator(): p tells from where each has come, the
\* new one from behind the others.
LEMMA PostPlaces ==
  ASSUME TypeOK, NEW priority \in Priorities, NEW time \in Int, Post(priority, time)
  PROVE  \E p \in [1..(Len(queue) + 1) -> 1..(Len(queue) + 1)] :
            /\ \A i, j \in 1..(Len(queue) + 1) : p[i] = p[j] => i = j
            /\ \A j \in 1..(Len(queue) + 1) : \E i \in 1..(Len(queue) + 1) : p[i] = j
            /\ \A i \in 1..(Len(queue) + 1) :
                  queue'[i].id = IF p[i] = Len(queue) + 1 THEN posted + 1 ELSE queue[p[i]].id
<1> DEFINE m == [id |-> posted + 1, time |-> time, prio |-> priority]
           n == Len(queue) + 1
<1>1. m.id = posted + 1
  OBVIOUS
<1>2. queue' \in SortResults(Append(queue, m))
  BY DEF Post
<1> HIDE DEF m
<1>3. /\ DOMAIN Append(queue, m) = 1..n /\ n \in Nat
      /\ Append(queue, m)[n] = m
      /\ \A i \in 1..n : i # n => Append(queue, m)[i] = queue[i]
  BY DEF TypeOK
<1>4. PICK p \in Bijections(1..n) : queue' = [i \in 1..n |-> Append(queue, m)[p[i]]]
  BY <1>2, <1>3 DEF SortResults
<1> HIDE DEF n
<1>5. p \in [1..n -> 1..n] /\ \A j \in 1..n : \E i \in 1..n : p[i] = j
  BY <1>4 DEF Bijections
<1>6. \A i, j \in 1..n : p[i] = p[j] => i = j
  BY <1>3, <1>4, BijectionInjective
<1>7. \A i \in 1..n : queue'[i].id = IF p[i] = n THEN posted + 1 ELSE queue[p[i]].id
  BY <1>1, <1>3, <1>4, <1>5
<1> QED
  BY <1>5, <1>6, <1>7 DEF n

\* Leaving the only call.
LEMMA LeaveOnly ==
  ASSUME NEW S, NEW s \in Seq(S), s # <<>>, Len(s) <= 1
  PROVE  SubSeq(s, 1, Len(s) - 1) = <<>>
<1> DEFINE n == Len(s)
<1>1. n \in Nat \ {0}
  OBVIOUS
<1>2. n <= 1
  OBVIOUS
<1> HIDE DEF n
<1>3. n - 1 = 0
  BY <1>1, <1>2
<1>4. SubSeq(s, 1, 0) = <<>>
  OBVIOUS
<1> QED
  BY <1>3, <1>4 DEF n

\* The coroutines' calls, one step on.
LEMMA CallsAloneNext ==
  ASSUME Shape, CallsAlone, Next, ~Disturbance
  PROVE  CallsAlone'
<1>0. TypeOK /\ stack \in [Coroutines -> Seq(Frames)] /\ cur \in Coroutines
  BY DEF Shape, TypeOK
<1>1. ASSUME UNCHANGED <<stack, cur>> PROVE CallsAlone'
  BY <1>1 DEF CallsAlone, InPhase, Top, Idle
<1>2. ASSUME NEW c \in Coroutines, Publish(c) \/ HandlerPost(c) PROVE CallsAlone'
  BY <1>1, <1>2 DEF Publish, HandlerPost, Post
<1>3. ASSUME NEW c \in Coroutines, Receive(c) PROVE CallsAlone'
  <2>1. PICK api \in Apis :
          stack' = [stack EXCEPT ![c] = Append(@, [api |-> api, phase |-> "sem"])]
    BY <1>3 DEF Receive
  <2> DEFINE f == [api |-> api, phase |-> "sem"]
  <2>2. f \in Frames /\ f.phase = "sem"
    BY ApisAssumption DEF Frames, Phases
  <2> HIDE DEF f
  <2>3. /\ stack'[c] = Append(stack[c], f) /\ stack[c] \in Seq(Frames)
        /\ \A d \in Coroutines : d # c => stack'[d] = stack[d]
    BY <1>0, <2>1 DEF f
  <2>4. Len(stack'[c]) = Len(stack[c]) + 1 /\ stack'[c][Len(stack'[c])] = f
    BY <2>2, <2>3
  <2>5. Idle(c)
    <3>1. ~InPhase(c, "call")
      BY <1>3, <2>3, <2>4 DEF Disturbance, Receive
    <3> QED
      BY <1>3, <3>1 DEF Receive
  <2>6. Len(stack'[c]) = 1 /\ ~InPhase(c, "call")'
    BY <2>2, <2>4, <2>5 DEF Idle, InPhase, Top
  <2>7. cur' = cur
    BY <1>3 DEF Receive
  <2>8. \A d \in Coroutines : d # c => Len(stack'[d]) <= 1 /\ (InPhase(d, "call")' => d = cur)
    BY <2>3 DEF CallsAlone, InPhase, Top, Idle
  <2>9. Len(stack'[c]) <= 1
    BY <2>6
  <2> QED
    BY <2>6, <2>7, <2>8, <2>9, Zenon DEF CallsAlone
<1>4. ASSUME NEW c \in Coroutines, SemWait(c) \/ Dispatch(c) PROVE CallsAlone'
  <2>1. ~Idle(c) /\ (SetPhase(c, "due") \/ SetPhase(c, "call")) /\ cur = c /\ cur' = cur
    BY <1>4 DEF SemWait, Dispatch, InPhase
  <2>2. \A d \in Coroutines : DOMAIN stack'[d] = DOMAIN stack[d]
    BY <1>0, <2>1, SetPhaseEffect DEF Phases
  <2>3. stack' \in [Coroutines -> Seq(Frames)]
    BY <1>0, <2>1, SetPhaseEffect DEF Phases
  <2>4. \A d \in Coroutines : Len(stack'[d]) = Len(stack[d])
    BY <1>0, <2>2, <2>3
  <2>5. \A d \in Coroutines : d # c => stack'[d] = stack[d]
    BY <1>0, <2>1 DEF SetPhase
  <2> QED
    BY <2>1, <2>4, <2>5 DEF CallsAlone, InPhase, Top, Idle
<1>5. ASSUME NEW c \in Coroutines, Return(c) \/ Throw(c) PROVE CallsAlone'
  <2>1. ~Idle(c) /\ PopFrame(c) /\ cur = c /\ cur' = cur
    BY <1>5 DEF Return, Throw, InPhase
  <2>2. stack'[c] = <<>> /\ \A d \in Coroutines : d # c => stack'[d] = stack[d]
    <3>1. stack[c] \in Seq(Frames) /\ stack[c] # <<>> /\ Len(stack[c]) <= 1
      BY <1>0, <2>1 DEF Idle, CallsAlone
    <3>2. SubSeq(stack[c], 1, Len(stack[c]) - 1) = <<>>
      BY ONLY <3>1, LeaveOnly, Zenon
    <3> QED
      BY <1>0, <2>1, <3>2 DEF PopFrame
  <2> QED
    BY <2>1, <2>2 DEF CallsAlone, InPhase, Top, Idle
<1>6. ASSUME NEW c \in Coroutines, Resume(c) PROVE CallsAlone'
  <2>1. ~InPhase(cur, "call")
    BY <1>6 DEF Resume, InPhase
  <2>2. \A d \in Coroutines : ~InPhase(d, "call")
    BY <2>1 DEF CallsAlone
  <2> QED
    BY <1>6, <2>2 DEF Resume, CallsAlone, InPhase, Top, Idle
<1> QED
  BY <1>1, <1>2, <1>3, <1>4, <1>5, <1>6 DEF Next, Tick

\* The id of a message.
LEMMA IdType ==
  ASSUME NEW m \in Messages PROVE m.id \in Ids \cup {Moved}
BY DEF Messages

\* An undisturbed post: nobody is calling subscribers, so there is no shell.
LEMMA PlacesPost ==
  ASSUME Shape, CallsAlone, ShellAtBack, OnePlaceEach, ~InPhase(cur, "call"),
         NEW priority \in Priorities, NEW time \in Int, Post(priority, time)
  PROVE  ShellAtBack' /\ OnePlaceEach'
<1> DEFINE n == Len(queue) + 1
<1>1. /\ queue \in Seq(Messages) /\ DOMAIN queue = 1..Len(queue) /\ Len(queue) \in Nat
      /\ posted \in Nat
  BY BoundsAssumption DEF Shape, TypeOK
<1>2. /\ queue' \in Seq(Messages) /\ Len(queue') = n /\ DOMAIN queue' = 1..n
      /\ UNCHANGED <<cur, stack, log>>
  <2>1. queue' \in Seq(Messages) /\ Len(queue') = n /\ UNCHANGED <<cur, stack, log>>
    BY PostEffect DEF Shape
  <2> QED
    BY <2>1
<1>3. posted' = posted + 1
  BY DEF Post
<1>4. PICK p \in [1..n -> 1..n] :
        /\ \A i, j \in 1..n : p[i] = p[j] => i = j
        /\ \A j \in 1..n : \E i \in 1..n : p[i] = j
        /\ \A i \in 1..n : queue'[i].id = IF p[i] = n THEN posted + 1 ELSE queue[p[i]].id
  BY PostPlaces DEF Shape
<1>5. n \in Nat /\ n \in 1..n /\ \A i \in 1..n : i # n => i \in DOMAIN queue
  BY <1>1
<1>6. \A i \in DOMAIN queue : i \in 1..n /\ i # n
  BY <1>1
<1> HIDE DEF n
<1>7. \A i \in DOMAIN queue : queue[i].id \in 1..posted
  <2>1. \A i \in DOMAIN queue : queue[i].id \in Ids \cup {Moved}
    BY <1>1, IdType
  <2>2. \A i \in DOMAIN queue : queue[i].id # Moved /\ queue[i].id <= posted
    BY DEF ShellAtBack, OnePlaceEach
  <2> QED
    BY <1>1, <2>1, <2>2 DEF Ids, Moved
<1>8. ~InPhase(cur, "call")'
  BY <1>2 DEF InPhase, Top, Idle
<1>9. ASSUME NEW i \in 1..n
      PROVE  /\ p[i] = n => queue'[i].id = posted + 1
             /\ p[i] # n => p[i] \in DOMAIN queue /\ queue'[i].id = queue[p[i]].id
  BY <1>4, <1>5
<1>10. \A i \in 1..n : queue'[i].id \in 1..(posted + 1)
  BY <1>1, <1>7, <1>9
<1>11. ShellAtBack'
  BY <1>2, <1>8, <1>10, <1>1 DEF ShellAtBack, Moved
<1>12. \A i, j \in 1..n : queue'[i].id = queue'[j].id => i = j
  <2> SUFFICES ASSUME NEW i \in 1..n, NEW j \in 1..n, queue'[i].id = queue'[j].id
               PROVE  p[i] = p[j]
    BY <1>4
  <2>1. CASE p[i] = n /\ p[j] = n
    BY <2>1
  <2>2. CASE p[i] = n /\ p[j] # n
    BY <2>2, <1>1, <1>7, <1>9
  <2>3. CASE p[i] # n /\ p[j] = n
    BY <2>3, <1>1, <1>7, <1>9
  <2>4. CASE p[i] # n /\ p[j] # n
    BY <2>4, <1>9 DEF OnePlaceEach
  <2> QED
    BY <2>1, <2>2, <2>3, <2>4
<1>13. \A j \in DOMAIN log : log[j] <= posted /\ 1 <= log[j] /\ log[j] \in Int
  BY DEF OnePlaceEach, Shape, TypeOK, Ids, Moved
<1>14. \A i \in 1..n, j \in DOMAIN log : queue'[i].id # log[j]
  <2> SUFFICES ASSUME NEW i \in 1..n, NEW j \in DOMAIN log PROVE queue'[i].id # log[j]
    OBVIOUS
  <2>1. CASE p[i] = n
    BY <2>1, <1>1, <1>9, <1>13
  <2>2. CASE p[i] # n
    BY <2>2, <1>9 DEF OnePlaceEach
  <2> QED
    BY <2>1, <2>2
<1>15. \A id \in 1..(posted + 1) :
          (\E i \in 1..n : queue'[i].id = id) \/ (\E i \in DOMAIN log : log[i] = id)
  <2> SUFFICES ASSUME NEW id \in 1..(posted + 1), ~\E i \in DOMAIN log : log[i] = id
               PROVE  \E i \in 1..n : queue'[i].id = id
    OBVIOUS
  <2>1. CASE id = posted + 1
    <3>1. PICK i \in 1..n : p[i] = n
      BY <1>4, <1>5
    <3> QED
      BY <2>1, <3>1, <1>9
  <2>2. CASE id # posted + 1
    <3>1. id \in 1..posted
      BY <2>2, <1>1
    <3>2. PICK k \in DOMAIN queue : queue[k].id = id
      BY <3>1 DEF OnePlaceEach
    <3>3. PICK i \in 1..n : p[i] = k
      BY <1>4, <1>6
    <3> QED
      BY <3>2, <3>3, <1>6, <1>9
  <2> QED
    BY <2>1, <2>2
<1>16. /\ \A i \in 1..n : queue'[i].id <= posted + 1
       /\ \A i \in DOMAIN log : 1 <= log[i] /\ log[i] <= posted + 1
  BY <1>1, <1>10, <1>13
<1>17. \A i, j \in DOMAIN log : log[i] = log[j] => i = j
  BY DEF OnePlaceEach
<1>18. OnePlaceEach'
  BY <1>2, <1>3, <1>12, <1>14, <1>15, <1>16, <1>17, Zenon DEF OnePlaceEach
<1> QED
  BY <1>11, <1>18

\* The back is moved out: its id goes from the vector to the log, and the shell
\* is the only one.
LEMMA PlacesDispatch ==
  ASSUME Shape, CallsAlone, ShellAtBack, OnePlaceEach,
         NEW c \in Coroutines, Dispatch(c)
  PROVE  ShellAtBack' /\ OnePlaceEach'
<1> DEFINE n == Len(queue)
           m == Len(log)
<1>1. /\ queue \in Seq(Messages) /\ DOMAIN queue = 1..n /\ n \in Nat \ {0}
      /\ posted \in Nat /\ log \in Seq(Ids \cup {Moved}) /\ DOMAIN log = 1..m /\ m \in Nat
  <2>1. n \in Nat \ {0}
    BY BackExists DEF Dispatch
  <2> QED
    BY <2>1, BoundsAssumption DEF Shape, TypeOK
<1>2. ~InPhase(cur, "call")
  BY DEF Dispatch, InPhase
<1>3. \A i \in DOMAIN queue : queue[i].id \in 1..posted
  <2>1. \A i \in DOMAIN queue : queue[i].id \in Ids \cup {Moved}
    BY <1>1, IdType
  <2>2. \A i \in DOMAIN queue : queue[i].id # Moved /\ queue[i].id <= posted
    BY <1>2 DEF ShellAtBack, OnePlaceEach
  <2> QED
    BY <1>1, <2>1, <2>2 DEF Ids, Moved
<1>4. InPhase(cur, "call")'
  <2>1. ~Idle(c) /\ SetPhase(c, "call") /\ "call" \in Phases /\ cur = c /\ cur' = c
    BY DEF Dispatch, InPhase, Phases
  <2>2. stack[c] \in Seq(Frames) /\ stack[c] # <<>> /\ TypeOK
    BY <2>1 DEF Shape, TypeOK, Idle
  <2>3. Len(stack[c]) \in DOMAIN stack[c]
    BY <2>2
  <2>4. /\ stack'[c] \in Seq(Frames) /\ DOMAIN stack'[c] = DOMAIN stack[c]
        /\ stack'[c][Len(stack[c])].phase = "call"
    BY <2>1, <2>2, <2>3, SetPhaseEffect
  <2>5. Len(stack'[c]) = Len(stack[c])
    BY <2>2, <2>4
  <2>6. stack'[c] # <<>>
    BY <2>3, <2>4
  <2> QED
    BY <2>1, <2>4, <2>5, <2>6 DEF InPhase, Idle, Top
<1>5. /\ queue' \in Seq(Messages) /\ Len(queue') = n /\ DOMAIN queue' = 1..n
      /\ \A i \in 1..n : queue'[i].id = IF i = n THEN Moved ELSE queue[i].id
  <2>1. Back \in Messages
    BY <1>1 DEF Back
  <2>2. queue' = [queue EXCEPT ![n] = [Back EXCEPT !.id = Moved]]
    BY <1>1 DEF Dispatch, Back
  <2>3. [Back EXCEPT !.id = Moved] \in Messages /\ [Back EXCEPT !.id = Moved].id = Moved
    BY <2>1 DEF Messages
  <2> QED
    BY <1>1, <2>2, <2>3
<1>6. /\ DOMAIN log' = 1..(m + 1) /\ log'[m + 1] = queue[n].id
      /\ \A i \in 1..m : log'[i] = log[i]
  BY <1>1 DEF Dispatch, Back
<1>7. posted' = posted
  BY DEF Dispatch
<1>8. n \in 1..n /\ queue[n].id \in 1..posted
  BY <1>1, <1>3
<1> HIDE DEF n, m
<1>9. \A i \in 1..n : queue[i].id # Moved
  BY <1>1, <1>3 DEF Moved
<1>10. ShellAtBack'
  BY <1>4, <1>5, <1>9 DEF ShellAtBack
<1>11. \A i, j \in 1..n : queue'[i].id = queue'[j].id => i = j
  BY <1>1, <1>5, <1>9 DEF OnePlaceEach
<1>12. \A i \in 1..(m + 1) : i = m + 1 \/ i \in 1..m
  BY <1>1
<1>13. \A i, j \in 1..(m + 1) : log'[i] = log'[j] => i = j
  <2> SUFFICES ASSUME NEW i \in 1..(m + 1), NEW j \in 1..(m + 1), log'[i] = log'[j]
               PROVE  i = j
    OBVIOUS
  <2>1. \A k \in 1..m : log'[k] # log'[m + 1]
    BY <1>1, <1>6, <1>8 DEF OnePlaceEach
  <2>2. \A k, l \in 1..m : log'[k] = log'[l] => k = l
    BY <1>1, <1>6 DEF OnePlaceEach
  <2> QED
    BY <1>12, <2>1, <2>2
<1>14. \A i \in 1..m : 1 <= log[i] /\ log[i] <= posted /\ log[i] # Moved
  BY <1>1 DEF OnePlaceEach, Moved
<1>15. \A i \in 1..n, j \in 1..(m + 1) : queue'[i].id # log'[j]
  <2> SUFFICES ASSUME NEW i \in 1..n, NEW j \in 1..(m + 1) PROVE queue'[i].id # log'[j]
    OBVIOUS
  <2>1. CASE i = n
    BY <2>1, <1>5, <1>6, <1>8, <1>9, <1>12, <1>14
  <2>2. CASE i # n /\ j = m + 1
    <3>1. queue'[i].id = queue[i].id /\ log'[j] = queue[n].id
      BY <2>2, <1>5, <1>6
    <3>2. i \in DOMAIN queue /\ n \in DOMAIN queue
      BY <1>1, <1>8
    <3> QED
      BY <2>2, <3>1, <3>2, Zenon DEF OnePlaceEach
  <2>3. CASE i # n /\ j \in 1..m
    <3>1. queue'[i].id = queue[i].id /\ log'[j] = log[j]
      BY <2>3, <1>5, <1>6
    <3>2. i \in DOMAIN queue /\ j \in DOMAIN log
      BY <2>3, <1>1
    <3> QED
      BY <3>1, <3>2, Zenon DEF OnePlaceEach
  <2> QED
    BY <2>1, <2>2, <2>3, <1>12
<1>16. \A i \in 1..n : queue'[i].id <= posted
  BY <1>1, <1>3, <1>5 DEF Moved
<1>17. \A i \in 1..(m + 1) : 1 <= log'[i] /\ log'[i] <= posted
  BY <1>1, <1>6, <1>8, <1>12, <1>14
<1>18. \A id \in 1..posted :
          (\E i \in 1..n : queue'[i].id = id) \/ (\E i \in 1..(m + 1) : log'[i] = id)
  <2> SUFFICES ASSUME NEW id \in 1..posted, ~\E i \in 1..(m + 1) : log'[i] = id
               PROVE  \E i \in 1..n : queue'[i].id = id
    OBVIOUS
  <2>1. m + 1 \in 1..(m + 1) /\ \A i \in 1..m : i \in 1..(m + 1)
    BY <1>1
  <2>2. queue[n].id # id /\ ~\E i \in DOMAIN log : log[i] = id
    BY <1>1, <1>6, <2>1
  <2>3. PICK i \in 1..n : queue[i].id = id
    BY <1>1, <2>2 DEF OnePlaceEach
  <2> QED
    BY <1>5, <2>2, <2>3
<1>19. OnePlaceEach'
  BY <1>5, <1>6, <1>7, <1>11, <1>13, <1>15, <1>16, <1>17, <1>18, Zenon DEF OnePlaceEach
<1> QED
  BY <1>10, <1>19

\* pop_back takes the shell.
LEMMA PlacesReturn ==
  ASSUME Shape, CallsAlone, ShellAtBack, OnePlaceEach,
         NEW c \in Coroutines, Return(c)
  PROVE  ShellAtBack' /\ OnePlaceEach'
<1> DEFINE n == Len(queue)
<1>1. /\ queue \in Seq(Messages) /\ DOMAIN queue = 1..n /\ n \in Nat \ {0}
      /\ queue' = SubSeq(queue, 1, n - 1)
  <2>1. n \in Nat \ {0} /\ queue' = SubSeq(queue, 1, n - 1)
    BY BackExists DEF Return
  <2> QED
    BY <2>1 DEF Shape, TypeOK
<1>2. /\ queue' \in Seq(Messages) /\ Len(queue') = n - 1
      /\ \A i \in 1..(n - 1) : queue'[i] = queue[i]
  BY <1>1, PopBack
<1>3. DOMAIN queue' = 1..(n - 1)
  BY <1>2
<1>4. InPhase(cur, "call") /\ cur = c /\ cur' = c
  BY DEF Return
<1>5. ~InPhase(cur, "call")'
  <2>1. stack[c] \in Seq(Frames) /\ stack[c] # <<>> /\ Len(stack[c]) <= 1
    BY <1>4 DEF Shape, TypeOK, InPhase, Idle, CallsAlone
  <2>2. SubSeq(stack[c], 1, Len(stack[c]) - 1) = <<>>
    BY ONLY <2>1, LeaveOnly, Zenon
  <2>3. stack'[c] = <<>>
    BY <2>2 DEF Return, PopFrame, Shape, TypeOK
  <2> QED
    BY <1>4, <2>3 DEF InPhase, Idle
<1>6. UNCHANGED <<log, posted>>
  BY DEF Return
<1> HIDE DEF n
<1>7. n \in 1..n /\ \A i \in 1..(n - 1) : i \in 1..n /\ i # n
  BY <1>1
<1>8. \A i \in 1..n : i = n \/ i \in 1..(n - 1)
  BY <1>1
<1>9. queue[n].id = Moved /\ \A i \in 1..(n - 1) : queue[i].id # Moved
  BY <1>1, <1>4, <1>7 DEF ShellAtBack, n
<1>10. ShellAtBack'
  BY <1>2, <1>3, <1>5, <1>9 DEF ShellAtBack
<1>11. /\ \A i, j \in DOMAIN queue' : queue'[i].id = queue'[j].id => i = j
       /\ \A i \in DOMAIN queue', j \in DOMAIN log : queue'[i].id # log[j]
       /\ \A i \in DOMAIN queue' : queue'[i].id <= posted
  BY <1>1, <1>2, <1>3, <1>7 DEF OnePlaceEach
<1>12. \A id \in 1..posted :
          (\E i \in DOMAIN queue' : queue'[i].id = id) \/ (\E i \in DOMAIN log : log[i] = id)
  <2> SUFFICES ASSUME NEW id \in 1..posted, ~\E i \in DOMAIN log : log[i] = id
               PROVE  \E i \in DOMAIN queue' : queue'[i].id = id
    OBVIOUS
  <2>1. PICK i \in 1..n : queue[i].id = id
    BY <1>1 DEF OnePlaceEach
  <2>2. id # Moved
    BY DEF Moved
  <2>3. i \in 1..(n - 1)
    BY <1>8, <1>9, <2>1, <2>2
  <2> QED
    BY <1>2, <1>3, <2>1, <2>3
<1>13. OnePlaceEach'
  BY <1>6, <1>11, <1>12, Zenon DEF OnePlaceEach
<1> QED
  BY <1>10, <1>13

\* A step that leaves the vector, the log and who is calling subscribers alone.
LEMMA PlacesSame ==
  ASSUME ShellAtBack, OnePlaceEach, UNCHANGED <<queue, log, posted>>,
         InPhase(cur, "call")' <=> InPhase(cur, "call")
  PROVE  ShellAtBack' /\ OnePlaceEach'
BY DEF ShellAtBack, OnePlaceEach

\* Every step keeps the invariant, as long as it is undisturbed.
LEMMA UndisturbedNext == Shape /\ Undisturbed /\ [HistoryNext]_HistoryVars => Undisturbed'
<1> SUFFICES ASSUME Shape, Undisturbed, [HistoryNext]_HistoryVars, ~disturbed'
             PROVE  CallsAlone' /\ ShellAtBack' /\ OnePlaceEach'
  BY DEF Undisturbed
<1>1. CASE UNCHANGED HistoryVars
  <2>1. UNCHANGED <<queue, log, posted, cur, stack>> /\ disturbed' = disturbed
    BY <1>1 DEF HistoryVars, vars
  <2>2. CallsAlone /\ ShellAtBack /\ OnePlaceEach
    BY <2>1 DEF Undisturbed
  <2>3. InPhase(cur, "call")' <=> InPhase(cur, "call")
    BY <2>1 DEF InPhase, Top, Idle
  <2>4. CallsAlone'
    BY <2>1, <2>2 DEF CallsAlone, InPhase, Top, Idle
  <2> QED
    BY <2>1, <2>2, <2>3, <2>4, PlacesSame
<1>2. CASE HistoryNext
  <2>1. Next /\ ~Disturbance /\ ~disturbed
    BY <1>2, Zenon DEF HistoryNext
  <2>2. CallsAlone /\ ShellAtBack /\ OnePlaceEach
    BY <2>1 DEF Undisturbed
  <2>3. CallsAlone'
    BY <2>1, <2>2, CallsAloneNext
  <2>4. TypeOK /\ now \in Int /\ Times \subseteq Int
    BY DEF Shape, TypeOK, Times
  <2>5. ASSUME NEW c \in Coroutines, Publish(c) \/ HandlerPost(c)
        PROVE  ShellAtBack' /\ OnePlaceEach'
    <3>1. PICK priority \in Priorities, time \in Int : Post(priority, time)
      BY <2>4, <2>5, NumbersAssumption DEF Publish, HandlerPost
    <3>2. cur = c /\ posted' # posted
      BY <2>4, <2>5, <3>1 DEF Publish, HandlerPost, Post, TypeOK
    <3>3. ~InPhase(cur, "call")
      BY <2>1, <3>2 DEF Disturbance
    <3> QED
      BY <2>2, <3>1, <3>3, PlacesPost
  <2>6. ASSUME NEW c \in Coroutines, Dispatch(c) PROVE ShellAtBack' /\ OnePlaceEach'
    BY <2>2, <2>6, PlacesDispatch
  <2>7. ASSUME NEW c \in Coroutines, Return(c) PROVE ShellAtBack' /\ OnePlaceEach'
    BY <2>2, <2>7, PlacesReturn
  <2>8. ASSUME NEW c \in Coroutines, Throw(c) PROVE FALSE
    <3>1. cur = c /\ InPhase(c, "call") /\ thrown' # thrown
      BY <2>4, <2>8 DEF Throw, TypeOK
    <3> QED
      BY <2>1, <3>1 DEF Disturbance
  <2>9. ASSUME Tick \/ \E c \in Coroutines : Receive(c) \/ SemWait(c) \/ Resume(c)
        PROVE  ShellAtBack' /\ OnePlaceEach'
    <3>1. UNCHANGED <<queue, log, posted>>
      BY <2>9 DEF Tick, Receive, SemWait, Resume
    <3>2. InPhase(cur, "call")' <=> InPhase(cur, "call")
      <4>1. CASE Tick
        BY <4>1 DEF Tick, InPhase, Top, Idle
      <4>2. ASSUME NEW c \in Coroutines, Receive(c)
            PROVE  ~InPhase(cur, "call") /\ ~InPhase(cur, "call")'
        <5>1. cur = c /\ cur' = c
          BY <4>2 DEF Receive
        <5>2. PICK api \in Apis :
                stack' = [stack EXCEPT ![c] = Append(@, [api |-> api, phase |-> "sem"])]
          BY <4>2 DEF Receive
        <5> DEFINE f == [api |-> api, phase |-> "sem"]
        <5>3. f \in Frames /\ f.phase = "sem"
          BY ApisAssumption DEF Frames, Phases
        <5> HIDE DEF f
        <5>4. stack'[c] = Append(stack[c], f) /\ stack[c] \in Seq(Frames)
          BY <2>4, <5>2 DEF f, TypeOK
        <5>5. Len(stack'[c]) = Len(stack[c]) + 1 /\ stack'[c][Len(stack'[c])] = f
          BY <5>3, <5>4
        <5>6. ~InPhase(cur, "call")
          BY <2>1, <5>1, <5>4, <5>5 DEF Disturbance
        <5> QED
          BY <5>1, <5>3, <5>5, <5>6 DEF InPhase, Top
      <4>3. ASSUME NEW c \in Coroutines, SemWait(c)
            PROVE  ~InPhase(cur, "call") /\ ~InPhase(cur, "call")'
        <5>1. /\ cur = c /\ cur' = c /\ ~Idle(c) /\ SetPhase(c, "due") /\ "due" \in Phases
              /\ ~InPhase(c, "call")
          BY <4>3 DEF SemWait, InPhase, Phases
        <5>2. stack[c] \in Seq(Frames) /\ stack[c] # <<>>
          BY <2>4, <5>1 DEF Idle, TypeOK
        <5>3. Len(stack[c]) \in DOMAIN stack[c]
          BY <5>2
        <5>4. /\ stack'[c] \in Seq(Frames) /\ DOMAIN stack'[c] = DOMAIN stack[c]
              /\ stack'[c][Len(stack[c])].phase = "due"
          BY <2>4, <5>1, <5>3, SetPhaseEffect
        <5>5. Len(stack'[c]) = Len(stack[c])
          BY <5>2, <5>4
        <5> QED
          BY <5>1, <5>4, <5>5 DEF InPhase, Top
      <4>4. ASSUME NEW c \in Coroutines, Resume(c)
            PROVE  ~InPhase(cur, "call") /\ ~InPhase(cur, "call")'
        <5>1. ~InPhase(cur, "call") /\ cur' = c /\ stack' = stack /\ c # cur
          BY <4>4 DEF Resume, InPhase
        <5>2. ~InPhase(c, "call")
          BY <2>2, <5>1 DEF CallsAlone
        <5> QED
          BY <5>1, <5>2 DEF InPhase, Top, Idle
      <4> QED
        BY <2>9, <4>1, <4>2, <4>3, <4>4
    <3> QED
      BY <2>2, <3>1, <3>2, PlacesSame
  <2> QED
    BY <2>1, <2>3, <2>5, <2>6, <2>7, <2>8, <2>9 DEF Next
<1> QED
  BY <1>1, <1>2

\* One place each is what ExactlyOnce counts.
LEMMA PlacesCounted == Shape /\ OnePlaceEach => ExactlyOnce
<1> SUFFICES ASSUME Shape, OnePlaceEach PROVE ExactlyOnce
  OBVIOUS
<1>0. /\ posted \in Nat /\ queue \in Seq(Messages) /\ log \in Seq(Ids \cup {Moved})
  BY BoundsAssumption DEF Shape, TypeOK
<1>1. \A i \in DOMAIN log : log[i] # Moved
  BY DEF OnePlaceEach, Moved
<1>2. ASSUME NEW id \in Ids PROVE Copies(id) = IF id <= posted THEN 1 ELSE 0
  <2> DEFINE Q == {i \in DOMAIN queue : queue[i].id = id}
             L == {i \in DOMAIN log : log[i] = id}
  <2>0. id \in Nat /\ id >= 1
    BY DEF Ids
  <2>1. \A x \in Q : Q = {x}
    BY DEF OnePlaceEach
  <2>2. \A x \in L : L = {x}
    BY DEF OnePlaceEach
  <2>3. Q = {} \/ L = {}
    BY DEF OnePlaceEach
  <2>4. Q # {} \/ L # {} <=> id <= posted
    <3>1. ASSUME id <= posted PROVE Q # {} \/ L # {}
      <4>1. id \in 1..posted
        BY <1>0, <2>0, <3>1
      <4> QED
        BY <4>1 DEF OnePlaceEach
    <3>2. ASSUME Q # {} \/ L # {} PROVE id <= posted
      BY <3>2 DEF OnePlaceEach
    <3> QED
      BY <3>1, <3>2
  <2>5. Copies(id) = Cardinality(Q) + Cardinality(L)
    BY DEF Copies
  <2> HIDE DEF Q, L
  <2>6. Q = {} => Cardinality(Q) = 0
    BY FS_EmptySet
  <2>7. L = {} => Cardinality(L) = 0
    BY FS_EmptySet
  <2>8. Q # {} => Cardinality(Q) = 1
    BY <2>1, FS_Singleton
  <2>9. L # {} => Cardinality(L) = 1
    BY <2>2, FS_Singleton
  <2> QED
    BY <2>3, <2>4, <2>5, <2>6, <2>7, <2>8, <2>9
<1> QED
  BY <1>1, <1>2 DEF ExactlyOnce

\* The invariant holds at first.
LEMMA UndisturbedInit == HistoryInit => Undisturbed
<1> SUFFICES ASSUME HistoryInit PROVE CallsAlone /\ ShellAtBack /\ OnePlaceEach
  BY DEF Undisturbed
<1>1. queue = <<>> /\ log = <<>> /\ posted = 0 /\ stack = [c \in Coroutines |-> <<>>]
  BY DEF HistoryInit, Init
<1>2. CallsAlone
  BY <1>1 DEF CallsAlone, InPhase, Idle
<1>3. DOMAIN queue = {} /\ DOMAIN log = {} /\ 1..posted = {}
  BY <1>1
<1>4. ShellAtBack /\ OnePlaceEach
  BY <1>3 DEF ShellAtBack, OnePlaceEach
<1> QED
  BY <1>2, <1>4

\* With subscribers that leave the channel alone every posted message is in the
\* vector or has been given to the subscribers, once, whatever the number of
\* coroutines that wait inside _get(yield) and however they alternate: the shell
\* that _get leaves at the back is the entry that pop_back removes, as control
\* never passes to another coroutine between the two.
THEOREM UndisturbedExactlyOnceInvariant == HistorySafeSpec => []UndisturbedExactlyOnce
<1>1. HistoryInit => Init
  BY DEF HistoryInit
<1>2. [HistoryNext]_HistoryVars => [Next]_vars
  BY DEF HistoryNext, HistoryVars
<1>3. Shape /\ Undisturbed => UndisturbedExactlyOnce
  BY PlacesCounted DEF Undisturbed, UndisturbedExactlyOnce
<1> QED
  BY <1>1, <1>2, <1>3, ShapeInit, ShapeNext, UndisturbedInit, UndisturbedNext, PTL
     DEF HistorySafeSpec
=============================================================================
