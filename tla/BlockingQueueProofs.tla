-------------------------- MODULE BlockingQueueProofs --------------------------
(***************************************************************************)
(* Proofs about moodycamel::BlockingConcurrentQueue, for any finite sets   *)
(* of enqueuers and consumers, any requests and any number of elements.    *)
(*                                                                         *)
(* That a sub-queue is never overdrawn is the subtle part.  A consumer     *)
(* secures elements by comparing the tail with the place it got when it    *)
(* raised the count of claims, and places overlap: claims in vain are      *)
(* taken back while others, made after them, are still open.  What bounds  *)
(* them is this.  Whatever the tail will be, say b, the open claims with   *)
(* what each of them would secure then, together with what has been given  *)
(* out already, are at most b: a new claim has a place behind everything   *)
(* that is given out or open, and only adds what lies between it and b.    *)
(***************************************************************************)
EXTENDS BlockingQueue, FiniteSetTheorems, FunctionTheorems, TLAPS

-----------------------------------------------------------------------------
(* The inductive invariant *)

Elems(s) == {s[i] : i \in DOMAIN s}

\* The steps at one sub-queue, and the whole search.
AtSubqueue == {"look", "claim", "recheck", "undo"}
Searching == AtSubqueue \cup {"round", "weigh", "failed"}

\* The sub-queues of a round k are on the list, which has `tail' by now.
Listed(k, tail) ==
    /\ k.began <= k.tail /\ k.tail <= tail
    /\ Elems(k.todo) \subseteq 1..k.tail
    /\ k.pc \in AtSubqueue => k.target \in 1..k.tail

\* What the round k has still to look at, unless it will be told: all that was
\* on the list when it began and has not been tried.
NoneLeftOut(k) ==
    /\ k.pc \in AtSubqueue /\ ~k.first => 1..k.began \subseteq k.tried \cup {k.target} \cup Elems(k.todo)
    /\ k.pc = "weigh" =>
          /\ k.nonEmpty = 0 => k.weight = 0 /\ 1..k.began \subseteq k.tried \cup Elems(k.todo)
          /\ k.nonEmpty # 0 => k.target \in 1..k.tail
    /\ k.pc = "failed" => 1..k.began \subseteq k.tried

\* A search k is for something, and never claims more.
Wants(k) ==
    /\ (k.pc \in Searching) <=> k.want # 0
    /\ k.pc \in {"claim", "recheck", "undo"} => k.desired \in 1..k.want
    /\ k.pc = "undo" => k.my <= k.desired

CallOK(k, tail) == k \in Calls_ /\ Listed(k, tail) /\ NoneLeftOut(k) /\ Wants(k)

\* Who is on the list, and what is still to be signalled.
ListOK ==
    /\ producerCount = Cardinality({e \in Enqueuers : enq[e].pc # "new"})
    /\ producerListTail = Cardinality({e \in Enqueuers : enq[e].pc \in {"idle", "signal"}})
    /\ \A e \in Enqueuers : enq[e].pc \in {"idle", "signal"} => place[e] # Null
    /\ \A e \in Enqueuers : enq[e].pc # "signal" => enq[e].count = 0

TokensOK == \A c \in TokenUsers : token[c].desired # Null => token[c].current # Null

\* The part of the claims on sub-queue p that is k's.
ClaimOf(k, p) == IF k.pc \in {"recheck", "undo"} /\ k.target = p THEN k.desired ELSE 0

\* What k would secure, or has secured, of sub-queue p with its tail at b.
ShareOf(k, p, b) ==
    IF k.pc = "undo" /\ k.target = p THEN k.my
    ELSE IF k.pc = "recheck" /\ k.target = p /\ k.my < b THEN Smaller(k.desired, b - k.my)
    ELSE 0

ClaimsOf(d, p) == [c \in Consumers |-> ClaimOf(d[c], p)]
SharesOf(d, p, b) == [c \in Consumers |-> ShareOf(d[c], p, b)]

ClaimsOK(d, q) == \A p \in Places : q[p].claims = Total(ClaimsOf(d, p))
SharesOK(d, q) == \A p \in Places : \A b \in Nat :
    q[p].tail <= b => q[p].head + Total(SharesOf(d, p, b)) <= b

IInv ==
    /\ CountsAgree
    /\ ListOK
    /\ TokensOK
    /\ \A c \in Consumers : CallOK(deq[c], producerListTail)
    /\ ClaimsOK(deq, subqueue)
    /\ SharesOK(deq, subqueue)

-----------------------------------------------------------------------------
(* Sums *)

\* What is in the heap of f.
LEMMA InHeap ==
  ASSUME NEW f
  PROVE  /\ \A s \in DOMAIN f : \A i \in 1..f[s] : <<s, i>> \in Heap(f)
         /\ \A x \in Heap(f) : \E s \in DOMAIN f : \E i \in 1..f[s] : x = <<s, i>>
BY DEF Heap

\* The heap of a function on a finite set is finite.
LEMMA TotalType ==
  ASSUME NEW S, IsFiniteSet(S), NEW f \in [S -> Nat]
  PROVE  IsFiniteSet(Heap(f)) /\ Total(f) \in Nat
<1> DEFINE P == {{s} \X (1..f[s]) : s \in S}
           g == [s \in S |-> {s} \X (1..f[s])]
<1>1. g \in Surjection(S, P)
  BY DEF Surjection
<1>2. IsFiniteSet(P)
  <2> HIDE DEF g, P
  <2> QED BY <1>1, FS_Surjection
<1>3. ASSUME NEW s \in S PROVE IsFiniteSet({s} \X (1..f[s]))
  <2>1. IsFiniteSet(1..f[s]) BY FS_Interval
  <2>2. IsFiniteSet({s}) BY FS_Singleton
  <2> QED BY <2>1, <2>2, FS_Product
<1>4. \A T \in P : IsFiniteSet(T)
  BY <1>3
<1>5. IsFiniteSet(UNION P)
  <2> HIDE DEF P
  <2> QED BY <1>2, <1>4, FS_UNION
<1>6. Heap(f) = UNION P
  BY DEF Heap
<1> HIDE DEF P
<1> QED BY <1>5, <1>6, FS_CardinalityType DEF Total

\* The sum with one value left out, and that value.
LEMMA TotalSplit ==
  ASSUME NEW S, IsFiniteSet(S), NEW f \in [S -> Nat], NEW s \in S
  PROVE  Total(f) = Total([f EXCEPT ![s] = 0]) + f[s]
<1> DEFINE g == [f EXCEPT ![s] = 0]
           H == {s} \X (1..f[s])
<1>1. g \in [S -> Nat] /\ g[s] = 0 /\ \A x \in S : x # s => g[x] = f[x]
  OBVIOUS
<1> HIDE DEF g
<1>2. Heap(f) = Heap(g) \cup H
  <2>1. ASSUME NEW x \in Heap(f) PROVE x \in Heap(g) \cup H
    <3>1. PICK r \in S : \E i \in 1..f[r] : x = <<r, i>>
      BY InHeap
    <3>2. CASE r = s
      BY <3>1, <3>2
    <3>3. CASE r # s
      <4>1. r \in DOMAIN g /\ \E i \in 1..g[r] : x = <<r, i>>
        BY <3>3, <3>1, <1>1
      <4> QED BY <4>1, <3>1, InHeap
    <3> QED BY <3>2, <3>3
  <2>2. ASSUME NEW x \in Heap(g) PROVE x \in Heap(f)
    <3>1. PICK r \in S : \E i \in 1..g[r] : x = <<r, i>>
      BY <1>1, InHeap
    <3>2. r # s
      BY <3>1, <1>1
    <3> QED BY <3>1, <3>2, <1>1, InHeap
  <2>3. ASSUME NEW x \in H PROVE x \in Heap(f)
    <3>1. PICK i \in 1..f[s] : x = <<s, i>>
      OBVIOUS
    <3> QED BY <3>1, InHeap
  <2> HIDE DEF H
  <2> QED BY <2>1, <2>2, <2>3
<1>3. Heap(g) \cap H = {}
  <2> SUFFICES ASSUME NEW x \in Heap(g), x \in H PROVE FALSE
    OBVIOUS
  <2>1. PICK r \in S : \E i \in 1..g[r] : x = <<r, i>>
    BY <1>1, InHeap
  <2>2. r = s
    BY <2>1
  <2> QED BY <2>1, <2>2, <1>1
<1>4. IsFiniteSet(H) /\ Cardinality(H) = f[s]
  <2>1. IsFiniteSet(1..f[s]) /\ Cardinality(1..f[s]) = f[s] BY FS_Interval
  <2>2. IsFiniteSet({s}) /\ Cardinality({s}) = 1 BY FS_Singleton
  <2>3. IsFiniteSet(H) /\ Cardinality(H) = 1 * f[s]
    BY <2>1, <2>2, FS_Product
  <2> QED BY <2>3
<1>5. IsFiniteSet(Heap(g)) /\ Cardinality(Heap(g)) \in Nat
  BY <1>1, TotalType DEF Total
<1>6. Cardinality(Heap(g) \cap H) = 0
  BY <1>3, FS_EmptySet
<1> HIDE DEF H
<1>7. Cardinality(Heap(g) \cup H) = Cardinality(Heap(g)) + Cardinality(H) - Cardinality(Heap(g) \cap H)
  BY <1>4, <1>5, FS_Union
<1>8. Total(f) = Total(g) + f[s]
  BY <1>2, <1>4, <1>5, <1>6, <1>7 DEF Total
<1> QED BY <1>8 DEF g

\* One value changes.
LEMMA TotalStep ==
  ASSUME NEW S, IsFiniteSet(S), NEW f \in [S -> Nat], NEW g \in [S -> Nat], NEW s \in S,
         \A x \in S : x # s => g[x] = f[x]
  PROVE  /\ Total(f) \in Nat /\ Total(g) \in Nat
         /\ Total(g) + f[s] = Total(f) + g[s]
         /\ f[s] <= Total(f)
<1>1. [f EXCEPT ![s] = 0] = [g EXCEPT ![s] = 0] /\ [f EXCEPT ![s] = 0] \in [S -> Nat]
  OBVIOUS
<1>2. Total(f) = Total([f EXCEPT ![s] = 0]) + f[s]
  BY TotalSplit
<1>3. Total(g) = Total([g EXCEPT ![s] = 0]) + g[s]
  BY TotalSplit
<1> DEFINE h == [f EXCEPT ![s] = 0]
<1>4. Total(h) \in Nat
  BY <1>1, TotalType
<1>5. Total(f) = Total(h) + f[s] /\ Total(g) = Total(h) + g[s]
  BY <1>1, <1>2, <1>3
<1>6. f[s] \in Nat /\ g[s] \in Nat
  OBVIOUS
<1> HIDE DEF h
<1> QED BY <1>4, <1>5, <1>6

\* Larger values, a larger sum.
LEMMA TotalLess ==
  ASSUME NEW S, IsFiniteSet(S), NEW f \in [S -> Nat], NEW g \in [S -> Nat],
         \A x \in S : f[x] <= g[x]
  PROVE  Total(f) <= Total(g)
<1>1. ASSUME NEW x \in Heap(f) PROVE x \in Heap(g)
  <2>1. PICK s \in S : \E i \in 1..f[s] : x = <<s, i>>
    BY InHeap
  <2>2. \E i \in 1..g[s] : x = <<s, i>>
    BY <2>1
  <2> QED BY <2>1, <2>2, InHeap
<1>2. IsFiniteSet(Heap(g))
  BY TotalType
<1> QED BY <1>1, <1>2, FS_Subset DEF Total

\* A sum of zeros.
LEMMA TotalZero ==
  ASSUME NEW S, NEW f \in [S -> Nat], \A x \in S : f[x] = 0
  PROVE  Total(f) = 0
<1>1. Heap(f) = {}
  <2> SUFFICES ASSUME NEW x \in Heap(f) PROVE FALSE
    OBVIOUS
  <2>1. PICK s \in S : \E i \in 1..f[s] : x = <<s, i>>
    BY InHeap
  <2> QED BY <2>1
<1> QED BY <1>1, FS_EmptySet DEF Total

-----------------------------------------------------------------------------
(* The order of a round *)

\* The first sub-queue of a sequence, and the others.
LEMMA TailElems ==
  ASSUME NEW S, NEW s \in Seq(S), s # <<>>
  PROVE  /\ Head(s) \in Elems(s) /\ Head(s) \in S /\ Tail(s) \in Seq(S)
         /\ Elems(s) = {Head(s)} \cup Elems(Tail(s))
<1>1. Len(s) \in Nat /\ Len(s) # 0 /\ DOMAIN s = 1..Len(s) /\ Head(s) = s[1]
  OBVIOUS
<1>2. /\ Tail(s) \in Seq(S) /\ DOMAIN Tail(s) = 1..(Len(s) - 1)
      /\ \A i \in 1..(Len(s) - 1) : Tail(s)[i] = s[i + 1]
  OBVIOUS
<1>3. Head(s) \in Elems(s) /\ Head(s) \in S
  BY <1>1 DEF Elems
<1>4. ASSUME NEW x \in Elems(s) PROVE x = Head(s) \/ x \in Elems(Tail(s))
  <2>1. PICK i \in 1..Len(s) : x = s[i]
    BY <1>1 DEF Elems
  <2>2. CASE i = 1
    BY <2>1, <2>2, <1>1
  <2>3. CASE i # 1
    <3>1. i - 1 \in 1..(Len(s) - 1) /\ Tail(s)[i - 1] = s[i]
      BY <1>1, <1>2, <2>3
    <3> QED BY <3>1, <2>1, <1>2 DEF Elems
  <2> QED BY <2>2, <2>3
<1>5. ASSUME NEW x \in Elems(Tail(s)) PROVE x \in Elems(s)
  <2>1. PICK i \in 1..(Len(s) - 1) : x = Tail(s)[i]
    BY <1>2 DEF Elems
  <2>2. i + 1 \in 1..Len(s) /\ x = s[i + 1]
    BY <1>1, <1>2, <2>1
  <2> QED BY <2>2, <1>1 DEF Elems
<1> QED BY <1>2, <1>3, <1>4, <1>5

\* From the tail the whole list is gone through, ...
LEMMA FromTailElems ==
  ASSUME NEW tail \in Nat
  PROVE  FromTail(tail) \in Seq(1..tail) /\ Elems(FromTail(tail)) = 1..tail
<1> DEFINE s == FromTail(tail)
<1>1. s = [i \in 1..tail |-> tail + 1 - i]
  BY DEF FromTail
<1>2. s \in Seq(1..tail) /\ DOMAIN s = 1..tail
  BY <1>1
<1>3. \A i \in 1..tail : s[i] = tail + 1 - i /\ s[i] \in 1..tail
  BY <1>1
<1>4. ASSUME NEW p \in 1..tail PROVE p \in Elems(s)
  <2>1. tail + 1 - p \in 1..tail /\ s[tail + 1 - p] = p
    BY <1>3
  <2> QED BY <2>1, <1>2 DEF Elems
<1> HIDE DEF s
<1>5. Elems(s) \subseteq 1..tail
  BY <1>2, <1>3 DEF Elems
<1> QED BY <1>2, <1>4, <1>5 DEF s

\* ... or all but one, ...
LEMMA FromTailButElems ==
  ASSUME NEW tail \in Nat, NEW p \in 1..tail
  PROVE  FromTailBut(p, tail) \in Seq(1..tail) /\ Elems(FromTailBut(p, tail)) = (1..tail) \ {p}
<1> DEFINE s == FromTailBut(p, tail)
           v(i) == IF tail + 1 - i > p THEN tail + 1 - i ELSE tail - i
<1>1. s = [i \in 1..(tail - 1) |-> v(i)]
  BY DEF FromTailBut
<1>2. \A i \in 1..(tail - 1) : v(i) \in 1..tail /\ v(i) # p
  OBVIOUS
<1>3. DOMAIN s = 1..(tail - 1) /\ \A i \in 1..(tail - 1) : s[i] = v(i)
  BY <1>1
<1>4. s \in Seq(1..tail)
  <2> HIDE DEF v
  <2> QED BY <1>1, <1>2
<1>5. ASSUME NEW q \in 1..tail, q # p PROVE q \in Elems(s)
  <2>1. CASE q > p
    <3>1. tail + 1 - q \in 1..(tail - 1) /\ v(tail + 1 - q) = q
      BY <2>1
    <3> QED BY <3>1, <1>3 DEF Elems
  <2>2. CASE q < p
    <3>1. tail - q \in 1..(tail - 1) /\ v(tail - q) = q
      BY <2>2
    <3> QED BY <3>1, <1>3 DEF Elems
  <2> QED BY <2>1, <2>2, <1>5
<1> HIDE DEF s, v
<1>6. Elems(s) \subseteq (1..tail) \ {p}
  BY <1>2, <1>3 DEF Elems
<1> QED BY <1>4, <1>5, <1>6 DEF s

\* ... and so it is from any place in the list.
LEMMA CircleElems ==
  ASSUME NEW tail \in Nat, NEW p \in 1..tail
  PROVE  Circle(p, tail) \in Seq(1..tail) /\ Elems(Circle(p, tail)) = (1..tail) \ {p}
<1> DEFINE s == Circle(p, tail)
           v(i) == IF i < p THEN p - i ELSE tail + p - i
<1>1. s = [i \in 1..(tail - 1) |-> v(i)]
  BY DEF Circle
<1>2. \A i \in 1..(tail - 1) : v(i) \in 1..tail /\ v(i) # p
  OBVIOUS
<1>3. DOMAIN s = 1..(tail - 1) /\ \A i \in 1..(tail - 1) : s[i] = v(i)
  BY <1>1
<1>4. s \in Seq(1..tail)
  <2> HIDE DEF v
  <2> QED BY <1>1, <1>2
<1>5. ASSUME NEW q \in 1..tail, q # p PROVE q \in Elems(s)
  <2>1. CASE q > p
    <3>1. tail + p - q \in 1..(tail - 1) /\ v(tail + p - q) = q
      BY <2>1
    <3> QED BY <3>1, <1>3 DEF Elems
  <2>2. CASE q < p
    <3>1. p - q \in 1..(tail - 1) /\ v(p - q) = q
      BY <2>2
    <3> QED BY <3>1, <1>3 DEF Elems
  <2> QED BY <2>1, <2>2, <1>5
<1> HIDE DEF s, v
<1>6. Elems(s) \subseteq (1..tail) \ {p}
  BY <1>2, <1>3 DEF Elems
<1> QED BY <1>4, <1>5, <1>6 DEF s

\* Going back along the list, and round it, leads to a place on it.
LEMMA WalkPlace ==
  ASSUME NEW tail \in Nat \ {0}, NEW p \in Int, NEW n \in Int
  PROVE  Walk(p, n, tail) \in 1..tail
<1>1. (p - 1 - n) % tail \in 0..(tail - 1)
  OBVIOUS
<1> QED BY <1>1 DEF Walk

\* The number of places is a number.
LEMMA PlacesNumber == Cardinality(Enqueuers) \in Nat /\ Places = 1..Cardinality(Enqueuers)
BY QueueAssumption, FS_CardinalityType DEF Places

\* The fields of a call.
LEMMA CallFields ==
  ASSUME NEW k \in Calls_
  PROVE  /\ k.want \in Nat /\ k.desired \in Nat /\ k.my \in Nat /\ k.lag \in Nat /\ k.max \in Nat
         /\ k.tail \in Nat /\ k.began \in Nat /\ k.weight \in Nat /\ k.nonEmpty \in 0..3
         /\ k.todo \in Seq(Places) /\ k.target \in Places \cup {Null} /\ k.tried \subseteq Places
         /\ k.bulk \in BOOLEAN /\ k.first \in BOOLEAN
BY PlacesNumber DEF Calls_

\* The round goes on, with nobody left out.
LEMMA AdvanceOK ==
  ASSUME NEW k \in Calls_, NEW tail \in Nat,
         k.began <= k.tail, k.tail <= tail, Elems(k.todo) \subseteq 1..k.tail,
         1..k.began \subseteq k.tried \cup Elems(k.todo), k.want # 0, ~k.first
  PROVE  /\ CallOK(Advance(k), tail)
         /\ Advance(k).want = k.want /\ Advance(k).pc \in {"failed", "look"}
<1>0. k.todo \in Seq(Places) /\ k.want \in Nat
  BY CallFields
<1>1. CASE k.todo = <<>>
  <2> DEFINE a == [k EXCEPT !.pc = "failed"]
  <2>1. Advance(k) = a
    BY <1>1 DEF Advance
  <2>2. a \in Calls_ /\ a.pc = "failed"
    BY DEF Calls_
  <2>3. /\ a.began = k.began /\ a.tail = k.tail /\ a.todo = k.todo /\ a.tried = k.tried
        /\ a.want = k.want
    BY DEF Calls_
  <2>4. Elems(k.todo) = {}
    BY <1>1 DEF Elems
  <2> HIDE DEF a
  <2>5. Listed(a, tail)
    BY <2>2, <2>3 DEF Listed, AtSubqueue
  <2>6. NoneLeftOut(a)
    BY <2>2, <2>3, <2>4 DEF NoneLeftOut, AtSubqueue
  <2>7. Wants(a)
    BY <2>2, <2>3 DEF Wants, Searching
  <2> QED BY <2>1, <2>2, <2>3, <2>5, <2>6, <2>7 DEF CallOK
<1>2. CASE k.todo # <<>>
  <2> DEFINE a == [k EXCEPT !.pc = "look", !.target = Head(k.todo), !.todo = Tail(@)]
  <2>0. /\ Head(k.todo) \in Elems(k.todo) /\ Head(k.todo) \in Places /\ Tail(k.todo) \in Seq(Places)
        /\ Elems(k.todo) = {Head(k.todo)} \cup Elems(Tail(k.todo))
    BY <1>0, <1>2, TailElems
  <2>1. Advance(k) = a
    BY <1>2 DEF Advance
  <2>2. a \in Calls_ /\ a.pc = "look"
    BY <2>0 DEF Calls_
  <2>3. /\ a.began = k.began /\ a.tail = k.tail /\ a.tried = k.tried /\ a.want = k.want
        /\ a.target = Head(k.todo) /\ a.todo = Tail(k.todo) /\ a.first = k.first
    BY DEF Calls_
  <2> HIDE DEF a
  <2>5. Listed(a, tail)
    BY <2>0, <2>2, <2>3 DEF Listed
  <2>6. NoneLeftOut(a)
    BY <2>0, <2>2, <2>3 DEF NoneLeftOut, AtSubqueue
  <2>7. Wants(a)
    BY <2>2, <2>3 DEF Wants, Searching, AtSubqueue
  <2> QED BY <2>1, <2>2, <2>3, <2>5, <2>6, <2>7 DEF CallOK
<1> QED BY <1>1, <1>2

\* A consumer that makes no call.
LEMMA NoCallOK ==
  ASSUME NEW tail \in Nat
  PROVE  CallOK(NoCall, tail) /\ NoCall.want = 0 /\ NoCall.pc = "idle"
<1>1. NoCall \in Calls_
  <2>1. <<>> \in Seq(Places) /\ 0 \in 0..Cardinality(Enqueuers)
    BY PlacesNumber
  <2> QED BY <2>1 DEF NoCall, Calls_, Null
<1>2. /\ NoCall.pc = "idle" /\ NoCall.want = 0 /\ NoCall.began = 0 /\ NoCall.tail = 0
      /\ NoCall.todo = <<>>
  BY DEF NoCall, Null
<1>3. Elems(NoCall.todo) = {}
  BY <1>2 DEF Elems
<1>4. Listed(NoCall, tail)
  BY <1>2, <1>3 DEF Listed, AtSubqueue
<1>5. NoneLeftOut(NoCall)
  BY <1>2 DEF NoneLeftOut, AtSubqueue
<1>6. Wants(NoCall)
  BY <1>2 DEF Wants, Searching, AtSubqueue
<1> QED BY <1>1, <1>2, <1>4, <1>5, <1>6 DEF CallOK

\* The sub-queues that are tried next are on the list, and are all the others
\* unless the round already knows them.
LEMMA OthersOK ==
  ASSUME producerListTail \in Nat, NEW c, NEW k, CallOK(k, producerListTail), k.pc \in AtSubqueue,
         NEW n \in Nat
  PROVE  LET tail == IF k.first THEN producerListTail ELSE k.tail
             o == Others(c, k, n)
         IN  /\ o \in Seq(1..tail) /\ Elems(o) \subseteq 1..tail
             /\ 1..k.began \subseteq k.tried \cup {k.target} \cup Elems(o)
<1>1. /\ k \in Calls_ /\ k.began <= k.tail /\ k.tail <= producerListTail
      /\ Elems(k.todo) \subseteq 1..k.tail /\ k.target \in 1..k.tail
      /\ ~k.first => 1..k.began \subseteq k.tried \cup {k.target} \cup Elems(k.todo)
  BY DEF CallOK, Listed, NoneLeftOut
<1>2. k.tail \in Nat /\ k.began \in Nat /\ k.todo \in Seq(Places) /\ k.first \in BOOLEAN
  BY <1>1, CallFields
<1>3. k.target \in 1..producerListTail /\ 1..k.began \subseteq 1..producerListTail
      /\ 1..k.began \subseteq 1..k.tail
  BY <1>1, <1>2
<1>4. CASE c \in TokenUsers /\ k.first
  <2>1. Others(c, k, n) = Circle(k.target, producerListTail)
    BY <1>4 DEF Others
  <2> QED BY <2>1, <1>3, <1>4, CircleElems
<1>5. CASE c \in TokenUsers /\ ~k.first /\ n > 0
  <2>1. Others(c, k, n) = Circle(k.target, k.tail)
    BY <1>5 DEF Others
  <2> QED BY <2>1, <1>1, <1>2, <1>3, <1>5, CircleElems
<1>6. CASE c \notin TokenUsers /\ k.first
  <2>1. Others(c, k, n) = FromTailBut(k.target, producerListTail)
    BY <1>6 DEF Others
  <2> QED BY <2>1, <1>3, <1>6, FromTailButElems
<1>7. CASE ~k.first /\ ~(c \in TokenUsers /\ n > 0)
  <2>1. Others(c, k, n) = k.todo
    BY <1>7 DEF Others
  <2>2. k.todo \in Seq(1..k.tail)
    <3>1. Len(k.todo) \in Nat /\ DOMAIN k.todo = 1..Len(k.todo)
      BY <1>2
    <3>2. \A i \in 1..Len(k.todo) : k.todo[i] \in 1..k.tail
      BY <1>1, <3>1 DEF Elems
    <3> QED BY <1>2, <3>1, <3>2
  <2> QED BY <2>1, <2>2, <1>1, <1>7
<1> QED BY <1>4, <1>5, <1>6, <1>7, <1>2

\* The call k is over, or goes on to look for what it has not found.
LEMMA FoundOK ==
  ASSUME producerListTail \in 0..Cardinality(Enqueuers), NEW c, NEW k,
         CallOK(k, producerListTail), k.pc \in AtSubqueue, NEW n \in 0..k.want
  PROVE  /\ CallOK(Found(c, k, n), producerListTail)
         /\ Found(c, k, n).want = k.want - n
         /\ Found(c, k, n).pc \in {"idle", "failed", "look"}
<1>0. Cardinality(Enqueuers) \in Nat /\ Places = 1..Cardinality(Enqueuers)
  BY PlacesNumber
<1>1. /\ k \in Calls_ /\ k.began <= k.tail /\ k.tail <= producerListTail /\ k.target \in 1..k.tail
  BY DEF CallOK, Listed
<1>2. /\ k.tail \in Nat /\ k.began \in Nat /\ k.want \in Nat /\ k.first \in BOOLEAN
      /\ k.tried \subseteq Places
  BY <1>1, CallFields
<1>3. producerListTail \in Nat /\ n \in Nat
  BY <1>0, <1>2
<1>4. CASE n = k.want
  <2>1. Found(c, k, n) = NoCall
    BY <1>4 DEF Found
  <2> QED BY <2>1, <1>2, <1>3, <1>4, NoCallOK
<1>5. CASE n # k.want
  <2> DEFINE t == IF k.first THEN producerListTail ELSE k.tail
             o == Others(c, k, n)
             m == [k EXCEPT !.want = @ - n, !.tried = @ \cup {k.target}, !.first = FALSE,
                           !.todo = Others(c, k, n), !.desired = 0, !.my = 0, !.lag = 0,
                           !.tail = IF k.first THEN producerListTail ELSE @]
  <2>1. /\ o \in Seq(1..t) /\ Elems(o) \subseteq 1..t
        /\ 1..k.began \subseteq k.tried \cup {k.target} \cup Elems(o)
    BY <1>3, OthersOK
  <2>2. t \in 0..Cardinality(Enqueuers) /\ k.began <= t /\ t <= producerListTail
    BY <1>0, <1>1, <1>2
  <2>3. 1..t \subseteq Places /\ k.target \in Places
    BY <1>0, <1>1, <1>2, <2>2
  <2> HIDE DEF t, o
  <2>4. o \in Seq(Places)
    <3>1. Len(o) \in Nat /\ DOMAIN o = 1..Len(o)
      BY <2>1
    <3>2. \A i \in 1..Len(o) : o[i] \in Places
      BY <2>1, <2>3, <3>1 DEF Elems
    <3> QED BY <2>1, <3>1, <3>2
  <2>5. k.want - n \in Nat /\ k.want - n # 0
    BY <1>2, <1>3, <1>5
  <2>6. m = [k EXCEPT !.want = k.want - n, !.tried = k.tried \cup {k.target}, !.first = FALSE,
                      !.todo = o, !.desired = 0, !.my = 0, !.lag = 0, !.tail = t]
    BY <1>1 DEF o, t, Calls_
  <2>7. /\ m.want = k.want - n /\ m.tried = k.tried \cup {k.target} /\ ~m.first /\ m.todo = o
        /\ m.tail = t /\ m.began = k.began
    BY <1>1, <2>6 DEF Calls_
  <2>8. m \in Calls_
    BY <1>1, <1>2, <2>2, <2>3, <2>4, <2>5, <2>6 DEF Calls_
  <2>9. Found(c, k, n) = Advance(m)
    BY <1>5 DEF Found
  <2> HIDE DEF m
  <2>10. CallOK(Advance(m), producerListTail) /\ Advance(m).want = m.want
         /\ Advance(m).pc \in {"failed", "look"}
    <3>1. 1..m.began \subseteq m.tried \cup Elems(m.todo)
      BY <2>1, <2>7
    <3>2. m.began <= m.tail /\ m.tail <= producerListTail /\ Elems(m.todo) \subseteq 1..m.tail
      BY <2>1, <2>2, <2>7
    <3> QED BY <2>5, <2>7, <2>8, <3>1, <3>2, <1>3, AdvanceOK
  <2> QED BY <2>7, <2>9, <2>10
<1> QED BY <1>4, <1>5

-----------------------------------------------------------------------------
(* The steps of consumers *)

\* The lag of a call that is about to claim is all that others change.
Behind(new, old) == old.pc = "claim" /\ \E x \in Nat : new = [old EXCEPT !.lag = x]

\* Nothing else of the calls of the others matters.
LEMMA LagKeeps ==
  ASSUME NEW old, NEW new, NEW tail, CallOK(old, tail), new = old \/ Behind(new, old)
  PROVE  /\ CallOK(new, tail) /\ new.want = old.want
         /\ \A p : ClaimOf(new, p) = ClaimOf(old, p)
         /\ \A p, b : ShareOf(new, p, b) = ShareOf(old, p, b)
<1>1. CASE new = old
  BY <1>1
<1>2. CASE Behind(new, old)
  <2>1. PICK x \in Nat : new = [old EXCEPT !.lag = x]
    BY <1>2 DEF Behind
  <2>2. old \in Calls_
    BY DEF CallOK
  <2>3. new \in Calls_
    BY <2>1, <2>2 DEF Calls_
  <2>4. /\ new.pc = old.pc /\ new.want = old.want /\ new.first = old.first
        /\ new.target = old.target /\ new.todo = old.todo /\ new.tail = old.tail
        /\ new.weight = old.weight /\ new.nonEmpty = old.nonEmpty /\ new.desired = old.desired
        /\ new.my = old.my /\ new.tried = old.tried /\ new.began = old.began
    BY <2>1, <2>2 DEF Calls_
  <2>5. Listed(new, tail) /\ NoneLeftOut(new) /\ Wants(new)
    BY <2>4, Zenon DEF CallOK, Listed, NoneLeftOut, Wants
  <2>6. \A p : ClaimOf(new, p) = ClaimOf(old, p)
    BY <2>4, Zenon DEF ClaimOf
  <2>7. \A p, b : ShareOf(new, p, b) = ShareOf(old, p, b)
    BY <2>4, Zenon DEF ShareOf
  <2> QED BY <2>3, <2>4, <2>5, <2>6, <2>7 DEF CallOK
<1> QED BY <1>1, <1>2

\* The shares of a call are numbers.
LEMMA ShareType ==
  ASSUME NEW k \in Calls_, NEW p, NEW b \in Nat
  PROVE  /\ ClaimOf(k, p) \in Nat /\ ShareOf(k, p, b) \in Nat
         /\ k.pc # "undo" => ShareOf(k, p, b) <= ClaimOf(k, p)
<1>1. k.desired \in Nat /\ k.my \in Nat
  BY CallFields
<1>2. CASE k.pc = "undo" /\ k.target = p
  BY <1>1, <1>2 DEF ClaimOf, ShareOf
<1>3. CASE k.pc = "recheck" /\ k.target = p /\ k.my < b
  BY <1>1, <1>3 DEF ClaimOf, ShareOf, Smaller
<1>4. CASE k.pc = "recheck" /\ k.target = p /\ ~(k.my < b)
  BY <1>1, <1>4 DEF ClaimOf, ShareOf
<1>5. CASE k.target # p \/ k.pc \notin {"recheck", "undo"}
  BY <1>1, <1>5 DEF ClaimOf, ShareOf
<1> QED BY <1>2, <1>3, <1>4, <1>5

WantsOf(d) == [c \in Consumers |-> d[c].want]

\* D becomes E: one call changes, and others fall behind.
Turn(D, E, c) ==
    /\ E \in [Consumers -> Calls_]
    /\ \A x \in Consumers : x # c => E[x] = D[x] \/ Behind(E[x], D[x])

\* What that does to the sums.
LEMMA SumsMove ==
  ASSUME NEW tail, NEW D \in [Consumers -> Calls_], NEW E, NEW c \in Consumers, Turn(D, E, c),
         \A x \in Consumers : CallOK(D[x], tail)
  PROVE  /\ \A x \in Consumers : x # c => CallOK(E[x], tail)
         /\ Total(WantsOf(D)) \in Nat /\ Total(WantsOf(E)) \in Nat
         /\ Total(WantsOf(E)) + D[c].want = Total(WantsOf(D)) + E[c].want
         /\ \A p : /\ Total(ClaimsOf(D, p)) \in Nat /\ Total(ClaimsOf(E, p)) \in Nat
                   /\ Total(ClaimsOf(E, p)) + ClaimOf(D[c], p) = Total(ClaimsOf(D, p)) + ClaimOf(E[c], p)
         /\ \A p : \A b \in Nat :
                   /\ Total(SharesOf(D, p, b)) \in Nat /\ Total(SharesOf(E, p, b)) \in Nat
                   /\ Total(SharesOf(E, p, b)) + ShareOf(D[c], p, b)
                        = Total(SharesOf(D, p, b)) + ShareOf(E[c], p, b)
<1>0. IsFiniteSet(Consumers) /\ E \in [Consumers -> Calls_]
  BY QueueAssumption DEF Turn
<1>1. ASSUME NEW x \in Consumers, x # c
      PROVE  /\ CallOK(E[x], tail) /\ E[x].want = D[x].want
             /\ \A p : ClaimOf(E[x], p) = ClaimOf(D[x], p)
             /\ \A p, b : ShareOf(E[x], p, b) = ShareOf(D[x], p, b)
  BY <1>1, LagKeeps DEF Turn
<1>2. /\ Total(WantsOf(D)) \in Nat /\ Total(WantsOf(E)) \in Nat
      /\ Total(WantsOf(E)) + D[c].want = Total(WantsOf(D)) + E[c].want
  <2> DEFINE f == WantsOf(D)
             g == WantsOf(E)
  <2>1. f \in [Consumers -> Nat] /\ g \in [Consumers -> Nat]
    BY <1>0, CallFields DEF WantsOf
  <2>2. f[c] = D[c].want /\ g[c] = E[c].want /\ \A x \in Consumers : x # c => g[x] = f[x]
    BY <1>1 DEF WantsOf
  <2> HIDE DEF f, g
  <2>3. Total(f) \in Nat /\ Total(g) \in Nat /\ Total(g) + f[c] = Total(f) + g[c]
    BY <1>0, <2>1, <2>2, TotalStep
  <2> QED BY <2>2, <2>3 DEF f, g
<1>3. ASSUME NEW p
      PROVE  /\ Total(ClaimsOf(D, p)) \in Nat /\ Total(ClaimsOf(E, p)) \in Nat
             /\ Total(ClaimsOf(E, p)) + ClaimOf(D[c], p) = Total(ClaimsOf(D, p)) + ClaimOf(E[c], p)
  <2> DEFINE f == ClaimsOf(D, p)
             g == ClaimsOf(E, p)
  <2>1. f \in [Consumers -> Nat] /\ g \in [Consumers -> Nat]
    <3>1. \A x \in Consumers : ClaimOf(D[x], p) \in Nat /\ ClaimOf(E[x], p) \in Nat
      BY <1>0, ShareType
    <3> QED BY <3>1 DEF ClaimsOf
  <2>2. f[c] = ClaimOf(D[c], p) /\ g[c] = ClaimOf(E[c], p)
        /\ \A x \in Consumers : x # c => g[x] = f[x]
    BY <1>1 DEF ClaimsOf
  <2> HIDE DEF f, g
  <2>3. Total(f) \in Nat /\ Total(g) \in Nat /\ Total(g) + f[c] = Total(f) + g[c]
    BY <1>0, <2>1, <2>2, TotalStep
  <2> QED BY <2>2, <2>3 DEF f, g
<1>4. ASSUME NEW p, NEW b \in Nat
      PROVE  /\ Total(SharesOf(D, p, b)) \in Nat /\ Total(SharesOf(E, p, b)) \in Nat
             /\ Total(SharesOf(E, p, b)) + ShareOf(D[c], p, b)
                  = Total(SharesOf(D, p, b)) + ShareOf(E[c], p, b)
  <2> DEFINE f == SharesOf(D, p, b)
             g == SharesOf(E, p, b)
  <2>1. f \in [Consumers -> Nat] /\ g \in [Consumers -> Nat]
    <3>1. \A x \in Consumers : ShareOf(D[x], p, b) \in Nat /\ ShareOf(E[x], p, b) \in Nat
      BY <1>0, ShareType
    <3> QED BY <3>1 DEF SharesOf
  <2>2. f[c] = ShareOf(D[c], p, b) /\ g[c] = ShareOf(E[c], p, b)
        /\ \A x \in Consumers : x # c => g[x] = f[x]
    BY <1>1 DEF SharesOf
  <2> HIDE DEF f, g
  <2>3. Total(f) \in Nat /\ Total(g) \in Nat /\ Total(g) + f[c] = Total(f) + g[c]
    BY <1>0, <2>1, <2>2, TotalStep
  <2> QED BY <2>2, <2>3 DEF f, g
<1> QED BY <1>1, <1>2, <1>3, <1>4

Subqueues == [Places -> [tail : Nat, head : Nat, claims : Int]]
TokensOf(tail) == [TokenUsers -> [desired : 0..tail, current : 0..tail, lastKnown : Int, consumed : Nat]]
ElementsOf(q) == [p \in Places |-> q[p].tail - q[p].head]

\* A sub-queue is not overdrawn.
LEMMA NotOverdrawn ==
  ASSUME NEW d \in [Consumers -> Calls_], NEW q \in Subqueues, SharesOK(d, q), NEW p \in Places
  PROVE  q[p].head <= q[p].tail /\ q[p].tail - q[p].head \in Nat
<1> DEFINE b == q[p].tail
           T == Total(SharesOf(d, p, b))
<1>1. b \in Nat /\ q[p].head \in Nat
  BY DEF Subqueues
<1>2. SharesOf(d, p, b) \in [Consumers -> Nat]
  <2>1. \A x \in Consumers : ShareOf(d[x], p, b) \in Nat
    BY <1>1, ShareType
  <2> QED BY <2>1 DEF SharesOf
<1>3. T \in Nat
  BY <1>2, TotalType, QueueAssumption
<1>4. q[p].head + T <= b
  BY <1>1 DEF SharesOK
<1> HIDE DEF T
<1> QED BY <1>1, <1>3, <1>4

\* n elements are given out.
LEMMA HeadMoves ==
  ASSUME NEW q \in Subqueues, NEW r \in Subqueues, NEW s \in Places, NEW n \in Nat,
         \A p \in Places : q[p].head <= q[p].tail, \A p \in Places : r[p].head <= r[p].tail,
         \A p \in Places : r[p].tail = q[p].tail, \A p \in Places : p # s => r[p].head = q[p].head,
         r[s].head = q[s].head + n
  PROVE  Total(ElementsOf(r)) + n = Total(ElementsOf(q)) /\ Total(ElementsOf(r)) \in Nat
<1> DEFINE f == ElementsOf(q)
           g == ElementsOf(r)
<1>0. IsFiniteSet(Places)
  BY PlacesNumber, FS_Interval
<1>1. \A p \in Places : /\ q[p].tail \in Nat /\ q[p].head \in Nat /\ r[p].tail \in Nat
                        /\ r[p].head \in Nat
  BY DEF Subqueues
<1>2. f \in [Places -> Nat] /\ g \in [Places -> Nat]
  BY <1>1 DEF ElementsOf
<1>3. g[s] + n = f[s] /\ f[s] \in Nat /\ g[s] \in Nat /\ \A p \in Places : p # s => g[p] = f[p]
  BY <1>1 DEF ElementsOf
<1> HIDE DEF f, g
<1>4. Total(f) \in Nat /\ Total(g) \in Nat /\ Total(g) + f[s] = Total(f) + g[s]
  BY <1>0, <1>2, <1>3, TotalStep
<1>5. Total(g) + n = Total(f)
  BY <1>3, <1>4
<1> QED BY <1>4, <1>5 DEF f, g

\* The type of the state, as the proofs use it.
LEMMA Typed ==
  ASSUME TypeOK
  PROVE  /\ producerCount \in Nat /\ producerListTail \in Nat /\ Cardinality(Enqueuers) \in Nat
         /\ producerListTail \in 0..Cardinality(Enqueuers)
         /\ subqueue \in Subqueues /\ token \in TokensOf(producerListTail)
         /\ deq \in [Consumers -> Calls_]
<1>1. Cardinality(Enqueuers) \in Nat
  BY PlacesNumber
<1>2. producerCount \in 0..Cardinality(Enqueuers) /\ producerListTail \in 0..producerCount
  BY DEF TypeOK
<1>3. producerCount \in Nat /\ producerListTail \in Nat /\ producerListTail \in 0..Cardinality(Enqueuers)
  BY <1>1, <1>2
<1>4. subqueue \in Subqueues
  <2>1. subqueue \in [Places -> [tail : 0..MaxElements, head : 0..MaxElements, claims : Nat]]
    BY DEF TypeOK
  <2>2. \A p \in Places : subqueue[p] \in [tail : Nat, head : Nat, claims : Int]
    BY <2>1, QueueAssumption
  <2> QED BY <2>1, <2>2 DEF Subqueues
<1> QED BY <1>1, <1>3, <1>4 DEF TypeOK, TokensOf

\* A step of consumer c, with which n elements are given out.
LEMMA DeqStep ==
  ASSUME IInv, NEW c \in Consumers, NEW n \in Nat,
         UNCHANGED <<producerCount, producerListTail, place, enq>>,
         Turn(deq, deq', c), CallOK(deq'[c], producerListTail),
         token' \in TokensOf(producerListTail), TokensOK',
         globalExplicitConsumerOffset' \in Nat, available' \in Nat,
         subqueue' \in Subqueues,
         \A p \in Places : subqueue'[p].tail = subqueue[p].tail,
         \A p \in Places : subqueue'[p].claims + ClaimOf(deq[c], p)
                             = subqueue[p].claims + ClaimOf(deq'[c], p),
         SharesOK(deq', subqueue'),
         Total(ElementsOf(subqueue')) + n = Total(ElementsOf(subqueue)),
         available' + deq'[c].want + n = available + deq[c].want
  PROVE  IInv'
<1>0. /\ TypeOK /\ TokensCovered /\ ListOK /\ TokensOK /\ ClaimsOK(deq, subqueue)
      /\ \A x \in Consumers : CallOK(deq[x], producerListTail)
  BY DEF IInv, CountsAgree
<1>1. /\ deq \in [Consumers -> Calls_] /\ deq' \in [Consumers -> Calls_] /\ subqueue \in Subqueues
  BY <1>0, Typed DEF Turn
<1>2. /\ \A x \in Consumers : x # c => CallOK(deq'[x], producerListTail)
      /\ Total(WantsOf(deq)) \in Nat /\ Total(WantsOf(deq')) \in Nat
      /\ Total(WantsOf(deq')) + deq[c].want = Total(WantsOf(deq)) + deq'[c].want
      /\ \A p : /\ Total(ClaimsOf(deq, p)) \in Nat /\ Total(ClaimsOf(deq', p)) \in Nat
                /\ Total(ClaimsOf(deq', p)) + ClaimOf(deq[c], p)
                     = Total(ClaimsOf(deq, p)) + ClaimOf(deq'[c], p)
  <2> DEFINE D == deq
             E == deq'
  <2>1. /\ D \in [Consumers -> Calls_] /\ Turn(D, E, c)
        /\ \A x \in Consumers : CallOK(D[x], producerListTail)
    BY <1>0, <1>1
  <2> HIDE DEF D, E
  <2>2. /\ \A x \in Consumers : x # c => CallOK(E[x], producerListTail)
        /\ Total(WantsOf(D)) \in Nat /\ Total(WantsOf(E)) \in Nat
        /\ Total(WantsOf(E)) + D[c].want = Total(WantsOf(D)) + E[c].want
        /\ \A p : /\ Total(ClaimsOf(D, p)) \in Nat /\ Total(ClaimsOf(E, p)) \in Nat
                  /\ Total(ClaimsOf(E, p)) + ClaimOf(D[c], p) = Total(ClaimsOf(D, p)) + ClaimOf(E[c], p)
    BY ONLY <2>1, SumsMove, c \in Consumers
  <2> QED BY <2>2 DEF D, E
<1>3. \A x \in Consumers : CallOK(deq'[x], producerListTail)
  BY <1>2
<1>4. ASSUME NEW p \in Places
      PROVE  /\ subqueue'[p].head <= subqueue'[p].tail /\ subqueue'[p].tail \in 0..MaxElements
             /\ subqueue'[p].head \in 0..MaxElements
             /\ subqueue'[p].claims = Total(ClaimsOf(deq', p)) /\ subqueue'[p].claims \in Nat
             /\ subqueue'[p] \in [tail : 0..MaxElements, head : 0..MaxElements, claims : Nat]
  <2>1. subqueue'[p].head <= subqueue'[p].tail
    BY <1>1, NotOverdrawn
  <2>2. subqueue'[p].tail \in 0..MaxElements
    BY <1>0 DEF TypeOK
  <2>3. subqueue'[p] \in [tail : Nat, head : Nat, claims : Int] /\ subqueue[p].claims \in Int
    BY <1>1 DEF Subqueues
  <2>4. subqueue'[p].head \in 0..MaxElements
    BY <2>1, <2>2, <2>3, QueueAssumption
  <2>5. subqueue[p].claims = Total(ClaimsOf(deq, p))
    BY <1>0 DEF ClaimsOK
  <2>6. ClaimOf(deq[c], p) \in Nat /\ ClaimOf(deq'[c], p) \in Nat
    <3>1. 0 \in Nat
      OBVIOUS
    <3> QED BY <1>1, <3>1, ShareType
  <2> DEFINE A == Total(ClaimsOf(deq, p))
             B == Total(ClaimsOf(deq', p))
             u == ClaimOf(deq[c], p)
             v == ClaimOf(deq'[c], p)
             x == subqueue'[p].claims
  <2>7. A \in Nat /\ B \in Nat /\ u \in Nat /\ v \in Nat /\ x \in Int /\ B + u = A + v /\ x + u = A + v
    BY <1>2, <2>3, <2>5, <2>6
  <2> HIDE DEF A, B, u, v, x
  <2>8. x = B
    BY <2>7
  <2>9. x \in Nat
    BY <2>7, <2>8
  <2> QED BY <2>1, <2>2, <2>3, <2>4, <2>8, <2>9 DEF x, B
<1>5. subqueue' \in [Places -> [tail : 0..MaxElements, head : 0..MaxElements, claims : Nat]]
  <2>1. DOMAIN subqueue' = Places /\ subqueue' = [p \in Places |-> subqueue'[p]]
    BY DEF Subqueues
  <2> QED BY <1>4, <2>1
<1>6. TypeOK'
  BY <1>0, <1>1, <1>4, <1>5 DEF TypeOK, TokensOf
<1>7. TokensCovered'
  <2> DEFINE e == Total(ElementsOf(subqueue))
             f == Total(ElementsOf(subqueue'))
             U == Unsignalled
             w == Total(WantsOf(deq))
             y == Total(WantsOf(deq'))
             k == deq[c].want
             l == deq'[c].want
  <2>1. e = available + U + w
    BY <1>0 DEF TokensCovered, Elements, Outstanding, ElementsOf, WantsOf
  <2>2. k \in Nat /\ l \in Nat /\ w \in Nat /\ y \in Nat /\ y + k = w + l
    BY <1>1, <1>2, CallFields
  <2>3. U \in Nat
    <3>1. [x \in Enqueuers |-> enq[x].count] \in [Enqueuers -> Nat]
      BY <1>0 DEF TypeOK
    <3> QED BY <3>1, TotalType, QueueAssumption DEF Unsignalled
  <2>4. available \in Nat
    BY <1>0 DEF TypeOK
  <2>5. f \in Nat
    <3>1. ElementsOf(subqueue') \in [Places -> Nat]
      <4>1. \A p \in Places : subqueue'[p].tail - subqueue'[p].head \in Nat
        BY <1>1, NotOverdrawn
      <4> QED BY <4>1 DEF ElementsOf
    <3>2. IsFiniteSet(Places)
      BY PlacesNumber, FS_Interval
    <3> QED BY <3>1, <3>2, TotalType
  <2>6. f + n = e /\ available' + l + n = available + k
    OBVIOUS
  <2>7. Unsignalled' = U
    BY DEF Unsignalled
  <2> HIDE DEF e, f, U, w, y, k, l
  <2> DEFINE a == available
             z == available'
  <2>8. a \in Nat /\ z \in Nat /\ e \in Nat /\ e = a + U + w /\ f + n = e /\ z + l + n = a + k
    <3>1. a \in Nat /\ z \in Nat
      BY <2>4
    <3>2. e = a + U + w
      BY <2>1
    <3>3. e \in Nat
      BY <2>2, <2>3, <3>1, <3>2
    <3>4. f + n = e
      BY <2>6
    <3>5. z + l + n = a + k
      BY <2>6
    <3> QED BY <3>1, <3>2, <3>3, <3>4, <3>5
  <2> HIDE DEF a, z
  <2>9. f = z + U + y
    BY <2>2, <2>3, <2>5, <2>8
  <2>10. f = available' + U + y
    BY <2>9 DEF z
  <2> QED BY <2>7, <2>10 DEF TokensCovered, Elements, Outstanding, ElementsOf, WantsOf, f, y
<1>8. ListOK'
  BY <1>0 DEF ListOK
<1>9. ClaimsOK(deq', subqueue')
  BY <1>4 DEF ClaimsOK
<1> QED BY <1>3, <1>6, <1>7, <1>8, <1>9 DEF IInv, CountsAgree

\* What c has got and may still get of any sub-queue does not grow.
LEMMA SharesFall ==
  ASSUME NEW tail, NEW D \in [Consumers -> Calls_], NEW E, NEW c \in Consumers, Turn(D, E, c),
         \A x \in Consumers : CallOK(D[x], tail), NEW q \in Subqueues, NEW r \in Subqueues,
         SharesOK(D, q), \A p \in Places : r[p].tail = q[p].tail,
         \A p \in Places : \A b \in Nat : q[p].tail <= b =>
            r[p].head + ShareOf(E[c], p, b) <= q[p].head + ShareOf(D[c], p, b)
  PROVE  SharesOK(E, r)
<1> SUFFICES ASSUME NEW p \in Places, NEW b \in Nat, r[p].tail <= b
             PROVE  r[p].head + Total(SharesOf(E, p, b)) <= b
  BY DEF SharesOK
<1> DEFINE X == Total(SharesOf(D, p, b))
           Y == Total(SharesOf(E, p, b))
           x == ShareOf(D[c], p, b)
           y == ShareOf(E[c], p, b)
           h == q[p].head
           g == r[p].head
<1>1. X \in Nat /\ Y \in Nat /\ Y + x = X + y
  BY SumsMove
<1>2. x \in Nat /\ y \in Nat
  BY ShareType DEF Turn
<1>3. h \in Nat /\ g \in Nat /\ q[p].tail <= b
  BY DEF Subqueues
<1>4. h + X <= b
  BY <1>3 DEF SharesOK
<1>5. g + y <= h + x
  BY <1>3
<1> HIDE DEF X, Y, x, y, h, g
<1>6. g + Y <= b
  BY <1>1, <1>2, <1>3, <1>4, <1>5
<1> QED BY <1>6 DEF g, Y

\* A step with which c neither opens nor closes a claim.
LEMMA QuietStep ==
  ASSUME IInv, NEW c \in Consumers, NEW k,
         UNCHANGED <<producerCount, producerListTail, place, enq, subqueue>>,
         deq' = [deq EXCEPT ![c] = k], CallOK(k, producerListTail),
         k.pc \notin {"recheck", "undo"}, deq[c].pc \notin {"recheck", "undo"},
         token' \in TokensOf(producerListTail), TokensOK',
         globalExplicitConsumerOffset' \in Nat, available' \in Nat,
         available' + k.want = available + deq[c].want
  PROVE  IInv'
<1>0. /\ TypeOK /\ SharesOK(deq, subqueue)
      /\ \A x \in Consumers : CallOK(deq[x], producerListTail)
  BY DEF IInv, CountsAgree
<1>1. deq \in [Consumers -> Calls_] /\ subqueue \in Subqueues
  BY <1>0, Typed
<1>2. k \in Calls_
  BY DEF CallOK
<1>3. deq'[c] = k /\ Turn(deq, deq', c)
  BY <1>1, <1>2 DEF Turn
<1>4. \A p : ClaimOf(k, p) = 0 /\ ClaimOf(deq[c], p) = 0
  BY DEF ClaimOf
<1>5. \A p, b : ShareOf(k, p, b) = 0 /\ ShareOf(deq[c], p, b) = 0
  BY DEF ShareOf
<1>6. \A p \in Places : subqueue[p].head \in Nat /\ subqueue[p].claims \in Int
  BY <1>1 DEF Subqueues
<1>7. SharesOK(deq', subqueue)
  <2> DEFINE E == deq'
  <2>1. /\ Turn(deq, E, c)
        /\ \A p \in Places : \A b \in Nat : subqueue[p].tail <= b =>
              subqueue[p].head + ShareOf(E[c], p, b) <= subqueue[p].head + ShareOf(deq[c], p, b)
    BY <1>3, <1>5, <1>6
  <2> HIDE DEF E
  <2>2. SharesOK(E, subqueue)
    BY <1>0, <1>1, <2>1, SharesFall
  <2> QED BY <2>2 DEF E
<1>8. Total(ElementsOf(subqueue)) + 0 = Total(ElementsOf(subqueue))
  <2>1. ElementsOf(subqueue) \in [Places -> Nat]
    BY <1>0, <1>1, NotOverdrawn DEF ElementsOf
  <2>2. Total(ElementsOf(subqueue)) \in Nat
    <3>1. IsFiniteSet(Places)
      BY PlacesNumber, FS_Interval
    <3> QED BY <2>1, <3>1, TotalType
  <2> QED BY <2>2
<1>9. /\ subqueue' = subqueue /\ CallOK(deq'[c], producerListTail)
      /\ \A p \in Places : subqueue'[p].claims + ClaimOf(deq[c], p)
                             = subqueue[p].claims + ClaimOf(deq'[c], p)
  BY <1>3, <1>4, <1>6
<1>10. available' + deq'[c].want + 0 = available + deq[c].want
  <2>1. k.want \in Nat
    BY <1>2, CallFields
  <2> QED BY <2>1, <1>3
<1> QED BY <1>0, <1>1, <1>3, <1>7, <1>8, <1>9, <1>10, DeqStep

\* A step of a search that changes nothing but the local variables.
LEMMA SearchStep ==
  ASSUME IInv, NEW c \in Consumers, NEW k, UnchangedBySearch,
         deq' = [deq EXCEPT ![c] = k], CallOK(k, producerListTail), k.want = deq[c].want,
         k.pc \notin {"recheck", "undo"}, deq[c].pc \notin {"recheck", "undo"}
  PROVE  IInv'
<1>1. TypeOK /\ TokensOK
  BY DEF IInv, CountsAgree
<1>2. /\ UNCHANGED <<producerCount, producerListTail, place, enq, subqueue>>
      /\ token' = token /\ available' = available
      /\ globalExplicitConsumerOffset' = globalExplicitConsumerOffset
  BY DEF UnchangedBySearch, UnchangedByDequeue, listVars
<1>3. token' \in TokensOf(producerListTail) /\ TokensOK'
  BY <1>1, <1>2, Typed DEF TokensOK
<1>4. globalExplicitConsumerOffset' \in Nat /\ available' \in Nat
  BY <1>1, <1>2 DEF TypeOK
<1> QED BY <1>2, <1>3, <1>4, QuietStep

\* A round begins with the list as it is.
LEMMA BeginFields ==
  ASSUME TypeOK, NEW k \in Calls_
  PROVE  /\ Begin(k) \in Calls_ /\ Begin(k).began = producerListTail
         /\ Begin(k).tail = producerListTail /\ Begin(k).tried = {} /\ Begin(k).weight = 0
         /\ Begin(k).nonEmpty = 0 /\ ~Begin(k).first /\ Begin(k).want = k.want
         /\ Begin(k).todo = k.todo /\ Begin(k).bulk = k.bulk
<1>1. producerListTail \in 0..Cardinality(Enqueuers)
  BY Typed
<1>2. Begin(k) \in Calls_
  <2> DEFINE t == producerListTail
             a == [k EXCEPT !.began = t, !.tried = {}, !.tail = t]
  <2>1. a \in Calls_
    BY <1>1 DEF Calls_
  <2>2. Begin(k) = [a EXCEPT !.weight = 0, !.nonEmpty = 0, !.target = Null, !.first = FALSE]
    BY DEF Begin, Calls_
  <2> HIDE DEF a
  <2>3. 0 \in 0..3 /\ 0 \in Nat
    OBVIOUS
  <2>4. [a EXCEPT !.weight = 0, !.nonEmpty = 0, !.target = Null, !.first = FALSE] \in Calls_
    BY <2>1, <2>3 DEF Calls_
  <2> QED BY <2>2, <2>4
<1>3. /\ Begin(k).began = producerListTail /\ Begin(k).tail = producerListTail
      /\ Begin(k).tried = {} /\ Begin(k).weight = 0 /\ Begin(k).nonEmpty = 0
      /\ Begin(k).first = FALSE
  BY DEF Begin, Calls_
<1>4. Begin(k).want = k.want /\ Begin(k).todo = k.todo /\ Begin(k).bulk = k.bulk
  BY DEF Begin, Calls_
<1> QED BY <1>2, <1>3, <1>4

\* What the invariant says of a consumer that searches.
LEMMA Searcher ==
  ASSUME IInv, NEW c \in Consumers
  PROVE  /\ TypeOK /\ deq[c] \in Calls_ /\ CallOK(deq[c], producerListTail)
         /\ producerListTail \in Nat /\ deq \in [Consumers -> Calls_]
         /\ FromTail(producerListTail) \in Seq(Places)
         /\ Elems(FromTail(producerListTail)) = 1..producerListTail
<1>1. TypeOK /\ CallOK(deq[c], producerListTail)
  BY DEF IInv, CountsAgree
<1>2. deq \in [Consumers -> Calls_] /\ producerListTail \in 0..Cardinality(Enqueuers)
      /\ producerListTail \in Nat /\ Cardinality(Enqueuers) \in Nat
  BY <1>1, Typed
<1>3. /\ FromTail(producerListTail) \in Seq(1..producerListTail)
      /\ Elems(FromTail(producerListTail)) = 1..producerListTail
  BY <1>2, FromTailElems
<1>4. 1..producerListTail \subseteq Places
  BY <1>2 DEF Places
<1>5. FromTail(producerListTail) \in Seq(Places)
  <2> DEFINE s == FromTail(producerListTail)
  <2>1. s \in Seq(1..producerListTail) /\ Elems(s) = 1..producerListTail
    BY <1>3
  <2> HIDE DEF s
  <2>2. Len(s) \in Nat /\ DOMAIN s = 1..Len(s) /\ s = [i \in 1..Len(s) |-> s[i]]
    BY <2>1
  <2>3. \A i \in 1..Len(s) : s[i] \in Places
    BY <1>4, <2>1, <2>2 DEF Elems
  <2>4. s \in Seq(Places)
    BY <2>2, <2>3
  <2> QED BY <2>4 DEF s
<1> QED BY <1>1, <1>2, <1>3, <1>5

\* try_dequeue_bulk without a token.
LEMMA BulkRoundStep == ASSUME IInv, NEW c \in Consumers, BulkRound(c) PROVE IInv'
<1> DEFINE k == deq[c]
           m == [Begin(k) EXCEPT !.todo = FromTail(producerListTail)]
<1>1. /\ TypeOK /\ k \in Calls_ /\ CallOK(k, producerListTail) /\ producerListTail \in Nat
      /\ FromTail(producerListTail) \in Seq(Places)
      /\ Elems(FromTail(producerListTail)) = 1..producerListTail
  BY Searcher
<1>2. k.pc = "round" /\ deq' = [deq EXCEPT ![c] = Advance(m)] /\ UnchangedBySearch
  BY DEF BulkRound, Goto
<1>3. k.want # 0
  BY <1>1, <1>2 DEF CallOK, Wants, Searching
<1>4. /\ m \in Calls_ /\ m.began = producerListTail /\ m.tail = producerListTail /\ m.want = k.want
      /\ ~m.first /\ m.todo = FromTail(producerListTail) /\ m.tried = {}
  <2>1. /\ Begin(k) \in Calls_ /\ Begin(k).began = producerListTail
        /\ Begin(k).tail = producerListTail /\ ~Begin(k).first /\ Begin(k).want = k.want
        /\ Begin(k).tried = {}
    BY <1>1, BeginFields
  <2> QED BY <1>1, <2>1 DEF Calls_
<1> HIDE DEF m
<1>5. /\ CallOK(Advance(m), producerListTail) /\ Advance(m).want = m.want
      /\ Advance(m).pc \in {"failed", "look"}
  BY <1>1, <1>3, <1>4, AdvanceOK
<1> QED BY <1>2, <1>4, <1>5, SearchStep

\* try_dequeue without a token starts to weigh.
LEMMA WeighRoundStep == ASSUME IInv, NEW c \in Consumers, WeighRound(c) PROVE IInv'
<1> DEFINE k == deq[c]
           m == [Begin(k) EXCEPT !.pc = "weigh", !.todo = FromTail(producerListTail)]
<1>1. /\ TypeOK /\ k \in Calls_ /\ CallOK(k, producerListTail) /\ producerListTail \in Nat
      /\ FromTail(producerListTail) \in Seq(Places)
      /\ Elems(FromTail(producerListTail)) = 1..producerListTail
  BY Searcher
<1>2. k.pc = "round" /\ deq' = [deq EXCEPT ![c] = m] /\ UnchangedBySearch
  BY DEF WeighRound, Goto
<1>3. k.want # 0
  BY <1>1, <1>2 DEF CallOK, Wants, Searching
<1>4. /\ m \in Calls_ /\ m.began = producerListTail /\ m.tail = producerListTail /\ m.want = k.want
      /\ m.todo = FromTail(producerListTail) /\ m.pc = "weigh" /\ m.nonEmpty = 0 /\ m.weight = 0
  <2>1. /\ Begin(k) \in Calls_ /\ Begin(k).began = producerListTail
        /\ Begin(k).tail = producerListTail /\ Begin(k).nonEmpty = 0 /\ Begin(k).want = k.want
        /\ Begin(k).weight = 0
    BY <1>1, BeginFields
  <2> QED BY <1>1, <2>1 DEF Calls_
<1> HIDE DEF m
<1>5. Listed(m, producerListTail)
  BY <1>1, <1>4 DEF Listed, AtSubqueue
<1>6. NoneLeftOut(m)
  BY <1>1, <1>4 DEF NoneLeftOut, AtSubqueue
<1>7. Wants(m)
  BY <1>3, <1>4 DEF Wants, Searching
<1>8. CallOK(m, producerListTail) /\ m.pc \notin {"recheck", "undo"}
  BY <1>4, <1>5, <1>6, <1>7 DEF CallOK
<1> QED BY <1>2, <1>4, <1>8, SearchStep

\* One more sub-queue is weighed.
LEMMA WeighStep == ASSUME IInv, NEW c \in Consumers, Weigh(c) PROVE IInv'
<1> DEFINE o == deq[c]
           p == Head(o.todo)
           k == [o EXCEPT !.todo = Tail(@)]
           m == CASE size_approx(p) = 0 -> [k EXCEPT !.tried = @ \cup {p}]
                  [] size_approx(p) > k.weight ->
                       [k EXCEPT !.nonEmpty = @ + 1, !.weight = size_approx(p), !.target = p]
                  [] OTHER -> [k EXCEPT !.nonEmpty = @ + 1]
<1>1. TypeOK /\ o \in Calls_ /\ CallOK(o, producerListTail) /\ producerListTail \in Nat
  BY Searcher
<1>2. /\ o.pc = "weigh" /\ o.todo # <<>> /\ o.nonEmpty < 3
      /\ deq' = [deq EXCEPT ![c] = m] /\ UnchangedBySearch
  BY DEF Weigh, Goto
<1>3. o.todo \in Seq(Places) /\ o.nonEmpty \in 0..3 /\ o.weight \in Nat /\ o.tried \subseteq Places
  BY <1>1, CallFields
<1>4. /\ p \in Elems(o.todo) /\ p \in Places /\ Tail(o.todo) \in Seq(Places)
      /\ Elems(o.todo) = {p} \cup Elems(Tail(o.todo))
  BY <1>2, <1>3, TailElems
<1>5. size_approx(p) \in Nat
  <2>1. SharesOK(deq, subqueue) /\ deq \in [Consumers -> Calls_] /\ subqueue \in Subqueues
    BY <1>1, Typed DEF IInv
  <2> QED BY <1>4, <2>1, NotOverdrawn DEF size_approx
<1> DEFINE z == size_approx(p)
<1>6. k \in Calls_ /\ k.todo = Tail(o.todo) /\ k.tried = o.tried /\ k.nonEmpty = o.nonEmpty
      /\ k.weight = o.weight
  BY <1>1, <1>4 DEF Calls_
<1>7. /\ Listed(o, producerListTail) /\ o.want # 0
      /\ o.nonEmpty = 0 => o.weight = 0 /\ 1..o.began \subseteq o.tried \cup Elems(o.todo)
      /\ o.nonEmpty # 0 => o.target \in 1..o.tail
  BY <1>1, <1>2 DEF CallOK, NoneLeftOut, Wants, Searching
<1>8. Elems(o.todo) \subseteq 1..o.tail /\ o.began <= o.tail /\ o.tail <= producerListTail
  BY <1>7 DEF Listed
<1> HIDE DEF p, z
<1>9. ASSUME NEW r \in Calls_, r.pc = "weigh", r.todo = Tail(o.todo), r.tail = o.tail,
             r.began = o.began, r.want = o.want,
             r.nonEmpty = 0 => r.weight = 0 /\ 1..r.began \subseteq r.tried \cup Elems(r.todo),
             r.nonEmpty # 0 => r.target \in 1..r.tail
      PROVE  CallOK(r, producerListTail)
  <2>1. Listed(r, producerListTail)
    BY <1>4, <1>8, <1>9 DEF Listed, AtSubqueue
  <2>2. NoneLeftOut(r)
    BY <1>9 DEF NoneLeftOut, AtSubqueue
  <2>3. Wants(r)
    BY <1>7, <1>9 DEF Wants, Searching
  <2> QED BY <2>1, <2>2, <2>3 DEF CallOK
<1>10. CASE z = 0
  <2> DEFINE r == [k EXCEPT !.tried = @ \cup {p}]
  <2>1. m = r
    <3>1. ~(z > k.weight)
      BY <1>3, <1>6, <1>10
    <3> QED BY <3>1, <1>10 DEF z
  <2>2. /\ r \in Calls_ /\ r.pc = "weigh" /\ r.todo = Tail(o.todo) /\ r.tail = o.tail
        /\ r.began = o.began /\ r.want = o.want /\ r.tried = o.tried \cup {p}
        /\ r.nonEmpty = o.nonEmpty /\ r.weight = o.weight /\ r.target = o.target
    BY <1>1, <1>2, <1>3, <1>4, <1>6 DEF Calls_
  <2> HIDE DEF r
  <2>3. CallOK(r, producerListTail)
    BY <2>2, <1>4, <1>7, <1>9
  <2> QED BY <1>2, <2>1, <2>2, <2>3, SearchStep
<1>11. CASE z # 0 /\ z > k.weight
  <2> DEFINE r == [k EXCEPT !.nonEmpty = @ + 1, !.weight = z, !.target = p]
  <2>1. m = r
    BY <1>11 DEF z
  <2>2. o.nonEmpty + 1 \in 0..3 /\ o.nonEmpty + 1 # 0 /\ z \in Nat
    BY <1>2, <1>3, <1>5 DEF z
  <2>3. /\ r \in Calls_ /\ r.pc = "weigh" /\ r.todo = Tail(o.todo) /\ r.tail = o.tail
        /\ r.began = o.began /\ r.want = o.want /\ r.nonEmpty = o.nonEmpty + 1 /\ r.target = p
    BY <1>1, <1>2, <1>3, <1>4, <1>6, <2>2 DEF Calls_
  <2> HIDE DEF r
  <2>4. CallOK(r, producerListTail)
    BY <2>2, <2>3, <1>4, <1>8, <1>9
  <2> QED BY <1>2, <2>1, <2>3, <2>4, SearchStep
<1>12. CASE z # 0 /\ ~(z > k.weight)
  <2> DEFINE r == [k EXCEPT !.nonEmpty = @ + 1]
  <2>1. m = r
    BY <1>12 DEF z
  <2>2. o.nonEmpty + 1 \in 0..3 /\ o.nonEmpty + 1 # 0 /\ z \in Nat
    BY <1>2, <1>3, <1>5 DEF z
  <2>3. /\ r \in Calls_ /\ r.pc = "weigh" /\ r.todo = Tail(o.todo) /\ r.tail = o.tail
        /\ r.began = o.began /\ r.want = o.want /\ r.nonEmpty = o.nonEmpty + 1
        /\ r.target = o.target
    BY <1>1, <1>2, <1>3, <1>4, <1>6, <2>2 DEF Calls_
  <2>4. o.nonEmpty # 0
    BY <1>3, <1>6, <1>7, <1>12, <2>2
  <2> HIDE DEF r
  <2>5. CallOK(r, producerListTail)
    BY <2>2, <2>3, <2>4, <1>7, <1>9
  <2> QED BY <1>2, <2>1, <2>3, <2>5, SearchStep
<1> QED BY <1>10, <1>11, <1>12

\* The longest sub-queue is tried first, or there was none that is not empty.
LEMMA WeighedStep == ASSUME IInv, NEW c \in Consumers, Weighed(c) PROVE IInv'
<1> DEFINE k == deq[c]
           q == IF k.nonEmpty = 0 THEN "failed" ELSE "look"
           m == [k EXCEPT !.todo = <<>>, !.first = TRUE, !.pc = q]
<1>1. TypeOK /\ k \in Calls_ /\ CallOK(k, producerListTail) /\ producerListTail \in Nat
  BY Searcher
<1>2. /\ k.pc = "weigh" /\ (k.todo = <<>> \/ k.nonEmpty = 3)
      /\ deq' = [deq EXCEPT ![c] = m] /\ UnchangedBySearch
  BY DEF Weighed, Goto
<1>3. /\ Listed(k, producerListTail) /\ k.want # 0
      /\ k.nonEmpty = 0 => 1..k.began \subseteq k.tried \cup Elems(k.todo)
      /\ k.nonEmpty # 0 => k.target \in 1..k.tail
  BY <1>1, <1>2 DEF CallOK, NoneLeftOut, Wants, Searching
<1>4. q \in {"failed", "look"} /\ (k.nonEmpty = 0 <=> q = "failed")
  OBVIOUS
<1> HIDE DEF q
<1>5. m \in Calls_ /\ m.pc = q /\ m.first = TRUE /\ m.todo = <<>>
  <2>1. <<>> \in Seq(Places)
    OBVIOUS
  <2> QED BY <1>1, <1>4, <2>1 DEF Calls_
<1>6. /\ m.began = k.began /\ m.tail = k.tail /\ m.want = k.want /\ m.target = k.target
      /\ m.tried = k.tried
  BY <1>1 DEF Calls_
<1>7. Elems(<<>>) = {}
  BY DEF Elems
<1> HIDE DEF m
<1>8. Listed(m, producerListTail)
  BY <1>3, <1>4, <1>5, <1>6, <1>7 DEF Listed, AtSubqueue
<1>9. NoneLeftOut(m)
  <2>1. CASE k.nonEmpty = 0
    <3>1. k.todo = <<>>
      BY <2>1, <1>2
    <3> QED BY <2>1, <3>1, <1>3, <1>4, <1>5, <1>6, <1>7 DEF NoneLeftOut, AtSubqueue
  <2>2. CASE k.nonEmpty # 0
    BY <2>2, <1>4, <1>5 DEF NoneLeftOut, AtSubqueue
  <2> QED BY <2>1, <2>2
<1>10. Wants(m)
  BY <1>3, <1>4, <1>5, <1>6 DEF Wants, Searching, AtSubqueue
<1>11. CallOK(m, producerListTail) /\ m.pc \notin {"recheck", "undo"}
  BY <1>4, <1>5, <1>8, <1>9, <1>10 DEF CallOK
<1> QED BY <1>2, <1>6, <1>11, SearchStep

\* The next round.
LEMMA AgainStep == ASSUME IInv, NEW c \in Consumers, Again(c) PROVE IInv'
<1> DEFINE k == deq[c]
           m == [k EXCEPT !.pc = "round"]
<1>1. TypeOK /\ k \in Calls_ /\ CallOK(k, producerListTail)
  BY Searcher
<1>2. k.pc = "failed" /\ deq' = [deq EXCEPT ![c] = m] /\ UnchangedBySearch
  BY DEF Again, Goto
<1>3. Listed(k, producerListTail) /\ k.want # 0
  BY <1>1, <1>2 DEF CallOK, Wants, Searching
<1>4. /\ m \in Calls_ /\ m.pc = "round" /\ m.began = k.began /\ m.tail = k.tail /\ m.want = k.want
      /\ m.todo = k.todo
  BY <1>1 DEF Calls_
<1> HIDE DEF m
<1>5. Listed(m, producerListTail)
  BY <1>3, <1>4 DEF Listed, AtSubqueue
<1>6. NoneLeftOut(m)
  BY <1>4 DEF NoneLeftOut, AtSubqueue
<1>7. Wants(m)
  BY <1>3, <1>4 DEF Wants, Searching
<1> QED BY <1>2, <1>4, <1>5, <1>6, <1>7, SearchStep DEF CallOK

\* The consumer looks how many elements there are, none or some to claim.
LEMMA LookStep == ASSUME IInv, NEW c \in Consumers, Look(c) PROVE IInv'
<1> DEFINE k == deq[c]
           q == subqueue[k.target]
           avail == q.tail - q.head - q.claims
           m == [k EXCEPT !.pc = "claim", !.desired = Smaller(avail, k.want)]
<1>1. TypeOK /\ k \in Calls_ /\ CallOK(k, producerListTail)
  BY Searcher
<1>2. /\ k.pc = "look" /\ UnchangedBySearch
      /\ deq' = [deq EXCEPT ![c] = IF avail <= 0 THEN Found(c, k, 0) ELSE m]
  BY DEF Look, Goto
<1>3. /\ Listed(k, producerListTail) /\ NoneLeftOut(k) /\ k.want # 0 /\ k.want \in Nat
      /\ k.target \in 1..k.tail
  BY <1>1, <1>2, CallFields DEF CallOK, Wants, Searching, AtSubqueue, Listed
<1>4. CASE avail <= 0
  <2>1. producerListTail \in 0..Cardinality(Enqueuers) /\ 0 \in 0..k.want /\ k.pc \in AtSubqueue
    BY <1>1, <1>2, <1>3, Typed DEF AtSubqueue
  <2> DEFINE F == Found(c, k, 0)
  <2>2. CallOK(F, producerListTail) /\ F.want = k.want - 0 /\ F.pc \in {"idle", "failed", "look"}
    BY <1>1, <2>1, FoundOK
  <2>3. deq' = [deq EXCEPT ![c] = F]
    BY <1>2, <1>4
  <2> HIDE DEF F
  <2>4. F.want = k.want
    BY <1>3, <2>2
  <2> QED BY <1>2, <2>2, <2>3, <2>4, SearchStep
<1>5. CASE ~(avail <= 0)
  <2>1. avail \in Int
    <3>1. k.target \in Places /\ subqueue \in Subqueues
      <4>1. producerListTail \in 0..Cardinality(Enqueuers) /\ k.tail <= producerListTail
        BY <1>1, <1>3, Typed DEF Listed
      <4>2. k.tail \in Nat
        BY <1>1, CallFields
      <4> QED BY <1>1, <1>3, <4>1, <4>2, PlacesNumber, Typed
    <3>2. q.tail \in Nat /\ q.head \in Nat /\ q.claims \in Int
      BY <3>1 DEF Subqueues
    <3> HIDE DEF q
    <3> QED BY <3>2
  <2> DEFINE d == Smaller(avail, k.want)
  <2> HIDE DEF avail
  <2>2. d \in 1..k.want /\ d \in Nat
    BY <1>3, <1>5, <2>1 DEF Smaller
  <2> HIDE DEF d
  <2>3. m = [k EXCEPT !.pc = "claim", !.desired = d]
    BY DEF d
  <2>4. /\ m \in Calls_ /\ m.pc = "claim" /\ m.desired = d /\ m.want = k.want
        /\ m.began = k.began /\ m.tail = k.tail /\ m.todo = k.todo /\ m.tried = k.tried
        /\ m.target = k.target /\ m.first = k.first
    BY <1>1, <2>2, <2>3 DEF Calls_
  <2> HIDE DEF m
  <2>5. Listed(m, producerListTail)
    BY <1>3, <2>4 DEF Listed, AtSubqueue
  <2>6. NoneLeftOut(m)
    BY <1>2, <1>3, <2>4 DEF NoneLeftOut, AtSubqueue
  <2>7. Wants(m)
    BY <1>3, <2>2, <2>4 DEF Wants, Searching, AtSubqueue
  <2>8. deq' = [deq EXCEPT ![c] = m]
    BY <1>2, <1>5
  <2> QED BY <1>2, <2>4, <2>5, <2>6, <2>7, <2>8, SearchStep DEF CallOK
<1> QED BY <1>4, <1>5

\* Where a rotation leads is on the list.
LEMMA DesiredPlace ==
  ASSUME TypeOK, NEW c \in TokenUsers, producerListTail # 0
  PROVE  Desired(c) \in 1..producerListTail
<1> DEFINE t == producerListTail
           n == producerCount
           f == IF token[c].desired # Null THEN token[c].desired
                ELSE Walk(t, n - 1 - (InitialOffset[c] % n), t)
           o == globalExplicitConsumerOffset - token[c].lastKnown
<1>1. t \in Nat \ {0} /\ n \in Nat \ {0}
  <2>1. n \in 0..Cardinality(Enqueuers) /\ t \in 0..n /\ Cardinality(Enqueuers) \in Nat
    BY PlacesNumber DEF TypeOK
  <2> QED BY <2>1
<1>2. token[c].desired \in 0..t /\ token[c].lastKnown \in Int
  BY DEF TypeOK
<1>3. o \in Int
  BY <1>2 DEF TypeOK
<1>4. InitialOffset[c] \in Nat
  BY QueueAssumption
<1> DEFINE i == InitialOffset[c] % n
<1>5. i \in Int
  <2> HIDE DEF n
  <2> QED BY <1>1, <1>4
<1> HIDE DEF i
<1>6. Walk(t, n - 1 - i, t) \in 1..t
  <2>1. t \in Int /\ n - 1 - i \in Int
    BY <1>1, <1>5
  <2> QED BY <1>1, <2>1, WalkPlace
<1>7. f \in Int
  BY <1>1, <1>2, <1>6 DEF i
<1>8. o % n \in Int
  <2> HIDE DEF n, o
  <2> QED BY <1>1, <1>3
<1>9. Desired(c) = Walk(f, o % n, t)
  BY DEF Desired
<1> HIDE DEF f, o, n
<1> QED BY <1>1, <1>7, <1>8, <1>9, WalkPlace

\* A round of a consumer with a token.
LEMMA TokenRoundStep == ASSUME IInv, NEW c \in Consumers, TokenRound(c) PROVE IInv'
<1> DEFINE k == deq[c]
           t == producerListTail
           u == token'[c].current
           m == IF u = Null THEN [Begin(k) EXCEPT !.pc = "failed"]
                ELSE [Begin(k) EXCEPT !.pc = "look", !.first = TRUE, !.target = u]
<1>1. /\ TypeOK /\ TokensOK /\ k \in Calls_ /\ CallOK(k, t) /\ t \in Nat /\ c \in TokenUsers
      /\ token \in TokensOf(t) /\ deq \in [Consumers -> Calls_]
  BY Searcher, Typed DEF IInv, TokenRound
<1>2. /\ k.pc = "round" /\ update_current_producer_after_rotation(c)
      /\ deq' = [deq EXCEPT ![c] = m]
      /\ UNCHANGED <<producerCount, producerListTail, place, enq, subqueue, available,
                     globalExplicitConsumerOffset>>
  BY <1>1 DEF TokenRound, UnchangedByDequeue, listVars
<1>3. token' \in TokensOf(t) /\ TokensOK' /\ (u = Null => t = 0) /\ u \in 0..t
  <2>1. CASE t = 0 \/ (token[c].desired # Null /\ token[c].lastKnown = globalExplicitConsumerOffset)
    <3>1. token' = token
      BY <1>2, <2>1 DEF update_current_producer_after_rotation
    <3>2. TokensOK' /\ u \in 0..t
      BY <1>1, <3>1 DEF TokensOK, TokensOf
    <3> QED BY <1>1, <2>1, <3>1, <3>2 DEF TokensOK
  <2>2. CASE ~(t = 0 \/ (token[c].desired # Null /\ token[c].lastKnown = globalExplicitConsumerOffset))
    <3> DEFINE d == Desired(c)
               n == [desired |-> d, current |-> d, lastKnown |-> globalExplicitConsumerOffset,
                     consumed |-> 0]
    <3>1. token' = [token EXCEPT ![c] = n]
      BY <1>2, <2>2, Zenon DEF update_current_producer_after_rotation
    <3>2. d \in 1..t /\ globalExplicitConsumerOffset \in Int
      <4>1. t # 0
        BY <2>2
      <4>2. globalExplicitConsumerOffset \in Int
        BY <1>1 DEF TypeOK
      <4> QED BY <1>1, <4>1, <4>2, DesiredPlace
    <3> HIDE DEF d
    <3>3. n \in [desired : 0..t, current : 0..t, lastKnown : Int, consumed : Nat]
      BY <3>2, <1>1
    <3>4. token' \in TokensOf(t) /\ token'[c] = n /\ u = d
      BY <1>1, <3>1, <3>3 DEF TokensOf
    <3>5. \A x \in TokenUsers : x # c => token'[x] = token[x]
      BY <1>1, <3>1 DEF TokensOf
    <3>6. d # Null
      BY <3>2 DEF Null
    <3>7. TokensOK'
      BY <1>1, <3>4, <3>5, <3>6 DEF TokensOK
    <3> QED BY <1>1, <3>2, <3>4, <3>6, <3>7
  <2> QED BY <2>1, <2>2
<1> HIDE DEF u
<1>4. k.want # 0
  BY <1>1, <1>2 DEF CallOK, Wants, Searching
<1>5. /\ Begin(k) \in Calls_ /\ Begin(k).began = t /\ Begin(k).tail = t
      /\ Begin(k).want = k.want /\ Begin(k).todo = k.todo
  BY <1>1, BeginFields
<1>6. Elems(k.todo) \subseteq 1..t
  <2>1. Elems(k.todo) \subseteq 1..k.tail /\ k.tail <= t /\ k.tail \in Nat
    BY <1>1, CallFields DEF CallOK, Listed
  <2> QED BY <1>1, <2>1
<1>7. CallOK(m, t) /\ m.want = k.want /\ m.pc \in {"failed", "look"}
  <2>1. CASE u = Null
    <3> DEFINE r == [Begin(k) EXCEPT !.pc = "failed"]
    <3>1. /\ r \in Calls_ /\ r.pc = "failed" /\ r.began = t /\ r.tail = t /\ r.want = k.want
          /\ r.todo = k.todo
      BY <1>5 DEF Calls_
    <3>2. m = r
      BY <2>1
    <3> HIDE DEF r
    <3>3. Listed(r, t)
      BY <3>1, <1>1, <1>6 DEF Listed, AtSubqueue
    <3>4. NoneLeftOut(r)
      <4>1. 1..r.began = {}
        BY <2>1, <3>1, <1>3
      <4> QED BY <3>1, <4>1 DEF NoneLeftOut, AtSubqueue
    <3>5. Wants(r)
      BY <3>1, <1>4 DEF Wants, Searching
    <3> QED BY <3>1, <3>2, <3>3, <3>4, <3>5 DEF CallOK
  <2>2. CASE u # Null
    <3> DEFINE r == [Begin(k) EXCEPT !.pc = "look", !.first = TRUE, !.target = u]
    <3>1. u \in 1..t /\ u \in Places
      <4>1. t \in 0..Cardinality(Enqueuers) /\ Cardinality(Enqueuers) \in Nat
        BY <1>1, Typed
      <4> QED BY <2>2, <4>1, <1>3 DEF Null, Places
    <3>2. /\ r \in Calls_ /\ r.pc = "look" /\ r.began = t /\ r.tail = t /\ r.want = k.want
          /\ r.todo = k.todo /\ r.first = TRUE /\ r.target = u
      BY <1>5, <3>1 DEF Calls_
    <3>3. m = r
      BY <2>2
    <3> HIDE DEF r
    <3>4. Listed(r, t)
      BY <3>1, <3>2, <1>1, <1>6 DEF Listed
    <3>5. NoneLeftOut(r)
      BY <3>2 DEF NoneLeftOut, AtSubqueue
    <3>6. Wants(r)
      BY <3>2, <1>4 DEF Wants, Searching, AtSubqueue
    <3> QED BY <3>2, <3>3, <3>4, <3>5, <3>6 DEF CallOK
  <2> QED BY <2>1, <2>2
<1> HIDE DEF m
<1>8. globalExplicitConsumerOffset' \in Nat /\ available' \in Nat /\ available' = available
  BY <1>1, <1>2 DEF TypeOK
<1> QED BY <1>2, <1>3, <1>7, <1>8, QuietStep

\* A call begins.
LEMMA CallStep ==
  ASSUME IInv, NEW c \in Consumers, NEW r \in Requests[c], Call(c, r)
  PROVE  IInv'
<1> DEFINE k == deq[c]
           m == [NoCall EXCEPT !.pc = "waiting", !.bulk = r.bulk, !.max = r.max]
<1>1. /\ TypeOK /\ TokensOK /\ k \in Calls_ /\ CallOK(k, producerListTail) /\ producerListTail \in Nat
      /\ token \in TokensOf(producerListTail)
  BY Searcher, Typed DEF IInv
<1>2. k.pc = "idle" /\ deq' = [deq EXCEPT ![c] = m]
  BY DEF Call, Goto
<1>3. /\ UNCHANGED <<producerCount, producerListTail, place, enq, subqueue, token,
                     globalExplicitConsumerOffset, available>>
  BY DEF Call, UnchangedByDequeue, listVars, Sema!Ask
<1>4. r.bulk \in BOOLEAN /\ r.max \in Nat
  BY QueueAssumption
<1>5. NoCall \in Calls_ /\ CallOK(NoCall, producerListTail) /\ NoCall.want = 0
  BY <1>1, NoCallOK DEF CallOK
<1>6. /\ m \in Calls_ /\ m.pc = "waiting" /\ m.want = 0 /\ m.began = NoCall.began
      /\ m.tail = NoCall.tail /\ m.todo = NoCall.todo
  BY <1>4, <1>5 DEF Calls_
<1> HIDE DEF m
<1>7. Listed(m, producerListTail)
  BY <1>5, <1>6 DEF CallOK, Listed, AtSubqueue
<1>8. NoneLeftOut(m)
  BY <1>6 DEF NoneLeftOut, AtSubqueue
<1>9. Wants(m)
  BY <1>6 DEF Wants, Searching, AtSubqueue
<1>10. CallOK(m, producerListTail) /\ m.pc \notin {"recheck", "undo"}
  BY <1>6, <1>7, <1>8, <1>9 DEF CallOK
<1>11. k.want = 0
  BY <1>1, <1>2 DEF CallOK, Wants, Searching, AtSubqueue
<1>12. TokensOK' /\ token' \in TokensOf(producerListTail)
  BY <1>1, <1>3 DEF TokensOK
<1>13. globalExplicitConsumerOffset' \in Nat /\ available' \in Nat
       /\ available' + m.want = available + k.want
  BY <1>1, <1>3, <1>6, <1>11 DEF TypeOK
<1> QED BY <1>2, <1>3, <1>10, <1>12, <1>13, QuietStep

\* A call ends without a token.
LEMMA GiveUpStep == ASSUME IInv, NEW c \in Consumers, GiveUp(c) PROVE IInv'
<1> DEFINE k == deq[c]
<1>1. /\ TypeOK /\ TokensOK /\ k \in Calls_ /\ CallOK(k, producerListTail) /\ producerListTail \in Nat
      /\ token \in TokensOf(producerListTail)
  BY Searcher, Typed DEF IInv
<1>2. k.pc = "waiting" /\ deq' = [deq EXCEPT ![c] = NoCall]
  BY DEF GiveUp, Goto
<1>3. /\ UNCHANGED <<producerCount, producerListTail, place, enq, subqueue, token,
                     globalExplicitConsumerOffset, available>>
  BY DEF GiveUp, UnchangedByDequeue, listVars, Sema!GiveUp
<1>4. CallOK(NoCall, producerListTail) /\ NoCall.want = 0 /\ NoCall.pc = "idle"
  BY <1>1, NoCallOK
<1>5. k.want = 0
  BY <1>1, <1>2 DEF CallOK, Wants, Searching, AtSubqueue
<1>6. TokensOK' /\ token' \in TokensOf(producerListTail)
  BY <1>1, <1>3 DEF TokensOK
<1>7. globalExplicitConsumerOffset' \in Nat /\ available' \in Nat
      /\ available' + NoCall.want = available + k.want
  BY <1>1, <1>3, <1>4, <1>5 DEF TypeOK
<1> QED BY <1>2, <1>3, <1>4, <1>6, <1>7, QuietStep

\* A call gets n tokens.
LEMMA GrantStep ==
  ASSUME IInv, NEW c \in Consumers, NEW n \in 1..available, Grant(c, n)
  PROVE  IInv'
<1> DEFINE k == deq[c]
           m == [k EXCEPT !.pc = "round", !.want = n]
<1>1. /\ TypeOK /\ TokensOK /\ k \in Calls_ /\ CallOK(k, producerListTail) /\ producerListTail \in Nat
      /\ token \in TokensOf(producerListTail)
  BY Searcher, Typed DEF IInv
<1>2. k.pc = "waiting" /\ deq' = [deq EXCEPT ![c] = m]
  BY DEF Grant, Goto
<1>3. /\ UNCHANGED <<producerCount, producerListTail, place, enq, subqueue, token,
                     globalExplicitConsumerOffset>>
      /\ available' = available - n
  BY DEF Grant, UnchangedByDequeue, listVars, Sema!TakeMany
<1>4. available \in Nat /\ n \in Nat /\ n # 0 /\ n <= available
  BY <1>1 DEF TypeOK
<1>5. Listed(k, producerListTail) /\ k.want = 0
  BY <1>1, <1>2 DEF CallOK, Wants, Searching, AtSubqueue
<1>6. /\ m \in Calls_ /\ m.pc = "round" /\ m.want = n /\ m.began = k.began
      /\ m.tail = k.tail /\ m.todo = k.todo
  BY <1>1, <1>4 DEF Calls_
<1> HIDE DEF m
<1>7. Listed(m, producerListTail)
  BY <1>5, <1>6 DEF Listed, AtSubqueue
<1>8. NoneLeftOut(m)
  BY <1>6 DEF NoneLeftOut, AtSubqueue
<1>9. Wants(m)
  BY <1>4, <1>6 DEF Wants, Searching, AtSubqueue
<1>10. CallOK(m, producerListTail) /\ m.pc \notin {"recheck", "undo"}
  BY <1>6, <1>7, <1>8, <1>9 DEF CallOK
<1>11. TokensOK' /\ token' \in TokensOf(producerListTail)
  BY <1>1, <1>3 DEF TokensOK
<1>12. available' \in Nat /\ available' + m.want = available + k.want
  BY <1>3, <1>4, <1>5, <1>6
<1>13. globalExplicitConsumerOffset' \in Nat
  BY <1>1, <1>3 DEF TypeOK
<1> QED BY <1>2, <1>3, <1>10, <1>11, <1>12, <1>13, QuietStep

\* Nobody secures more than it has claimed.
LEMMA ShareLess ==
  ASSUME NEW tail, NEW k, CallOK(k, tail), NEW p, NEW b \in Nat
  PROVE  ShareOf(k, p, b) <= ClaimOf(k, p)
<1>1. k \in Calls_ /\ (k.pc = "undo" => k.my <= k.desired)
  BY DEF CallOK, Wants
<1>2. k.my \in Nat /\ k.desired \in Nat
  BY <1>1, CallFields
<1>3. CASE k.pc = "undo"
  BY <1>1, <1>2, <1>3 DEF ShareOf, ClaimOf
<1>4. CASE k.pc # "undo"
  BY <1>1, <1>4, ShareType
<1> QED BY <1>3, <1>4

\* So together they secure no more than the claims that are open.
LEMMA SharesLess ==
  ASSUME NEW tail, NEW D \in [Consumers -> Calls_], \A x \in Consumers : CallOK(D[x], tail),
         NEW p, NEW b \in Nat
  PROVE  Total(SharesOf(D, p, b)) <= Total(ClaimsOf(D, p))
<1>1. \A x \in Consumers : /\ ShareOf(D[x], p, b) \in Nat /\ ClaimOf(D[x], p) \in Nat
                           /\ ShareOf(D[x], p, b) <= ClaimOf(D[x], p)
  BY ShareType, ShareLess
<1> DEFINE f == SharesOf(D, p, b)
           g == ClaimsOf(D, p)
<1>2. f \in [Consumers -> Nat] /\ g \in [Consumers -> Nat] /\ \A x \in Consumers : f[x] <= g[x]
  BY <1>1 DEF SharesOf, ClaimsOf
<1> HIDE DEF f, g
<1>3. Total(f) <= Total(g)
  BY <1>2, TotalLess, QueueAssumption
<1> QED BY <1>3 DEF f, g

\* A consumer at a sub-queue, which is on the list.
LEMMA AtPlace ==
  ASSUME IInv, NEW c \in Consumers, deq[c].pc \in AtSubqueue
  PROVE  /\ deq[c].target \in Places /\ subqueue \in Subqueues /\ subqueue[deq[c].target].tail \in Nat
         /\ subqueue[deq[c].target].head \in Nat /\ subqueue[deq[c].target].claims \in Nat
         /\ SharesOK(deq, subqueue) /\ ClaimsOK(deq, subqueue)
         /\ deq \in [Consumers -> Calls_] /\ \A x \in Consumers : CallOK(deq[x], producerListTail)
         /\ producerListTail \in 0..Cardinality(Enqueuers)
<1>1. /\ TypeOK /\ SharesOK(deq, subqueue) /\ ClaimsOK(deq, subqueue)
      /\ \A x \in Consumers : CallOK(deq[x], producerListTail)
  BY DEF IInv, CountsAgree
<1>2. /\ subqueue \in Subqueues /\ deq \in [Consumers -> Calls_] /\ Cardinality(Enqueuers) \in Nat
      /\ producerListTail \in 0..Cardinality(Enqueuers)
  BY <1>1, Typed
<1>3. deq[c].target \in 1..deq[c].tail /\ deq[c].tail <= producerListTail
  BY <1>1 DEF CallOK, Listed
<1>4. deq[c].tail \in Nat
  BY <1>2, CallFields
<1>5. deq[c].target \in Places
  BY <1>2, <1>3, <1>4 DEF Places
<1>6. subqueue[deq[c].target].tail \in Nat /\ subqueue[deq[c].target].head \in Nat
  BY <1>2, <1>5 DEF Subqueues
<1>7. subqueue[deq[c].target].claims \in Nat
  BY <1>1, <1>5 DEF TypeOK
<1> QED BY <1>1, <1>2, <1>5, <1>6, <1>7

\* The number of elements is a number.
LEMMA ElementsNumber ==
  ASSUME IInv
  PROVE  Total(ElementsOf(subqueue)) \in Nat
<1>1. TypeOK /\ SharesOK(deq, subqueue)
  BY DEF IInv, CountsAgree
<1>2. ElementsOf(subqueue) \in [Places -> Nat]
  BY <1>1, Typed, NotOverdrawn DEF ElementsOf
<1>3. IsFiniteSet(Places)
  BY PlacesNumber, FS_Interval
<1> QED BY <1>2, <1>3, TotalType

\* A claim is made: what it may secure lies behind what is given out or claimed.
LEMMA ClaimStep == ASSUME IInv, NEW c \in Consumers, Claim(c) PROVE IInv'
<1> DEFINE k == deq[c]
           s == k.target
           q == subqueue[s]
           my == q.head + q.claims + k.lag
           m == [k EXCEPT !.pc = "recheck", !.my = my, !.lag = 0]
<1>1. /\ k.pc = "claim" /\ deq' = [deq EXCEPT ![c] = m]
      /\ subqueue' = [subqueue EXCEPT ![s].claims = @ + k.desired]
      /\ UNCHANGED <<producerCount, producerListTail, place, enq, available, token,
                     globalExplicitConsumerOffset>>
  BY DEF Claim, Goto, UnchangedByDequeue, listVars
<1>2. /\ s \in Places /\ subqueue \in Subqueues /\ q.tail \in Nat /\ q.head \in Nat /\ q.claims \in Nat
      /\ SharesOK(deq, subqueue) /\ ClaimsOK(deq, subqueue)
      /\ deq \in [Consumers -> Calls_] /\ \A x \in Consumers : CallOK(deq[x], producerListTail)
      /\ producerListTail \in 0..Cardinality(Enqueuers)
  BY <1>1, AtPlace DEF AtSubqueue
<1>3. k \in Calls_ /\ k.desired \in Nat /\ k.lag \in Nat /\ k.want \in Nat /\ CallOK(k, producerListTail)
  BY <1>2, CallFields
<1> HIDE DEF q
<1>4. my \in Nat
  BY <1>2, <1>3
<1> HIDE DEF my
<1>5. /\ m \in Calls_ /\ m.pc = "recheck" /\ m.my = my /\ m.desired = k.desired /\ m.target = s
      /\ m.want = k.want
  BY <1>3, <1>4 DEF Calls_
<1>6. /\ m.began = k.began /\ m.tail = k.tail /\ m.todo = k.todo /\ m.first = k.first
      /\ m.tried = k.tried
  BY <1>3 DEF Calls_
<1> HIDE DEF m
<1>7. CallOK(m, producerListTail)
  <2>1. Listed(k, producerListTail) /\ NoneLeftOut(k) /\ Wants(k)
    BY <1>3 DEF CallOK
  <2>2. Listed(m, producerListTail)
    BY <2>1, <1>1, <1>5, <1>6 DEF Listed, AtSubqueue
  <2>3. NoneLeftOut(m)
    BY <2>1, <1>1, <1>5, <1>6 DEF NoneLeftOut, AtSubqueue
  <2>4. Wants(m)
    BY <2>1, <1>1, <1>5 DEF Wants, Searching, AtSubqueue
  <2> QED BY <1>5, <2>2, <2>3, <2>4 DEF CallOK
<1>8. deq'[c] = m /\ Turn(deq, deq', c)
  BY <1>1, <1>2, <1>5 DEF Turn
<1>9. /\ subqueue' \in Subqueues
      /\ \A p \in Places : /\ subqueue'[p].tail = subqueue[p].tail
                           /\ subqueue'[p].head = subqueue[p].head
      /\ \A p \in Places : p # s => subqueue'[p].claims = subqueue[p].claims
      /\ subqueue'[s].claims = subqueue[s].claims + k.desired
  <2>1. subqueue[s].claims + k.desired \in Int
    BY <1>2, <1>3 DEF q
  <2> QED BY <1>1, <1>2, <2>1 DEF Subqueues
<1>10. ASSUME NEW p \in Places
       PROVE  subqueue'[p].claims + ClaimOf(deq[c], p) = subqueue[p].claims + ClaimOf(deq'[c], p)
  <2>0. subqueue[p].claims \in Int /\ subqueue[s].claims \in Int
    BY <1>2 DEF Subqueues
  <2>1. ClaimOf(k, p) = 0
    BY <1>1 DEF ClaimOf
  <2>2. CASE p = s
    <3>1. ClaimOf(m, p) = k.desired
      BY <2>2, <1>5 DEF ClaimOf
    <3> QED BY <2>0, <2>1, <2>2, <3>1, <1>3, <1>8, <1>9
  <2>3. CASE p # s
    <3>1. ClaimOf(m, p) = 0
      BY <2>3, <1>5 DEF ClaimOf
    <3> QED BY <2>0, <2>1, <2>3, <3>1, <1>8, <1>9
  <2> QED BY <2>2, <2>3
<1>11. SharesOK(deq', subqueue')
  <2> DEFINE E == deq'
             r == subqueue'
  <2> SUFFICES ASSUME NEW p \in Places, NEW b \in Nat, r[p].tail <= b
               PROVE  r[p].head + Total(SharesOf(E, p, b)) <= b
    BY DEF SharesOK
  <2> DEFINE X == Total(SharesOf(deq, p, b))
             Y == Total(SharesOf(E, p, b))
             y == ShareOf(m, p, b)
             h == subqueue[p].head
             C == Total(ClaimsOf(deq, p))
  <2>1. r[p].head = h /\ h \in Nat /\ subqueue[p].tail <= b
    BY <1>2, <1>9 DEF Subqueues
  <2>2. ShareOf(deq[c], p, b) = 0 /\ E[c] = m /\ Turn(deq, E, c)
    BY <1>1, <1>8 DEF ShareOf
  <2>3. y \in Nat
    BY <1>5, ShareType
  <2> HIDE DEF E
  <2>4. X \in Nat /\ Y \in Nat /\ Y + 0 = X + y /\ C \in Nat
    <3>1. /\ X \in Nat /\ Y \in Nat /\ Y + ShareOf(deq[c], p, b) = X + ShareOf(E[c], p, b)
          /\ C \in Nat
      BY <1>2, <2>2, SumsMove
    <3> QED BY <2>2, <3>1
  <2>5. h + X <= b
    BY <1>2, <2>1 DEF SharesOK
  <2>6. X <= C /\ subqueue[p].claims = C
    BY <1>2, SharesLess DEF ClaimsOK
  <2> HIDE DEF X, Y, y, h, C
  <2>7. CASE p = s /\ my < b
    <3>1. y <= b - my
      <4>1. y = Smaller(k.desired, b - my)
        BY <1>5, <2>7 DEF y, ShareOf
      <4> QED BY <4>1, <1>3, <1>4, <2>7 DEF Smaller
    <3>2. my = h + C + k.lag
      BY <2>6, <2>7 DEF my, h, q
    <3>3. h + Y <= b
      BY <3>1, <3>2, <1>3, <1>4, <2>1, <2>3, <2>4, <2>6
    <3> QED BY <3>3, <2>1 DEF Y
  <2>8. CASE ~(p = s /\ my < b)
    <3>1. y = 0
      BY <1>5, <2>8 DEF y, ShareOf
    <3>2. h + Y <= b
      BY <3>1, <2>1, <2>4, <2>5
    <3> QED BY <3>2, <2>1 DEF Y
  <2> QED BY <2>7, <2>8
<1>12. Total(ElementsOf(subqueue')) + 0 = Total(ElementsOf(subqueue))
  <2>1. ElementsOf(subqueue') = ElementsOf(subqueue)
    BY <1>9 DEF ElementsOf
  <2> QED BY <2>1, ElementsNumber
<1>13. /\ token' \in TokensOf(producerListTail) /\ TokensOK' /\ available' \in Nat
       /\ globalExplicitConsumerOffset' \in Nat
  <2>1. TypeOK /\ TokensOK
    BY DEF IInv, CountsAgree
  <2>2. token \in TokensOf(producerListTail)
    BY <2>1, Typed
  <2> QED BY <1>1, <2>1, <2>2 DEF TypeOK, TokensOK
<1>14. available' + deq'[c].want + 0 = available + deq[c].want
  <2>1. available \in Nat /\ k.want \in Nat
    BY <1>1, <1>3, <1>13
  <2> QED BY <2>1, <1>1, <1>5, <1>8
<1>15. CallOK(deq'[c], producerListTail)
  BY <1>7, <1>8
<1>16. \A p \in Places : subqueue'[p].tail = subqueue[p].tail
  BY <1>9
<1>17. UNCHANGED <<producerCount, producerListTail, place, enq>> /\ 0 \in Nat /\ subqueue' \in Subqueues
  BY <1>1, <1>9
<1> QED BY <1>8, <1>10, <1>11, <1>12, <1>13, <1>14, <1>15, <1>16, <1>17, DeqStep

\* The token counts n elements of k's sub-queue.
LEMMA ConsumedOK ==
  ASSUME TypeOK, TokensOK, NEW c \in Consumers, NEW k \in Calls_, NEW n \in Nat,
         k.target \in 1..producerListTail, Consumed(c, k, n)
  PROVE  /\ token' \in TokensOf(producerListTail) /\ TokensOK'
         /\ globalExplicitConsumerOffset' \in Nat
<1>1. /\ token \in TokensOf(producerListTail) /\ globalExplicitConsumerOffset \in Nat
      /\ producerListTail \in Nat
  BY Typed DEF TypeOK
<1>2. CASE c \notin TokenUsers \/ n = 0
  <2>1. token' = token /\ globalExplicitConsumerOffset' = globalExplicitConsumerOffset
    BY <1>2 DEF Consumed
  <2> QED BY <1>1, <2>1 DEF TokensOK
<1>3. CASE c \in TokenUsers /\ n # 0 /\ k.first
  <2> DEFINE v == token[c].consumed + n
  <2>1. token' = [token EXCEPT ![c].consumed = v]
    BY <1>3, Zenon DEF Consumed
  <2>2. globalExplicitConsumerOffset' \in {globalExplicitConsumerOffset + 1, globalExplicitConsumerOffset + 0}
    <3> DEFINE quota == IF k.bulk THEN n = k.want /\ v >= QUOTA ELSE v = QUOTA
    <3>1. globalExplicitConsumerOffset' = globalExplicitConsumerOffset + (IF quota THEN 1 ELSE 0)
      BY <1>3, Zenon DEF Consumed
    <3> HIDE DEF quota
    <3> QED BY <3>1
  <2>3. v \in Nat
    BY <1>1, <1>3 DEF TokensOf
  <2> HIDE DEF v
  <2>4. token' \in TokensOf(producerListTail)
    BY <1>1, <1>3, <2>1, <2>3 DEF TokensOf
  <2>5. \A x \in TokenUsers : token'[x].desired = token[x].desired /\ token'[x].current = token[x].current
    BY <1>1, <1>3, <2>1 DEF TokensOf
  <2>6. TokensOK'
    BY <2>5 DEF TokensOK
  <2>7. globalExplicitConsumerOffset' \in Nat
    BY <1>1, <2>2
  <2> QED BY <2>4, <2>6, <2>7
<1>4. CASE c \in TokenUsers /\ n # 0 /\ ~k.first
  <2>1. /\ token' = [token EXCEPT ![c].current = k.target, ![c].consumed = n]
        /\ globalExplicitConsumerOffset' = globalExplicitConsumerOffset
    BY <1>4, Zenon DEF Consumed
  <2>2. k.target \in 0..producerListTail /\ k.target # Null
    BY <1>1 DEF Null
  <2>3. token' \in TokensOf(producerListTail)
    BY <1>1, <1>4, <2>1, <2>2 DEF TokensOf
  <2>4. /\ \A x \in TokenUsers : x # c => token'[x] = token[x]
        /\ token'[c].current = k.target
    BY <1>1, <1>4, <2>1 DEF TokensOf
  <2>5. TokensOK'
    BY <2>2, <2>4 DEF TokensOK
  <2> QED BY <1>1, <2>1, <2>3, <2>5
<1> QED BY <1>2, <1>3, <1>4

\* A claim is closed with n elements, which it has secured whatever the tail.
LEMMA GivenStep ==
  ASSUME IInv, NEW c \in Consumers, NEW n \in Nat, deq[c].pc \in {"recheck", "undo"},
         n <= deq[c].desired,
         \A b \in Nat : subqueue[deq[c].target].tail <= b => n <= ShareOf(deq[c], deq[c].target, b),
         UNCHANGED <<producerCount, producerListTail, place, enq, available>>,
         Turn(deq, deq', c), deq'[c] = Found(c, deq[c], n), Consumed(c, deq[c], n),
         subqueue' = [subqueue EXCEPT ![deq[c].target].head = @ + n,
                                      ![deq[c].target].claims = @ - deq[c].desired]
  PROVE  IInv'
<1> DEFINE k == deq[c]
           s == k.target
           m == Found(c, k, n)
<1>1. k.pc \in AtSubqueue
  BY DEF AtSubqueue
<1>2. /\ s \in Places /\ subqueue \in Subqueues /\ subqueue[s].tail \in Nat
      /\ subqueue[s].head \in Nat /\ subqueue[s].claims \in Nat
      /\ SharesOK(deq, subqueue)
      /\ deq \in [Consumers -> Calls_] /\ \A x \in Consumers : CallOK(deq[x], producerListTail)
      /\ producerListTail \in 0..Cardinality(Enqueuers)
  BY <1>1, AtPlace
<1>3. /\ k \in Calls_ /\ k.desired \in Nat /\ k.want \in Nat /\ CallOK(k, producerListTail)
      /\ k.tail \in Nat
  BY <1>2, CallFields
<1>4. k.desired \in 1..k.want /\ s \in 1..k.tail /\ k.tail <= producerListTail
  BY <1>1, <1>3 DEF CallOK, Wants, Listed
<1>5. n \in 0..k.want
  BY <1>3, <1>4
<1>6. /\ CallOK(m, producerListTail) /\ m.want = k.want - n
      /\ m.pc \in {"idle", "failed", "look"}
  BY <1>1, <1>2, <1>3, <1>5, FoundOK
<1>7. TypeOK /\ TokensOK
  BY DEF IInv, CountsAgree
<1>8. /\ token' \in TokensOf(producerListTail) /\ TokensOK'
      /\ globalExplicitConsumerOffset' \in Nat
  <2>1. producerListTail \in Nat
    BY <1>7, Typed
  <2>2. s \in 1..producerListTail
    BY <1>3, <1>4, <2>1
  <2> QED BY <1>3, <1>7, <2>2, ConsumedOK
<1>9. /\ subqueue' \in Subqueues
      /\ \A p \in Places : subqueue'[p].tail = subqueue[p].tail
      /\ \A p \in Places : p # s => /\ subqueue'[p].claims = subqueue[p].claims
                                    /\ subqueue'[p].head = subqueue[p].head
      /\ subqueue'[s].head = subqueue[s].head + n
      /\ subqueue'[s].claims = subqueue[s].claims - k.desired
  <2>1. subqueue[s].claims - k.desired \in Int /\ subqueue[s].head + n \in Nat
    BY <1>2, <1>3
  <2> DEFINE v == [subqueue[s] EXCEPT !.head = @ + n, !.claims = @ - k.desired]
  <2>2. subqueue' = [subqueue EXCEPT ![s] = v]
    BY <1>2 DEF Subqueues
  <2>3. /\ v \in [tail : Nat, head : Nat, claims : Int] /\ v.tail = subqueue[s].tail
        /\ v.head = subqueue[s].head + n /\ v.claims = subqueue[s].claims - k.desired
    BY <1>2, <2>1 DEF Subqueues
  <2> HIDE DEF v
  <2> QED BY <1>2, <2>2, <2>3 DEF Subqueues
<1> HIDE DEF m
<1>10. ASSUME NEW p \in Places
       PROVE  subqueue'[p].claims + ClaimOf(deq[c], p) = subqueue[p].claims + ClaimOf(deq'[c], p)
  <2>0. subqueue[p].claims \in Int /\ subqueue[s].claims \in Int
    BY <1>2 DEF Subqueues
  <2>1. ClaimOf(deq'[c], p) = 0
    <3>1. ClaimOf(m, p) = 0
      BY <1>6 DEF ClaimOf
    <3> QED BY <3>1 DEF m
  <2>2. CASE p = s
    <3>1. ClaimOf(k, p) = k.desired
      BY <2>2 DEF ClaimOf
    <3> QED BY <2>0, <2>1, <2>2, <3>1, <1>3, <1>9
  <2>3. CASE p # s
    <3>1. ClaimOf(k, p) = 0
      BY <2>3 DEF ClaimOf
    <3> QED BY <2>0, <2>1, <2>3, <3>1, <1>9
  <2> QED BY <2>2, <2>3
<1>11. ASSUME NEW p \in Places, NEW b \in Nat, subqueue[p].tail <= b
       PROVE  subqueue'[p].head + ShareOf(deq'[c], p, b) <= subqueue[p].head + ShareOf(deq[c], p, b)
  <2>0. subqueue[p].head \in Nat
    BY <1>2 DEF Subqueues
  <2>1. ShareOf(deq'[c], p, b) = 0
    <3>1. ShareOf(m, p, b) = 0
      BY <1>6 DEF ShareOf
    <3> QED BY <3>1 DEF m
  <2>2. ShareOf(k, p, b) \in Nat
    BY <1>3, ShareType
  <2>3. CASE p = s
    <3>1. n <= ShareOf(k, p, b)
      BY <1>11, <2>3
    <3> DEFINE h == subqueue[p].head
               y == ShareOf(k, p, b)
    <3>2. subqueue'[p].head = h + n
      BY <1>9, <2>3
    <3>3. h \in Nat /\ y \in Nat /\ n <= y
      BY <2>0, <2>2, <3>1
    <3> HIDE DEF h, y
    <3>4. h + n + 0 <= h + y
      BY <3>3
    <3> QED BY <2>1, <3>2, <3>4 DEF h, y
  <2>4. CASE p # s
    <3> DEFINE h == subqueue[p].head
               y == ShareOf(k, p, b)
    <3>1. subqueue'[p].head = h
      BY <1>9, <2>4
    <3>2. h \in Nat /\ y \in Nat
      BY <2>0, <2>2
    <3> HIDE DEF h, y
    <3>3. h + 0 <= h + y
      BY <3>2
    <3> QED BY <2>1, <3>1, <3>3 DEF h, y
  <2> QED BY <2>3, <2>4
<1>12. SharesOK(deq', subqueue')
  <2> DEFINE D == deq
             E == deq'
             q == subqueue
             r == subqueue'
  <2>1. /\ D \in [Consumers -> Calls_] /\ Turn(D, E, c)
        /\ \A x \in Consumers : CallOK(D[x], producerListTail) /\ q \in Subqueues /\ r \in Subqueues
    BY <1>2, <1>9
  <2>2. SharesOK(D, q) /\ \A p \in Places : r[p].tail = q[p].tail
    BY <1>2, <1>9
  <2>3. \A p \in Places : \A b \in Nat : q[p].tail <= b =>
            r[p].head + ShareOf(E[c], p, b) <= q[p].head + ShareOf(D[c], p, b)
    BY <1>11
  <2> HIDE DEF D, E, q, r
  <2>4. SharesOK(E, r)
    BY ONLY <2>1, <2>2, <2>3, SharesFall, c \in Consumers
  <2> QED BY <2>4 DEF E, r
<1>13. Total(ElementsOf(subqueue')) + n = Total(ElementsOf(subqueue))
  <2> DEFINE q == subqueue
             r == subqueue'
  <2>1. \A p \in Places : q[p].head <= q[p].tail
    BY <1>2, NotOverdrawn
  <2>2. \A p \in Places : r[p].head <= r[p].tail
    <3>1. deq' \in [Consumers -> Calls_]
      BY DEF Turn
    <3> QED BY <1>9, <1>12, <3>1, NotOverdrawn
  <2>3. /\ q \in Subqueues /\ r \in Subqueues /\ \A p \in Places : r[p].tail = q[p].tail
        /\ \A p \in Places : p # s => r[p].head = q[p].head
        /\ r[s].head = q[s].head + n
    BY <1>2, <1>9
  <2> HIDE DEF q, r
  <2>4. Total(ElementsOf(r)) + n = Total(ElementsOf(q))
    BY ONLY <2>1, <2>2, <2>3, <1>2, n \in Nat, HeadMoves
  <2> QED BY <2>4 DEF q, r
<1>14. available' \in Nat /\ available' + deq'[c].want + n = available + deq[c].want
  <2>1. available \in Nat /\ available' = available
    BY <1>7 DEF TypeOK
  <2>2. deq'[c].want = k.want - n
    BY <1>6 DEF m
  <2> QED BY <2>1, <2>2, <1>3
<1>15. CallOK(deq'[c], producerListTail)
  BY <1>6 DEF m
<1> QED BY <1>8, <1>9, <1>10, <1>12, <1>13, <1>14, <1>15, DeqStep

\* The claim is compared with the tail: it is good, or in vain for a part.
LEMMA RecheckStep == ASSUME IInv, NEW c \in Consumers, Recheck(c) PROVE IInv'
<1> DEFINE k == deq[c]
           s == k.target
           n == Secured(c)
           t == subqueue[s].tail
<1>1. k.pc = "recheck" /\ UNCHANGED <<producerCount, producerListTail, place, enq, available>>
  BY DEF Recheck, UnchangedByDequeue, listVars
<1>2. /\ s \in Places /\ subqueue \in Subqueues /\ t \in Nat
      /\ SharesOK(deq, subqueue)
      /\ deq \in [Consumers -> Calls_] /\ \A x \in Consumers : CallOK(deq[x], producerListTail)
      /\ producerListTail \in 0..Cardinality(Enqueuers)
  BY <1>1, AtPlace DEF AtSubqueue
<1>3. /\ k \in Calls_ /\ k.desired \in Nat /\ k.want \in Nat /\ k.my \in Nat
      /\ CallOK(k, producerListTail)
  BY <1>2, CallFields
<1>4. k.desired \in 1..k.want
  BY <1>1, <1>3 DEF CallOK, Wants
<1>5. n = IF t - k.my < 0 THEN 0 ELSE Smaller(t - k.my, k.desired)
  BY DEF Secured
<1> HIDE DEF n, t
<1>6. n \in Nat /\ n <= k.desired
  BY <1>2, <1>3, <1>5 DEF Smaller
<1>7. ASSUME NEW b \in Nat, t <= b PROVE n <= ShareOf(k, s, b)
  <2>1. CASE k.my < b
    <3>1. ShareOf(k, s, b) = Smaller(k.desired, b - k.my)
      BY <1>1, <2>1 DEF ShareOf
    <3> QED BY <3>1, <1>2, <1>3, <1>5, <1>7, <2>1 DEF Smaller
  <2>2. CASE ~(k.my < b)
    <3>1. ShareOf(k, s, b) = 0
      BY <1>1, <2>2 DEF ShareOf
    <3>2. n = 0
      BY <1>2, <1>3, <1>4, <1>5, <1>7, <2>2 DEF Smaller
    <3> QED BY <3>1, <3>2
  <2> QED BY <2>1, <2>2
<1>8. CASE n = k.desired
  <2>1. /\ deq' = [deq EXCEPT ![c] = Found(c, k, n)] /\ Consumed(c, k, n)
        /\ subqueue' = [subqueue EXCEPT ![s].head = @ + n, ![s].claims = @ - n]
    BY <1>8, Zenon DEF Recheck, Goto, n
  <2>2. CallOK(Found(c, k, n), producerListTail)
    <3>1. n \in 0..k.want /\ k.pc \in AtSubqueue
      BY <1>1, <1>3, <1>4, <1>6 DEF AtSubqueue
    <3> QED BY <1>2, <1>3, <3>1, FoundOK
  <2>3. deq'[c] = Found(c, k, n) /\ Turn(deq, deq', c)
    <3>1. Found(c, k, n) \in Calls_
      BY <2>2 DEF CallOK
    <3> QED BY <1>2, <2>1, <3>1 DEF Turn
  <2>4. subqueue' = [subqueue EXCEPT ![s].head = @ + n, ![s].claims = @ - k.desired]
    BY <1>8, <2>1
  <2> QED BY <1>1, <1>6, <1>7, <2>1, <2>3, <2>4, GivenStep DEF t
<1>9. CASE n # k.desired
  <2> DEFINE m == [k EXCEPT !.pc = "undo", !.my = n]
  <2>1. /\ deq' = [deq EXCEPT ![c] = m]
        /\ UNCHANGED <<token, globalExplicitConsumerOffset, subqueue>>
    BY <1>9 DEF Recheck, Goto, n
  <2>2. /\ m \in Calls_ /\ m.pc = "undo" /\ m.my = n /\ m.desired = k.desired /\ m.target = s
        /\ m.want = k.want
    BY <1>3, <1>6 DEF Calls_
  <2>3. /\ m.began = k.began /\ m.tail = k.tail /\ m.todo = k.todo /\ m.first = k.first
        /\ m.tried = k.tried
    BY <1>3 DEF Calls_
  <2> HIDE DEF m
  <2>4. CallOK(m, producerListTail)
    <3>1. Listed(k, producerListTail) /\ NoneLeftOut(k) /\ Wants(k)
      BY <1>3 DEF CallOK
    <3>2. Listed(m, producerListTail)
      BY <3>1, <1>1, <2>2, <2>3 DEF Listed, AtSubqueue
    <3>3. NoneLeftOut(m)
      BY <3>1, <1>1, <2>2, <2>3 DEF NoneLeftOut, AtSubqueue
    <3>4. Wants(m)
      BY <3>1, <1>1, <1>6, <2>2 DEF Wants, Searching, AtSubqueue
    <3> QED BY <2>2, <3>2, <3>3, <3>4 DEF CallOK
  <2>5. deq'[c] = m /\ Turn(deq, deq', c)
    BY <1>2, <2>1, <2>2 DEF Turn
  <2>6. \A p : ClaimOf(m, p) = ClaimOf(k, p)
    BY <1>1, <2>2 DEF ClaimOf
  <2>7. SharesOK(deq', subqueue)
    <3> DEFINE E == deq'
    <3>1. ASSUME NEW p \in Places, NEW b \in Nat, subqueue[p].tail <= b
          PROVE  subqueue[p].head + ShareOf(E[c], p, b) <= subqueue[p].head + ShareOf(k, p, b)
      <4> DEFINE h == subqueue[p].head
                 x == ShareOf(k, p, b)
                 y == ShareOf(m, p, b)
      <4>1. h \in Nat /\ x \in Nat /\ y \in Nat /\ E[c] = m
        BY <1>2, <1>3, <2>2, <2>5, ShareType DEF Subqueues
      <4>2. y <= x
        <5>1. CASE p = s
          <6>1. y = n
            BY <5>1, <2>2 DEF ShareOf
          <6> QED BY <5>1, <6>1, <3>1, <1>7 DEF t
        <5>2. CASE p # s
          <6>1. y = 0
            BY <5>2, <2>2 DEF ShareOf
          <6> QED BY <6>1, <4>1
        <5> QED BY <5>1, <5>2
      <4> HIDE DEF h, x, y
      <4>3. h + y <= h + x
        BY <4>1, <4>2
      <4> QED BY <4>1, <4>3 DEF h, x, y
    <3>2. Turn(deq, E, c)
      BY <2>5
    <3> HIDE DEF E
    <3>3. SharesOK(E, subqueue)
      BY <1>2, <3>1, <3>2, SharesFall
    <3> QED BY <3>3 DEF E
  <2>8. /\ subqueue' = subqueue /\ subqueue' \in Subqueues /\ SharesOK(deq', subqueue')
        /\ \A p \in Places : subqueue'[p].claims + ClaimOf(deq[c], p)
                               = subqueue[p].claims + ClaimOf(deq'[c], p)
        /\ \A p \in Places : subqueue'[p].tail = subqueue[p].tail
    BY <1>2, <2>1, <2>5, <2>6, <2>7
  <2>9. /\ token' \in TokensOf(producerListTail) /\ TokensOK' /\ available' \in Nat
        /\ globalExplicitConsumerOffset' \in Nat /\ available' = available
    <3>1. TypeOK /\ TokensOK
      BY DEF IInv, CountsAgree
    <3>2. token \in TokensOf(producerListTail)
      BY <3>1, Typed
    <3> QED BY <1>1, <2>1, <3>1, <3>2 DEF TypeOK, TokensOK
  <2>10. Total(ElementsOf(subqueue')) + 0 = Total(ElementsOf(subqueue))
    BY <2>8, ElementsNumber
  <2>11. available' + deq'[c].want + 0 = available + deq[c].want
    BY <1>3, <2>2, <2>5, <2>9
  <2>12. CallOK(deq'[c], producerListTail) /\ 0 \in Nat
    BY <2>4, <2>5
  <2> QED BY <1>1, <2>5, <2>8, <2>9, <2>10, <2>11, <2>12, DeqStep
<1> QED BY <1>8, <1>9

\* A claim that was in vain for a part is taken back.
LEMMA UndoStep == ASSUME IInv, NEW c \in Consumers, Undo(c) PROVE IInv'
<1> DEFINE k == deq[c]
           s == k.target
           m == Found(c, k, k.my)
           L == LeaveBehind(c, k.desired - k.my)
<1>1. /\ k.pc = "undo" /\ UNCHANGED <<producerCount, producerListTail, place, enq, available>>
      /\ deq' = [L EXCEPT ![c] = m] /\ Consumed(c, k, k.my)
      /\ subqueue' = [subqueue EXCEPT ![s].head = @ + k.my, ![s].claims = @ - k.desired]
  BY DEF Undo, UnchangedByDequeue, listVars
<1>2. /\ deq \in [Consumers -> Calls_] /\ \A x \in Consumers : CallOK(deq[x], producerListTail)
      /\ producerListTail \in 0..Cardinality(Enqueuers)
  BY <1>1, AtPlace DEF AtSubqueue
<1>3. /\ k \in Calls_ /\ k.desired \in Nat /\ k.want \in Nat /\ k.my \in Nat
      /\ CallOK(k, producerListTail)
  BY <1>2, CallFields
<1>4. k.desired \in 1..k.want /\ k.my <= k.desired
  BY <1>1, <1>3 DEF CallOK, Wants
<1>5. CallOK(m, producerListTail)
  <2>1. k.my \in 0..k.want /\ k.pc \in AtSubqueue
    BY <1>1, <1>3, <1>4 DEF AtSubqueue
  <2> QED BY <1>2, <1>3, <2>1, FoundOK
<1>6. k.desired - k.my \in Nat
  BY <1>3, <1>4
<1> DEFINE y == k.desired - k.my
<1>7. ASSUME NEW x \in Consumers PROVE (L[x] = deq[x] \/ Behind(L[x], deq[x])) /\ L[x] \in Calls_
  <2>0. deq[x] \in Calls_ /\ deq[x].lag \in Nat
    BY <1>2, CallFields
  <2>1. CASE x # c /\ deq[x].pc = "claim" /\ deq[x].target = s
    <3> DEFINE z == deq[x].lag + y
    <3>1. L[x] = [deq[x] EXCEPT !.lag = z]
      BY <2>0, <2>1 DEF LeaveBehind, Calls_
    <3>2. z \in Nat
      BY <2>0, <1>6
    <3> HIDE DEF z, L
    <3>3. Behind(L[x], deq[x])
      BY <2>1, <3>1, <3>2 DEF Behind
    <3>4. L[x] \in Calls_
      BY <2>0, <3>1, <3>2 DEF Calls_
    <3> QED BY <3>3, <3>4
  <2>2. CASE ~(x # c /\ deq[x].pc = "claim" /\ deq[x].target = s)
    <3>1. L[x] = deq[x]
      BY <2>2 DEF LeaveBehind
    <3> QED BY <2>0, <3>1
  <2> QED BY <2>1, <2>2
<1>8. DOMAIN L = Consumers /\ L = [x \in Consumers |-> L[x]]
  BY DEF LeaveBehind
<1> HIDE DEF L
<1>9. L \in [Consumers -> Calls_]
  BY <1>7, <1>8
<1>10. m \in Calls_
  BY <1>5 DEF CallOK
<1> HIDE DEF m
<1>11. deq'[c] = m /\ Turn(deq, deq', c)
  <2>1. deq' \in [Consumers -> Calls_] /\ deq'[c] = m /\ \A x \in Consumers : x # c => deq'[x] = L[x]
    BY <1>1, <1>9, <1>10
  <2> QED BY <1>7, <2>1 DEF Turn
<1>12. \A b \in Nat : subqueue[s].tail <= b => k.my <= ShareOf(k, s, b)
  BY <1>1, <1>3 DEF ShareOf
<1> QED BY <1>1, <1>3, <1>4, <1>11, <1>12, GivenStep DEF m

-----------------------------------------------------------------------------
(* The steps of enqueuers *)

\* A longer list makes no difference to a round.
LEMMA LongerList ==
  ASSUME NEW k, NEW t \in Nat, NEW u \in Nat, t <= u, CallOK(k, t)
  PROVE  CallOK(k, u)
<1>1. k \in Calls_ /\ k.tail <= t
  BY DEF CallOK, Listed
<1>2. k.tail \in Nat
  BY <1>1, CallFields
<1>3. k.tail <= u
  BY <1>1, <1>2
<1> QED BY <1>3 DEF CallOK, Listed

\* Whatever an enqueuer does, the consumers' part of the invariant stays.
LEMMA EnqStep ==
  ASSUME IInv, UNCHANGED consumerVars, ListOK', TokensCovered', available' \in Nat,
         producerCount' \in 0..Cardinality(Enqueuers), producerListTail' \in 0..producerCount',
         producerListTail <= producerListTail', place' \in [Enqueuers -> 0..producerListTail'],
         enq' \in [Enqueuers -> [pc : {"new", "link", "idle", "signal"}, count : Nat]],
         subqueue' \in [Places -> [tail : 0..MaxElements, head : 0..MaxElements, claims : Nat]],
         \A p \in Places : /\ subqueue'[p].head = subqueue[p].head
                           /\ subqueue'[p].claims = subqueue[p].claims
                           /\ subqueue[p].tail <= subqueue'[p].tail
  PROVE  IInv'
<1>0. /\ TypeOK /\ TokensOK /\ ClaimsOK(deq, subqueue) /\ SharesOK(deq, subqueue)
      /\ \A x \in Consumers : CallOK(deq[x], producerListTail)
  BY DEF IInv, CountsAgree
<1>1. /\ deq' = deq /\ token' = token
      /\ globalExplicitConsumerOffset' = globalExplicitConsumerOffset
  BY DEF consumerVars
<1>2. producerListTail \in Nat /\ producerListTail' \in Nat /\ subqueue \in Subqueues
      /\ token \in TokensOf(producerListTail)
  <2>1. Cardinality(Enqueuers) \in Nat
    BY PlacesNumber
  <2>2. producerCount' \in Nat
    BY <2>1
  <2>3. producerListTail' \in Nat
    BY <2>2
  <2> QED BY <1>0, <2>3, Typed
<1>3. \A x \in Consumers : CallOK(deq'[x], producerListTail')
  BY <1>0, <1>1, <1>2, LongerList
<1>4. ClaimsOK(deq', subqueue')
  BY <1>0, <1>1 DEF ClaimsOK
<1>5. ASSUME NEW p \in Places
      PROVE  /\ subqueue'[p].tail \in Nat /\ subqueue[p].tail \in Nat /\ subqueue[p].head \in Nat
             /\ subqueue[p].head <= subqueue[p].tail
  <2>1. subqueue'[p].tail \in 0..MaxElements
    OBVIOUS
  <2>2. subqueue'[p].tail \in Nat
    BY <2>1, QueueAssumption
  <2>3. subqueue[p].tail \in Nat /\ subqueue[p].head \in Nat
    BY <1>2 DEF Subqueues
  <2>4. subqueue[p].head <= subqueue[p].tail
    BY <1>0 DEF TypeOK
  <2> QED BY <2>2, <2>3, <2>4
<1>6. SharesOK(deq', subqueue')
  <2> SUFFICES ASSUME NEW p \in Places, NEW b \in Nat, subqueue'[p].tail <= b
               PROVE  subqueue'[p].head + Total(SharesOf(deq', p, b)) <= b
    BY DEF SharesOK
  <2>1. subqueue[p].tail <= b
    BY <1>5
  <2>2. subqueue[p].head + Total(SharesOf(deq, p, b)) <= b
    BY <1>0, <2>1 DEF SharesOK
  <2> QED BY <1>1, <2>2
<1>7. token' \in [TokenUsers -> [desired : 0..producerListTail', current : 0..producerListTail',
                                 lastKnown : Int, consumed : Nat]]
  <2> DEFINE t == producerListTail
             u == producerListTail'
  <2>1. t \in Nat /\ u \in Nat /\ t <= u
    BY <1>2
  <2> HIDE DEF t, u
  <2>2. 0..t \subseteq 0..u
    BY <2>1
  <2>3. token \in TokensOf(t)
    BY <1>2 DEF t
  <2>4. token \in [TokenUsers -> [desired : 0..u, current : 0..u, lastKnown : Int, consumed : Nat]]
    BY <2>2, <2>3 DEF TokensOf
  <2> QED BY <1>1, <2>4 DEF u
<1>8. \A p \in Places : subqueue'[p].head <= subqueue'[p].tail
  <2> TAKE p \in Places
  <2>1. subqueue[p].head <= subqueue'[p].tail
    BY <1>5
  <2> QED BY <2>1
<1>9. TypeOK'
  <2>1. globalExplicitConsumerOffset' \in Nat /\ deq' \in [Consumers -> Calls_]
    BY <1>0, <1>1 DEF TypeOK
  <2> QED BY <1>7, <1>8, <2>1 DEF TypeOK
<1>10. TokensOK'
  BY <1>0, <1>1 DEF TokensOK
<1> QED BY <1>3, <1>4, <1>6, <1>9, <1>10 DEF IInv, CountsAgree

\* One member more.
LEMMA OneMore ==
  ASSUME NEW S \in SUBSET Enqueuers, NEW e \in Enqueuers, e \notin S
  PROVE  /\ Cardinality(S) \in Nat /\ Cardinality(S \cup {e}) = Cardinality(S) + 1
         /\ \A T \in SUBSET Enqueuers : S \cup {e} \subseteq T => Cardinality(S) + 1 <= Cardinality(T)
<1>1. IsFiniteSet(Enqueuers) /\ IsFiniteSet(S)
  BY QueueAssumption, FS_Subset
<1>2. Cardinality(S) \in Nat
  BY <1>1, FS_CardinalityType
<1>3. Cardinality(S \cup {e}) = Cardinality(S) + 1
  BY <1>1, FS_AddElement
<1>4. ASSUME NEW T \in SUBSET Enqueuers, S \cup {e} \subseteq T
      PROVE  Cardinality(S \cup {e}) <= Cardinality(T)
  <2>1. IsFiniteSet(T)
    BY <1>1, FS_Subset
  <2> QED BY <2>1, <1>4, FS_Subset
<1> QED BY <1>2, <1>3, <1>4

\* What the invariant says of the enqueuers.
LEMMA EnqTyped ==
  ASSUME IInv
  PROVE  /\ ListOK /\ TokensCovered /\ available \in Nat /\ Cardinality(Enqueuers) \in Nat
         /\ producerCount \in 0..Cardinality(Enqueuers) /\ producerListTail \in 0..producerCount
         /\ producerCount \in Nat /\ producerListTail \in Nat
         /\ place \in [Enqueuers -> 0..producerListTail]
         /\ enq \in [Enqueuers -> [pc : {"new", "link", "idle", "signal"}, count : Nat]]
         /\ subqueue \in [Places -> [tail : 0..MaxElements, head : 0..MaxElements, claims : Nat]]
         /\ \A p \in Places : subqueue[p].tail <= subqueue[p].tail
         /\ Elements \in Nat /\ Unsignalled \in Nat /\ Outstanding \in Nat
<1>1. TypeOK /\ ListOK /\ TokensCovered
  BY DEF IInv, CountsAgree
<1>2. Cardinality(Enqueuers) \in Nat /\ producerCount \in Nat /\ producerListTail \in Nat
      /\ subqueue \in Subqueues /\ deq \in [Consumers -> Calls_]
  BY <1>1, Typed
<1>3. Elements \in Nat
  BY ElementsNumber DEF Elements, ElementsOf
<1>4. Unsignalled \in Nat
  <2>1. [x \in Enqueuers |-> enq[x].count] \in [Enqueuers -> Nat]
    BY <1>1 DEF TypeOK
  <2> QED BY <2>1, TotalType, QueueAssumption DEF Unsignalled
<1>5. Outstanding \in Nat
  <2>1. [x \in Consumers |-> deq[x].want] \in [Consumers -> Nat]
    BY <1>2, CallFields
  <2> QED BY <2>1, TotalType, QueueAssumption DEF Outstanding
<1>6. \A p \in Places : subqueue[p].tail <= subqueue[p].tail
  BY <1>2 DEF Subqueues
<1> QED BY <1>1, <1>2, <1>3, <1>4, <1>5, <1>6 DEF TypeOK

\* A producer is counted.
LEMMA CountProducerStep == ASSUME IInv, NEW e \in Enqueuers, CountProducer(e) PROVE IInv'
<1>1. /\ enq[e].pc = "new" /\ enq' = [enq EXCEPT ![e].pc = "link"] /\ producerCount' = producerCount + 1
      /\ UNCHANGED <<producerListTail, place, subqueue, available, consumerVars>>
  BY DEF CountProducer
<1>2. /\ ListOK /\ TokensCovered /\ available \in Nat /\ Cardinality(Enqueuers) \in Nat
      /\ producerListTail \in 0..producerCount
      /\ producerCount \in Nat /\ producerListTail \in Nat
      /\ place \in [Enqueuers -> 0..producerListTail]
      /\ enq \in [Enqueuers -> [pc : {"new", "link", "idle", "signal"}, count : Nat]]
      /\ subqueue \in [Places -> [tail : 0..MaxElements, head : 0..MaxElements, claims : Nat]]
      /\ \A p \in Places : subqueue[p].tail <= subqueue[p].tail
  BY EnqTyped
<1>3. /\ enq' \in [Enqueuers -> [pc : {"new", "link", "idle", "signal"}, count : Nat]]
      /\ enq'[e].pc = "link" /\ \A x \in Enqueuers : x # e => enq'[x] = enq[x]
      /\ \A x \in Enqueuers : enq'[x].count = enq[x].count
  BY <1>1, <1>2
<1> DEFINE S == {x \in Enqueuers : enq[x].pc # "new"}
<1>4. /\ Cardinality(S) \in Nat /\ Cardinality(S \cup {e}) = Cardinality(S) + 1
      /\ Cardinality(S) + 1 <= Cardinality(Enqueuers)
  <2>1. S \in SUBSET Enqueuers /\ e \notin S /\ S \cup {e} \subseteq Enqueuers
    BY <1>1
  <2> HIDE DEF S
  <2> QED BY <2>1, OneMore
<1>5. {x \in Enqueuers : enq'[x].pc # "new"} = S \cup {e}
  BY <1>3
<1>6. producerCount = Cardinality(S)
  BY <1>2 DEF ListOK
<1>7. producerCount' = Cardinality({x \in Enqueuers : enq'[x].pc # "new"})
  BY <1>1, <1>4, <1>5, <1>6
<1>8. {x \in Enqueuers : enq'[x].pc \in {"idle", "signal"}} = {x \in Enqueuers : enq[x].pc \in {"idle", "signal"}}
  BY <1>1, <1>3
<1>9. ListOK'
  <2>1. producerListTail = Cardinality({x \in Enqueuers : enq[x].pc \in {"idle", "signal"}})
    BY <1>2 DEF ListOK
  <2>2. producerListTail' = Cardinality({x \in Enqueuers : enq'[x].pc \in {"idle", "signal"}})
    BY <1>1, <1>8, <2>1
  <2>3. /\ \A x \in Enqueuers : enq'[x].pc \in {"idle", "signal"} => place'[x] # Null
        /\ \A x \in Enqueuers : enq'[x].pc # "signal" => enq'[x].count = 0
    BY <1>1, <1>2, <1>3 DEF ListOK
  <2> QED BY <1>7, <2>2, <2>3 DEF ListOK
<1>10. TokensCovered'
  <2>1. Unsignalled' = Unsignalled
    BY <1>3 DEF Unsignalled
  <2>2. Elements' = Elements /\ Outstanding' = Outstanding
    BY <1>1 DEF Elements, Outstanding, consumerVars
  <2> QED BY <1>1, <1>2, <2>1, <2>2 DEF TokensCovered
<1>11. producerCount' \in 0..Cardinality(Enqueuers) /\ producerListTail' \in 0..producerCount'
       /\ producerListTail <= producerListTail'
  <2> HIDE DEF S
  <2> QED BY <1>1, <1>2, <1>4, <1>6
<1>12. /\ place' \in [Enqueuers -> 0..producerListTail'] /\ available' \in Nat
       /\ UNCHANGED consumerVars /\ subqueue' = subqueue
  BY <1>1, <1>2
<1> QED BY <1>2, <1>3, <1>9, <1>10, <1>11, <1>12, EnqStep

\* A producer is linked.
LEMMA LinkProducerStep == ASSUME IInv, NEW e \in Enqueuers, LinkProducer(e) PROVE IInv'
<1>1. /\ enq[e].pc = "link" /\ enq' = [enq EXCEPT ![e].pc = "idle"]
      /\ producerListTail' = producerListTail + 1
      /\ place' = [place EXCEPT ![e] = producerListTail + 1]
      /\ UNCHANGED <<producerCount, subqueue, available, consumerVars>>
  BY DEF LinkProducer
<1>2. /\ ListOK /\ TokensCovered /\ available \in Nat /\ Cardinality(Enqueuers) \in Nat
      /\ producerCount \in 0..Cardinality(Enqueuers)
      /\ producerCount \in Nat /\ producerListTail \in Nat
      /\ place \in [Enqueuers -> 0..producerListTail]
      /\ enq \in [Enqueuers -> [pc : {"new", "link", "idle", "signal"}, count : Nat]]
      /\ subqueue \in [Places -> [tail : 0..MaxElements, head : 0..MaxElements, claims : Nat]]
      /\ \A p \in Places : subqueue[p].tail <= subqueue[p].tail
  BY EnqTyped
<1>3. /\ enq' \in [Enqueuers -> [pc : {"new", "link", "idle", "signal"}, count : Nat]]
      /\ enq'[e].pc = "idle" /\ \A x \in Enqueuers : x # e => enq'[x] = enq[x]
      /\ \A x \in Enqueuers : enq'[x].count = enq[x].count
  BY <1>1, <1>2
<1> DEFINE S == {x \in Enqueuers : enq[x].pc \in {"idle", "signal"}}
           T == {x \in Enqueuers : enq[x].pc # "new"}
<1>4. /\ Cardinality(S) \in Nat /\ Cardinality(S \cup {e}) = Cardinality(S) + 1
      /\ Cardinality(S) + 1 <= Cardinality(T)
  <2>1. S \in SUBSET Enqueuers /\ e \notin S /\ S \cup {e} \subseteq T /\ T \in SUBSET Enqueuers
    BY <1>1
  <2> HIDE DEF S, T
  <2> QED BY <2>1, OneMore
<1>5. {x \in Enqueuers : enq'[x].pc \in {"idle", "signal"}} = S \cup {e}
  BY <1>3
<1>6. producerListTail = Cardinality(S) /\ producerCount = Cardinality(T)
  BY <1>2 DEF ListOK
<1>7. producerListTail' = Cardinality({x \in Enqueuers : enq'[x].pc \in {"idle", "signal"}})
  BY <1>1, <1>4, <1>5, <1>6
<1>8. {x \in Enqueuers : enq'[x].pc # "new"} = T
  BY <1>1, <1>3
<1>9. place' \in [Enqueuers -> 0..producerListTail'] /\ place'[e] # Null
      /\ \A x \in Enqueuers : x # e => place'[x] = place[x]
  <2> DEFINE t == producerListTail
  <2>1. t \in Nat /\ place' = [place EXCEPT ![e] = t + 1] /\ place \in [Enqueuers -> 0..t]
    BY <1>1, <1>2
  <2> HIDE DEF t
  <2>2. place' \in [Enqueuers -> 0..(t + 1)] /\ place'[e] = t + 1
    BY <2>1
  <2>3. place'[e] # Null
    BY <2>1, <2>2 DEF Null
  <2>4. \A x \in Enqueuers : x # e => place'[x] = place[x]
    BY <2>1
  <2> QED BY <1>1, <2>2, <2>3, <2>4 DEF t
<1>10. ListOK'
  <2>1. producerCount' = Cardinality({x \in Enqueuers : enq'[x].pc # "new"})
    BY <1>1, <1>6, <1>8
  <2>2. \A x \in Enqueuers : enq'[x].pc \in {"idle", "signal"} => place'[x] # Null
    BY <1>2, <1>3, <1>9 DEF ListOK
  <2>3. \A x \in Enqueuers : enq'[x].pc # "signal" => enq'[x].count = 0
    BY <1>1, <1>2, <1>3 DEF ListOK
  <2> QED BY <1>7, <2>1, <2>2, <2>3 DEF ListOK
<1>11. TokensCovered'
  <2>1. Unsignalled' = Unsignalled
    BY <1>3 DEF Unsignalled
  <2>2. Elements' = Elements /\ Outstanding' = Outstanding
    BY <1>1 DEF Elements, Outstanding, consumerVars
  <2> QED BY <1>1, <1>2, <2>1, <2>2 DEF TokensCovered
<1>12. producerCount' \in 0..Cardinality(Enqueuers) /\ producerListTail' \in 0..producerCount'
       /\ producerListTail <= producerListTail'
  <2> HIDE DEF S, T
  <2> QED BY <1>1, <1>2, <1>4, <1>6
<1>13. available' \in Nat /\ UNCHANGED consumerVars /\ subqueue' = subqueue
  BY <1>1, <1>2
<1> QED BY <1>2, <1>3, <1>9, <1>10, <1>11, <1>12, <1>13, EnqStep

\* Elements are published, and are to be signalled.
LEMMA EnqueueStep ==
  ASSUME IInv, NEW e \in Enqueuers, NEW count \in Counts, Enqueue(e, count)
  PROVE  IInv'
<1> DEFINE s == place[e]
<1>1. /\ enq[e].pc = "idle" /\ subqueue[s].tail + count <= MaxElements
      /\ enq' = [enq EXCEPT ![e] = [pc |-> "signal", count |-> count]]
      /\ subqueue' = [subqueue EXCEPT ![s].tail = @ + count]
      /\ UNCHANGED <<producerCount, producerListTail, place, available, consumerVars>>
  BY DEF Enqueue, listVars
<1>2. /\ ListOK /\ TokensCovered /\ available \in Nat /\ Cardinality(Enqueuers) \in Nat
      /\ producerCount \in 0..Cardinality(Enqueuers) /\ producerListTail \in 0..producerCount
      /\ producerCount \in Nat /\ producerListTail \in Nat
      /\ place \in [Enqueuers -> 0..producerListTail]
      /\ enq \in [Enqueuers -> [pc : {"new", "link", "idle", "signal"}, count : Nat]]
      /\ subqueue \in [Places -> [tail : 0..MaxElements, head : 0..MaxElements, claims : Nat]]
      /\ Elements \in Nat /\ Unsignalled \in Nat /\ Outstanding \in Nat
  BY EnqTyped
<1>3. count \in Nat /\ MaxElements \in Nat
  BY QueueAssumption
<1>4. s \in Places
  <2>1. s \in 0..producerListTail /\ s # Null
    BY <1>1, <1>2 DEF ListOK
  <2> QED BY <1>2, <2>1 DEF Places, Null
<1> HIDE DEF s
<1>5. ASSUME NEW p \in Places
      PROVE  /\ subqueue[p].tail \in Nat /\ subqueue[p].head \in Nat
             /\ subqueue[p].head <= subqueue[p].tail
  <2>1. TypeOK
    BY DEF IInv, CountsAgree
  <2>2. subqueue[p].tail \in Nat /\ subqueue[p].head \in Nat
    BY <2>1, Typed DEF Subqueues
  <2> QED BY <2>1, <2>2 DEF TypeOK
<1>6. /\ subqueue' \in [Places -> [tail : 0..MaxElements, head : 0..MaxElements, claims : Nat]]
      /\ \A p \in Places : /\ subqueue'[p].head = subqueue[p].head
                           /\ subqueue'[p].claims = subqueue[p].claims
      /\ \A p \in Places : p # s => subqueue'[p].tail = subqueue[p].tail
      /\ subqueue'[s].tail = subqueue[s].tail + count
  <2> DEFINE w == subqueue[s].tail + count
             v == [subqueue[s] EXCEPT !.tail = w]
  <2>1. w \in 0..MaxElements
    BY <1>1, <1>3, <1>4, <1>5
  <2> HIDE DEF w
  <2>2. subqueue' = [subqueue EXCEPT ![s] = v]
    BY <1>1, <1>2, <1>4 DEF w
  <2>3. /\ v \in [tail : 0..MaxElements, head : 0..MaxElements, claims : Nat]
        /\ v.tail = w /\ v.head = subqueue[s].head /\ v.claims = subqueue[s].claims
    BY <1>2, <1>4, <2>1
  <2> HIDE DEF v
  <2> QED BY <1>2, <1>4, <2>2, <2>3 DEF w
<1>7. \A p \in Places : subqueue[p].tail <= subqueue'[p].tail
  <2> TAKE p \in Places
  <2>1. CASE p = s
    BY <2>1, <1>3, <1>5, <1>6
  <2>2. CASE p # s
    BY <2>2, <1>5, <1>6
  <2> QED BY <2>1, <2>2
<1>8. /\ enq' \in [Enqueuers -> [pc : {"new", "link", "idle", "signal"}, count : Nat]]
      /\ enq'[e].pc = "signal" /\ enq'[e].count = count
      /\ \A x \in Enqueuers : x # e => enq'[x] = enq[x]
  BY <1>1, <1>2, <1>3
<1>9. ListOK'
  <2>1. {x \in Enqueuers : enq'[x].pc # "new"} = {x \in Enqueuers : enq[x].pc # "new"}
    BY <1>1, <1>8
  <2>2. {x \in Enqueuers : enq'[x].pc \in {"idle", "signal"}} = {x \in Enqueuers : enq[x].pc \in {"idle", "signal"}}
    BY <1>1, <1>8
  <2>3. /\ \A x \in Enqueuers : enq'[x].pc \in {"idle", "signal"} => place'[x] # Null
        /\ \A x \in Enqueuers : enq'[x].pc # "signal" => enq'[x].count = 0
    BY <1>1, <1>2, <1>8 DEF ListOK
  <2> QED BY <1>1, <1>2, <2>1, <2>2, <2>3 DEF ListOK
<1>10. Elements' = Elements + count
  <2> DEFINE f == ElementsOf(subqueue)
             g == ElementsOf(subqueue')
  <2>1. f \in [Places -> Nat] /\ IsFiniteSet(Places)
    <3>1. \A p \in Places : subqueue[p].tail - subqueue[p].head \in Nat
      BY <1>5
    <3>2. IsFiniteSet(Places)
      BY PlacesNumber, FS_Interval
    <3> QED BY <3>1, <3>2 DEF ElementsOf
  <2>2. g \in [Places -> Nat]
    <3>1. \A p \in Places : subqueue'[p].tail - subqueue'[p].head \in Nat
      <4> TAKE p \in Places
      <4>1. CASE p = s
        BY <4>1, <1>3, <1>5, <1>6
      <4>2. CASE p # s
        BY <4>2, <1>5, <1>6
      <4> QED BY <4>1, <4>2
    <3> QED BY <3>1 DEF ElementsOf
  <2>3. g[s] = f[s] + count
    BY <1>3, <1>4, <1>5, <1>6 DEF ElementsOf
  <2>4. \A p \in Places : p # s => g[p] = f[p]
    BY <1>6 DEF ElementsOf
  <2>5. Elements = Total(f) /\ Elements' = Total(g)
    BY DEF Elements, ElementsOf
  <2> HIDE DEF f, g
  <2>6. Total(f) \in Nat /\ Total(g) \in Nat /\ Total(g) + f[s] = Total(f) + g[s] /\ f[s] \in Nat
    BY <1>4, <2>1, <2>2, <2>4, TotalStep
  <2>7. Total(g) = Total(f) + count
    BY <1>3, <2>3, <2>6
  <2> QED BY <2>5, <2>7
<1>11. Unsignalled' = Unsignalled + count
  <2> DEFINE f == [x \in Enqueuers |-> enq[x].count]
             g == [x \in Enqueuers |-> enq'[x].count]
  <2>1. f \in [Enqueuers -> Nat] /\ g \in [Enqueuers -> Nat] /\ IsFiniteSet(Enqueuers)
    BY <1>2, <1>8, QueueAssumption
  <2>2. f[e] = 0 /\ g[e] = count /\ \A x \in Enqueuers : x # e => g[x] = f[x]
    BY <1>1, <1>2, <1>8 DEF ListOK
  <2>3. Unsignalled = Total(f) /\ Unsignalled' = Total(g)
    BY DEF Unsignalled
  <2> HIDE DEF f, g
  <2>4. Total(f) \in Nat /\ Total(g) \in Nat /\ Total(g) + f[e] = Total(f) + g[e]
    BY <2>1, <2>2, TotalStep
  <2>5. Total(g) = Total(f) + count
    BY <1>3, <2>2, <2>4
  <2> QED BY <2>3, <2>5
<1>12. TokensCovered'
  <2>1. Outstanding' = Outstanding /\ available' = available
    BY <1>1 DEF Outstanding, consumerVars
  <2>2. Elements = available + Unsignalled + Outstanding
    BY <1>2 DEF TokensCovered
  <2>3. Elements + count = available + (Unsignalled + count) + Outstanding
    BY <1>2, <1>3, <2>2
  <2> QED BY <1>10, <1>11, <2>1, <2>3 DEF TokensCovered
<1>13. /\ place' \in [Enqueuers -> 0..producerListTail'] /\ available' \in Nat
       /\ UNCHANGED consumerVars /\ producerCount' \in 0..Cardinality(Enqueuers)
       /\ producerListTail' \in 0..producerCount' /\ producerListTail <= producerListTail'
  BY <1>1, <1>2
<1> QED BY <1>6, <1>7, <1>8, <1>9, <1>12, <1>13, EnqStep

\* The elements are signalled.
LEMMA SignalStep == ASSUME IInv, NEW e \in Enqueuers, Signal(e) PROVE IInv'
<1> DEFINE n == enq[e].count
<1>1. /\ enq[e].pc = "signal" /\ enq' = [enq EXCEPT ![e] = [pc |-> "idle", count |-> 0]]
      /\ available' = available + n
      /\ UNCHANGED <<producerCount, producerListTail, place, subqueue, consumerVars>>
  BY DEF Signal, listVars, Sema!PostMany
<1>2. /\ ListOK /\ TokensCovered /\ available \in Nat /\ Cardinality(Enqueuers) \in Nat
      /\ producerCount \in 0..Cardinality(Enqueuers) /\ producerListTail \in 0..producerCount
      /\ producerCount \in Nat /\ producerListTail \in Nat
      /\ place \in [Enqueuers -> 0..producerListTail]
      /\ enq \in [Enqueuers -> [pc : {"new", "link", "idle", "signal"}, count : Nat]]
      /\ subqueue \in [Places -> [tail : 0..MaxElements, head : 0..MaxElements, claims : Nat]]
      /\ Elements \in Nat /\ Unsignalled \in Nat /\ Outstanding \in Nat
      /\ \A p \in Places : subqueue[p].tail <= subqueue[p].tail
  BY EnqTyped
<1>3. /\ enq' \in [Enqueuers -> [pc : {"new", "link", "idle", "signal"}, count : Nat]]
      /\ enq'[e].pc = "idle" /\ enq'[e].count = 0 /\ n \in Nat
      /\ \A x \in Enqueuers : x # e => enq'[x] = enq[x]
  BY <1>1, <1>2
<1>4. ListOK'
  <2>1. {x \in Enqueuers : enq'[x].pc # "new"} = {x \in Enqueuers : enq[x].pc # "new"}
    BY <1>1, <1>3
  <2>2. {x \in Enqueuers : enq'[x].pc \in {"idle", "signal"}} = {x \in Enqueuers : enq[x].pc \in {"idle", "signal"}}
    BY <1>1, <1>3
  <2>3. /\ \A x \in Enqueuers : enq'[x].pc \in {"idle", "signal"} => place'[x] # Null
        /\ \A x \in Enqueuers : enq'[x].pc # "signal" => enq'[x].count = 0
    BY <1>1, <1>2, <1>3 DEF ListOK
  <2> QED BY <1>1, <1>2, <2>1, <2>2, <2>3 DEF ListOK
<1>5. Unsignalled' + n = Unsignalled /\ Unsignalled' \in Nat
  <2> DEFINE f == [x \in Enqueuers |-> enq[x].count]
             g == [x \in Enqueuers |-> enq'[x].count]
  <2>1. f \in [Enqueuers -> Nat] /\ g \in [Enqueuers -> Nat] /\ IsFiniteSet(Enqueuers)
    BY <1>2, <1>3, QueueAssumption
  <2>2. f[e] = n /\ g[e] = 0 /\ \A x \in Enqueuers : x # e => g[x] = f[x]
    BY <1>3
  <2>3. Unsignalled = Total(f) /\ Unsignalled' = Total(g)
    BY DEF Unsignalled
  <2> HIDE DEF f, g, n
  <2>4. Total(f) \in Nat /\ Total(g) \in Nat /\ Total(g) + f[e] = Total(f) + g[e]
    BY <2>1, <2>2, TotalStep
  <2>5. Total(g) + n = Total(f)
    BY <1>3, <2>2, <2>4
  <2> QED BY <2>3, <2>4, <2>5
<1>6. TokensCovered'
  <2>1. Outstanding' = Outstanding /\ Elements' = Elements
    BY <1>1 DEF Outstanding, Elements, consumerVars
  <2>2. Elements = available + Unsignalled + Outstanding
    BY <1>2 DEF TokensCovered
  <2> DEFINE U == Unsignalled'
  <2>3. U \in Nat /\ Unsignalled = U + n
    BY <1>3, <1>5
  <2> HIDE DEF U, n
  <2>4. Elements = (available + n) + U + Outstanding
    BY <1>2, <1>3, <2>2, <2>3
  <2> QED BY <1>1, <2>1, <2>4 DEF TokensCovered, U
<1>7. /\ place' \in [Enqueuers -> 0..producerListTail'] /\ available' \in Nat
      /\ UNCHANGED consumerVars /\ producerCount' \in 0..Cardinality(Enqueuers)
      /\ producerListTail' \in 0..producerCount' /\ producerListTail <= producerListTail'
      /\ subqueue' = subqueue
  BY <1>1, <1>2, <1>3
<1> QED BY <1>2, <1>3, <1>4, <1>6, <1>7, EnqStep

-----------------------------------------------------------------------------
(* The theorems *)

\* An empty queue without producers.
LEMMA InvInit == ASSUME Init PROVE IInv
<1>1. /\ producerCount = 0 /\ producerListTail = 0 /\ place = [e \in Enqueuers |-> Null]
      /\ subqueue = [p \in Places |-> [tail |-> 0, head |-> 0, claims |-> 0]] /\ available = 0
      /\ enq = [e \in Enqueuers |-> [pc |-> "new", count |-> 0]]
      /\ deq = [c \in Consumers |-> NoCall] /\ token = [c \in TokenUsers |-> NoToken]
      /\ globalExplicitConsumerOffset = 0
  BY DEF Init
<1>2. Cardinality(Enqueuers) \in Nat /\ MaxElements \in Nat /\ IsFiniteSet(Consumers)
      /\ IsFiniteSet(Enqueuers) /\ IsFiniteSet(Places)
  BY PlacesNumber, QueueAssumption, FS_Interval
<1>3. /\ 0 \in 0..MaxElements /\ 0 \in 0..Cardinality(Enqueuers) /\ 0 \in 0..0 /\ 0 \in Nat
      /\ -1 \in Int /\ 0 \in Int
  BY <1>2
<1>4. CallOK(NoCall, producerListTail) /\ NoCall.want = 0 /\ NoCall.pc = "idle" /\ NoCall \in Calls_
  BY <1>1, <1>3, NoCallOK DEF CallOK
<1>5. TypeOK
  <2>1. place \in [Enqueuers -> 0..producerListTail]
    BY <1>1, <1>3 DEF Null
  <2>2. subqueue \in [Places -> [tail : 0..MaxElements, head : 0..MaxElements, claims : Nat]]
        /\ \A p \in Places : subqueue[p].head <= subqueue[p].tail
    BY <1>1, <1>3
  <2>3. enq \in [Enqueuers -> [pc : {"new", "link", "idle", "signal"}, count : Nat]]
    BY <1>1, <1>3
  <2>4. deq \in [Consumers -> Calls_]
    BY <1>1, <1>4
  <2>5. token \in [TokenUsers -> [desired : 0..producerListTail, current : 0..producerListTail,
                                 lastKnown : Int, consumed : Nat]]
    BY <1>1, <1>3 DEF NoToken, Null
  <2> QED BY <1>1, <1>3, <2>1, <2>2, <2>3, <2>4, <2>5 DEF TypeOK
<1>6. TokensCovered
  <2>1. Elements = 0
    <3>1. [p \in Places |-> subqueue[p].tail - subqueue[p].head] \in [Places -> Nat]
      BY <1>1
    <3>2. \A p \in Places : [x \in Places |-> subqueue[x].tail - subqueue[x].head][p] = 0
      BY <1>1
    <3> QED BY <3>1, <3>2, TotalZero DEF Elements
  <2>2. Unsignalled = 0
    <3>1. [x \in Enqueuers |-> enq[x].count] \in [Enqueuers -> Nat]
      BY <1>1
    <3>2. \A e \in Enqueuers : [x \in Enqueuers |-> enq[x].count][e] = 0
      BY <1>1
    <3> QED BY <3>1, <3>2, TotalZero DEF Unsignalled
  <2>3. Outstanding = 0
    <3>1. [x \in Consumers |-> deq[x].want] \in [Consumers -> Nat]
      BY <1>1, <1>4
    <3>2. \A c \in Consumers : [x \in Consumers |-> deq[x].want][c] = 0
      BY <1>1, <1>4
    <3> QED BY <3>1, <3>2, TotalZero DEF Outstanding
  <2> QED BY <1>1, <2>1, <2>2, <2>3 DEF TokensCovered
<1>7. ListOK
  <2>1. {e \in Enqueuers : enq[e].pc # "new"} = {} /\ {e \in Enqueuers : enq[e].pc \in {"idle", "signal"}} = {}
    BY <1>1
  <2>2. Cardinality({}) = 0
    BY FS_EmptySet
  <2> QED BY <1>1, <2>1, <2>2 DEF ListOK
<1>8. TokensOK
  BY <1>1 DEF TokensOK, NoToken
<1>9. \A c \in Consumers : CallOK(deq[c], producerListTail)
  BY <1>1, <1>4
<1>10. ASSUME NEW p \in Places PROVE Total(ClaimsOf(deq, p)) = 0
  <2>1. \A c \in Consumers : ClaimOf(deq[c], p) = 0
    BY <1>1, <1>4 DEF ClaimOf
  <2> DEFINE f == ClaimsOf(deq, p)
  <2>2. f \in [Consumers -> Nat] /\ \A c \in Consumers : f[c] = 0
    BY <2>1 DEF ClaimsOf
  <2> HIDE DEF f
  <2>3. Total(f) = 0
    BY <2>2, TotalZero
  <2> QED BY <2>3 DEF f
<1>11. ASSUME NEW p \in Places, NEW b \in Nat PROVE Total(SharesOf(deq, p, b)) = 0
  <2>1. \A c \in Consumers : ShareOf(deq[c], p, b) = 0
    BY <1>1, <1>4 DEF ShareOf
  <2> DEFINE f == SharesOf(deq, p, b)
  <2>2. f \in [Consumers -> Nat] /\ \A c \in Consumers : f[c] = 0
    BY <2>1 DEF SharesOf
  <2> HIDE DEF f
  <2>3. Total(f) = 0
    BY <2>2, TotalZero
  <2> QED BY <2>3 DEF f
<1>12. ClaimsOK(deq, subqueue)
  BY <1>1, <1>10 DEF ClaimsOK
<1>13. SharesOK(deq, subqueue)
  <2> SUFFICES ASSUME NEW p \in Places, NEW b \in Nat
               PROVE  subqueue[p].head + Total(SharesOf(deq, p, b)) <= b
    BY DEF SharesOK
  <2>1. subqueue[p].head = 0 /\ Total(SharesOf(deq, p, b)) = 0
    BY <1>1, <1>11
  <2> QED BY <2>1
<1> QED BY <1>5, <1>6, <1>7, <1>8, <1>9, <1>12, <1>13 DEF IInv, CountsAgree

\* Every step keeps the invariant.
LEMMA InvNext == ASSUME IInv, [Next]_vars PROVE IInv'
<1>1. CASE UNCHANGED vars
  <2>1. /\ UNCHANGED <<producerCount, producerListTail, place, subqueue, available, enq, deq, token,
                       globalExplicitConsumerOffset>>
    BY <1>1 DEF vars, listVars, consumerVars
  <2>2. TypeOK' = TypeOK
    BY <2>1 DEF TypeOK
  <2>3. TokensCovered' = TokensCovered
    BY <2>1 DEF TokensCovered, Elements, Unsignalled, Outstanding
  <2>4. ListOK' = ListOK /\ TokensOK' = TokensOK
    BY <2>1 DEF ListOK, TokensOK
  <2> QED BY <2>1, <2>2, <2>3, <2>4 DEF IInv, CountsAgree
<1>2. ASSUME NEW e \in Enqueuers, CountProducer(e) \/ LinkProducer(e) \/ Signal(e) PROVE IInv'
  BY <1>2, CountProducerStep, LinkProducerStep, SignalStep
<1>3. ASSUME NEW e \in Enqueuers, NEW count \in Counts, Enqueue(e, count) PROVE IInv'
  BY <1>3, EnqueueStep
<1>4. ASSUME NEW c \in Consumers, NEW r \in Requests[c], Call(c, r) PROVE IInv'
  BY <1>4, CallStep
<1>5. ASSUME NEW c \in Consumers, GiveUp(c) PROVE IInv'
  BY <1>5, GiveUpStep
<1>6. ASSUME NEW c \in Consumers, Search(c) PROVE IInv'
  BY <1>6, TokenRoundStep, BulkRoundStep, WeighRoundStep, WeighStep, WeighedStep, AgainStep,
     LookStep, ClaimStep, RecheckStep, UndoStep DEF Search
<1>7. ASSUME NEW c \in Consumers, NEW n \in 1..available, Grant(c, n) PROVE IInv'
  BY <1>7, GrantStep
<1> QED BY <1>1, <1>2, <1>3, <1>4, <1>5, <1>6, <1>7 DEF Next

\* The invariant holds throughout.
LEMMA InvHolds == SafeSpec => []IInv
<1>1. Init => IInv
  BY InvInit
<1>2. IInv /\ [Next]_vars => IInv'
  BY InvNext
<1> QED BY <1>1, <1>2, PTL DEF SafeSpec

\* The semaphore and the sub-queues agree: every element that is enqueued and
\* not dequeued is covered by one token, in the semaphore, about to be
\* signalled or in the hands of a consumer, and no sub-queue ever gives more
\* than it got, however the optimistic claims of ConcurrentQueue::try_dequeue
\* and their corrections interleave.  So wait_dequeue may call try_dequeue
\* until it succeeds without asking the semaphore again.
THEOREM CountsAgreeInvariant == SafeSpec => []CountsAgree
<1>1. IInv => CountsAgree
  BY DEF IInv
<1> QED BY <1>1, InvHolds, PTL

\* A round of try_dequeue or try_dequeue_bulk that fails has looked at every
\* sub-queue that was on the list when it began: the walk from the token's
\* producer round the end of the list, the longest first, the change of the
\* current producer in the midst of a bulk, and a list that grows meanwhile
\* leave none of them out.
THEOREM RoundIsCompleteInvariant == SafeSpec => []RoundIsComplete
<1>1. IInv => RoundIsComplete
  BY DEF IInv, CallOK, NoneLeftOut, RoundIsComplete
<1> QED BY <1>1, InvHolds, PTL

==============================================================================
