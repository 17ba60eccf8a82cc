---------------------------- MODULE ProducerProofs ----------------------------
(***************************************************************************)
(* What the counters of a sub-queue promise, for any number of consumers,  *)
(* any width of the indices and any sizes: with indices that wrap around,  *)
(* consumers that overtake each other and claims in vain, no consumer is   *)
(* given an element that is not there; and an implicit producer keeps the  *)
(* limits.                                                                 *)
(***************************************************************************)
EXTENDS Producer, FiniteSetTheorems, TLAPS

Half == IndexSize \div 2

\* A record of the local variables of a dequeue.
CallFields == {"pc", "overcommit", "desiredCount", "myDequeueCount", "count", "index",
               "header", "slot", "block"}
CallShape(k) == k = [f \in CallFields |-> k[f]]

\* The values of those the counters depend on.
CallOK(k) ==
    /\ CallShape(k)
    /\ k.pc \in {"claim", "recheck"} =>
          k.overcommit \in Index /\ k.desiredCount \in 0..MaxDemand
    /\ k.pc = "recheck" => k.myDequeueCount \in Index
    /\ k.pc = "overcommit" => k.desiredCount \in 0..MaxDemand /\ k.count \in 0..k.desiredCount
    /\ k.pc = "take" => k.count \in 0..MaxDemand

ProdFields == {"pc", "count", "bulk", "startBlock", "chain", "front", "slots"}
ProdShape(p) == p = [f \in ProdFields |-> p[f]]

\* An enqueue that has begun is of fewer elements than half the range of an index.
ProdOK(p) == ProdShape(p) /\ (p.pc # "idle" => p.count \in 1..(Half - 1))

\* The place of the claim k, counted from the head; behind it if negative.
PlaceOf(k, head) ==
    LET place == Minus(Minus(k.myDequeueCount, k.overcommit), head)
    IN  IF place <= Half THEN place ELSE place - IndexSize

\* What of d elements from place r on exists with b elements in the queue.
Part(d, r, b) == IF b <= r THEN 0 ELSE IF b - r <= d THEN b - r ELSE d

\* What k would secure, or has secured, with b elements in the queue.
ShareOf(k, head, b) ==
    IF k.pc = "recheck" THEN Part(k.desiredCount, PlaceOf(k, head), b)
    ELSE IF k.pc \in {"overcommit", "take"} THEN k.count
    ELSE 0

ClaimOf(k) == IF k.pc \in {"recheck", "overcommit"} THEN k.desiredCount
              ELSE IF k.pc = "take" THEN k.count
              ELSE 0

Shares(calls, head, b) == [c \in Consumers |-> ShareOf(calls[c], head, b)]
Claims(calls) == [c \in Consumers |-> ClaimOf(calls[c])]

\* With any number b of elements from the present one on, what the consumers would
\* secure is together at most b.
SharesOK(calls, tail, head) == \A b \in Nat :
    Minus(tail, head) <= b => Total(Shares(calls, head, b)) <= b

\* dequeueOptimisticCount less dequeueOvercommit is the head and the open claims.
ClaimsOK(calls, head, optimistic, overcommit) ==
    Minus(optimistic, overcommit) = Plus(head, Total(Claims(calls)))

\* The dequeueOvercommit a consumer has loaded is outdated by at most MaxLag.
LagsOK(calls, overcommit) == \A c \in Consumers :
    calls[c].pc = "claim" => Minus(overcommit, calls[c].overcommit) <= MaxLag

CountersOK ==
    /\ tailIndex \in Index /\ headIndex \in Index
    /\ dequeueOptimisticCount \in Index /\ dequeueOvercommit \in Index

CallsOK(calls) == calls = [c \in Consumers |-> calls[c]] /\ \A c \in Consumers : CallOK(calls[c])

\* The inductive invariant of both kinds of producer.
ClaimsInv ==
    /\ CountersOK
    /\ CallsOK(call)
    /\ ProdOK(prod)
    /\ LagsOK(call, dequeueOvercommit)
    /\ ClaimsOK(call, headIndex, dequeueOptimisticCount, dequeueOvercommit)
    /\ SharesOK(call, tailIndex, headIndex)

\* The cells of the last block that are still to be used.
Slack(tail) == BLOCK_SIZE - 1 - Offset(Minus(tail, 1))

\* NewBlocks, with the tail as an argument.
BlocksFor(tail, count) ==
    Minus(Base(Plus(tail, count - 1)), Base(Minus(tail, 1))) \div BLOCK_SIZE

\* The blocks an implicit producer has found room for, beyond the last one.
Gained(p) == Len(p.chain) + (IF p.pc = "acquire" THEN 1 ELSE 0)

\* The elements, and the cells that may become elements without a further test.
Extent(p, tail, head) == Minus(tail, head) + Slack(tail) + BLOCK_SIZE * Gained(p)

RoomOK(p, tail, head) ==
    /\ p.pc \in {"idle", "insert", "acquire", "construct", "publish"}
    /\ \E S : p.chain \in Seq(S)
    /\ p.pc = "idle" => p.chain = <<>>
    /\ p.pc \in {"insert", "acquire"} => Len(p.chain) < BlocksFor(tail, p.count)
    /\ p.pc \in {"construct", "publish"} => Len(p.chain) = BlocksFor(tail, p.count)
    /\ Extent(p, tail, head) < Half
    /\ Extent(p, tail, head) <= MAX_SUBQUEUE_SIZE

\* The inductive invariant of implicit producers: room is found before it is used.
RoomInv == ~isExplicit => RoomOK(prod, tailIndex, headIndex)

Quarter == IndexSize \div 4

\* A consumer of these has taken elements and not yet released them.
HoldingPcs == {"load", "locate", "move", "release", "erase", "free"}
Holds(k) == k.pc \in HoldingPcs

\* How far the first element of k is behind the head.
Behind(k, head) == Minus(head, k.index)

\* What k has taken is behind the head, and even with the pend elements of an
\* enqueue the tail does not come round to it.
HeldOK(k, tail, head, pend) == Holds(k) =>
    /\ k.index \in Index /\ k.count \in Nat /\ k.count <= Behind(k, head)
    /\ Behind(k, head) + Minus(tail, head) + pend < Half + Quarter

\* What k has taken lies before or behind what j has taken.
Apart(k, j, head) == Holds(k) /\ Holds(j) =>
    \/ Behind(k, head) + j.count <= Behind(j, head)
    \/ Behind(j, head) + k.count <= Behind(k, head)

AllHeld(calls, tail, head, pend) ==
    /\ \A c \in Consumers : HeldOK(calls[c], tail, head, pend)
    /\ \A c, d \in Consumers : c # d => Apart(calls[c], calls[d], head)

\* The inductive invariant about what consumers of an implicit producer hold.
HeldInv ==
    /\ prod.count \in 0..Quarter
    /\ AllHeld(call, tailIndex, headIndex, prod.count)

-----------------------------------------------------------------------------
(* Sums *)

\* What is in the heap of f.
LEMMA InHeap ==
  ASSUME NEW f
  PROVE  /\ \A s \in DOMAIN f : \A i \in 1..f[s] : <<s, i>> \in Heap(f)
         /\ \A x \in Heap(f) : \E s \in DOMAIN f : \E i \in 1..f[s] : x = <<s, i>>
BY DEF Heap

\* The heap of a function on a finite set is finite.
LEMMA TotalType ==
  ASSUME NEW S, IsFiniteSet(S), NEW f \in [S -> Nat]
  PROVE  IsFiniteSet(Heap(f)) /\ Total(f) \in Nat
<1> DEFINE P == {{s} \X (1..f[s]) : s \in S}
           g == [s \in S |-> {s} \X (1..f[s])]
<1>1. g \in Surjection(S, P)
  BY DEF Surjection
<1>2. IsFiniteSet(P)
  <2> HIDE DEF g, P
  <2> QED BY <1>1, FS_Surjection
<1>3. ASSUME NEW s \in S PROVE IsFiniteSet({s} \X (1..f[s]))
  <2>1. IsFiniteSet(1..f[s]) BY FS_Interval
  <2>2. IsFiniteSet({s}) BY FS_Singleton
  <2> QED BY <2>1, <2>2, FS_Product
<1>4. \A T \in P : IsFiniteSet(T)
  BY <1>3
<1>5. IsFiniteSet(UNION P)
  <2> HIDE DEF P
  <2> QED BY <1>2, <1>4, FS_UNION
<1>6. Heap(f) = UNION P
  BY DEF Heap
<1> HIDE DEF P
<1> QED BY <1>5, <1>6, FS_CardinalityType DEF Total

\* The sum with one value left out, and that value.
LEMMA TotalSplit ==
  ASSUME NEW S, IsFiniteSet(S), NEW f \in [S -> Nat], NEW s \in S
  PROVE  Total(f) = Total([f EXCEPT ![s] = 0]) + f[s]
<1> DEFINE g == [f EXCEPT ![s] = 0]
           H == {s} \X (1..f[s])
<1>1. g \in [S -> Nat] /\ g[s] = 0 /\ \A x \in S : x # s => g[x] = f[x]
  OBVIOUS
<1> HIDE DEF g
<1>2. Heap(f) = Heap(g) \cup H
  <2>1. ASSUME NEW x \in Heap(f) PROVE x \in Heap(g) \cup H
    <3>1. PICK r \in S : \E i \in 1..f[r] : x = <<r, i>>
      BY InHeap
    <3>2. CASE r = s
      BY <3>1, <3>2
    <3>3. CASE r # s
      <4>1. r \in DOMAIN g /\ \E i \in 1..g[r] : x = <<r, i>>
        BY <3>3, <3>1, <1>1
      <4> QED BY <4>1, <3>1, InHeap
    <3> QED BY <3>2, <3>3
  <2>2. ASSUME NEW x \in Heap(g) PROVE x \in Heap(f)
    <3>1. PICK r \in S : \E i \in 1..g[r] : x = <<r, i>>
      BY <1>1, InHeap
    <3>2. r # s
      BY <3>1, <1>1
    <3> QED BY <3>1, <3>2, <1>1, InHeap
  <2>3. ASSUME NEW x \in H PROVE x \in Heap(f)
    <3>1. PICK i \in 1..f[s] : x = <<s, i>>
      OBVIOUS
    <3> QED BY <3>1, InHeap
  <2> HIDE DEF H
  <2> QED BY <2>1, <2>2, <2>3
<1>3. Heap(g) \cap H = {}
  <2> SUFFICES ASSUME NEW x \in Heap(g), x \in H PROVE FALSE
    OBVIOUS
  <2>1. PICK r \in S : \E i \in 1..g[r] : x = <<r, i>>
    BY <1>1, InHeap
  <2>2. r = s
    BY <2>1
  <2> QED BY <2>1, <2>2, <1>1
<1>4. IsFiniteSet(H) /\ Cardinality(H) = f[s]
  <2>1. IsFiniteSet(1..f[s]) /\ Cardinality(1..f[s]) = f[s] BY FS_Interval
  <2>2. IsFiniteSet({s}) /\ Cardinality({s}) = 1 BY FS_Singleton
  <2>3. IsFiniteSet(H) /\ Cardinality(H) = 1 * f[s]
    BY <2>1, <2>2, FS_Product
  <2> QED BY <2>3
<1>5. IsFiniteSet(Heap(g)) /\ Cardinality(Heap(g)) \in Nat
  BY <1>1, TotalType DEF Total
<1>6. Cardinality(Heap(g) \cap H) = 0
  BY <1>3, FS_EmptySet
<1> HIDE DEF H
<1>7. Cardinality(Heap(g) \cup H) = Cardinality(Heap(g)) + Cardinality(H) - Cardinality(Heap(g) \cap H)
  BY <1>4, <1>5, FS_Union
<1>8. Total(f) = Total(g) + f[s]
  BY <1>2, <1>4, <1>5, <1>6, <1>7 DEF Total
<1> QED BY <1>8 DEF g

\* One value changes.
LEMMA TotalStep ==
  ASSUME NEW S, IsFiniteSet(S), NEW f \in [S -> Nat], NEW g \in [S -> Nat], NEW s \in S,
         \A x \in S : x # s => g[x] = f[x]
  PROVE  /\ Total(f) \in Nat /\ Total(g) \in Nat
         /\ Total(g) + f[s] = Total(f) + g[s]
         /\ f[s] <= Total(f)
<1>1. [f EXCEPT ![s] = 0] = [g EXCEPT ![s] = 0] /\ [f EXCEPT ![s] = 0] \in [S -> Nat]
  OBVIOUS
<1>2. Total(f) = Total([f EXCEPT ![s] = 0]) + f[s]
  BY TotalSplit
<1>3. Total(g) = Total([g EXCEPT ![s] = 0]) + g[s]
  BY TotalSplit
<1> DEFINE h == [f EXCEPT ![s] = 0]
<1>4. Total(h) \in Nat
  BY <1>1, TotalType
<1>5. Total(f) = Total(h) + f[s] /\ Total(g) = Total(h) + g[s]
  BY <1>1, <1>2, <1>3
<1>6. f[s] \in Nat /\ g[s] \in Nat
  OBVIOUS
<1> HIDE DEF h
<1> QED BY <1>4, <1>5, <1>6

\* Larger values, a larger sum.
LEMMA TotalLess ==
  ASSUME NEW S, IsFiniteSet(S), NEW f \in [S -> Nat], NEW g \in [S -> Nat],
         \A x \in S : f[x] <= g[x]
  PROVE  Total(f) <= Total(g)
<1>1. ASSUME NEW x \in Heap(f) PROVE x \in Heap(g)
  <2>1. PICK s \in S : \E i \in 1..f[s] : x = <<s, i>>
    BY InHeap
  <2>2. \E i \in 1..g[s] : x = <<s, i>>
    BY <2>1
  <2> QED BY <2>1, <2>2, InHeap
<1>2. IsFiniteSet(Heap(g))
  BY TotalType
<1> QED BY <1>1, <1>2, FS_Subset DEF Total

\* A sum of zeros.
LEMMA TotalZero ==
  ASSUME NEW S, NEW f \in [S -> Nat], \A x \in S : f[x] = 0
  PROVE  Total(f) = 0
<1>1. Heap(f) = {}
  <2> SUFFICES ASSUME NEW x \in Heap(f) PROVE FALSE
    OBVIOUS
  <2>1. PICK s \in S : \E i \in 1..f[s] : x = <<s, i>>
    BY InHeap
  <2> QED BY <2>1
<1> QED BY <1>1, FS_EmptySet DEF Total

\* A sum of values that have a bound.
LEMMA TotalBound ==
  ASSUME NEW S, IsFiniteSet(S), NEW m \in Nat, NEW f \in [S -> 0..m]
  PROVE  Total(f) <= Cardinality(S) * m
<1> DEFINE H == S \X (1..m)
<1>1. IsFiniteSet(1..m) /\ Cardinality(1..m) = m
  BY FS_Interval
<1>2. IsFiniteSet(H) /\ Cardinality(H) = Cardinality(S) * m
  BY <1>1, FS_Product
<1>3. ASSUME NEW x \in Heap(f) PROVE x \in H
  <2>1. PICK s \in S : \E i \in 1..f[s] : x = <<s, i>>
    BY InHeap
  <2> QED BY <2>1
<1> HIDE DEF H
<1> QED BY <1>2, <1>3, FS_Subset DEF Total

-----------------------------------------------------------------------------
(* Unsigned arithmetic *)

\* Half the range of an index is a number of blocks.
LEMMA Sizes ==
  /\ BLOCK_SIZE \in Nat /\ BLOCK_SIZE >= 2 /\ IndexSize \in Nat
  /\ IndexSize = 2 * Half /\ Half \in Nat
  /\ \E m \in Nat \ {0} : Half = BLOCK_SIZE * m
<1> DEFINE q == IndexSize \div (2 * BLOCK_SIZE)
           r == IndexSize % (2 * BLOCK_SIZE)
<1>1. /\ BLOCK_SIZE \in Nat /\ BLOCK_SIZE >= 2 /\ IndexSize \in Nat /\ IndexSize > 0
      /\ r = 0
  BY BlockSizeAssumption
<1>2. q \in Nat /\ IndexSize = (2 * BLOCK_SIZE) * q + r
  <2>1. ASSUME NEW a \in Nat, NEW n \in Nat, n > 0, NEW x \in Int, NEW y \in Int,
               x = a \div n, y = a % n
        PROVE  a = n * x + y
    BY <2>1
  <2>2. q \in Nat /\ r \in Int /\ 2 * BLOCK_SIZE \in Nat /\ 2 * BLOCK_SIZE > 0
    BY <1>1
  <2> QED BY <1>1, <2>1, <2>2
<1> HIDE DEF q, r
<1> DEFINE h == BLOCK_SIZE * q
<1>3. IndexSize = 2 * h /\ h \in Int
  BY <1>1, <1>2
<1>5. Half = h
  <2> HIDE DEF h
  <2> QED BY <1>1, <1>3 DEF Half
<1>6. h \in Nat
  <2> HIDE DEF h
  <2> QED BY <1>1, <1>3
<1>7. q \in Nat \ {0}
  <2>1. q # 0
    BY <1>1, <1>2
  <2> QED BY <1>2, <2>1
<1> QED BY <1>1, <1>3, <1>5, <1>6, <1>7

\* The range of an index has two halves.
LEMMA Width == IndexSize \in Nat /\ Half \in Nat /\ Half > 0 /\ IndexSize = 2 * Half
BY Sizes, BlockSizeAssumption

\* A block fits in half the range of an index.
LEMMA BlockFits == BLOCK_SIZE \in Nat /\ BLOCK_SIZE >= 2 /\ BLOCK_SIZE <= Half
<1>1. PICK m \in Nat \ {0} : Half = BLOCK_SIZE * m
  BY Sizes
<1>2. ASSUME NEW a \in Nat, NEW b \in Nat \ {0} PROVE a * b >= a
  <2>1. b - 1 \in Nat /\ b = (b - 1) + 1
    BY <1>2
  <2>2. a * ((b - 1) + 1) = a * (b - 1) + a
    BY <1>2
  <2>3. a * (b - 1) \in Nat
    BY <2>1
  <2> DEFINE q == a * (b - 1)
  <2>4. a * b = q + a
    BY <2>1, <2>2
  <2> HIDE DEF q
  <2> QED BY <2>3, <2>4 DEF q
<1>3. BLOCK_SIZE * m >= BLOCK_SIZE
  BY <1>2, Sizes
<1> QED BY <1>1, <1>3, Sizes

\* Two quarters are no more than half.
LEMMA Quarters == Quarter \in Nat /\ Quarter >= 1 /\ 2 * Quarter <= Half /\ Quarter < Half
BY Width, BlockFits DEF Quarter, Half

\* The unsigned difference of two indices, without the remainder.
LEMMA MinusValue ==
  ASSUME NEW a \in Index, NEW b \in Index
  PROVE  /\ Minus(a, b) \in Index
         /\ Minus(a, b) = IF b <= a THEN a - b ELSE a - b + IndexSize
BY Width DEF Minus, Index

\* The unsigned sum of an index and a number, without the remainder.
LEMMA PlusValue ==
  ASSUME NEW a \in Index, NEW b \in 0..IndexSize
  PROVE  /\ Plus(a, b) \in Index
         /\ Plus(a, b) = IF a + b < IndexSize THEN a + b ELSE a + b - IndexSize
BY Width DEF Plus, Index

\* The test that a number of elements is neither zero nor behind zero.
LEMMA PositiveValue ==
  ASSUME NEW a \in Index
  PROVE  circular_less_than(0, a) <=> 0 < a /\ a < Half
<1>1. 0 \in Index
  BY Width, BlockSizeAssumption DEF Index
<1>2. Minus(0, a) = IF a <= 0 THEN 0 - a ELSE 0 - a + IndexSize
  BY <1>1, MinusValue
<1> QED BY <1>2, Width DEF circular_less_than, Index, Half

-----------------------------------------------------------------------------
(* Places and shares *)

\* The place of a claim is a number.
LEMMA PlaceType ==
  ASSUME NEW k, k.myDequeueCount \in Index, k.overcommit \in Index, NEW head \in Index
  PROVE  PlaceOf(k, head) \in Int
<1>1. Minus(k.myDequeueCount, k.overcommit) \in Index
  BY MinusValue
<1>2. Minus(Minus(k.myDequeueCount, k.overcommit), head) \in Index
  BY <1>1, MinusValue
<1> QED BY <1>2, Width DEF PlaceOf, Index

\* The place of a claim that is made now: behind all other claims, and further
\* behind by what was taken back since dequeueOvercommit was read.
LEMMA NewPlace ==
  ASSUME NEW k, k.overcommit \in Index, NEW head \in Index,
         NEW overcommit \in Index, k.myDequeueCount \in Index,
         NEW claims \in Nat,
         Minus(k.myDequeueCount, overcommit) = Plus(head, claims),
         claims + Minus(overcommit, k.overcommit) <= Half
  PROVE  PlaceOf(k, head) = claims + Minus(overcommit, k.overcommit)
<1> DEFINE my == k.myDequeueCount
           over == k.overcommit
           lag == Minus(overcommit, over)
           x == Minus(my, overcommit)
           y == Minus(my, over)
           z == Minus(y, head)
<1>1. /\ my \in Index /\ over \in Index /\ head \in Index /\ overcommit \in Index
      /\ claims \in Nat
  OBVIOUS
<1>2. lag \in Index /\ lag = IF over <= overcommit THEN overcommit - over
                              ELSE overcommit - over + IndexSize
  BY MinusValue
<1>3. x \in Index /\ x = IF overcommit <= my THEN my - overcommit
                          ELSE my - overcommit + IndexSize
  BY MinusValue
<1>4. y \in Index /\ y = IF over <= my THEN my - over ELSE my - over + IndexSize
  BY MinusValue
<1>5. z \in Index /\ z = IF head <= y THEN y - head ELSE y - head + IndexSize
  <2> HIDE DEF y
  <2> QED BY <1>4, MinusValue
<1>6. claims \in 0..IndexSize
  <2> HIDE DEF lag
  <2> QED BY <1>2, Width DEF Index, lag
<1>7. x = IF head + claims < IndexSize THEN head + claims ELSE head + claims - IndexSize
  BY <1>6, PlusValue
<1>8. claims + lag <= Half
  OBVIOUS
<1>9. PlaceOf(k, head) = IF z <= Half THEN z ELSE z - IndexSize
  BY DEF PlaceOf
<1> HIDE DEF my, over, lag, x, y, z
<1>10. z = claims + lag
  BY ONLY <1>1, <1>2, <1>3, <1>4, <1>5, <1>7, <1>8, Width DEF Index
<1>11. PlaceOf(k, head) = claims + lag
  BY <1>8, <1>9, <1>10
<1> QED BY <1>11 DEF lag, over

\* When n elements are taken, claims come to stand n places nearer to the head.
\* One that falls too far behind comes to stand far ahead of it.
LEMMA MovedPlace ==
  ASSUME NEW k, k.myDequeueCount \in Index, k.overcommit \in Index, NEW head \in Index,
         NEW n \in 0..Half
  PROVE  PlaceOf(k, Plus(head, n)) >= PlaceOf(k, head) - n
<1> DEFINE y == Minus(k.myDequeueCount, k.overcommit)
           z == Minus(y, head)
           h == Plus(head, n)
           w == Minus(y, h)
<1>1. y \in Index /\ head \in Index /\ n \in 0..Half
  BY MinusValue
<1>2. z \in Index /\ z = IF head <= y THEN y - head ELSE y - head + IndexSize
  <2> HIDE DEF y
  <2> QED BY <1>1, MinusValue
<1>3. h \in Index /\ h = IF head + n < IndexSize THEN head + n ELSE head + n - IndexSize
  <2>1. n \in 0..IndexSize
    BY Width
  <2> QED BY <2>1, PlusValue
<1>4. w \in Index /\ w = IF h <= y THEN y - h ELSE y - h + IndexSize
  <2> HIDE DEF y, h
  <2> QED BY <1>1, <1>3, MinusValue
<1>5. /\ PlaceOf(k, head) = IF z <= Half THEN z ELSE z - IndexSize
      /\ PlaceOf(k, h) = IF w <= Half THEN w ELSE w - IndexSize
  BY DEF PlaceOf
<1> HIDE DEF y, z, h, w
<1>6. (IF w <= Half THEN w ELSE w - IndexSize) >= (IF z <= Half THEN z ELSE z - IndexSize) - n
  BY ONLY <1>1, <1>2, <1>3, <1>4, Width DEF Index
<1>7. PlaceOf(k, h) >= PlaceOf(k, head) - n
  BY <1>5, <1>6
<1> QED BY <1>7 DEF h

\* What is secured is at most what was asked for and at most what lies behind the
\* place of the claim, and it grows with the queue.
LEMMA PartValue ==
  ASSUME NEW d \in Nat, NEW r \in Int, NEW b \in Nat
  PROVE  /\ Part(d, r, b) \in 0..d
         /\ r <= b => Part(d, r, b) <= b - r
         /\ b <= r => Part(d, r, b) = 0
         /\ \A c \in Nat : b <= c => Part(d, r, b) <= Part(d, r, c)
BY DEF Part

\* When the head moves on by n, so do the places, and nothing more is secured.
LEMMA PartMoved ==
  ASSUME NEW d \in Nat, NEW r \in Int, NEW b \in Nat, NEW n \in Nat, NEW q \in Int, q >= r - n
  PROVE  Part(d, q, b) <= Part(d, r, b + n)
BY DEF Part

\* A consumer that reads the tail is not promised more than its share.
LEMMA ExistingShare ==
  ASSUME NEW k, k.myDequeueCount \in Index, k.overcommit \in Index, k.desiredCount \in Nat,
         tailIndex \in Index, headIndex \in Index, Minus(tailIndex, headIndex) <= Half
  PROVE  /\ Existing(k) \in 0..k.desiredCount
         /\ Existing(k) <= Part(k.desiredCount, PlaceOf(k, headIndex), Minus(tailIndex, headIndex))
<1> DEFINE d == k.desiredCount
           y == Minus(k.myDequeueCount, k.overcommit)
           z == Minus(y, headIndex)
           s == Minus(tailIndex, headIndex)
           a == Minus(tailIndex, y)
           r == IF z <= Half THEN z ELSE z - IndexSize
           e == IF 0 < a /\ a < Half THEN Smaller(d, a) ELSE 0
<1>1. y \in Index /\ d \in Nat /\ tailIndex \in Index /\ headIndex \in Index
  BY MinusValue
<1>2. z \in Index /\ z = IF headIndex <= y THEN y - headIndex ELSE y - headIndex + IndexSize
  <2> HIDE DEF y
  <2> QED BY <1>1, MinusValue
<1>3. /\ s \in Index /\ s <= Half
      /\ s = IF headIndex <= tailIndex THEN tailIndex - headIndex
                                       ELSE tailIndex - headIndex + IndexSize
  BY MinusValue
<1>4. a \in Index /\ a = IF y <= tailIndex THEN tailIndex - y ELSE tailIndex - y + IndexSize
  <2> HIDE DEF y
  <2> QED BY <1>1, MinusValue
<1>5. PlaceOf(k, headIndex) = r
  BY DEF PlaceOf
<1>6. Existing(k) = e
  <2>1. Actual(k) = a
    BY DEF Actual
  <2> HIDE DEF a
  <2> QED BY <1>4, <2>1, PositiveValue DEF Existing
<1> HIDE DEF d, y, z, s, a
<1>7. e \in 0..d
  BY ONLY <1>1, <1>4 DEF Smaller, Index
<1>8. e <= Part(d, r, s)
  BY ONLY <1>1, <1>2, <1>3, <1>4, Width DEF Smaller, Index, Part
<1> QED BY <1>5, <1>6, <1>7, <1>8 DEF d, s

\* A call secures no more than it has claimed.
LEMMA ShareValue ==
  ASSUME NEW k, CallOK(k), NEW head \in Index, NEW b \in Nat
  PROVE  /\ ClaimOf(k) \in 0..MaxDemand
         /\ ShareOf(k, head, b) \in Nat
         /\ ShareOf(k, head, b) <= ClaimOf(k)
<1>1. MaxDemand \in Nat
  BY ClaimsAssumption
<1>2. CASE k.pc = "recheck"
  <2>1. k.myDequeueCount \in Index /\ k.overcommit \in Index /\ k.desiredCount \in 0..MaxDemand
    BY <1>2 DEF CallOK
  <2>2. PlaceOf(k, head) \in Int
    BY <2>1, PlaceType
  <2>3. Part(k.desiredCount, PlaceOf(k, head), b) \in 0..k.desiredCount
    BY <1>1, <2>1, <2>2, PartValue
  <2> QED BY <1>1, <1>2, <2>1, <2>3 DEF ShareOf, ClaimOf
<1>3. CASE k.pc = "overcommit"
  BY <1>1, <1>3 DEF CallOK, ShareOf, ClaimOf
<1>4. CASE k.pc = "take"
  BY <1>1, <1>4 DEF CallOK, ShareOf, ClaimOf
<1>5. CASE k.pc \notin {"recheck", "overcommit", "take"}
  BY <1>1, <1>5 DEF ShareOf, ClaimOf
<1> QED BY <1>2, <1>3, <1>4, <1>5

\* What a step of consumer c, which makes its call k, changes in the sums.
Effect(calls, after, c, k) ==
    /\ CallsOK(after)
    /\ after[c] = k /\ \A d \in Consumers : d # c => after[d] = calls[d]
    /\ Total(Claims(calls)) \in Nat /\ Total(Claims(after)) \in Nat
    /\ ClaimOf(calls[c]) \in 0..MaxDemand /\ ClaimOf(k) \in 0..MaxDemand
    /\ Total(Claims(after)) + ClaimOf(calls[c]) = Total(Claims(calls)) + ClaimOf(k)
    /\ \A head \in Index : \A b \in Nat :
          /\ Total(Shares(calls, head, b)) \in Nat
          /\ Total(Shares(after, head, b)) \in Nat
          /\ ShareOf(calls[c], head, b) \in Nat /\ ShareOf(k, head, b) \in Nat
          /\ ShareOf(calls[c], head, b) <= Total(Shares(calls, head, b))
          /\ Total(Shares(after, head, b)) + ShareOf(calls[c], head, b)
               = Total(Shares(calls, head, b)) + ShareOf(k, head, b)

\* One consumer takes a step: what the sums of claims and shares change by.
LEMMA CallStep ==
  ASSUME NEW calls, CallsOK(calls), NEW c \in Consumers, NEW k, CallOK(k)
  PROVE  Effect(calls, [calls EXCEPT ![c] = k], c, k)
<1> DEFINE after == [calls EXCEPT ![c] = k]
<1>1. after[c] = k /\ \A d \in Consumers : d # c => after[d] = calls[d]
  BY DEF CallsOK
<1>2. after = [d \in Consumers |-> after[d]]
  BY DEF CallsOK
<1> HIDE DEF after
<1>3. \A d \in Consumers : CallOK(calls[d]) /\ CallOK(after[d])
  BY <1>1 DEF CallsOK
<1>4. CallsOK(after)
  BY <1>2, <1>3 DEF CallsOK
<1>5. IsFiniteSet(Consumers) /\ MaxDemand \in Nat /\ 0 \in Index /\ 0 \in Nat
  BY ClaimsAssumption, Width, BlockSizeAssumption DEF Index
<1>6. \A d \in Consumers : ClaimOf(calls[d]) \in 0..MaxDemand /\ ClaimOf(after[d]) \in 0..MaxDemand
  BY <1>3, <1>5, ShareValue
<1>7. Claims(calls) \in [Consumers -> Nat] /\ Claims(after) \in [Consumers -> Nat]
  BY <1>5, <1>6 DEF Claims
<1>8. \A d \in Consumers : d # c => Claims(after)[d] = Claims(calls)[d]
  BY <1>1 DEF Claims
<1>9. Claims(calls)[c] = ClaimOf(calls[c]) /\ Claims(after)[c] = ClaimOf(k)
  BY <1>1 DEF Claims
<1>10. /\ Total(Claims(calls)) \in Nat /\ Total(Claims(after)) \in Nat
       /\ Total(Claims(after)) + ClaimOf(calls[c]) = Total(Claims(calls)) + ClaimOf(k)
  BY <1>5, <1>7, <1>8, <1>9, TotalStep
<1>11. ASSUME NEW head \in Index, NEW b \in Nat
       PROVE  /\ Total(Shares(calls, head, b)) \in Nat
              /\ Total(Shares(after, head, b)) \in Nat
              /\ ShareOf(calls[c], head, b) \in Nat /\ ShareOf(k, head, b) \in Nat
              /\ ShareOf(calls[c], head, b) <= Total(Shares(calls, head, b))
              /\ Total(Shares(after, head, b)) + ShareOf(calls[c], head, b)
                   = Total(Shares(calls, head, b)) + ShareOf(k, head, b)
  <2>1. \A d \in Consumers : ShareOf(calls[d], head, b) \in Nat /\ ShareOf(after[d], head, b) \in Nat
    BY <1>3, ShareValue
  <2>2. Shares(calls, head, b) \in [Consumers -> Nat] /\ Shares(after, head, b) \in [Consumers -> Nat]
    BY <2>1 DEF Shares
  <2>3. \A d \in Consumers : d # c => Shares(after, head, b)[d] = Shares(calls, head, b)[d]
    BY <1>1 DEF Shares
  <2>4. /\ Shares(calls, head, b)[c] = ShareOf(calls[c], head, b)
        /\ Shares(after, head, b)[c] = ShareOf(k, head, b)
    BY <1>1 DEF Shares
  <2>5. ShareOf(calls[c], head, b) \in Nat /\ ShareOf(k, head, b) \in Nat
    BY <1>1, <2>1
  <2> QED BY <1>5, <2>2, <2>3, <2>4, <2>5, TotalStep
<1>12. ClaimOf(calls[c]) \in 0..MaxDemand /\ ClaimOf(k) \in 0..MaxDemand
  BY <1>1, <1>6
<1>13. QED
  <2>1. Effect(calls, after, c, k)
    BY <1>1, <1>4, <1>10, <1>11, <1>12 DEF Effect
  <2> QED BY <2>1 DEF after

\* The claims of all consumers are within half the range of an index.
LEMMA ClaimsBound ==
  ASSUME NEW calls, CallsOK(calls)
  PROVE  Total(Claims(calls)) \in Nat /\ Total(Claims(calls)) + MaxLag <= Half
<1>1. IsFiniteSet(Consumers) /\ MaxDemand \in Nat /\ MaxLag \in Nat /\ 0 \in Index /\ 0 \in Nat
  BY ClaimsAssumption, Width, BlockSizeAssumption DEF Index
<1>2. \A d \in Consumers : ClaimOf(calls[d]) \in 0..MaxDemand
  BY <1>1, ShareValue DEF CallsOK
<1>3. Claims(calls) \in [Consumers -> 0..MaxDemand] /\ Claims(calls) \in [Consumers -> Nat]
  BY <1>1, <1>2 DEF Claims
<1>4. Total(Claims(calls)) \in Nat
  BY <1>1, <1>3, TotalType
<1>5. Total(Claims(calls)) <= Cardinality(Consumers) * MaxDemand
  BY <1>1, <1>3, TotalBound
<1>6. Cardinality(Consumers) \in Nat
  BY <1>1, FS_CardinalityType
<1> DEFINE most == Cardinality(Consumers) * MaxDemand
<1>7. most \in Nat
  BY <1>1, <1>6
<1>8. most + MaxLag <= Half
  BY ClaimsAssumption DEF Half
<1>9. Total(Claims(calls)) <= most
  BY <1>5
<1> HIDE DEF most
<1> QED BY <1>1, <1>4, <1>7, <1>8, <1>9, Width

\* When n elements are taken from the head, nobody's share becomes larger.
LEMMA SharesMoved ==
  ASSUME NEW calls, CallsOK(calls), NEW head \in Index, NEW n \in 0..Half, NEW b \in Nat
  PROVE  Total(Shares(calls, Plus(head, n), b)) <= Total(Shares(calls, head, b + n))
<1>1. Plus(head, n) \in Index /\ n \in Nat /\ b + n \in Nat
  <2>1. n \in 0..IndexSize
    BY Width
  <2> QED BY <2>1, PlusValue
<1>2. ASSUME NEW c \in Consumers
      PROVE  /\ ShareOf(calls[c], Plus(head, n), b) \in Nat
             /\ ShareOf(calls[c], head, b + n) \in Nat
             /\ ShareOf(calls[c], Plus(head, n), b) <= ShareOf(calls[c], head, b + n)
  <2>1. CallOK(calls[c])
    BY DEF CallsOK
  <2>2. ShareOf(calls[c], Plus(head, n), b) \in Nat /\ ShareOf(calls[c], head, b + n) \in Nat
    BY <1>1, <2>1, ShareValue
  <2>3. CASE calls[c].pc = "recheck"
    <3>1. /\ calls[c].myDequeueCount \in Index /\ calls[c].overcommit \in Index
          /\ calls[c].desiredCount \in 0..MaxDemand
      BY <2>1, <2>3 DEF CallOK
    <3>2. PlaceOf(calls[c], head) \in Int /\ PlaceOf(calls[c], Plus(head, n)) \in Int
      BY <1>1, <3>1, PlaceType
    <3>3. PlaceOf(calls[c], Plus(head, n)) >= PlaceOf(calls[c], head) - n
      BY <3>1, MovedPlace
    <3>4. calls[c].desiredCount \in Nat
      BY <3>1, ClaimsAssumption
    <3>5. Part(calls[c].desiredCount, PlaceOf(calls[c], Plus(head, n)), b)
            <= Part(calls[c].desiredCount, PlaceOf(calls[c], head), b + n)
      BY <1>1, <3>2, <3>3, <3>4, PartMoved
    <3> QED BY <2>2, <2>3, <3>5 DEF ShareOf
  <2>4. CASE calls[c].pc # "recheck"
    <3>1. ShareOf(calls[c], Plus(head, n), b) = ShareOf(calls[c], head, b + n)
      BY <2>4 DEF ShareOf
    <3> QED BY <2>2, <3>1
  <2> QED BY <2>3, <2>4
<1>3. /\ Shares(calls, Plus(head, n), b) \in [Consumers -> Nat]
      /\ Shares(calls, head, b + n) \in [Consumers -> Nat]
      /\ \A c \in Consumers : Shares(calls, Plus(head, n), b)[c] <= Shares(calls, head, b + n)[c]
  BY <1>2 DEF Shares
<1> QED BY <1>3, ClaimsAssumption, TotalLess

-----------------------------------------------------------------------------
(* The counters *)

\* How raising a counter changes the differences between them.
LEMMA Raised ==
  ASSUME NEW a \in Index, NEW b \in Index, NEW h \in Index, NEW n \in 0..Half, NEW p \in 0..Half
  PROVE  /\ Plus(a, n) \in Index
         /\ Minus(a, b) + n < IndexSize => Minus(Plus(a, n), b) = Minus(a, b) + n
         /\ n <= Minus(a, b) => Minus(a, Plus(b, n)) = Minus(a, b) - n
         /\ Minus(a, b) = Plus(h, p) =>
               /\ Minus(Plus(a, n), b) = Plus(h, p + n)
               /\ n <= p => Minus(a, Plus(b, n)) = Plus(h, p - n)
               /\ n <= p => Minus(a, b) = Plus(Plus(h, n), p - n)
<1> DEFINE an == Plus(a, n)
           bn == Plus(b, n)
           hn == Plus(h, n)
           x == Minus(a, b)
           y == Minus(an, b)
           z == Minus(a, bn)
           u == Plus(h, p)
           more == Plus(h, p + n)
           less == Plus(h, p - n)
           rest == Plus(hn, p - n)
<1>1. /\ n \in 0..IndexSize /\ p \in 0..IndexSize /\ p + n \in 0..IndexSize
      /\ n <= p => p - n \in 0..IndexSize
  BY Width
<1>2. an \in Index /\ an = IF a + n < IndexSize THEN a + n ELSE a + n - IndexSize
  BY <1>1, PlusValue
<1>3. bn \in Index /\ bn = IF b + n < IndexSize THEN b + n ELSE b + n - IndexSize
  BY <1>1, PlusValue
<1>4. hn \in Index /\ hn = IF h + n < IndexSize THEN h + n ELSE h + n - IndexSize
  BY <1>1, PlusValue
<1>5. x \in Index /\ x = IF b <= a THEN a - b ELSE a - b + IndexSize
  BY MinusValue
<1>6. y \in Index /\ y = IF b <= an THEN an - b ELSE an - b + IndexSize
  <2> HIDE DEF an
  <2> QED BY <1>2, MinusValue
<1>7. z \in Index /\ z = IF bn <= a THEN a - bn ELSE a - bn + IndexSize
  <2> HIDE DEF bn
  <2> QED BY <1>3, MinusValue
<1>8. u = IF h + p < IndexSize THEN h + p ELSE h + p - IndexSize
  BY <1>1, PlusValue
<1>9. more = IF h + (p + n) < IndexSize THEN h + (p + n) ELSE h + (p + n) - IndexSize
  BY <1>1, PlusValue
<1>10. n <= p => less = IF h + (p - n) < IndexSize THEN h + (p - n) ELSE h + (p - n) - IndexSize
  BY <1>1, PlusValue
<1>11. n <= p => rest = IF hn + (p - n) < IndexSize THEN hn + (p - n) ELSE hn + (p - n) - IndexSize
  <2> HIDE DEF hn
  <2> QED BY <1>1, <1>4, PlusValue
<1>12. a \in Index /\ b \in Index /\ h \in Index /\ n \in 0..Half /\ p \in 0..Half
  OBVIOUS
<1> HIDE DEF an, bn, hn, x, y, z, u, more, less, rest
<1>13. x + n < IndexSize => y = x + n
  BY ONLY <1>2, <1>5, <1>6, <1>12, Width DEF Index
<1>14. n <= x => z = x - n
  BY ONLY <1>3, <1>5, <1>7, <1>12, Width DEF Index
<1>15. x = u => y = more
  BY ONLY <1>2, <1>5, <1>6, <1>8, <1>9, <1>12, Width DEF Index
<1>16. x = u /\ n <= p => z = less
  BY ONLY <1>3, <1>5, <1>7, <1>8, <1>10, <1>12, Width DEF Index
<1>17. x = u /\ n <= p => x = rest
  BY ONLY <1>4, <1>8, <1>11, <1>12, Width DEF Index
<1>18. /\ an \in Index
       /\ x + n < IndexSize => y = x + n
       /\ n <= x => z = x - n
       /\ x = u => /\ y = more
                   /\ n <= p => z = less
                   /\ n <= p => x = rest
  BY <1>2, <1>13, <1>14, <1>15, <1>16, <1>17
<1> QED BY <1>18 DEF an, bn, hn, x, y, z, u, more, less, rest

\* The elements that are in the queue fit in half the range of an index.
Fits == Minus(tailIndex, headIndex) <= Half

\* A step of a consumer that leaves the counters alone and does not enlarge its
\* share or change its claim.
LEMMA QuietStep ==
  ASSUME ClaimsInv, NEW c \in Consumers, NEW k, CallOK(k),
         call' = [call EXCEPT ![c] = k], ClaimOf(k) = ClaimOf(call[c]),
         \A b \in Nat : Minus(tailIndex, headIndex) <= b =>
            ShareOf(k, headIndex, b) <= ShareOf(call[c], headIndex, b),
         k.pc = "claim" => Lag(k) <= MaxLag,
         UNCHANGED <<counters, prod>>
  PROVE  ClaimsInv'
<1>1. /\ tailIndex' = tailIndex /\ headIndex' = headIndex /\ prod' = prod
      /\ dequeueOptimisticCount' = dequeueOptimisticCount /\ dequeueOvercommit' = dequeueOvercommit
  BY DEF counters
<1>2. /\ CountersOK /\ CallsOK(call) /\ ProdOK(prod) /\ LagsOK(call, dequeueOvercommit)
      /\ ClaimsOK(call, headIndex, dequeueOptimisticCount, dequeueOvercommit)
      /\ SharesOK(call, tailIndex, headIndex)
  BY DEF ClaimsInv
<1> DEFINE after == [call EXCEPT ![c] = k]
<1>3. Effect(call, after, c, k)
  BY <1>2, CallStep
<1>4. call' = after
  OBVIOUS
<1> HIDE DEF after
<1>5. CountersOK' /\ ProdOK(prod')
  BY <1>1, <1>2 DEF CountersOK
<1>6. LagsOK(after, dequeueOvercommit)
  BY <1>2, <1>3 DEF LagsOK, Lag, Effect
<1>7. Total(Claims(after)) = Total(Claims(call))
  BY <1>3, ClaimsAssumption DEF Effect
<1>8. ClaimsOK(after, headIndex, dequeueOptimisticCount, dequeueOvercommit)
  BY <1>2, <1>7 DEF ClaimsOK
<1>9. SharesOK(after, tailIndex, headIndex)
  <2> SUFFICES ASSUME NEW b \in Nat, Minus(tailIndex, headIndex) <= b
               PROVE  Total(Shares(after, headIndex, b)) <= b
    BY DEF SharesOK
  <2>1. headIndex \in Index
    BY <1>2 DEF CountersOK
  <2>2. Total(Shares(call, headIndex, b)) <= b
    BY <1>2 DEF SharesOK
  <2>3. ShareOf(k, headIndex, b) <= ShareOf(call[c], headIndex, b)
    OBVIOUS
  <2> QED BY <1>3, <2>1, <2>2, <2>3 DEF Effect
<1> QED BY <1>1, <1>3, <1>4, <1>5, <1>6, <1>8, <1>9 DEF ClaimsInv, Effect

\* Unfolding of the invariant.
LEMMA ClaimsInvParts ==
  ASSUME ClaimsInv
  PROVE  /\ tailIndex \in Index /\ headIndex \in Index
         /\ dequeueOptimisticCount \in Index /\ dequeueOvercommit \in Index
         /\ CallsOK(call) /\ ProdOK(prod) /\ LagsOK(call, dequeueOvercommit)
         /\ ClaimsOK(call, headIndex, dequeueOptimisticCount, dequeueOvercommit)
         /\ SharesOK(call, tailIndex, headIndex)
         /\ \A c \in Consumers : CallOK(call[c])
         /\ Minus(tailIndex, headIndex) \in Index /\ Minus(tailIndex, headIndex) \in Nat
BY MinusValue DEF ClaimsInv, CountersOK, CallsOK, Index

\* The pcs at which a call matters to the counters.
Counting == {"claim", "recheck", "overcommit", "take"}

\* A step between two places where a call does not matter to the counters.
LEMMA IdleStep ==
  ASSUME ClaimsInv, NEW c \in Consumers, NEW k, CallShape(k), k.pc \notin Counting,
         call[c].pc \notin Counting, call' = [call EXCEPT ![c] = k], UNCHANGED <<counters, prod>>
  PROVE  ClaimsInv'
<1>1. CallOK(k) /\ k.pc # "claim"
  BY DEF CallOK, Counting
<1>2. ClaimOf(k) = 0 /\ ClaimOf(call[c]) = 0
  BY DEF ClaimOf, Counting
<1>3. \A b \in Nat : ShareOf(k, headIndex, b) = 0 /\ ShareOf(call[c], headIndex, b) = 0
  BY DEF ShareOf, Counting
<1>4. \A b \in Nat : Minus(tailIndex, headIndex) <= b =>
        ShareOf(k, headIndex, b) <= ShareOf(call[c], headIndex, b)
  BY <1>3
<1> QED BY <1>1, <1>2, <1>4, QuietStep

\* A consumer outside of dequeue.
LEMMA NoCallShape == CallShape(NoCall) /\ NoCall.pc = "idle"
BY DEF NoCall, CallShape, CallFields

\* The first look at the counters claims nothing.
LEMMA LookStep ==
  ASSUME ClaimsInv, NEW c \in Consumers, NEW max \in 1..MaxDemand, Look(c, max), UNCHANGED prod
  PROVE  ClaimsInv'
<1> DEFINE available == Minus(tailIndex, Minus(dequeueOptimisticCount, dequeueOvercommit))
           k == [NoCall EXCEPT !.pc = "claim", !.overcommit = dequeueOvercommit,
                               !.desiredCount = Smaller(available, max)]
<1>1. /\ call[c].pc = "idle" /\ call' = [call EXCEPT ![c] = k]
      /\ UNCHANGED <<counters, prod>>
  BY DEF Look, SetCall
<1>2. available \in Index
  <2>1. Minus(dequeueOptimisticCount, dequeueOvercommit) \in Index
    BY ClaimsInvParts, MinusValue
  <2> QED BY <2>1, ClaimsInvParts, MinusValue
<1> HIDE DEF available
<1>3. /\ CallShape(k) /\ k.pc = "claim" /\ k.overcommit = dequeueOvercommit
      /\ k.desiredCount = Smaller(available, max)
  BY NoCallShape DEF CallShape, CallFields
<1>4. Smaller(available, max) \in 0..MaxDemand
  BY <1>2, ClaimsAssumption, Width DEF Smaller, Index
<1> HIDE DEF k
<1>5. CallOK(k)
  BY <1>3, <1>4, ClaimsInvParts DEF CallOK
<1>6. Lag(k) = 0
  <2>1. Minus(dequeueOvercommit, dequeueOvercommit) = 0
    BY ClaimsInvParts, MinusValue DEF Index
  <2> QED BY <1>3, <2>1 DEF Lag
<1>7. Lag(k) <= MaxLag
  BY <1>6, ClaimsAssumption
<1>8. ClaimOf(k) = ClaimOf(call[c])
  BY <1>1, <1>3 DEF ClaimOf
<1>9. \A b \in Nat : ShareOf(k, headIndex, b) = 0 /\ ShareOf(call[c], headIndex, b) = 0
  BY <1>1, <1>3 DEF ShareOf
<1>10. \A b \in Nat : Minus(tailIndex, headIndex) <= b =>
        ShareOf(k, headIndex, b) <= ShareOf(call[c], headIndex, b)
  BY <1>9
<1> QED BY <1>1, <1>5, <1>7, <1>8, <1>10, QuietStep

\* What the second load of the tail secures is what the claim was worth already.
LEMMA RecheckStep ==
  ASSUME ClaimsInv, Fits, NEW c \in Consumers, Recheck(c), UNCHANGED prod
  PROVE  ClaimsInv'
<1> DEFINE k0 == call[c]
           k == [k0 EXCEPT !.pc = "overcommit", !.count = Existing(k0),
                           !.overcommit = 0, !.myDequeueCount = 0]
           s == Minus(tailIndex, headIndex)
<1>1. /\ k0.pc = "recheck" /\ call' = [call EXCEPT ![c] = k]
      /\ UNCHANGED <<counters, prod>>
  BY DEF Recheck, SetCall
<1>2. CallOK(k0)
  BY ClaimsInvParts
<1>3. /\ CallShape(k0) /\ k0.overcommit \in Index /\ k0.myDequeueCount \in Index
      /\ k0.desiredCount \in 0..MaxDemand
  BY <1>1, <1>2 DEF CallOK
<1>4. /\ CallShape(k) /\ k.pc = "overcommit" /\ k.count = Existing(k0)
      /\ k.desiredCount = k0.desiredCount
  <2> HIDE DEF k0
  <2> QED BY <1>3 DEF CallShape, CallFields
<1>5. k0.desiredCount \in Nat
  BY <1>3, ClaimsAssumption
<1>6. /\ Existing(k0) \in 0..k0.desiredCount
      /\ Existing(k0) <= Part(k0.desiredCount, PlaceOf(k0, headIndex), s)
  BY <1>3, <1>5, ClaimsInvParts, ExistingShare DEF Fits
<1> HIDE DEF k
<1>7. CallOK(k)
  BY <1>3, <1>4, <1>6 DEF CallOK
<1>8. ClaimOf(k) = ClaimOf(k0)
  BY <1>1, <1>4 DEF ClaimOf
<1>9. ASSUME NEW b \in Nat, s <= b
      PROVE  ShareOf(k, headIndex, b) <= ShareOf(k0, headIndex, b)
  <2>1. PlaceOf(k0, headIndex) \in Int
    BY <1>3, ClaimsInvParts, PlaceType
  <2>2. s \in Nat
    BY ClaimsInvParts
  <2> DEFINE x == Part(k0.desiredCount, PlaceOf(k0, headIndex), s)
             y == Part(k0.desiredCount, PlaceOf(k0, headIndex), b)
  <2>3. x <= y /\ x \in 0..k0.desiredCount /\ y \in 0..k0.desiredCount
    BY <1>5, <1>9, <2>1, <2>2, PartValue
  <2>4. ShareOf(k, headIndex, b) = Existing(k0) /\ ShareOf(k0, headIndex, b) = y
    BY <1>1, <1>4 DEF ShareOf
  <2>5. Existing(k0) <= x
    BY <1>6
  <2> HIDE DEF x, y
  <2> QED BY <1>5, <1>6, <2>3, <2>4, <2>5
<1>10. k.pc # "claim"
  BY <1>4
<1> QED BY <1>1, <1>7, <1>8, <1>9, <1>10, QuietStep

\* Nobody has a share larger than its claim.
LEMMA SharesWithinClaims ==
  ASSUME NEW calls, CallsOK(calls), NEW head \in Index, NEW b \in Nat
  PROVE  Total(Shares(calls, head, b)) <= Total(Claims(calls))
<1>1. \A c \in Consumers : /\ ClaimOf(calls[c]) \in 0..MaxDemand
                           /\ ShareOf(calls[c], head, b) \in Nat
                           /\ ShareOf(calls[c], head, b) <= ClaimOf(calls[c])
  BY ShareValue DEF CallsOK
<1>2. /\ Shares(calls, head, b) \in [Consumers -> Nat] /\ Claims(calls) \in [Consumers -> Nat]
      /\ \A c \in Consumers : Shares(calls, head, b)[c] <= Claims(calls)[c]
  BY <1>1, ClaimsAssumption DEF Shares, Claims
<1> QED BY <1>2, ClaimsAssumption, TotalLess

\* With more elements in the queue shares are larger.
LEMMA ShareGrows ==
  ASSUME NEW k, CallOK(k), NEW head \in Index, NEW b \in Nat, NEW m \in Nat, b <= m
  PROVE  ShareOf(k, head, b) <= ShareOf(k, head, m)
<1>1. ShareOf(k, head, b) \in Nat /\ ShareOf(k, head, m) \in Nat
  BY ShareValue
<1>2. CASE k.pc = "recheck"
  <2>1. /\ k.myDequeueCount \in Index /\ k.overcommit \in Index /\ k.desiredCount \in Nat
    BY <1>2, ClaimsAssumption DEF CallOK
  <2>2. PlaceOf(k, head) \in Int
    BY <2>1, PlaceType
  <2>3. Part(k.desiredCount, PlaceOf(k, head), b) <= Part(k.desiredCount, PlaceOf(k, head), m)
    BY <2>1, <2>2, PartValue
  <2> QED BY <1>2, <2>3 DEF ShareOf
<1>3. CASE k.pc # "recheck"
  <2>1. ShareOf(k, head, b) = ShareOf(k, head, m)
    BY <1>3 DEF ShareOf
  <2> QED BY <1>1, <2>1
<1> QED BY <1>2, <1>3

\* A new claim has its place behind all others, so that with any number of
\* elements it only adds what lies behind what the others can have.
LEMMA ClaimStep ==
  ASSUME ClaimsInv, NEW c \in Consumers, Claim(c), UNCHANGED prod
  PROVE  ClaimsInv'
<1> DEFINE k0 == call[c]
           d == k0.desiredCount
           k == [k0 EXCEPT !.pc = "recheck", !.myDequeueCount = dequeueOptimisticCount]
           after == [call EXCEPT ![c] = k]
           claims == Total(Claims(call))
           lag == Lag(k0)
<1>1. /\ k0.pc = "claim" /\ call' = after
      /\ dequeueOptimisticCount' = Plus(dequeueOptimisticCount, d)
      /\ tailIndex' = tailIndex /\ headIndex' = headIndex
      /\ dequeueOvercommit' = dequeueOvercommit /\ prod' = prod
  BY DEF Claim, SetCall
<1>2. CallOK(k0)
  BY ClaimsInvParts
<1>3. CallShape(k0) /\ k0.overcommit \in Index /\ d \in 0..MaxDemand
  BY <1>1, <1>2 DEF CallOK
<1>4. /\ CallShape(k) /\ k.pc = "recheck" /\ k.myDequeueCount = dequeueOptimisticCount
      /\ k.desiredCount = d /\ k.overcommit = k0.overcommit
  <2> HIDE DEF k0
  <2> QED BY <1>3 DEF CallShape, CallFields
<1>5. CallOK(k)
  <2> HIDE DEF k, d
  <2> QED BY <1>3, <1>4, ClaimsInvParts DEF CallOK
<1>6. Effect(call, after, c, k)
  <2> HIDE DEF k
  <2> QED BY <1>5, ClaimsInvParts, CallStep
<1>7. lag \in Nat /\ lag <= MaxLag
  <2>1. lag \in Index
    BY <1>3, ClaimsInvParts, MinusValue DEF Lag
  <2>2. lag <= MaxLag
    BY <1>1, ClaimsInvParts DEF LagsOK, Lag
  <2> QED BY <2>1, <2>2 DEF Index
<1>8. claims \in Nat /\ claims + MaxLag <= Half
  BY ClaimsInvParts, ClaimsBound
<1>9. ClaimOf(k0) = 0 /\ ClaimOf(k) = d
  <2> HIDE DEF k0, d, k
  <2> QED BY <1>1, <1>4 DEF ClaimOf
<1>10. PlaceOf(k, headIndex) = claims + lag
  <2>1. Minus(dequeueOptimisticCount, dequeueOvercommit) = Plus(headIndex, claims)
    BY ClaimsInvParts DEF ClaimsOK
  <2>2. claims + Minus(dequeueOvercommit, k.overcommit) <= Half
    <3>1. lag = Minus(dequeueOvercommit, k.overcommit)
      BY <1>4 DEF Lag
    <3> HIDE DEF claims, lag, k
    <3> QED BY <1>7, <1>8, <3>1, ClaimsAssumption, Width
  <2>3. k.overcommit \in Index /\ k.myDequeueCount \in Index
    BY <1>3, <1>4, ClaimsInvParts
  <2>4. Minus(k.myDequeueCount, dequeueOvercommit) = Plus(headIndex, claims)
    BY <1>4, <2>1
  <2>5. PlaceOf(k, headIndex) = claims + Minus(dequeueOvercommit, k.overcommit)
    <3> HIDE DEF claims, k
    <3> QED BY <1>8, <2>2, <2>3, <2>4, ClaimsInvParts, NewPlace
  <2> QED BY <1>4, <2>5 DEF Lag
<1> HIDE DEF k0, d, k, after, claims, lag
<1>11. Total(Claims(after)) = claims + d
  BY <1>3, <1>6, <1>9, ClaimsAssumption DEF Effect, claims, k0
<1>12. d \in 0..Half /\ claims \in 0..Half
  <2>1. CallsOK(after)
    BY <1>6 DEF Effect
  <2>2. Total(Claims(after)) + MaxLag <= Half
    BY <2>1, ClaimsBound
  <2> QED BY <1>3, <1>8, <1>11, <2>2, ClaimsAssumption, Width
<1>13. ClaimsOK(after, headIndex, dequeueOptimisticCount', dequeueOvercommit)
  <2>1. Minus(dequeueOptimisticCount, dequeueOvercommit) = Plus(headIndex, claims)
    BY ClaimsInvParts DEF ClaimsOK, claims
  <2>2. Minus(Plus(dequeueOptimisticCount, d), dequeueOvercommit) = Plus(headIndex, claims + d)
    BY <1>12, <2>1, ClaimsInvParts, Raised
  <2> QED BY <1>1, <1>11, <2>2 DEF ClaimsOK
<1>14. SharesOK(after, tailIndex, headIndex)
  <2> SUFFICES ASSUME NEW b \in Nat, Minus(tailIndex, headIndex) <= b
               PROVE  Total(Shares(after, headIndex, b)) <= b
    BY DEF SharesOK
  <2> DEFINE t == Total(Shares(call, headIndex, b))
             u == Total(Shares(after, headIndex, b))
  <2>1. t <= b /\ t \in Nat
    BY <1>6, ClaimsInvParts DEF SharesOK, Effect
  <2>2. t <= claims
    BY ClaimsInvParts, SharesWithinClaims DEF claims
  <2>3. ShareOf(k0, headIndex, b) = 0 /\ ShareOf(k, headIndex, b) = Part(d, claims + lag, b)
    BY <1>1, <1>4, <1>10 DEF ShareOf
  <2>4. u \in Nat /\ u + ShareOf(k0, headIndex, b) = t + ShareOf(k, headIndex, b)
    BY <1>6, ClaimsInvParts DEF Effect, k0
  <2>5. d \in Nat /\ claims + lag \in Int
    BY <1>7, <1>8, <1>12
  <2>6. /\ Part(d, claims + lag, b) \in 0..d
        /\ claims + lag <= b => Part(d, claims + lag, b) <= b - (claims + lag)
        /\ b <= claims + lag => Part(d, claims + lag, b) = 0
    BY <2>5, PartValue
  <2> HIDE DEF t, u
  <2>7. u <= b
    BY <1>7, <1>8, <2>1, <2>2, <2>3, <2>4, <2>5, <2>6
  <2> QED BY <2>7 DEF u
<1>15. LagsOK(after, dequeueOvercommit)
  BY <1>4, <1>6, ClaimsInvParts DEF Effect, LagsOK
<1>16. CountersOK'
  <2>1. Plus(dequeueOptimisticCount, d) \in Index
    BY <1>12, Width, ClaimsInvParts, PlusValue
  <2> QED BY <1>1, <2>1, ClaimsInvParts DEF CountersOK
<1> QED BY <1>1, <1>6, <1>13, <1>14, <1>15, <1>16, ClaimsInvParts DEF ClaimsInv, Effect

\* What a consumer's share is worth: there are that many elements.
LEMMA ShareExists ==
  ASSUME ClaimsInv, NEW c \in Consumers, NEW n, n = ClaimOf(call[c]),
         n <= ShareOf(call[c], headIndex, Minus(tailIndex, headIndex))
  PROVE  /\ n \in 0..Half
         /\ n <= Minus(tailIndex, headIndex)
         /\ Minus(tailIndex, Plus(headIndex, n)) = Minus(tailIndex, headIndex) - n
<1> DEFINE s == Minus(tailIndex, headIndex)
           own == ShareOf(call[c], headIndex, s)
           t == Total(Shares(call, headIndex, s))
<1>1. Effect(call, [call EXCEPT ![c] = call[c]], c, call[c])
  BY ClaimsInvParts, CallStep
<1>2. s \in Nat /\ t <= s
  BY ClaimsInvParts DEF SharesOK
<1>3. own <= t /\ own \in Nat /\ t \in Nat /\ n \in 0..MaxDemand
  BY <1>1, <1>2, ClaimsInvParts DEF Effect
<1>4. n <= own
  OBVIOUS
<1>5. Total(Claims(call)) \in Nat /\ Total(Claims(call)) + MaxLag <= Half
  BY ClaimsInvParts, ClaimsBound
<1>6. n <= Total(Claims(call))
  <2>1. \A b \in Consumers : ClaimOf(call[b]) \in 0..MaxDemand
    BY ClaimsInvParts, ShareValue, <1>2
  <2>2. Claims(call) \in [Consumers -> Nat] /\ Claims(call)[c] = n
    BY <2>1, ClaimsAssumption DEF Claims
  <2> QED BY <2>2, ClaimsAssumption, TotalStep
<1> HIDE DEF s, own, t
<1>7. n \in 0..Half /\ n <= s
  BY <1>2, <1>3, <1>4, <1>5, <1>6, ClaimsAssumption, Width
<1>8. Minus(tailIndex, Plus(headIndex, n)) = s - n
  BY <1>7, ClaimsInvParts, Raised DEF s
<1> QED BY <1>7, <1>8 DEF s

\* A consumer takes its whole claim, all of which is in its share.
LEMMA TakeStep ==
  ASSUME ClaimsInv, Fits, NEW c \in Consumers, NEW pc, pc \in Counting, NEW n,
         TakeFrom(c, pc, n), UNCHANGED prod,
         n = ClaimOf(call[c]), n <= ShareOf(call[c], headIndex, Minus(tailIndex, headIndex))
  PROVE  ClaimsInv'
<1> DEFINE k0 == call[c]
           k == [NoCall EXCEPT !.pc = "load", !.count = n, !.index = headIndex]
           after == [call EXCEPT ![c] = k]
           claims == Total(Claims(call))
           s == Minus(tailIndex, headIndex)
           head == Plus(headIndex, n)
<1>1. /\ call' = after /\ headIndex' = head /\ tailIndex' = tailIndex
      /\ dequeueOptimisticCount' = dequeueOptimisticCount
      /\ dequeueOvercommit' = dequeueOvercommit /\ prod' = prod
  BY DEF TakeFrom, SetCall
<1>2. CallOK(k0)
  BY ClaimsInvParts
<1>3. CallShape(k) /\ k.pc = "load"
  BY NoCallShape DEF CallShape, CallFields
<1> HIDE DEF k
<1>4. CallOK(k)
  BY <1>3 DEF CallOK
<1>5. Effect(call, after, c, k)
  BY <1>4, ClaimsInvParts, CallStep
<1>6. ClaimOf(k) = 0 /\ \A h \in Index : \A b \in Nat : ShareOf(k, h, b) = 0
  BY <1>3 DEF ClaimOf, ShareOf
<1> HIDE DEF k0, after, claims, s, head
<1>7. claims \in Nat /\ claims <= Half
  BY ClaimsInvParts, ClaimsBound, ClaimsAssumption, Width DEF claims
<1>8. Total(Claims(after)) + n = claims /\ n \in Nat /\ Total(Claims(after)) \in Nat
  BY <1>5, <1>6, ClaimsAssumption DEF Effect, claims
<1>9. n \in 0..Half /\ claims \in 0..Half /\ n <= claims /\ Total(Claims(after)) = claims - n
  BY <1>7, <1>8, Width
<1>10. ClaimsOK(after, head, dequeueOptimisticCount, dequeueOvercommit)
  <2>1. Minus(dequeueOptimisticCount, dequeueOvercommit) = Plus(headIndex, claims)
    BY ClaimsInvParts DEF ClaimsOK, claims
  <2>2. Minus(dequeueOptimisticCount, dequeueOvercommit) = Plus(Plus(headIndex, n), claims - n)
    BY <1>9, <2>1, ClaimsInvParts, Raised
  <2> QED BY <1>9, <2>2 DEF ClaimsOK, head
<1>11. n <= s /\ s \in Nat /\ Minus(tailIndex, head) = s - n
  BY ClaimsInvParts, ShareExists DEF s, head
<1>12. SharesOK(after, tailIndex, head)
  <2> SUFFICES ASSUME NEW b \in Nat, Minus(tailIndex, head) <= b
               PROVE  Total(Shares(after, head, b)) <= b
    BY DEF SharesOK
  <2> DEFINE m == b + n
             t == Total(Shares(call, headIndex, m))
             u == Total(Shares(after, headIndex, m))
             v == Total(Shares(after, head, b))
             own == ShareOf(call[c], headIndex, m)
  <2>1. m \in Nat /\ s <= m
    BY <1>8, <1>11
  <2>2. v <= u
    BY <1>5, <1>9, ClaimsInvParts, SharesMoved DEF Effect, head
  <2> HIDE DEF m
  <2>3. t <= m
    BY <2>1, ClaimsInvParts DEF SharesOK, s
  <2>4. /\ t \in Nat /\ u \in Nat /\ own \in Nat /\ u + own = t
    BY <1>5, <1>6, <2>1, ClaimsInvParts DEF Effect
  <2>5. n <= own
    <3>1. ShareOf(call[c], headIndex, s) <= own
      BY <1>2, <1>11, <2>1, ClaimsInvParts, ShareGrows DEF k0
    <3>2. n <= ShareOf(call[c], headIndex, s)
      BY DEF s
    <3>3. ShareOf(call[c], headIndex, s) \in Nat
      BY <1>2, <1>11, ClaimsInvParts, ShareValue DEF k0
    <3> HIDE DEF own
    <3> QED BY <1>8, <2>4, <3>1, <3>2, <3>3
  <2>6. v \in Nat
    <3>1. head \in Index
      BY <1>9, ClaimsInvParts, Raised DEF head
    <3>2. Total(Shares(after, head, b)) \in Nat
      BY <1>5, <3>1 DEF Effect
    <3> QED BY <3>2
  <2> HIDE DEF t, u, v, own
  <2>7. v <= b
    BY <1>8, <2>1, <2>2, <2>3, <2>4, <2>5, <2>6 DEF m
  <2> QED BY <2>7 DEF v
<1>13. LagsOK(after, dequeueOvercommit)
  BY <1>3, <1>5, ClaimsInvParts DEF Effect, LagsOK
<1>14. CountersOK'
  <2>1. head \in Index
    BY <1>9, ClaimsInvParts, Raised DEF head
  <2> QED BY <1>1, <2>1, ClaimsInvParts DEF CountersOK
<1> QED BY <1>1, <1>5, <1>10, <1>12, <1>13, <1>14, ClaimsInvParts DEF ClaimsInv, Effect

\* What was claimed in vain is taken back.
LEMMA OvercommitStep ==
  ASSUME ClaimsInv, NEW c \in Consumers, Overcommit(c), UNCHANGED prod
  PROVE  ClaimsInv'
<1> DEFINE k0 == call[c]
           x == k0.desiredCount - k0.count
           k == IF k0.count = 0 THEN NoCall ELSE [NoCall EXCEPT !.pc = "take", !.count = k0.count]
           after == [call EXCEPT ![c] = k]
           claims == Total(Claims(call))
           over == Plus(dequeueOvercommit, x)
<1>1. /\ k0.pc = "overcommit" /\ call' = after /\ dequeueOvercommit' = over
      /\ tailIndex' = tailIndex /\ headIndex' = headIndex
      /\ dequeueOptimisticCount' = dequeueOptimisticCount /\ prod' = prod
  BY DEF Overcommit, SetCall
<1>2. \A e \in Consumers : call[e].pc = "claim" =>
         Lag(call[e]) + k0.desiredCount - k0.count <= MaxLag
  BY DEF Overcommit
<1>3. CallOK(k0)
  BY ClaimsInvParts
<1>4. k0.desiredCount \in 0..MaxDemand /\ k0.count \in 0..k0.desiredCount
  BY <1>1, <1>3 DEF CallOK
<1>5. x \in 0..MaxDemand /\ k0.count \in 0..MaxDemand /\ MaxDemand \in Nat
  BY <1>4, ClaimsAssumption
<1>6. /\ CallShape(k) /\ k.pc \in {"idle", "take"}
      /\ k.pc = "idle" => k0.count = 0
      /\ k.pc = "take" => k.count = k0.count
  <2>1. CASE k0.count = 0
    BY <2>1, NoCallShape
  <2>2. CASE k0.count # 0
    <3> DEFINE j == [NoCall EXCEPT !.pc = "take", !.count = k0.count]
    <3>1. CallShape(j) /\ j.pc = "take" /\ j.count = k0.count
      BY NoCallShape DEF CallShape, CallFields
    <3>2. k = j
      BY <2>2
    <3> HIDE DEF j, k
    <3> QED BY <3>1, <3>2
  <2> QED BY <2>1, <2>2
<1> HIDE DEF k, k0
<1>7. CallOK(k)
  BY <1>5, <1>6 DEF CallOK
<1>8. Effect(call, after, c, k)
  BY <1>7, ClaimsInvParts, CallStep
<1>9. ClaimOf(k0) = k0.desiredCount /\ ClaimOf(k) = k0.count
  BY <1>1, <1>6 DEF ClaimOf
<1>10. \A b \in Nat : /\ ShareOf(k0, headIndex, b) = k0.count
                      /\ ShareOf(k, headIndex, b) = k0.count
  BY <1>1, <1>6 DEF ShareOf
<1> HIDE DEF after, claims, over, x
<1>11. claims \in Nat /\ claims <= Half
  BY ClaimsInvParts, ClaimsBound, ClaimsAssumption, Width DEF claims
<1>12. Total(Claims(after)) + k0.desiredCount = claims + k0.count /\ Total(Claims(after)) \in Nat
  BY <1>8, <1>9 DEF Effect, claims, k0
<1>13. x \in 0..Half /\ claims \in 0..Half /\ x <= claims /\ Total(Claims(after)) = claims - x
  BY <1>4, <1>5, <1>11, <1>12, Width DEF x
<1>14. over \in Index
  BY <1>13, ClaimsInvParts, Raised DEF over
<1>15. ClaimsOK(after, headIndex, dequeueOptimisticCount, over)
  <2>1. Minus(dequeueOptimisticCount, dequeueOvercommit) = Plus(headIndex, claims)
    BY ClaimsInvParts DEF ClaimsOK, claims
  <2>2. Minus(dequeueOptimisticCount, Plus(dequeueOvercommit, x)) = Plus(headIndex, claims - x)
    BY <1>13, <2>1, ClaimsInvParts, Raised
  <2> QED BY <1>13, <2>2 DEF ClaimsOK, over
<1>16. SharesOK(after, tailIndex, headIndex)
  <2> SUFFICES ASSUME NEW b \in Nat, Minus(tailIndex, headIndex) <= b
               PROVE  Total(Shares(after, headIndex, b)) <= b
    BY DEF SharesOK
  <2>1. Total(Shares(call, headIndex, b)) <= b
    BY ClaimsInvParts DEF SharesOK
  <2>2. /\ Total(Shares(after, headIndex, b)) + ShareOf(k0, headIndex, b)
             = Total(Shares(call, headIndex, b)) + ShareOf(k, headIndex, b)
        /\ Total(Shares(after, headIndex, b)) \in Nat /\ Total(Shares(call, headIndex, b)) \in Nat
    BY <1>8, ClaimsInvParts DEF Effect, k0
  <2>3. ShareOf(k0, headIndex, b) = k0.count /\ ShareOf(k, headIndex, b) = k0.count /\ k0.count \in Nat
    BY <1>5, <1>10
  <2> QED BY <2>1, <2>2, <2>3
<1>17. LagsOK(after, over)
  <2> SUFFICES ASSUME NEW e \in Consumers, after[e].pc = "claim"
               PROVE  Minus(over, after[e].overcommit) <= MaxLag
    BY DEF LagsOK
  <2>1. e # c
    BY <1>6, <1>8 DEF Effect
  <2>2. after[e] = call[e] /\ call[e].pc = "claim"
    BY <1>8, <2>1 DEF Effect
  <2>3. call[e].overcommit \in Index
    BY <2>2, ClaimsInvParts DEF CallOK
  <2> DEFINE lag == Minus(dequeueOvercommit, call[e].overcommit)
  <2>4. lag \in Index
    BY <2>3, ClaimsInvParts, MinusValue
  <2>5. lag + x <= MaxLag
    <3>1. lag + k0.desiredCount - k0.count <= MaxLag
      BY <1>2, <2>2 DEF Lag
    <3> HIDE DEF lag
    <3> QED BY <1>4, <1>5, <2>4, <3>1, Width, ClaimsAssumption DEF x, Index
  <2>6. lag + x < IndexSize
    <3>1. MaxLag <= Half /\ MaxLag \in Nat
      <4>1. Total(Claims(call)) \in Nat /\ Total(Claims(call)) + MaxLag <= Half
        BY ClaimsInvParts, ClaimsBound
      <4> QED BY <4>1, ClaimsAssumption, Width
    <3> HIDE DEF lag
    <3> QED BY <1>5, <2>4, <2>5, <3>1, Width DEF Index
  <2>7. Minus(Plus(dequeueOvercommit, x), call[e].overcommit) = lag + x
    BY <1>13, <2>3, <2>6, ClaimsInvParts, Raised
  <2> QED BY <2>2, <2>5, <2>7 DEF over
<1>18. CountersOK'
  BY <1>1, <1>14, ClaimsInvParts DEF CountersOK
<1> QED BY <1>1, <1>8, <1>15, <1>16, <1>17, <1>18, ClaimsInvParts DEF ClaimsInv, Effect

\* The consumers that take elements.
Taking(c, pc, n) ==
    /\ TakeFrom(c, pc, n) /\ pc \in Counting
    /\ n = ClaimOf(call[c]) /\ n <= ShareOf(call[c], headIndex, Minus(tailIndex, headIndex))

\* Both ways of raising headIndex raise it by a claim that is secured.
LEMMA TakesShare ==
  ASSUME ClaimsInv, Fits, NEW c \in Consumers, TakeAll(c) \/ Take(c)
  PROVE  \E pc, n : Taking(c, pc, n)
<1> DEFINE k0 == call[c]
           s == Minus(tailIndex, headIndex)
<1>1. CallOK(k0)
  BY ClaimsInvParts
<1>2. CASE TakeAll(c)
  <2> DEFINE d == k0.desiredCount
  <2>1. k0.pc = "recheck" /\ Existing(k0) = d /\ TakeFrom(c, "recheck", d)
    BY <1>2 DEF TakeAll, TakeFrom, SetCall
  <2>2. k0.overcommit \in Index /\ k0.myDequeueCount \in Index /\ d \in Nat
    BY <1>1, <2>1, ClaimsAssumption DEF CallOK
  <2>3. d <= Part(d, PlaceOf(k0, headIndex), s)
    BY <2>1, <2>2, ClaimsInvParts, ExistingShare DEF Fits
  <2>4. d = ClaimOf(k0) /\ d <= ShareOf(k0, headIndex, s)
    BY <2>1, <2>3 DEF ClaimOf, ShareOf
  <2>5. "recheck" \in Counting
    BY DEF Counting
  <2> HIDE DEF d
  <2>6. Taking(c, "recheck", d)
    BY <2>1, <2>4, <2>5 DEF Taking
  <2> QED BY <2>6
<1>3. CASE Take(c)
  <2> DEFINE n == k0.count
  <2>1. k0.pc = "take" /\ TakeFrom(c, "take", n)
    BY <1>3 DEF Take, TakeFrom, SetCall
  <2>2. n = ClaimOf(k0) /\ n = ShareOf(k0, headIndex, s)
    BY <2>1 DEF ClaimOf, ShareOf
  <2>3. n \in Nat
    BY <1>1, <2>1, ClaimsAssumption DEF CallOK
  <2>4. n <= ShareOf(k0, headIndex, s)
    BY <2>2, <2>3
  <2>5. "take" \in Counting
    BY DEF Counting
  <2> HIDE DEF n
  <2>6. Taking(c, "take", n)
    BY <2>1, <2>2, <2>4, <2>5 DEF Taking
  <2> QED BY <2>6
<1> QED BY <1>2, <1>3

\* The steps of a dequeue.
LEMMA DequeueStep ==
  ASSUME ClaimsInv, Fits, NEW c \in Consumers, Dequeuing(c)
  PROVE  ClaimsInv'
<1>1. UNCHANGED prod
  BY DEF Dequeuing
<1>2. CallOK(call[c]) /\ CallShape(call[c])
  BY ClaimsInvParts DEF CallOK
<1> DEFINE k0 == call[c]
<1>3. ASSUME NEW max \in 1..MaxDemand, Look(c, max) PROVE ClaimsInv'
  BY <1>1, <1>3, LookStep
<1>4. CASE Claim(c)
  BY <1>1, <1>4, ClaimStep
<1>5. CASE TakeAll(c) \/ Take(c)
  <2>1. PICK pc, n : Taking(c, pc, n)
    BY <1>5, TakesShare
  <2> QED BY <1>1, <2>1, TakeStep DEF Taking
<1>6. CASE Recheck(c)
  BY <1>1, <1>6, RecheckStep
<1>7. CASE Overcommit(c)
  BY <1>1, <1>7, OvercommitStep
<1>9. CASE Load(c)
  <2> DEFINE k == [k0 EXCEPT !.pc = "locate", !.header = Len(blockIndex), !.slot = Header.front]
  <2>1. k0.pc = "load" /\ call' = [call EXCEPT ![c] = k] /\ UNCHANGED counters
    BY <1>9 DEF Load, SetCall
  <2>2. CallShape(k) /\ k.pc = "locate"
    <3> HIDE DEF k0
    <3> QED BY <1>2 DEF CallShape, CallFields, k0
  <2> HIDE DEF k
  <2> QED BY <1>1, <2>1, <2>2, IdleStep DEF Counting
<1>10. ASSUME NEW size, NEW j, CallShape(j), j.pc \notin Counting
       PROVE  CallShape(Advance(j, size)) /\ Advance(j, size).pc \notin Counting
  <2>1. CASE j.count = InBlock(j)
    BY <2>1, NoCallShape DEF Advance, Counting
  <2>2. CASE j.count # InBlock(j)
    <3> DEFINE i == [j EXCEPT !.pc = "move", !.count = @ - InBlock(j), !.block = NoBlock,
                   !.index = Plus(@, InBlock(j)), !.slot = (@ + 1) % size]
    <3>1. CallShape(i) /\ i.pc = "move"
      BY <1>10 DEF CallShape, CallFields
    <3>2. Advance(j, size) = i
      BY <2>2 DEF Advance
    <3> HIDE DEF i
    <3> QED BY <3>1, <3>2 DEF Counting
  <2> QED BY <2>1, <2>2
<1>11. ASSUME NEW from, NEW k, SetCall(c, from, k), UNCHANGED counters,
              from \notin Counting, CallShape(k), k.pc \notin Counting
       PROVE  ClaimsInv'
  BY <1>1, <1>11, IdleStep DEF SetCall
<1>12. CASE Locate(c)
  <2> DEFINE h == blockIndex[k0.header]
             offset == Minus(Base(k0.index), h.entries[k0.slot].base) \div BLOCK_SIZE
             k == [k0 EXCEPT !.pc = "move", !.slot = (@ + offset) % h.size]
  <2>1. SetCall(c, "locate", k) /\ UNCHANGED counters
    BY <1>12 DEF Locate
  <2>2. CallShape(k) /\ k.pc = "move"
    <3> HIDE DEF k0, h, offset
    <3> QED BY <1>2 DEF CallShape, CallFields, k0
  <2> HIDE DEF k
  <2> QED BY <1>11, <2>1, <2>2 DEF Counting
<1>13. CASE ImplicitLocate(c)
  <2> DEFINE slot == SlotOf(blockIndex[k0.header], k0.slot, k0.index)
             k == [k0 EXCEPT !.pc = "move", !.slot = slot]
  <2>1. SetCall(c, "locate", k) /\ UNCHANGED counters
    BY <1>13 DEF ImplicitLocate
  <2>2. CallShape(k) /\ k.pc = "move"
    <3> HIDE DEF k0, slot
    <3> QED BY <1>2 DEF CallShape, CallFields, k0
  <2> HIDE DEF k
  <2> QED BY <1>11, <2>1, <2>2 DEF Counting
<1>14. ASSUME NEW b, MoveOut(c, b) PROVE ClaimsInv'
  <2> DEFINE k == [k0 EXCEPT !.pc = "release", !.block = b]
  <2>1. SetCall(c, "move", k) /\ UNCHANGED counters
    BY <1>14 DEF MoveOut
  <2>2. CallShape(k) /\ k.pc = "release"
    <3> HIDE DEF k0
    <3> QED BY <1>2 DEF CallShape, CallFields, k0
  <2> HIDE DEF k
  <2> QED BY <1>11, <2>1, <2>2 DEF Counting
<1>15. ASSUME NEW size, NEW from, from \notin Counting,
              SetCall(c, from, Advance(k0, size)), UNCHANGED counters
       PROVE  ClaimsInv'
  <2>1. k0.pc \notin Counting
    BY <1>15 DEF SetCall
  <2>2. CallShape(Advance(k0, size)) /\ Advance(k0, size).pc \notin Counting
    BY <1>2, <1>10, <2>1
  <2> QED BY <1>11, <1>15, <2>2
<1>16. CASE ExplicitRelease(c)
  BY <1>15, <1>16 DEF ExplicitRelease, Counting
<1>17. CASE ImplicitRelease(c)
  <2>1. CASE LastCell(k0)
    <3> DEFINE k == [k0 EXCEPT !.pc = "erase"]
    <3>1. SetCall(c, "release", k) /\ UNCHANGED counters
      BY <1>17, <2>1 DEF ImplicitRelease
    <3>2. CallShape(k) /\ k.pc = "erase"
      <4> HIDE DEF k0
      <4> QED BY <1>2 DEF CallShape, CallFields, k0
    <3> HIDE DEF k
    <3> QED BY <1>11, <3>1, <3>2 DEF Counting
  <2>2. CASE ~LastCell(k0)
    <3>1. SetCall(c, "release", Advance(k0, blockIndex[k0.header].size)) /\ UNCHANGED counters
      BY <1>17, <2>2 DEF ImplicitRelease
    <3> QED BY <1>15, <3>1 DEF Counting
  <2> QED BY <2>1, <2>2
<1>18. CASE Erase(c)
  <2> DEFINE k == [k0 EXCEPT !.pc = "free"]
  <2>1. SetCall(c, "erase", k) /\ UNCHANGED counters
    BY <1>18 DEF Erase
  <2>2. CallShape(k) /\ k.pc = "free"
    <3> HIDE DEF k0
    <3> QED BY <1>2 DEF CallShape, CallFields, k0
  <2> HIDE DEF k
  <2> QED BY <1>11, <2>1, <2>2 DEF Counting
<1>19. CASE Free(c)
  BY <1>15, <1>19 DEF Free, Counting
<1>20. CASE ExplicitMove(c) \/ ImplicitMove(c)
  BY <1>14, <1>20 DEF ExplicitMove, ImplicitMove
<1> QED
  BY <1>3, <1>4, <1>5, <1>6, <1>7, <1>9, <1>12, <1>13, <1>16, <1>17, <1>18, <1>19, <1>20
     DEF Dequeuing, CountersStep, ExplicitDequeueStep, ImplicitDequeueStep

\* A dequeue only makes the queue shorter.
LEMMA DequeueShrinks ==
  ASSUME ClaimsInv, Fits, NEW c \in Consumers, Dequeuing(c)
  PROVE  tailIndex' = tailIndex /\ Minus(tailIndex, headIndex') <= Minus(tailIndex, headIndex)
<1>1. CASE TakeAll(c) \/ Take(c)
  <2>1. PICK pc, n : Taking(c, pc, n)
    BY <1>1, TakesShare
  <2>2. tailIndex' = tailIndex /\ headIndex' = Plus(headIndex, n)
    BY <2>1 DEF Taking, TakeFrom
  <2>3. n \in 0..Half /\ Minus(tailIndex, Plus(headIndex, n)) = Minus(tailIndex, headIndex) - n
    BY <2>1, ShareExists DEF Taking
  <2>4. Minus(tailIndex, headIndex) \in Nat
    BY ClaimsInvParts
  <2> QED BY <2>2, <2>3, <2>4, Width
<1>2. CASE ~(TakeAll(c) \/ Take(c))
  <2>1. tailIndex' = tailIndex /\ headIndex' = headIndex
    BY <1>2 DEF Dequeuing, CountersStep, ExplicitDequeueStep, ImplicitDequeueStep, counters,
       Look, Claim, Recheck, Overcommit, Load, Locate, ImplicitLocate, ExplicitMove, ImplicitMove,
       MoveOut, ExplicitRelease, ImplicitRelease, Erase, Free
  <2>2. Minus(tailIndex, headIndex) \in Nat
    BY ClaimsInvParts
  <2> QED BY <2>1, <2>2
<1> QED BY <1>1, <1>2

-----------------------------------------------------------------------------
(* The producer *)

\* A producer outside of enqueue.
LEMMA NoEnqueueShape ==
  /\ ProdShape(NoEnqueue) /\ NoEnqueue.pc = "idle" /\ NoEnqueue.chain = <<>>
  /\ ProdOK(NoEnqueue)
<1>1. ProdShape(NoEnqueue) /\ NoEnqueue.pc = "idle" /\ NoEnqueue.chain = <<>>
  BY DEF NoEnqueue, ProdShape, ProdFields
<1> QED BY <1>1 DEF ProdOK

\* A count that an enqueue is called with.
LEMMA CountRange == \A count \in Counts \cup {1} : count \in 1..(Half - 1)
BY BlockFits, Width, CountsAssumption, Quarters DEF Quarter

\* Only the producer's own variables change.
LEMMA ProdStep ==
  ASSUME ClaimsInv, ProdOK(prod'), UNCHANGED <<counters, call>>
  PROVE  ClaimsInv'
<1>1. /\ tailIndex' = tailIndex /\ headIndex' = headIndex /\ call' = call
      /\ dequeueOptimisticCount' = dequeueOptimisticCount /\ dequeueOvercommit' = dequeueOvercommit
  BY DEF counters
<1> QED BY <1>1, ClaimsInvParts DEF ClaimsInv, CountersOK

\* The elements that are published are fewer than half the range of an index.
LEMMA PublishStep ==
  ASSUME ClaimsInv, Fits, Publish
  PROVE  /\ ClaimsInv' /\ headIndex' = headIndex
         /\ Minus(tailIndex', headIndex) = Minus(tailIndex, headIndex) + prod.count
<1> DEFINE n == prod.count
           s == Minus(tailIndex, headIndex)
<1>1. /\ tailIndex' = Plus(tailIndex, n) /\ prod' = NoEnqueue /\ prod.pc = "publish"
      /\ headIndex' = headIndex /\ call' = call
      /\ dequeueOptimisticCount' = dequeueOptimisticCount /\ dequeueOvercommit' = dequeueOvercommit
  BY DEF Publish, SetProd
<1>2. n \in 1..(Half - 1)
  BY <1>1, ClaimsInvParts DEF ProdOK
<1>3. s \in Nat /\ s <= Half
  BY ClaimsInvParts DEF Fits
<1> HIDE DEF n, s
<1>4. n \in 0..Half /\ s + n < IndexSize
  BY <1>2, <1>3, Width
<1>5. Plus(tailIndex, n) \in Index /\ Minus(Plus(tailIndex, n), headIndex) = s + n
  BY <1>4, ClaimsInvParts, Raised, Width DEF s
<1>6. SharesOK(call, tailIndex', headIndex)
  <2> SUFFICES ASSUME NEW b \in Nat, Minus(tailIndex', headIndex) <= b
               PROVE  Total(Shares(call, headIndex, b)) <= b
    BY DEF SharesOK
  <2>1. s <= b
    BY <1>1, <1>3, <1>4, <1>5
  <2> QED BY <2>1, ClaimsInvParts DEF SharesOK, s
<1>7. CountersOK'
  BY <1>1, <1>5, ClaimsInvParts DEF CountersOK
<1>8. ClaimsInv'
  BY <1>1, <1>6, <1>7, ClaimsInvParts, NoEnqueueShape DEF ClaimsInv
<1> QED BY <1>1, <1>5, <1>8 DEF n, s

\* A step of an enqueue that has begun keeps its count.
LEMMA ProdKept ==
  ASSUME ProdOK(prod), prod.pc # "idle", NEW p, ProdShape(p), p.count = prod.count
  PROVE  ProdOK(p)
BY DEF ProdOK

\* The steps of an explicit producer keep the count of its enqueue.
LEMMA ExplicitProdOK ==
  ASSUME ProdOK(prod), ExplicitEnqueueStep
  PROVE  ProdOK(prod')
<1> USE NoEnqueueShape
<1>0. ProdShape(prod)
  BY DEF ProdOK
<1>1. ASSUME NEW pc, NEW count \in Counts \cup {1}, NEW bulk, StartExplicit(pc, count, bulk)
      PROVE  ProdOK(prod')
  <2> DEFINE p == [NoEnqueue EXCEPT !.pc = pc, !.count = count,
                                      !.bulk = bulk, !.startBlock = tailBlock,
                                      !.front = pr_blockIndexFront,
                                      !.slots = pr_blockIndexSlotsUsed]
  <2>1. ProdShape(p) /\ p.count = count
    BY DEF ProdShape, ProdFields
  <2>2. prod' = p
    BY <1>1 DEF StartExplicit, SetProd
  <2> HIDE DEF p
  <2> QED BY <2>1, <2>2, CountRange DEF ProdOK
<1>2. ASSUME NEW b, NEW index, NEW front, NEW front0, Link(b, index, front, front0), prod.pc # "idle"
      PROVE  ProdOK(prod')
  <2> DEFINE pc == IF Need = 1 THEN "construct" ELSE prod.pc
             p == [prod EXCEPT !.chain = Append(@, b), !.front = front0, !.pc = pc]
  <2>1. prod' = p
    BY <1>2 DEF Link
  <2>2. ProdShape(p) /\ p.count = prod.count
    <3> HIDE DEF pc
    <3> QED BY <1>0 DEF ProdShape, ProdFields
  <2> HIDE DEF p
  <2> QED BY <1>2, <2>1, <2>2, ProdKept
<1>3. ASSUME NEW from, NEW pc, SetProd(from, [prod EXCEPT !.pc = pc]), from # "idle"
      PROVE  ProdOK(prod')
  <2> DEFINE p == [prod EXCEPT !.pc = pc]
  <2>1. prod' = p /\ prod.pc # "idle"
    BY <1>3 DEF SetProd
  <2>2. ProdShape(p) /\ p.count = prod.count
    BY <1>0 DEF ProdShape, ProdFields
  <2> HIDE DEF p
  <2> QED BY <2>1, <2>2, ProdKept
<1>4. CASE ExplicitEnqueue
  BY <1>1, <1>4 DEF ExplicitEnqueue
<1>5. ASSUME NEW count \in Counts, ExplicitEnqueueBulk(count) PROVE ProdOK(prod')
  BY <1>1, <1>5 DEF ExplicitEnqueueBulk
<1>6. CASE Reuse
  BY <1>2, <1>6 DEF Reuse
<1>7. ASSUME NEW b \in freeBlocks, NewBlock(b) PROVE ProdOK(prod')
  <2>1. prod.pc # "idle"
    BY <1>7 DEF NewBlock
  <2>2. \E index, front, front0 : Link(b, index, front, front0)
    BY <1>7 DEF NewBlock
  <2> QED BY <1>2, <2>1, <2>2
<1>8. CASE NoneAhead
  BY <1>3, <1>8 DEF NoneAhead
<1>9. CASE RoomFails \/ BlockFails \/ ExplicitThrow
  BY <1>9 DEF RoomFails, BlockFails, ExplicitThrow, Undo
<1>10. CASE ExplicitConstruct
  BY <1>3, <1>10 DEF ExplicitConstruct
<1>11. CASE StoreFront
  BY <1>3, <1>11 DEF StoreFront
<1> QED BY <1>4, <1>5, <1>6, <1>7, <1>8, <1>9, <1>10, <1>11 DEF ExplicitEnqueueStep

-----------------------------------------------------------------------------
(* The room for a block *)

\* An index is its place in its block, and whole blocks before it.
LEMMA IndexParts ==
  ASSUME NEW u \in Index
  PROVE  /\ Offset(u) \in 0..(BLOCK_SIZE - 1)
         /\ Base(u) \in Index /\ u = Base(u) + Offset(u)
         /\ \E q \in Int : Base(u) = BLOCK_SIZE * q
<1> DEFINE q == u \div BLOCK_SIZE
           r == u % BLOCK_SIZE
<1>1. u \in Nat /\ BLOCK_SIZE \in Nat /\ BLOCK_SIZE > 0
  BY BlockFits, Width DEF Index
<1>2. q \in Int /\ q >= 0 /\ r \in 0..(BLOCK_SIZE - 1)
  BY <1>1
<1>3. u = BLOCK_SIZE * q + r
  <2>1. ASSUME NEW a \in Nat, NEW n \in Nat, n > 0, NEW x \in Int, NEW y \in Int,
               x = a \div n, y = a % n
        PROVE  a = n * x + y
    BY <2>1
  <2> QED BY <1>1, <1>2, <2>1
<1>4. Offset(u) = r
  BY DEF Offset
<1> HIDE DEF q, r
<1>5. BLOCK_SIZE * q \in Nat
  BY <1>1, <1>2
<1>6. Base(u) = BLOCK_SIZE * q
  <2> DEFINE b == BLOCK_SIZE * q
  <2>1. u = b + r /\ b \in Nat
    BY <1>3, <1>5
  <2> HIDE DEF b
  <2>2. Base(u) = b
    BY <1>1, <1>2, <1>4, <2>1 DEF Base
  <2> QED BY <2>2 DEF b
<1>7. Base(u) \in Index /\ u = Base(u) + Offset(u)
  <2>1. Base(u) \in Nat
    BY <1>5, <1>6
  <2>2. Base(u) = u - r
    BY <1>4 DEF Base
  <2> QED BY <1>1, <1>2, <1>4, <2>1, <2>2, Width DEF Index
<1> QED BY <1>2, <1>4, <1>6, <1>7

\* The index of the last element, and of the last one of an enqueue.
LEMMA LastIndex ==
  ASSUME NEW tail \in Index, NEW count \in 1..(Half - 1)
  PROVE  /\ Minus(tail, 1) \in Index
         /\ Minus(tail, 1) + 1 = IF tail = 0 THEN IndexSize ELSE tail
         /\ Plus(tail, count - 1) \in Index
         /\ Minus(Plus(tail, count), 1) = Plus(tail, count - 1)
         /\ \/ Plus(tail, count - 1) = Minus(tail, 1) + count
            \/ Plus(tail, count - 1) = Minus(tail, 1) + count - IndexSize
<1>1. 1 \in Index /\ count \in 0..IndexSize /\ count - 1 \in 0..IndexSize /\ IndexSize > 1
  BY Width, BlockFits DEF Index
<1>2. Minus(tail, 1) \in Index /\ Minus(tail, 1) = IF 1 <= tail THEN tail - 1 ELSE tail - 1 + IndexSize
  BY <1>1, MinusValue
<1>3. /\ Plus(tail, count) \in Index
      /\ Plus(tail, count) = IF tail + count < IndexSize THEN tail + count
                                                         ELSE tail + count - IndexSize
  BY <1>1, PlusValue
<1>4. /\ Plus(tail, count - 1) \in Index
      /\ Plus(tail, count - 1) = IF tail + (count - 1) < IndexSize THEN tail + (count - 1)
                                                         ELSE tail + (count - 1) - IndexSize
  BY <1>1, PlusValue
<1> DEFINE u == Minus(tail, 1)
           w == Plus(tail, count)
           v == Plus(tail, count - 1)
           x == Minus(w, 1)
<1>5. x = IF 1 <= w THEN w - 1 ELSE w - 1 + IndexSize
  <2> HIDE DEF w
  <2> QED BY <1>1, <1>3, MinusValue DEF w
<1>6. tail \in Index /\ count \in 1..(Half - 1)
  OBVIOUS
<1> HIDE DEF u, v, w, x
<1>7. u + 1 = IF tail = 0 THEN IndexSize ELSE tail
  BY <1>2, <1>6, Width DEF Index, u
<1>8. x = v
  BY <1>3, <1>4, <1>5, <1>6, Width DEF Index, w, v
<1>9. v = u + count \/ v = u + count - IndexSize
  BY <1>2, <1>4, <1>6, Width DEF Index, u, v
<1> USE DEF u, v, w, x
<1> QED BY <1>2, <1>4, <1>7, <1>8, <1>9

\* The blocks an enqueue has to start have just enough cells: what they have,
\* with the rest of the last block, is the count and the rest of the new last block.
LEMMA BlocksExact ==
  ASSUME NEW tail \in Index, NEW count \in 1..(Half - 1)
  PROVE  /\ BlocksFor(tail, count) \in Nat
         /\ Slack(tail) \in 0..(BLOCK_SIZE - 1) /\ Slack(Plus(tail, count)) \in 0..(BLOCK_SIZE - 1)
         /\ Slack(tail) + BLOCK_SIZE * BlocksFor(tail, count) = count + Slack(Plus(tail, count))
<1> DEFINE u == Minus(tail, 1)
           v == Plus(tail, count - 1)
           D == Minus(Base(v), Base(u))
           n == D \div BLOCK_SIZE
<1>1. /\ u \in Index /\ v \in Index /\ Minus(Plus(tail, count), 1) = v
      /\ v = u + count \/ v = u + count - IndexSize
  BY LastIndex
<1>2. n = BlocksFor(tail, count)
  BY DEF BlocksFor
<1>3. Slack(tail) = BLOCK_SIZE - 1 - Offset(u) /\ Slack(Plus(tail, count)) = BLOCK_SIZE - 1 - Offset(v)
  BY <1>1 DEF Slack
<1> HIDE DEF u, v
<1>4. /\ Offset(u) \in 0..(BLOCK_SIZE - 1) /\ Base(u) \in Index /\ u = Base(u) + Offset(u)
      /\ Offset(v) \in 0..(BLOCK_SIZE - 1) /\ Base(v) \in Index /\ v = Base(v) + Offset(v)
  BY <1>1, IndexParts
<1>5. PICK qu \in Int : Base(u) = BLOCK_SIZE * qu
  BY <1>1, IndexParts
<1>6. PICK qv \in Int : Base(v) = BLOCK_SIZE * qv
  BY <1>1, IndexParts
<1>7. D = IF Base(u) <= Base(v) THEN Base(v) - Base(u) ELSE Base(v) - Base(u) + IndexSize
  BY <1>4, MinusValue
<1>8. PICK m \in Nat : Half = BLOCK_SIZE * m
  BY Sizes
<1> HIDE DEF D
<1>9. BLOCK_SIZE * (qv - qu) = Base(v) - Base(u)
  <2>1. ASSUME NEW a \in Nat, NEW x \in Int, NEW y \in Int PROVE a * (x - y) = a * x - a * y
    BY <2>1
  <2> QED BY <1>5, <1>6, <2>1, BlockFits
<1>10. D = count + Offset(u) - Offset(v)
  <2>1. CASE v = u + count - IndexSize
    BY <1>1, <1>4, <1>7, <2>1, BlockFits, Width DEF Index
  <2>2. CASE v = u + count
    <3>1. Base(v) - Base(u) = count + Offset(u) - Offset(v)
      <4>1. /\ Base(u) \in Int /\ Base(v) \in Int /\ count \in Int
            /\ Offset(u) \in Int /\ Offset(v) \in Int
        BY <1>4, BlockFits, Width DEF Index
      <4>2. Base(v) + Offset(v) = Base(u) + Offset(u) + count
        BY <1>4, <2>2
      <4> QED BY <4>1, <4>2
    <3>2. Base(v) - Base(u) > 0 - BLOCK_SIZE
      BY <1>4, <3>1, BlockFits, Width DEF Index
    <3>3. qv - qu > -1
      <4>1. ASSUME NEW a \in Nat, a > 0, NEW x \in Int, a * x > 0 - a PROVE x > -1
        BY <4>1
      <4> QED BY <1>9, <3>2, <4>1, BlockFits
    <3>4. BLOCK_SIZE * (qv - qu) >= 0
      <4>1. ASSUME NEW a \in Nat, NEW x \in Int, x > -1 PROVE a * x >= 0
        BY <4>1
      <4> QED BY <3>3, <4>1, BlockFits
    <3>5. Base(u) <= Base(v)
      BY <1>4, <1>9, <3>4, Width DEF Index
    <3> QED BY <1>7, <3>1, <3>5
  <2> QED BY <1>1, <2>1, <2>2
<1>11. \E e \in Int : D = BLOCK_SIZE * e
  <2>1. CASE Base(u) <= Base(v)
    BY <1>7, <1>9, <2>1
  <2>2. CASE ~(Base(u) <= Base(v))
    <3>1. D = BLOCK_SIZE * (qv - qu) + 2 * (BLOCK_SIZE * m)
      BY <1>7, <1>8, <1>9, <2>2, Width
    <3>2. ASSUME NEW a \in Nat, NEW x \in Int, NEW y \in Int
          PROVE  a * x + 2 * (a * y) = a * (x + 2 * y)
      BY <3>2
    <3>3. D = BLOCK_SIZE * ((qv - qu) + 2 * m)
      BY <3>1, <3>2, BlockFits
    <3> QED BY <3>3
  <2> QED BY <2>1, <2>2
<1>12. PICK e \in Int : D = BLOCK_SIZE * e
  BY <1>11
<1>13. n = e
  <2>1. ASSUME NEW a \in Nat, a > 0, NEW q \in Int, NEW d \in Int, d = a * q PROVE d \div a = q
    BY <2>1
  <2>2. D \in Int
    BY <1>4, <1>10, BlockFits
  <2> QED BY <1>12, <2>1, <2>2, BlockFits
<1>14. D > 0 - BLOCK_SIZE
  BY <1>4, <1>10, BlockFits
<1>15. e > -1
  <2>1. ASSUME NEW a \in Nat, a > 0, NEW x \in Int, a * x > 0 - a PROVE x > -1
    BY <2>1
  <2> QED BY <1>12, <1>14, <2>1, BlockFits
<1>16. e \in Nat
  BY <1>15
<1>17. BLOCK_SIZE * n = D /\ n \in Nat
  BY <1>12, <1>13, <1>16
<1> HIDE DEF n
<1>18. /\ Slack(tail) \in 0..(BLOCK_SIZE - 1) /\ Slack(Plus(tail, count)) \in 0..(BLOCK_SIZE - 1)
       /\ Slack(tail) + D = count + Slack(Plus(tail, count))
  BY <1>3, <1>4, <1>10, BlockFits
<1> QED BY <1>2, <1>17, <1>18

\* The base of the next block lies behind the elements by the cells that have
\* been got for the enqueue.
LEMMA NextBaseValue ==
  ASSUME tailIndex \in Index, headIndex \in Index, NEW S, NEW chain \in Seq(S), NEW e,
         e = Minus(tailIndex, headIndex) + Slack(tailIndex) + BLOCK_SIZE * Len(chain),
         e < Half
  PROVE  e \in Nat /\ NextBase(chain) \in Index /\ Minus(NextBase(chain), headIndex) = e
<1> DEFINE u == Minus(tailIndex, 1)
           g == Slack(tailIndex)
           x == BLOCK_SIZE * Len(chain)
           y == BLOCK_SIZE * (Len(chain) + 1)
           s == Minus(tailIndex, headIndex)
           b == NextBase(chain)
           z == Minus(b, headIndex)
<1>1. u \in Index /\ u + 1 = IF tailIndex = 0 THEN IndexSize ELSE tailIndex
  <2>1. 1 \in 1..(Half - 1)
    BY CountRange
  <2> QED BY <2>1, LastIndex
<1>2. Offset(u) \in 0..(BLOCK_SIZE - 1) /\ Base(u) \in Index /\ u = Base(u) + Offset(u)
  <2> HIDE DEF u
  <2> QED BY <1>1, IndexParts
<1>3. g = BLOCK_SIZE - 1 - Offset(u)
  BY DEF Slack
<1>4. x \in Nat /\ y = x + BLOCK_SIZE
  <2>1. Len(chain) \in Nat
    OBVIOUS
  <2> QED BY <2>1, BlockFits
<1>5. /\ s \in Index
      /\ s = IF headIndex <= tailIndex THEN tailIndex - headIndex
                                       ELSE tailIndex - headIndex + IndexSize
  BY MinusValue
<1>6. e = s + g + x /\ e < Half /\ tailIndex \in Index /\ headIndex \in Index
  OBVIOUS
<1>7. b = Plus(Base(u), y)
  BY DEF NextBase
<1> HIDE DEF u, g, x, y, s, b
<1>8. g \in Nat
  BY ONLY <1>2, <1>3, BlockFits
<1>9. y \in 0..IndexSize /\ e \in Nat
  BY ONLY <1>4, <1>5, <1>6, <1>8, BlockFits, Width DEF Index
<1> DEFINE t == Base(u) + y
           d == g + x
<1>10. b \in Index /\ b = IF t < IndexSize THEN t ELSE t - IndexSize
  <2>1. /\ Plus(Base(u), y) \in Index
        /\ Plus(Base(u), y) = IF Base(u) + y < IndexSize THEN Base(u) + y
                                                        ELSE Base(u) + y - IndexSize
    BY ONLY <1>2, <1>9, PlusValue
  <2>2. Base(u) \in Int /\ y \in Int /\ IndexSize \in Int
    BY ONLY <1>2, <1>9, Width DEF Index
  <2> QED BY ONLY <1>7, <2>1, <2>2
<1>11. t = (u + 1) + d
  <2>1. Base(u) \in Int /\ u \in Int /\ Offset(u) \in Int
    BY <1>1, <1>2, BlockFits, Width DEF Index
  <2> QED BY ONLY <1>2, <1>3, <1>4, <2>1, BlockFits
<1>12. d \in 0..Half /\ e = s + d /\ s + d < IndexSize
  BY ONLY <1>4, <1>5, <1>6, <1>8, Width DEF Index
<1> HIDE DEF t, d
<1>13. Plus(tailIndex, d) = IF tailIndex + d < IndexSize THEN tailIndex + d
                                                         ELSE tailIndex + d - IndexSize
  <2>1. d \in 0..IndexSize
    BY ONLY <1>12, Width
  <2> QED BY <1>6, <2>1, PlusValue
<1>14. b = Plus(tailIndex, d)
  <2>1. CASE tailIndex = 0
    BY ONLY <1>1, <1>10, <1>11, <1>12, <1>13, <2>1, Width DEF Index
  <2>2. CASE tailIndex # 0
    BY ONLY <1>1, <1>6, <1>10, <1>11, <1>12, <1>13, <2>2, Width DEF Index
  <2> QED BY <2>1, <2>2
<1>15. z = e
  <2>1. Minus(Plus(tailIndex, d), headIndex) = Minus(tailIndex, headIndex) + d
    BY <1>6, <1>12, Width, Raised DEF s
  <2> QED BY <1>12, <1>14, <2>1 DEF s
<1> QED BY <1>9, <1>10, <1>15 DEF b, z

\* What a block that passes the test leaves room for.
LEMMA FullValue ==
  ASSUME headIndex \in Index, NEW current \in Index, NEW e \in Nat,
         Minus(current, headIndex) = e, e < Half, ~Full(current)
  PROVE  e + BLOCK_SIZE < Half /\ e + BLOCK_SIZE <= MAX_SUBQUEUE_SIZE
<1> DEFINE w == Plus(current, BLOCK_SIZE)
           z == Minus(headIndex, w)
<1>1. BLOCK_SIZE \in 0..IndexSize
  BY BlockFits, Width
<1>2. /\ w \in Index
      /\ w = IF current + BLOCK_SIZE < IndexSize THEN current + BLOCK_SIZE
                                                 ELSE current + BLOCK_SIZE - IndexSize
  BY <1>1, PlusValue
<1>3. e = IF headIndex <= current THEN current - headIndex ELSE current - headIndex + IndexSize
  BY MinusValue
<1>4. z > Half
  BY DEF Full, circular_less_than, Half
<1>5. MAX_SUBQUEUE_SIZE # IndexSize - 1 => ~(MAX_SUBQUEUE_SIZE - BLOCK_SIZE < e)
  BY DEF Full
<1> HIDE DEF w
<1>6. z = IF w <= headIndex THEN headIndex - w ELSE headIndex - w + IndexSize
  BY <1>2, MinusValue
<1> HIDE DEF z
<1>7. e + BLOCK_SIZE < Half
  BY <1>2, <1>3, <1>4, <1>6, BlockFits, Width DEF Index
<1>8. MAX_SUBQUEUE_SIZE \in Int
  BY BlockSizeAssumption
<1> QED BY <1>5, <1>7, <1>8, BlockFits, Width

\* The number of blocks that have been got.
LEMMA GainedValue ==
  ASSUME NEW p, NEW tail \in Index, NEW head \in Index, RoomOK(p, tail, head)
  PROVE  /\ Len(p.chain) \in Nat /\ Gained(p) \in Nat
         /\ Minus(tail, head) \in Nat /\ Slack(tail) \in Nat /\ BLOCK_SIZE * Gained(p) \in Nat
         /\ Minus(tail, head) < Half /\ Minus(tail, head) <= MAX_SUBQUEUE_SIZE
<1>1. PICK S : p.chain \in Seq(S)
  BY DEF RoomOK
<1>2. Len(p.chain) \in Nat
  BY <1>1
<1>3. Gained(p) \in Nat
  <2> DEFINE n == Len(p.chain)
  <2>1. n \in Nat
    BY <1>2
  <2>2. Gained(p) = n + (IF p.pc = "acquire" THEN 1 ELSE 0)
    BY DEF Gained
  <2> HIDE DEF n
  <2>3. CASE p.pc = "acquire"
    BY <2>1, <2>2, <2>3
  <2>4. CASE p.pc # "acquire"
    BY <2>1, <2>2, <2>4
  <2> QED BY <2>3, <2>4
<1>4. Minus(tail, head) \in Nat
  BY MinusValue DEF Index
<1>5. Slack(tail) \in Nat
  <2>1. 1 \in 1..(Half - 1)
    BY CountRange
  <2> QED BY <2>1, BlocksExact, BlockFits
<1>6. BLOCK_SIZE * Gained(p) \in Nat
  BY <1>3, BlockFits
<1> DEFINE x == BLOCK_SIZE * Gained(p)
<1>7. Minus(tail, head) + Slack(tail) + x < Half /\ Minus(tail, head) + Slack(tail) + x <= MAX_SUBQUEUE_SIZE
  BY DEF RoomOK, Extent
<1>8. x \in Nat
  BY <1>6
<1>9. MAX_SUBQUEUE_SIZE \in Int /\ Half \in Nat
  BY BlockSizeAssumption, Width
<1> HIDE DEF x
<1>10. Minus(tail, head) < Half /\ Minus(tail, head) <= MAX_SUBQUEUE_SIZE
  BY <1>4, <1>5, <1>7, <1>8, <1>9
<1> QED BY <1>2, <1>3, <1>4, <1>5, <1>6, <1>10

\* An enqueue that is over, and one that has not begun, has got no block.
LEMMA RoomIdle ==
  ASSUME NEW p, NEW tail \in Index, NEW head \in Index, RoomOK(p, tail, head),
         NEW h \in Index, Minus(tail, h) <= Minus(tail, head)
  PROVE  /\ RoomOK(NoEnqueue, tail, h)
         /\ RoomOK(p, tail, h)
<1> DEFINE x == BLOCK_SIZE * Gained(p)
           y == BLOCK_SIZE * Gained(NoEnqueue)
<1>1. Gained(NoEnqueue) = 0
  BY NoEnqueueShape DEF Gained
<1>2. y = 0
  BY <1>1, BlockFits
<1>3. /\ Minus(tail, head) \in Nat /\ Slack(tail) \in Nat /\ x \in Nat
  BY GainedValue
<1>4. Minus(tail, h) \in Nat
  BY MinusValue DEF Index
<1>5. Minus(tail, head) + Slack(tail) + x < Half /\ Minus(tail, head) + Slack(tail) + x <= MAX_SUBQUEUE_SIZE
  BY DEF RoomOK, Extent
<1>6. Extent(NoEnqueue, tail, h) = Minus(tail, h) + Slack(tail) + y
      /\ Extent(p, tail, h) = Minus(tail, h) + Slack(tail) + x
  BY DEF Extent
<1>7. MAX_SUBQUEUE_SIZE \in Int /\ Half \in Nat
  BY BlockSizeAssumption, Width
<1> HIDE DEF x, y
<1>8. /\ Extent(NoEnqueue, tail, h) < Half /\ Extent(NoEnqueue, tail, h) <= MAX_SUBQUEUE_SIZE
      /\ Extent(p, tail, h) < Half /\ Extent(p, tail, h) <= MAX_SUBQUEUE_SIZE
  BY <1>2, <1>3, <1>4, <1>5, <1>6, <1>7
<1>9. \E S : NoEnqueue.chain \in Seq(S)
  BY NoEnqueueShape
<1>10. RoomOK(NoEnqueue, tail, h)
  BY <1>8, <1>9, NoEnqueueShape DEF RoomOK
<1>11. RoomOK(p, tail, h)
  BY <1>8 DEF RoomOK
<1> QED BY <1>10, <1>11

\* The steps of an implicit producer before it publishes.
LEMMA ImplicitStep ==
  ASSUME ProdOK(prod), tailIndex \in Index, headIndex \in Index,
         RoomOK(prod, tailIndex, headIndex), ImplicitEnqueueStep
  PROVE  ProdOK(prod') /\ RoomOK(prod', tailIndex, headIndex)
<1> DEFINE chain == prod.chain
           m == BlocksFor(tailIndex, prod.count)
<1>1. ProdShape(prod)
  BY DEF ProdOK
<1>2. PICK S : chain \in Seq(S)
  BY DEF RoomOK
<1>3. Len(chain) \in Nat
  BY <1>2
<1>4. /\ Minus(tailIndex, headIndex) \in Nat /\ Slack(tailIndex) \in Nat
      /\ Extent(prod, tailIndex, headIndex) < Half
      /\ Extent(prod, tailIndex, headIndex) <= MAX_SUBQUEUE_SIZE
  BY GainedValue DEF RoomOK
<1>5. \A count : NewBlocks(count) = BlocksFor(tailIndex, count)
  BY DEF NewBlocks, BlocksFor
<1>6. /\ RoomOK(NoEnqueue, tailIndex, headIndex) /\ ProdOK(NoEnqueue)
  <2>1. Minus(tailIndex, headIndex) <= Minus(tailIndex, headIndex)
    BY <1>4
  <2> QED BY <2>1, RoomIdle, NoEnqueueShape
<1>7. prod.pc # "idle" => m \in Nat
  BY BlocksExact DEF ProdOK
<1>8. CASE InsertFails \/ AcquireFails \/ ImplicitThrow
  BY <1>6, <1>8 DEF InsertFails, AcquireFails, ImplicitThrow, Revert
<1>9. ASSUME NEW count \in Counts \cup {1}, ImplicitEnqueue(count)
      PROVE  ProdOK(prod') /\ RoomOK(prod', tailIndex, headIndex)
  <2> DEFINE pc == IF NewBlocks(count) > 0 THEN "insert" ELSE "construct"
             p == [NoEnqueue EXCEPT !.pc = pc, !.count = count, !.startBlock = tailBlock]
  <2>1. prod' = p
    BY <1>9 DEF ImplicitEnqueue, SetProd
  <2>2. BlocksFor(tailIndex, count) \in Nat
    BY CountRange, BlocksExact
  <2>3. /\ pc \in {"insert", "construct"}
        /\ pc = "insert" => 0 < BlocksFor(tailIndex, count)
        /\ pc = "construct" => BlocksFor(tailIndex, count) = 0
    BY <1>5, <2>2
  <2> HIDE DEF pc
  <2>4. ProdShape(p) /\ p.pc = pc /\ p.count = count /\ p.chain = <<>>
    BY NoEnqueueShape DEF ProdShape, ProdFields
  <2> HIDE DEF p
  <2>5. ProdOK(p)
    BY <2>4, CountRange DEF ProdOK
  <2>6. Gained(p) = 0 /\ Gained(NoEnqueue) = 0
    BY <2>3, <2>4, NoEnqueueShape DEF Gained
  <2>7. Extent(p, tailIndex, headIndex) = Extent(NoEnqueue, tailIndex, headIndex)
    BY <2>6 DEF Extent
  <2>8. Len(p.chain) = 0 /\ \E T : p.chain \in Seq(T)
    BY <2>4
  <2>9. RoomOK(p, tailIndex, headIndex)
    BY <1>6, <2>3, <2>4, <2>7, <2>8 DEF RoomOK
  <2> QED BY <2>1, <2>5, <2>9
<1>10. ASSUME NEW p, ProdShape(p), p.count = prod.count, prod.pc # "idle" PROVE ProdOK(p)
  BY <1>10, ProdKept
<1>11. CASE Insert
  <2> DEFINE p == [prod EXCEPT !.pc = "acquire"]
             e == Extent(prod, tailIndex, headIndex)
  <2>1. prod' = p /\ prod.pc = "insert" /\ ~Full(NextBase(chain))
    BY <1>11 DEF Insert, SetProd
  <2>2. ProdShape(p) /\ p.pc = "acquire" /\ p.count = prod.count /\ p.chain = chain
    BY <1>1 DEF ProdShape, ProdFields
  <2> HIDE DEF p, chain
  <2>3. Gained(prod) = Len(chain) /\ Gained(p) = Len(chain) + 1
    BY <1>3, <2>1, <2>2 DEF Gained, chain
  <2>4. e = Minus(tailIndex, headIndex) + Slack(tailIndex) + BLOCK_SIZE * Len(chain)
    BY <2>3 DEF Extent
  <2>5. e < Half
    BY <1>4
  <2> HIDE DEF e
  <2>6. e \in Nat /\ NextBase(chain) \in Index /\ Minus(NextBase(chain), headIndex) = e
    BY <1>2, <2>4, <2>5, NextBaseValue
  <2>7. e + BLOCK_SIZE < Half /\ e + BLOCK_SIZE <= MAX_SUBQUEUE_SIZE
    BY <2>1, <2>5, <2>6, FullValue
  <2>8. Extent(p, tailIndex, headIndex) = e + BLOCK_SIZE
    <3> DEFINE x == BLOCK_SIZE * Len(chain)
               y == BLOCK_SIZE * (Len(chain) + 1)
    <3>1. x \in Nat /\ y = x + BLOCK_SIZE
      BY <1>3, BlockFits
    <3>2. e = Minus(tailIndex, headIndex) + Slack(tailIndex) + x
      BY <2>4
    <3>3. Extent(p, tailIndex, headIndex) = Minus(tailIndex, headIndex) + Slack(tailIndex) + y
      BY <2>3 DEF Extent
    <3> HIDE DEF x, y
    <3> QED BY ONLY <1>4, <3>1, <3>2, <3>3, BlockFits
  <2>9. Len(p.chain) < BlocksFor(tailIndex, p.count)
    BY <2>1, <2>2 DEF RoomOK, chain
  <2>10. \E T : p.chain \in Seq(T)
    BY <1>2, <2>2
  <2>11. RoomOK(p, tailIndex, headIndex)
    BY <2>2, <2>7, <2>8, <2>9, <2>10 DEF RoomOK
  <2> QED BY <1>10, <2>1, <2>2, <2>11
<1>12. ASSUME NEW b, Acquire(b)
       PROVE  ProdOK(prod') /\ RoomOK(prod', tailIndex, headIndex)
  <2> DEFINE pc == IF Need = 1 THEN "construct" ELSE "insert"
             p == [prod EXCEPT !.chain = Append(@, b), !.pc = pc]
             n == Len(chain)
  <2>1. prod' = p /\ prod.pc = "acquire"
    BY <1>12 DEF Acquire, SetProd
  <2>2. n < m /\ n \in Nat /\ m \in Nat
    BY <1>3, <1>7, <2>1 DEF RoomOK
  <2>3. Need = m - n
    BY <1>5 DEF Need
  <2> HIDE DEF m, n
  <2>4. /\ pc \in {"insert", "construct"}
        /\ pc = "insert" => n + 1 < m
        /\ pc = "construct" => n + 1 = m
    BY <2>2, <2>3
  <2> HIDE DEF pc
  <2>5. ProdShape(p) /\ p.pc = pc /\ p.count = prod.count /\ p.chain = Append(chain, b)
    BY <1>1 DEF ProdShape, ProdFields
  <2> HIDE DEF p, chain
  <2>6. Append(chain, b) \in Seq(S \cup {b}) /\ Len(Append(chain, b)) = Len(chain) + 1
    <3>1. chain \in Seq(S \cup {b})
      BY <1>2
    <3> QED BY <3>1
  <2>7. Len(p.chain) = n + 1 /\ \E T : p.chain \in Seq(T)
    BY <2>5, <2>6 DEF n
  <2>8. Gained(prod) = n + 1 /\ Gained(p) = n + 1
    <3>1. Gained(prod) = n + 1
      BY <2>1 DEF Gained, n, chain
    <3>2. Gained(p) = (n + 1) + 0
      BY <2>4, <2>5, <2>7 DEF Gained
    <3> QED BY <2>2, <3>1, <3>2
  <2>9. Extent(p, tailIndex, headIndex) = Extent(prod, tailIndex, headIndex)
    BY <2>8 DEF Extent
  <2>10. BlocksFor(tailIndex, p.count) = m
    BY <2>5 DEF m
  <2>11. RoomOK(p, tailIndex, headIndex)
    BY <1>4, <2>4, <2>5, <2>7, <2>9, <2>10 DEF RoomOK
  <2> QED BY <1>10, <2>1, <2>5, <2>11
<1>13. CASE ImplicitConstruct
  <2> DEFINE p == [prod EXCEPT !.pc = "publish"]
  <2>1. prod' = p /\ prod.pc = "construct"
    BY <1>13 DEF ImplicitConstruct, SetProd
  <2>2. ProdShape(p) /\ p.pc = "publish" /\ p.count = prod.count /\ p.chain = chain
    BY <1>1 DEF ProdShape, ProdFields
  <2> HIDE DEF p
  <2>3. Gained(p) = Gained(prod)
    BY <2>1, <2>2 DEF Gained
  <2>4. Extent(p, tailIndex, headIndex) = Extent(prod, tailIndex, headIndex)
    BY <2>3 DEF Extent
  <2>5. Len(p.chain) = BlocksFor(tailIndex, p.count)
    BY <2>1, <2>2 DEF RoomOK
  <2>6. \E T : p.chain \in Seq(T)
    BY <1>2, <2>2
  <2>7. RoomOK(p, tailIndex, headIndex)
    BY <1>4, <2>2, <2>4, <2>5, <2>6 DEF RoomOK
  <2> QED BY <1>10, <2>1, <2>2, <2>7
<1> QED BY <1>8, <1>9, <1>11, <1>12, <1>13 DEF ImplicitEnqueueStep

\* Publishing turns cells that there was room for into elements.
LEMMA PublishRoom ==
  ASSUME ClaimsInv, Fits, RoomOK(prod, tailIndex, headIndex), Publish
  PROVE  RoomOK(prod', tailIndex', headIndex')
<1> DEFINE n == prod.count
           g == Slack(tailIndex)
           h == Slack(tailIndex')
           s == Minus(tailIndex, headIndex)
           x == BLOCK_SIZE * Len(prod.chain)
<1>1. /\ tailIndex' = Plus(tailIndex, n) /\ prod' = NoEnqueue /\ prod.pc = "publish"
      /\ headIndex' = headIndex
  BY DEF Publish, SetProd
<1>2. n \in 1..(Half - 1)
  BY <1>1, ClaimsInvParts DEF ProdOK
<1>3. Len(prod.chain) = BlocksFor(tailIndex, n)
  BY <1>1 DEF RoomOK
<1>4. g + x = n + h /\ g \in Nat /\ h \in Nat /\ x \in Nat
  <2>1. /\ BlocksFor(tailIndex, n) \in Nat
        /\ g \in 0..(BLOCK_SIZE - 1) /\ h \in 0..(BLOCK_SIZE - 1)
        /\ g + BLOCK_SIZE * BlocksFor(tailIndex, n) = n + h
    BY <1>1, <1>2, ClaimsInvParts, BlocksExact
  <2>2. x = BLOCK_SIZE * BlocksFor(tailIndex, n)
    BY <1>3
  <2>3. x \in Nat
    BY <2>1, <2>2, BlockFits
  <2> HIDE DEF g, h, x, n
  <2> QED BY <2>1, <2>2, <2>3, BlockFits
<1>5. s \in Nat /\ s + g + x < Half /\ s + g + x <= MAX_SUBQUEUE_SIZE
  <2>1. Gained(prod) = Len(prod.chain) + 0
    BY <1>1 DEF Gained
  <2>2. Len(prod.chain) \in Nat
    BY ClaimsInvParts, GainedValue
  <2>3. Gained(prod) = Len(prod.chain)
    BY <2>1, <2>2
  <2> QED BY <2>3, ClaimsInvParts DEF RoomOK, Extent
<1>6. Minus(tailIndex', headIndex') = s + n
  BY <1>1, PublishStep
<1>7. Gained(NoEnqueue) = 0 /\ BLOCK_SIZE * 0 = 0
  BY NoEnqueueShape, BlockFits DEF Gained
<1>8. Extent(NoEnqueue, tailIndex', headIndex') = (s + n) + h + 0
  <2> HIDE DEF s, n
  <2> QED BY <1>6, <1>7 DEF Extent
<1>9. Extent(NoEnqueue, tailIndex', headIndex') = s + g + x
  <2> HIDE DEF s, n, g, h, x
  <2> QED BY <1>2, <1>4, <1>5, <1>8, Width
<1>10. \E S : NoEnqueue.chain \in Seq(S)
  BY NoEnqueueShape
<1>11. RoomOK(NoEnqueue, tailIndex', headIndex')
  <2> HIDE DEF s, g, x
  <2> QED BY <1>5, <1>9, <1>10, NoEnqueueShape DEF RoomOK
<1> QED BY <1>1, <1>11

-----------------------------------------------------------------------------
(* What consumers hold *)

\* How raising an index changes its distance from another.
LEMMA Distances ==
  ASSUME NEW a \in Index, NEW b \in Index, NEW n \in Index
  PROVE  /\ Plus(a, n) \in Index
         /\ Minus(a, b) + n < IndexSize => Minus(Plus(a, n), b) = Minus(a, b) + n
         /\ n <= Minus(a, b) => Minus(a, Plus(b, n)) = Minus(a, b) - n
<1> DEFINE an == Plus(a, n)
           bn == Plus(b, n)
           x == Minus(a, b)
           y == Minus(an, b)
           z == Minus(a, bn)
<1>1. n \in 0..IndexSize /\ a \in Index /\ b \in Index /\ n \in Index
  BY Width DEF Index
<1>2. an \in Index /\ an = IF a + n < IndexSize THEN a + n ELSE a + n - IndexSize
  BY <1>1, PlusValue
<1>3. bn \in Index /\ bn = IF b + n < IndexSize THEN b + n ELSE b + n - IndexSize
  BY <1>1, PlusValue
<1>4. x \in Index /\ x = IF b <= a THEN a - b ELSE a - b + IndexSize
  BY MinusValue
<1>5. y \in Index /\ y = IF b <= an THEN an - b ELSE an - b + IndexSize
  <2> HIDE DEF an
  <2> QED BY <1>2, MinusValue
<1>6. z \in Index /\ z = IF bn <= a THEN a - bn ELSE a - bn + IndexSize
  <2> HIDE DEF bn
  <2> QED BY <1>3, MinusValue
<1> HIDE DEF an, bn, x, y, z
<1>7. x + n < IndexSize => y = x + n
  BY ONLY <1>1, <1>2, <1>4, <1>5, Width DEF Index
<1>8. n <= x => z = x - n
  BY ONLY <1>1, <1>3, <1>4, <1>6, Width DEF Index
<1>9. an \in Index /\ (x + n < IndexSize => y = x + n) /\ (n <= x => z = x - n)
  BY <1>2, <1>7, <1>8
<1> QED BY <1>9 DEF an, bn, x, y, z

\* A call that lets go of the first m of its elements.
Lessens(j, k) == Holds(k) =>
    /\ Holds(j)
    /\ \E m \in 0..j.count : k.index = Plus(j.index, m) /\ k.count = j.count - m

\* It comes nearer to the head by as many as it lets go.
LEMMA LessensBehind ==
  ASSUME NEW tail \in Index, NEW head \in Index, NEW pend \in Nat, NEW j, NEW k,
         HeldOK(j, tail, head, pend), Lessens(j, k), Holds(k)
  PROVE  /\ HeldOK(k, tail, head, pend)
         /\ Behind(k, head) \in Nat /\ Behind(j, head) \in Nat /\ k.count \in Nat /\ j.count \in Nat
         /\ Behind(k, head) <= Behind(j, head)
         /\ Behind(k, head) - k.count = Behind(j, head) - j.count
<1>1. PICK m \in 0..j.count : k.index = Plus(j.index, m) /\ k.count = j.count - m
  BY DEF Lessens
<1>2. /\ j.index \in Index /\ j.count \in Nat /\ j.count <= Behind(j, head)
      /\ Behind(j, head) + Minus(tail, head) + pend < Half + Quarter
  BY DEF HeldOK, Lessens
<1>3. Behind(j, head) \in Index /\ Minus(tail, head) \in Index
  BY <1>2, MinusValue DEF Behind
<1> DEFINE b == Behind(j, head)
           s == Minus(tail, head)
           n == j.count
<1>4. b \in Index /\ n \in Nat /\ n <= b /\ s \in Index /\ b + s + pend < Half + Quarter
  BY <1>2, <1>3
<1>5. m \in Index /\ m <= b
  <2> HIDE DEF b, n
  <2> QED BY <1>4, Width DEF n, Index
<1>6. Plus(j.index, m) \in Index /\ Minus(head, Plus(j.index, m)) = b - m
  BY <1>2, <1>5, Distances DEF Behind
<1>7. k.index \in Index /\ Behind(k, head) = b - m
  BY <1>1, <1>6 DEF Behind
<1> DEFINE bk == Behind(k, head)
           nk == k.count
<1>8. nk = n - m /\ bk = b - m
  BY <1>1, <1>7
<1> HIDE DEF b, s, n, bk, nk
<1>9. m \in 0..n
  BY <1>1 DEF n
<1>10. /\ bk \in Nat /\ b \in Nat /\ nk \in Nat /\ n \in Nat /\ nk <= bk /\ bk <= b
       /\ bk - nk = b - n /\ bk + s + pend < Half + Quarter
  BY ONLY <1>4, <1>8, <1>9, Width, Quarters, pend \in Nat DEF Index
<1> QED BY <1>7, <1>10 DEF HeldOK, b, s, n, bk, nk

\* A consumer moves on, or is done.
LEMMA HeldLessens ==
  ASSUME NEW calls, calls = [d \in Consumers |-> calls[d]],
         NEW tail \in Index, NEW head \in Index, NEW pend \in Nat, AllHeld(calls, tail, head, pend),
         NEW c \in Consumers, NEW k, Lessens(calls[c], k)
  PROVE  AllHeld([calls EXCEPT ![c] = k], tail, head, pend)
<1> DEFINE after == [calls EXCEPT ![c] = k]
<1>1. after[c] = k /\ \A d \in Consumers : d # c => after[d] = calls[d]
  OBVIOUS
<1> HIDE DEF after
<1>2. ASSUME NEW d \in Consumers PROVE HeldOK(after[d], tail, head, pend)
  <2>1. HeldOK(calls[d], tail, head, pend)
    BY DEF AllHeld
  <2>2. CASE d = c /\ Holds(k)
    BY <1>1, <2>1, <2>2, LessensBehind
  <2>3. CASE d = c /\ ~Holds(k)
    BY <1>1, <2>3 DEF HeldOK
  <2> QED BY <1>1, <2>1, <2>2, <2>3
<1>3. ASSUME NEW d \in Consumers, d # c, Holds(k), Holds(calls[d])
      PROVE  Apart(k, calls[d], head) /\ Apart(calls[d], k, head)
  <2> DEFINE j == calls[c]
             e == calls[d]
  <2>1. /\ Behind(k, head) \in Nat /\ Behind(j, head) \in Nat /\ k.count \in Nat /\ j.count \in Nat
        /\ Behind(k, head) <= Behind(j, head)
        /\ Behind(k, head) - k.count = Behind(j, head) - j.count
    BY <1>3, LessensBehind DEF AllHeld
  <2>2. e.index \in Index /\ e.count \in Nat
    BY <1>3 DEF AllHeld, HeldOK
  <2>3. Behind(e, head) \in Nat
    BY <2>2, MinusValue DEF Behind, Index
  <2>4. \/ Behind(j, head) + e.count <= Behind(e, head)
        \/ Behind(e, head) + j.count <= Behind(j, head)
    BY <1>3 DEF AllHeld, Apart, Lessens
  <2> DEFINE bk == Behind(k, head)
             bj == Behind(j, head)
             be == Behind(e, head)
             nk == k.count
             nj == j.count
             ne == e.count
  <2>5. /\ bk \in Nat /\ bj \in Nat /\ be \in Nat /\ nk \in Nat /\ nj \in Nat /\ ne \in Nat
        /\ bk <= bj /\ bk - nk = bj - nj /\ (bj + ne <= be \/ be + nj <= bj)
    BY <2>1, <2>2, <2>3, <2>4
  <2> HIDE DEF bk, bj, be, nk, nj, ne
  <2>6. bk + ne <= be \/ be + nk <= bk
    BY ONLY <2>5
  <2> QED BY <2>6 DEF Apart, bk, be, nk, ne
<1>4. ASSUME NEW d \in Consumers, NEW e \in Consumers, d # e
      PROVE  Apart(after[d], after[e], head)
  <2>1. CASE d # c /\ e # c
    BY <1>1, <1>4, <2>1 DEF AllHeld
  <2>2. CASE d = c
    BY <1>1, <1>3, <1>4, <2>2 DEF Apart
  <2>3. CASE e = c
    BY <1>1, <1>3, <1>4, <2>3 DEF Apart
  <2> QED BY <2>1, <2>2, <2>3
<1>5. AllHeld(after, tail, head, pend)
  BY <1>2, <1>4 DEF AllHeld
<1> QED BY <1>5 DEF after

\* A consumer takes n elements at the head: everything that was behind it is so by
\* n more.
LEMMA HeldTaken ==
  ASSUME NEW calls, calls = [d \in Consumers |-> calls[d]],
         NEW tail \in Index, NEW head \in Index, NEW pend \in Nat, AllHeld(calls, tail, head, pend),
         NEW n \in Nat, n <= Minus(tail, head), Minus(tail, head) + pend < Half + Quarter,
         NEW c \in Consumers, NEW k, k.index = head, k.count = n
  PROVE  AllHeld([calls EXCEPT ![c] = k], tail, Plus(head, n), pend)
<1> DEFINE after == [calls EXCEPT ![c] = k]
           s == Minus(tail, head)
           to == Plus(head, n)
<1>1. after[c] = k /\ \A d \in Consumers : d # c => after[d] = calls[d]
  OBVIOUS
<1>2. s \in Index /\ n \in Index /\ n <= s /\ s + pend < Half + Quarter
  BY MinusValue, Width DEF Index
<1>3. to \in Index /\ Minus(tail, to) = s - n
  BY <1>2, Distances
<1> HIDE DEF after, s, to
<1>4. Minus(head, head) = 0 /\ Minus(to, head) = n
  <2>1. Minus(head, head) = 0
    BY MinusValue, Width DEF Index
  <2>2. Minus(head, head) + n < IndexSize
    BY <1>2, <2>1, Width DEF Index
  <2> QED BY <1>2, <2>1, <2>2, Distances DEF to, Index
<1>5. ASSUME NEW d \in Consumers, Holds(calls[d])
      PROVE  /\ calls[d].index \in Index /\ calls[d].count \in Nat
             /\ Behind(calls[d], head) \in Nat /\ calls[d].count <= Behind(calls[d], head)
             /\ Behind(calls[d], to) = Behind(calls[d], head) + n
             /\ Behind(calls[d], head) + s + pend < Half + Quarter
  <2> DEFINE b == Behind(calls[d], head)
  <2>1. /\ calls[d].index \in Index /\ calls[d].count \in Nat /\ calls[d].count <= b
        /\ b + s + pend < Half + Quarter
    BY <1>5 DEF AllHeld, HeldOK, s
  <2>2. b \in Index
    BY <2>1, MinusValue DEF Behind
  <2>3. b + n < IndexSize
    <3> HIDE DEF b
    <3> QED BY <1>2, <2>1, <2>2, Width, Quarters DEF Index
  <2>4. Behind(calls[d], to) = b + n
    BY <1>2, <2>1, <2>3, Distances DEF Behind, to
  <2> QED BY <2>1, <2>2, <2>4, Width DEF Index
<1>6. Behind(k, to) = n
  BY <1>4 DEF Behind
<1>7. HeldOK(k, tail, to, pend)
  <2>1. n + (s - n) + pend < Half + Quarter
    BY <1>2, Width, Quarters DEF Index
  <2> QED BY <1>2, <1>3, <1>6, <2>1 DEF HeldOK, Index
<1>8. ASSUME NEW d \in Consumers, d # c PROVE HeldOK(calls[d], tail, to, pend)
  <2> SUFFICES ASSUME Holds(calls[d]) PROVE HeldOK(calls[d], tail, to, pend)
    BY DEF HeldOK
  <2> DEFINE b == Behind(calls[d], head)
             m == calls[d].count
  <2>1. /\ calls[d].index \in Index /\ m \in Nat /\ b \in Nat /\ m <= b
        /\ Behind(calls[d], to) = b + n /\ b + s + pend < Half + Quarter
    BY <1>5
  <2>2. m <= b + n /\ (b + n) + (s - n) + pend < Half + Quarter
    <3> HIDE DEF b, m
    <3> QED BY <1>2, <2>1, Width, Quarters DEF Index
  <2> QED BY <1>3, <2>1, <2>2 DEF HeldOK
<1>9. ASSUME NEW d \in Consumers, NEW e \in Consumers, d # e
      PROVE  Apart(after[d], after[e], to)
  <2> SUFFICES ASSUME Holds(after[d]), Holds(after[e])
               PROVE  \/ Behind(after[d], to) + after[e].count <= Behind(after[e], to)
                      \/ Behind(after[e], to) + after[d].count <= Behind(after[d], to)
    BY DEF Apart
  <2>1. CASE d # c /\ e # c
    <3> DEFINE x == Behind(calls[d], head)
               y == Behind(calls[e], head)
               i == calls[d].count
               j == calls[e].count
    <3>1. after[d] = calls[d] /\ after[e] = calls[e]
      BY <1>1, <2>1
    <3>2. x + j <= y \/ y + i <= x
      BY <3>1, <1>9 DEF AllHeld, Apart
    <3>3. /\ x \in Nat /\ y \in Nat /\ i \in Nat /\ j \in Nat
          /\ Behind(calls[d], to) = x + n /\ Behind(calls[e], to) = y + n
      BY <1>5, <3>1
    <3> HIDE DEF x, y, i, j
    <3>4. (x + n) + j <= y + n \/ (y + n) + i <= x + n
      BY ONLY <3>2, <3>3, n \in Nat
    <3> QED BY <3>1, <3>3, <3>4 DEF i, j
  <2>2. CASE d = c
    <3>1. after[d] = k /\ after[e] = calls[e]
      BY <1>1, <1>9, <2>2
    <3>2. /\ calls[e].count \in Nat /\ Behind(calls[e], head) \in Nat
          /\ calls[e].count <= Behind(calls[e], head)
          /\ Behind(calls[e], to) = Behind(calls[e], head) + n
      BY <1>5, <3>1
    <3> DEFINE y == Behind(calls[e], head)
               j == calls[e].count
    <3>3. j \in Nat /\ y \in Nat /\ j <= y /\ Behind(calls[e], to) = y + n
      BY <3>2
    <3> HIDE DEF y, j
    <3>4. n + j <= y + n
      BY ONLY <3>3, n \in Nat
    <3> QED BY <1>6, <3>1, <3>3, <3>4 DEF j
  <2>3. CASE e = c
    <3>1. after[e] = k /\ after[d] = calls[d]
      BY <1>1, <1>9, <2>3
    <3> DEFINE x == Behind(calls[d], head)
               i == calls[d].count
    <3>2. i \in Nat /\ x \in Nat /\ i <= x /\ Behind(calls[d], to) = x + n
      BY <1>5, <3>1
    <3> HIDE DEF x, i
    <3>3. n + i <= x + n
      BY ONLY <3>2, n \in Nat
    <3> QED BY <1>6, <3>1, <3>2, <3>3 DEF i
  <2> QED BY <2>1, <2>2, <2>3
<1>10. AllHeld(after, tail, to, pend)
  BY <1>1, <1>7, <1>8, <1>9 DEF AllHeld
<1> QED BY <1>10 DEF after, to

\* The head stays: only the room between the tail and what is held changes.
LEMMA HeldRoom ==
  ASSUME NEW calls, NEW tail, NEW head, NEW pend, AllHeld(calls, tail, head, pend), NEW to, NEW p,
         \A c \in Consumers : Holds(calls[c]) =>
            Behind(calls[c], head) + Minus(to, head) + p < Half + Quarter
  PROVE  AllHeld(calls, to, head, p)
BY DEF AllHeld, HeldOK

\* An enqueue of count elements begins: MaxSpan bounds what it leaves behind.
LEMMA HeldStart ==
  ASSUME NEW calls, NEW tail \in Index, NEW head \in Index, AllHeld(calls, tail, head, 0),
         NEW count \in 0..Quarter,
         \A c \in Consumers : Holds(calls[c]) => Minus(Plus(tail, count), calls[c].index) <= MaxSpan
  PROVE  AllHeld(calls, tail, head, count)
<1> SUFFICES ASSUME NEW c \in Consumers, Holds(calls[c])
             PROVE  Behind(calls[c], head) + Minus(tail, head) + count < Half + Quarter
  BY HeldRoom
<1> DEFINE i == calls[c].index
           b == Behind(calls[c], head)
           s == Minus(tail, head)
<1>1. i \in Index /\ b + s + 0 < Half + Quarter
  BY DEF AllHeld, HeldOK
<1>2. b \in Index /\ s \in Index /\ b = Minus(head, i)
  BY <1>1, MinusValue DEF Behind
<1>3. count \in Index /\ MaxSpan \in Nat /\ MaxSpan <= Half
  BY SpanAssumption, Width, Quarters DEF Index, Half
<1>4. Minus(Plus(tail, count), i) <= MaxSpan
  OBVIOUS
<1> HIDE DEF b, s
<1>5. b + s + count < IndexSize
  BY <1>1, <1>2, <1>3, Width, Quarters DEF Index
<1>6. Minus(tail, i) = b + s
  <2> HIDE DEF i
  <2>1. b = IF i <= head THEN head - i ELSE head - i + IndexSize
    BY <1>1, <1>2, MinusValue
  <2>2. s = IF head <= tail THEN tail - head ELSE tail - head + IndexSize
    BY MinusValue DEF s
  <2>3. Minus(tail, i) \in Index /\ Minus(tail, i) = IF i <= tail THEN tail - i ELSE tail - i + IndexSize
    BY <1>1, MinusValue
  <2> DEFINE d == Minus(tail, i)
  <2>4. d \in Index /\ d = IF i <= tail THEN tail - i ELSE tail - i + IndexSize
    BY <2>3
  <2> HIDE DEF d
  <2>5. d = b + s
    BY ONLY <1>1, <1>2, <1>3, <1>5, <2>1, <2>2, <2>4, Width, tail \in Index, head \in Index DEF Index
  <2> QED BY <2>5 DEF d
<1>7. Minus(Plus(tail, count), i) = b + s + count
  <2> HIDE DEF i
  <2>1. Minus(tail, i) + count < IndexSize
    BY <1>5, <1>6
  <2>2. Minus(Plus(tail, count), i) = Minus(tail, i) + count
    BY <1>1, <1>3, <2>1, Distances
  <2> QED BY <1>6, <2>2
<1> QED BY <1>2, <1>3, <1>4, <1>7, Quarters, Width DEF b, s, Index

\* Its elements are published.
LEMMA HeldPublish ==
  ASSUME NEW calls, NEW tail \in Index, NEW head \in Index, NEW pend \in 0..Quarter,
         AllHeld(calls, tail, head, pend), Minus(tail, head) <= Half
  PROVE  AllHeld(calls, Plus(tail, pend), head, 0)
<1> DEFINE s == Minus(tail, head)
<1>1. pend \in Index /\ s \in Index
  BY MinusValue, Width, Quarters DEF Index
<1>2. s + pend < IndexSize
  BY <1>1, Width, Quarters DEF Index
<1>3. Minus(Plus(tail, pend), head) = s + pend
  BY <1>1, <1>2, Distances
<1> SUFFICES ASSUME NEW c \in Consumers, Holds(calls[c])
             PROVE  Behind(calls[c], head) + Minus(Plus(tail, pend), head) + 0 < Half + Quarter
  BY HeldRoom
<1>4. calls[c].index \in Index /\ Behind(calls[c], head) + s + pend < Half + Quarter
  BY DEF AllHeld, HeldOK
<1>5. Behind(calls[c], head) \in Index
  BY <1>4, MinusValue DEF Behind
<1> HIDE DEF s
<1> QED BY <1>1, <1>3, <1>4, <1>5, Width, Quarters DEF Index

\* It is given up.
LEMMA HeldDropped ==
  ASSUME NEW calls, NEW tail \in Index, NEW head \in Index, NEW pend \in Nat,
         AllHeld(calls, tail, head, pend)
  PROVE  AllHeld(calls, tail, head, 0)
<1> SUFFICES ASSUME NEW c \in Consumers, Holds(calls[c])
             PROVE  Behind(calls[c], head) + Minus(tail, head) + 0 < Half + Quarter
  BY HeldRoom
<1>1. calls[c].index \in Index /\ Behind(calls[c], head) + Minus(tail, head) + pend < Half + Quarter
  BY DEF AllHeld, HeldOK
<1>2. Behind(calls[c], head) \in Index /\ Minus(tail, head) \in Index
  BY <1>1, MinusValue DEF Behind
<1> QED BY <1>1, <1>2, Width, Quarters DEF Index

\* Unfolding of the invariant.
LEMMA HeldInvParts ==
  ASSUME HeldInv
  PROVE  /\ prod.count \in 0..Quarter /\ prod.count \in Nat
         /\ AllHeld(call, tailIndex, headIndex, prod.count)
         /\ \A c \in Consumers : Holds(call[c]) => call[c].index \in Index /\ call[c].count \in Nat
BY Quarters DEF HeldInv, AllHeld, HeldOK

\* A step of a consumer that leaves head and tail alone.
LEMMA HeldQuietly ==
  ASSUME ClaimsInv, HeldInv, NEW c \in Consumers, NEW k, Lessens(call[c], k),
         call' = [call EXCEPT ![c] = k], UNCHANGED <<tailIndex, headIndex, prod>>
  PROVE  HeldInv'
<1>1. AllHeld([call EXCEPT ![c] = k], tailIndex, headIndex, prod.count)
  BY HeldInvParts, ClaimsInvParts, HeldLessens DEF CallsOK
<1>2. tailIndex' = tailIndex /\ headIndex' = headIndex /\ prod' = prod
  OBVIOUS
<1>3. AllHeld(call', tailIndex', headIndex', prod'.count)
  BY <1>1, <1>2
<1>4. prod'.count \in 0..Quarter
  BY <1>2, HeldInvParts
<1> QED BY <1>3, <1>4 DEF HeldInv

\* A consumer that keeps its elements.
LEMMA KeepsElements ==
  ASSUME HeldInv, NEW c \in Consumers, NEW k, Holds(call[c]),
         k.index = call[c].index, k.count = call[c].count
  PROVE  Lessens(call[c], k)
<1>1. call[c].index \in Index /\ call[c].count \in Nat
  BY HeldInvParts
<1>2. 0 \in 0..IndexSize
  BY Width
<1>3. Plus(call[c].index, 0) = call[c].index
  BY <1>1, <1>2, PlusValue, Width DEF Index
<1>4. 0 \in 0..call[c].count /\ k.index = Plus(call[c].index, 0) /\ k.count = call[c].count - 0
  BY <1>1, <1>3
<1> QED BY <1>4 DEF Lessens

\* A consumer that goes on to its next block.
LEMMA AdvanceLessens ==
  ASSUME HeldInv, NEW c \in Consumers, Holds(call[c]), CallShape(call[c]), NEW size
  PROVE  Lessens(call[c], Advance(call[c], size))
<1> DEFINE j == call[c]
           m == InBlock(j)
           left == BLOCK_SIZE - Offset(j.index)
<1>1. j.index \in Index /\ j.count \in Nat
  BY HeldInvParts
<1>2. j.index \in Nat
  BY <1>1, Width DEF Index
<1>3. Offset(j.index) \in 0..(BLOCK_SIZE - 1)
  BY <1>2, BlockFits DEF Offset
<1>4. left \in Nat
  BY <1>3, BlockFits
<1>5. m \in 0..j.count
  <2>1. m = IF j.count < left THEN j.count ELSE left
    BY DEF InBlock, Smaller
  <2> HIDE DEF left, m
  <2> QED BY <1>1, <1>4, <2>1
<1>6. CASE j.count = m
  <2>1. Advance(j, size) = NoCall
    BY <1>6 DEF Advance
  <2>2. ~Holds(NoCall)
    BY NoCallShape DEF Holds, HoldingPcs
  <2> QED BY <2>1, <2>2 DEF Lessens
<1>7. CASE j.count # m
  <2> DEFINE k == [j EXCEPT !.pc = "move", !.count = @ - m, !.block = NoBlock,
                   !.index = Plus(@, m), !.slot = (@ + 1) % size]
  <2>1. Advance(j, size) = k
    BY <1>7 DEF Advance
  <2>2. k.index = Plus(j.index, m) /\ k.count = j.count - m
    <3> HIDE DEF m, j
    <3> QED BY DEF CallShape, CallFields, j
  <2> HIDE DEF k, m
  <2>3. \E n \in 0..j.count : k.index = Plus(j.index, n) /\ k.count = j.count - n
    BY <1>5, <2>2
  <2> QED BY <2>1, <2>3 DEF Lessens
<1> QED BY <1>6, <1>7

\* The elements of an implicit producer are fewer than half the range.
LEMMA RoomSmall ==
  ASSUME ClaimsInv, RoomInv, ~isExplicit
  PROVE  Minus(tailIndex, headIndex) < Half
BY ClaimsInvParts, GainedValue DEF RoomInv

\* What the invariant says of an implicit producer.
LEMMA RoomFits ==
  ASSUME ClaimsInv, RoomInv, ~isExplicit
  PROVE  Fits /\ Minus(tailIndex, headIndex) <= MAX_SUBQUEUE_SIZE
<1>1. Minus(tailIndex, headIndex) < Half /\ Minus(tailIndex, headIndex) <= MAX_SUBQUEUE_SIZE
  BY ClaimsInvParts, GainedValue DEF RoomInv
<1> QED BY <1>1, ClaimsInvParts, Width DEF Fits

\* A dequeue from an implicit producer.
LEMMA HeldDequeue ==
  ASSUME ClaimsInv, RoomInv, Fits, HeldInv, ~isExplicit, NEW c \in Consumers, Dequeuing(c)
  PROVE  HeldInv'
<1> DEFINE k0 == call[c]
<1>1. prod' = prod
  BY DEF Dequeuing
<1>2. CallShape(k0)
  BY ClaimsInvParts DEF CallOK
<1>3. ASSUME NEW from, NEW k, SetCall(c, from, k), UNCHANGED <<tailIndex, headIndex>>,
             Lessens(k0, k)
      PROVE  HeldInv'
  BY <1>1, <1>3, HeldQuietly DEF SetCall
<1>4. ASSUME NEW k, k.pc \notin HoldingPcs PROVE Lessens(k0, k)
  BY <1>4 DEF Lessens, Holds
<1>5. ASSUME NEW max \in 1..MaxDemand, Look(c, max) PROVE HeldInv'
  <2> DEFINE available == Minus(tailIndex, Minus(dequeueOptimisticCount, dequeueOvercommit))
             k == [NoCall EXCEPT !.pc = "claim", !.overcommit = dequeueOvercommit,
                                 !.desiredCount = Smaller(available, max)]
  <2>1. SetCall(c, "idle", k) /\ UNCHANGED <<tailIndex, headIndex>>
    BY <1>5 DEF Look, counters
  <2>2. k.pc = "claim"
    BY DEF NoCall
  <2> HIDE DEF k
  <2>3. k.pc \notin HoldingPcs
    BY <2>2 DEF HoldingPcs
  <2> QED BY <1>3, <1>4, <2>1, <2>3
<1>6. CASE Claim(c)
  <2> DEFINE k == [k0 EXCEPT !.pc = "recheck", !.myDequeueCount = dequeueOptimisticCount]
  <2>1. SetCall(c, "claim", k) /\ UNCHANGED <<tailIndex, headIndex>>
    BY <1>6 DEF Claim
  <2>2. k.pc = "recheck"
    <3> HIDE DEF k0
    <3> QED BY <1>2 DEF CallShape, CallFields, k0
  <2> HIDE DEF k
  <2>3. k.pc \notin HoldingPcs
    BY <2>2 DEF HoldingPcs
  <2> QED BY <1>3, <1>4, <2>1, <2>3
<1>7. CASE Recheck(c)
  <2> DEFINE k == [k0 EXCEPT !.pc = "overcommit", !.count = Existing(k0),
                             !.overcommit = 0, !.myDequeueCount = 0]
  <2>1. SetCall(c, "recheck", k) /\ UNCHANGED <<tailIndex, headIndex>>
    BY <1>7 DEF Recheck, counters
  <2>2. k.pc = "overcommit"
    <3> HIDE DEF k0
    <3> QED BY <1>2 DEF CallShape, CallFields, k0
  <2> HIDE DEF k
  <2>3. k.pc \notin HoldingPcs
    BY <2>2 DEF HoldingPcs
  <2> QED BY <1>3, <1>4, <2>1, <2>3
<1>8. CASE Overcommit(c)
  <2> DEFINE k == IF k0.count = 0 THEN NoCall ELSE [NoCall EXCEPT !.pc = "take", !.count = k0.count]
  <2>1. SetCall(c, "overcommit", k) /\ UNCHANGED <<tailIndex, headIndex>>
    BY <1>8 DEF Overcommit
  <2>2. k.pc \in {"idle", "take"}
    BY DEF NoCall
  <2> HIDE DEF k
  <2>3. k.pc \notin HoldingPcs
    BY <2>2 DEF HoldingPcs
  <2> QED BY <1>3, <1>4, <2>1, <2>3
<1>9. ASSUME NEW k, Holds(k0), k.index = k0.index, k.count = k0.count PROVE Lessens(k0, k)
  BY <1>9, KeepsElements
<1>10. CASE Load(c)
  <2> DEFINE k == [k0 EXCEPT !.pc = "locate", !.header = Len(blockIndex), !.slot = Header.front]
  <2>1. SetCall(c, "load", k) /\ UNCHANGED <<tailIndex, headIndex>>
    BY <1>10 DEF Load, counters
  <2>2. k.index = k0.index /\ k.count = k0.count
    <3> HIDE DEF k0
    <3> QED BY <1>2 DEF CallShape, CallFields, k0
  <2> HIDE DEF k
  <2>3. Holds(k0)
    BY <2>1 DEF Holds, HoldingPcs, SetCall
  <2> QED BY <1>3, <1>9, <2>1, <2>2, <2>3
<1>11. CASE ImplicitLocate(c)
  <2> DEFINE slot == SlotOf(blockIndex[k0.header], k0.slot, k0.index)
             k == [k0 EXCEPT !.pc = "move", !.slot = slot]
  <2>1. SetCall(c, "locate", k) /\ UNCHANGED <<tailIndex, headIndex>>
    BY <1>11 DEF ImplicitLocate, counters
  <2>2. k.index = k0.index /\ k.count = k0.count
    <3> HIDE DEF k0, slot
    <3> QED BY <1>2 DEF CallShape, CallFields, k0
  <2> HIDE DEF k
  <2>3. Holds(k0)
    BY <2>1 DEF Holds, HoldingPcs, SetCall
  <2> QED BY <1>3, <1>9, <2>1, <2>2, <2>3
<1>12. CASE ImplicitMove(c)
  <2> DEFINE b == entry[EntryOf(k0)].value
             k == [k0 EXCEPT !.pc = "release", !.block = b]
  <2>1. SetCall(c, "move", k) /\ UNCHANGED <<tailIndex, headIndex>>
    BY <1>12 DEF ImplicitMove, MoveOut, counters
  <2>2. k.index = k0.index /\ k.count = k0.count
    <3> HIDE DEF k0, b
    <3> QED BY <1>2 DEF CallShape, CallFields, k0
  <2> HIDE DEF k
  <2>3. Holds(k0)
    BY <2>1 DEF Holds, HoldingPcs, SetCall
  <2> QED BY <1>3, <1>9, <2>1, <2>2, <2>3
<1>13. ASSUME NEW size, NEW from \in HoldingPcs, SetCall(c, from, Advance(k0, size)),
              UNCHANGED <<tailIndex, headIndex>>
       PROVE  HeldInv'
  <2>1. Holds(k0)
    BY <1>13 DEF Holds, SetCall
  <2>2. Lessens(k0, Advance(k0, size))
    BY <1>2, <2>1, AdvanceLessens
  <2> QED BY <1>3, <1>13, <2>2
<1>14. ASSUME NEW from \in HoldingPcs, NEW to \in HoldingPcs,
              SetCall(c, from, [k0 EXCEPT !.pc = to]), UNCHANGED <<tailIndex, headIndex>>
       PROVE  HeldInv'
  <2> DEFINE k == [k0 EXCEPT !.pc = to]
  <2>1. SetCall(c, from, k)
    BY <1>14
  <2>2. k.index = k0.index /\ k.count = k0.count
    <3> HIDE DEF k0
    <3> QED BY <1>2 DEF CallShape, CallFields, k0
  <2> HIDE DEF k
  <2>3. Holds(k0)
    BY <2>1 DEF Holds, SetCall
  <2> QED BY <1>3, <1>9, <1>14, <2>1, <2>2, <2>3
<1>15. CASE ImplicitRelease(c)
  <2>1. UNCHANGED <<tailIndex, headIndex>> /\ "release" \in HoldingPcs /\ "erase" \in HoldingPcs
    BY <1>15 DEF ImplicitRelease, counters, HoldingPcs
  <2>2. CASE LastCell(k0)
    <3>1. SetCall(c, "release", [k0 EXCEPT !.pc = "erase"])
      BY <1>15, <2>2 DEF ImplicitRelease
    <3> QED BY <1>14, <2>1, <3>1
  <2>3. CASE ~LastCell(k0)
    <3>1. SetCall(c, "release", Advance(k0, blockIndex[k0.header].size))
      BY <1>15, <2>3 DEF ImplicitRelease
    <3> QED BY <1>13, <2>1, <3>1
  <2> QED BY <2>2, <2>3
<1>16. CASE Erase(c)
  <2>1. UNCHANGED <<tailIndex, headIndex>> /\ "erase" \in HoldingPcs /\ "free" \in HoldingPcs
    BY <1>16 DEF Erase, counters, HoldingPcs
  <2>2. SetCall(c, "erase", [k0 EXCEPT !.pc = "free"])
    BY <1>16 DEF Erase
  <2> QED BY <1>14, <2>1, <2>2
<1>17. CASE Free(c)
  <2>1. UNCHANGED <<tailIndex, headIndex>> /\ "free" \in HoldingPcs
    BY <1>17 DEF Free, counters, HoldingPcs
  <2>2. SetCall(c, "free", Advance(k0, blockIndex[k0.header].size))
    BY <1>17 DEF Free
  <2> QED BY <1>13, <2>1, <2>2
<1>18. CASE TakeAll(c) \/ Take(c)
  <2>1. PICK pc, n : Taking(c, pc, n)
    BY <1>18, TakesShare
  <2> DEFINE k == [NoCall EXCEPT !.pc = "load", !.count = n, !.index = headIndex]
             s == Minus(tailIndex, headIndex)
  <2>2. /\ call' = [call EXCEPT ![c] = k] /\ tailIndex' = tailIndex
        /\ headIndex' = Plus(headIndex, n)
    BY <2>1 DEF Taking, TakeFrom, SetCall
  <2>3. n \in 0..Half /\ n <= s
    BY <2>1, ShareExists DEF Taking
  <2>4. k.index = headIndex /\ k.count = n
    BY DEF NoCall
  <2>5. s < Half /\ s \in Nat /\ prod.count \in 0..Quarter
    BY RoomSmall, ClaimsInvParts, HeldInvParts
  <2>6. s + prod.count < Half + Quarter /\ n \in Nat
    BY <2>3, <2>5, Width, Quarters
  <2> HIDE DEF k, s
  <2>7. AllHeld([call EXCEPT ![c] = k], tailIndex, Plus(headIndex, n), prod.count)
    BY <2>3, <2>4, <2>6, HeldInvParts, ClaimsInvParts, HeldTaken DEF CallsOK, s
  <2>8. AllHeld(call', tailIndex', headIndex', prod'.count) /\ prod'.count \in 0..Quarter
    BY <1>1, <2>2, <2>5, <2>7
  <2> QED BY <2>8 DEF HeldInv
<1> QED
  BY <1>5, <1>6, <1>7, <1>8, <1>10, <1>11, <1>12, <1>15, <1>16, <1>17, <1>18
     DEF Dequeuing, CountersStep, ImplicitDequeueStep

\* An enqueue to an implicit producer.
LEMMA HeldEnqueue ==
  ASSUME ClaimsInv, RoomInv, Fits, HeldInv, ~isExplicit, Enqueuing
  PROVE  HeldInv'
<1> DEFINE All(n) == AllHeld(call, tailIndex, headIndex, n)
<1>1. /\ prod.count \in 0..Quarter /\ prod.count \in Nat /\ All(prod.count)
      /\ tailIndex \in Index /\ headIndex \in Index /\ ProdShape(prod)
  BY HeldInvParts, ClaimsInvParts DEF ProdOK
<1>2. All(0) /\ 0 \in 0..Quarter /\ NoEnqueue.count = 0
  BY <1>1, HeldDropped, Quarters DEF NoEnqueue
<1>3. CASE Publish
  <2>1. /\ tailIndex' = Plus(tailIndex, prod.count) /\ prod' = NoEnqueue
        /\ headIndex' = headIndex /\ call' = call
    BY <1>3 DEF Publish, SetProd
  <2>2. AllHeld(call, Plus(tailIndex, prod.count), headIndex, 0)
    BY <1>1, HeldPublish DEF Fits
  <2>3. AllHeld(call', tailIndex', headIndex', prod'.count) /\ prod'.count \in 0..Quarter
    BY <1>2, <2>1, <2>2
  <2> QED BY <2>3 DEF HeldInv
<1>4. CASE ImplicitEnqueueStep /\ UNCHANGED <<counters, call>>
  <2>1. tailIndex' = tailIndex /\ headIndex' = headIndex /\ call' = call
    BY <1>4 DEF counters
  <2> SUFFICES prod'.count \in 0..Quarter /\ All(prod'.count)
    BY <2>1 DEF HeldInv
  <2>2. CASE InsertFails \/ AcquireFails \/ ImplicitThrow
    <3>1. prod' = NoEnqueue
      BY <2>2 DEF InsertFails, AcquireFails, ImplicitThrow, Revert
    <3> QED BY <1>2, <3>1
  <2>3. ASSUME NEW count \in Counts \cup {1}, ImplicitEnqueue(count)
        PROVE  prod'.count \in 0..Quarter /\ All(prod'.count)
    <3>1. count \in 0..Quarter
      BY CountsAssumption, Quarters DEF Quarter
    <3>2. ASSUME NEW c \in Consumers, Holds(call[c])
          PROVE  Minus(Plus(tailIndex, count), call[c].index) <= MaxSpan
      <4>1. call[c].index \in Unreleased
        BY <3>2 DEF Holds, HoldingPcs, Holding, Unreleased
      <4> QED BY <2>3, <4>1 DEF ImplicitEnqueue
    <3>3. All(count)
      BY <1>1, <1>2, <3>1, <3>2, HeldStart
    <3>4. prod'.count = count
      <4> DEFINE pc == IF NewBlocks(count) > 0 THEN "insert" ELSE "construct"
      <4>1. prod' = [NoEnqueue EXCEPT !.pc = pc, !.count = count, !.startBlock = tailBlock]
        BY <2>3 DEF ImplicitEnqueue, SetProd
      <4> HIDE DEF pc
      <4> QED BY <4>1 DEF NoEnqueue
    <3> QED BY <3>1, <3>3, <3>4
  <2>4. CASE Insert
    <3>1. prod'.count = prod.count
      BY <1>1, <2>4 DEF Insert, SetProd, ProdShape, ProdFields
    <3> QED BY <1>1, <3>1
  <2>5. ASSUME NEW b, Acquire(b) PROVE prod'.count \in 0..Quarter /\ All(prod'.count)
    <3> DEFINE pc == IF Need = 1 THEN "construct" ELSE "insert"
    <3>1. prod' = [prod EXCEPT !.chain = Append(@, b), !.pc = pc]
      BY <2>5 DEF Acquire, SetProd
    <3> HIDE DEF pc
    <3>2. prod'.count = prod.count
      BY <1>1, <3>1 DEF ProdShape, ProdFields
    <3> QED BY <1>1, <3>2
  <2>6. CASE ImplicitConstruct
    <3>1. prod'.count = prod.count
      BY <1>1, <2>6 DEF ImplicitConstruct, SetProd, ProdShape, ProdFields
    <3> QED BY <1>1, <3>1
  <2> QED BY <1>4, <2>2, <2>3, <2>4, <2>5, <2>6 DEF ImplicitEnqueueStep
<1> QED BY <1>3, <1>4 DEF Enqueuing

\* Nothing is held at first, and steps keep what is held apart.
LEMMA HeldInit == Init => HeldInv
<1> SUFFICES ASSUME Init PROVE HeldInv
  OBVIOUS
<1>1. call = [c \in Consumers |-> NoCall] /\ prod = NoEnqueue
  BY DEF Init, BaseInit
<1>2. \A c \in Consumers : ~Holds(call[c])
  BY <1>1, NoCallShape DEF Holds, HoldingPcs
<1>3. prod.count \in 0..Quarter
  BY <1>1, Quarters DEF NoEnqueue
<1> QED BY <1>2, <1>3 DEF HeldInv, AllHeld, HeldOK, Apart

LEMMA HeldNext == ClaimsInv /\ RoomInv /\ HeldInv /\ ~isExplicit /\ [Next]_vars => HeldInv'
<1> SUFFICES ASSUME ClaimsInv, RoomInv, HeldInv, ~isExplicit, [Next]_vars PROVE HeldInv'
  OBVIOUS
<1>1. Fits
  BY RoomFits
<1>2. CASE UNCHANGED vars
  BY <1>2 DEF vars, counters, HeldInv
<1>3. CASE Enqueuing
  BY <1>1, <1>3, HeldEnqueue
<1>4. ASSUME NEW c \in Consumers, Dequeuing(c) PROVE HeldInv'
  BY <1>1, <1>4, HeldDequeue
<1> QED BY <1>2, <1>3, <1>4 DEF Next, Step

\* The distance of an element from the head.
LEMMA ElementBehind ==
  ASSUME HeldInv, ClaimsInv, NEW c \in Holding, NEW i \in TakenBy(c)
  PROVE  /\ Minus(headIndex, i) \in Nat
         /\ Minus(headIndex, i) <= Behind(call[c], headIndex)
         /\ Behind(call[c], headIndex) - call[c].count < Minus(headIndex, i)
<1> DEFINE k == call[c]
           b == Behind(k, headIndex)
<1>1. c \in Consumers /\ Holds(k)
  BY DEF Holding, Holds, HoldingPcs
<1>2. k.index \in Index /\ k.count \in Nat /\ k.count <= b
  BY <1>1 DEF HeldInv, AllHeld, HeldOK
<1>3. b \in Index /\ headIndex \in Index /\ b = Minus(headIndex, k.index)
  BY <1>2, ClaimsInvParts, MinusValue DEF Behind
<1>4. PICK n \in 0..(k.count - 1) : i = Plus(k.index, n)
  BY DEF TakenBy
<1> HIDE DEF b
<1>5. n \in Index /\ n <= b /\ n < k.count /\ n \in Nat
  <2> HIDE DEF k
  <2> QED BY <1>2, <1>3, <1>4, Width DEF Index
<1>6. Minus(headIndex, i) = b - n
  BY <1>2, <1>3, <1>4, <1>5, Distances
<1> HIDE DEF k
<1> QED BY <1>2, <1>3, <1>5, <1>6, Width DEF Index, b, k

\* What is to come lies ahead of the head, as far as its distance behind the head
\* is zero or nearly the whole range.
LEMMA ComingAhead ==
  ASSUME ClaimsInv, HeldInv, NEW i \in Coming, Minus(tailIndex, headIndex) < Half
  PROVE  /\ Minus(headIndex, i) \in Nat
         /\ \/ Minus(headIndex, i) = 0
            \/ Minus(headIndex, i) + Minus(tailIndex, headIndex) + prod.count > IndexSize
<1> DEFINE s == Minus(tailIndex, headIndex)
           p == prod.count
<1>1. s \in Nat /\ p \in 0..Quarter /\ headIndex \in Index
  BY ClaimsInvParts, HeldInvParts
<1>2. PICK n \in 0..(s + p - 1) : i = Plus(headIndex, n)
  BY DEF Coming
<1>3. s < Half
  OBVIOUS
<1> HIDE DEF s, p
<1>4. n \in Index /\ n \in 0..IndexSize /\ n < s + p
  BY <1>1, <1>2, <1>3, Width, Quarters DEF Index
<1>5. i \in Index /\ i = IF headIndex + n < IndexSize THEN headIndex + n ELSE headIndex + n - IndexSize
  BY <1>1, <1>2, <1>4, PlusValue
<1> DEFINE d == Minus(headIndex, i)
<1>6. d \in Index /\ d = IF i <= headIndex THEN headIndex - i ELSE headIndex - i + IndexSize
  BY <1>1, <1>5, MinusValue
<1> HIDE DEF d
<1>7. d \in Nat /\ (d = 0 \/ d + s + p > IndexSize)
  BY ONLY <1>1, <1>4, <1>5, <1>6, Width, Quarters DEF Index
<1> QED BY <1>7 DEF d, s, p

\* What is held is apart.
LEMMA HeldDistinct ==
  ASSUME ClaimsInv, RoomInv, HeldInv, ~isExplicit
  PROVE  DistinctElements
<1> SUFFICES ASSUME NEW c \in Holding
             PROVE  /\ TakenBy(c) \cap Coming = {}
                    /\ \A d \in Holding \ {c} : TakenBy(c) \cap TakenBy(d) = {}
  BY DEF DistinctElements
<1>1. \A d \in Holding : d \in Consumers /\ Holds(call[d])
  BY DEF Holding, Holds, HoldingPcs
<1>2. ASSUME NEW d \in Holding
      PROVE  /\ Behind(call[d], headIndex) \in Nat /\ call[d].count \in Nat
             /\ call[d].count <= Behind(call[d], headIndex)
  <2>1. /\ call[d].index \in Index /\ call[d].count \in Nat
        /\ call[d].count <= Behind(call[d], headIndex)
    BY <1>1 DEF HeldInv, AllHeld, HeldOK
  <2>2. Behind(call[d], headIndex) \in Index
    BY <2>1, ClaimsInvParts, MinusValue DEF Behind
  <2> QED BY <2>1, <2>2, Width DEF Index
<1>3. TakenBy(c) \cap Coming = {}
  <2> SUFFICES ASSUME NEW i \in TakenBy(c), i \in Coming PROVE FALSE
    OBVIOUS
  <2> DEFINE b == Behind(call[c], headIndex)
             s == Minus(tailIndex, headIndex)
             m == Minus(headIndex, i)
  <2>1. b \in Nat /\ b + s + prod.count < Half + Quarter /\ call[c].count <= b /\ call[c].count \in Nat
    BY <1>1, <1>2 DEF HeldInv, AllHeld, HeldOK
  <2>2. m \in Nat /\ m <= b /\ b - call[c].count < m
    BY ElementBehind
  <2>3. s \in Nat /\ s < Half /\ prod.count \in Nat
    BY RoomSmall, ClaimsInvParts, HeldInvParts
  <2>4. m = 0 \/ m + s + prod.count > IndexSize
    BY <2>3, ComingAhead
  <2> HIDE DEF b, s, m
  <2> QED BY <2>1, <2>2, <2>3, <2>4, Width, Quarters
<1>4. ASSUME NEW d \in Holding \ {c}, NEW i \in TakenBy(c), i \in TakenBy(d) PROVE FALSE
  <2> DEFINE b == Behind(call[c], headIndex)
             a == Behind(call[d], headIndex)
             m == Minus(headIndex, i)
  <2>1. a \in Nat /\ b \in Nat /\ call[c].count \in Nat /\ call[d].count \in Nat
    BY <1>2
  <2>2. m \in Nat /\ m <= b /\ b - call[c].count < m
    BY ElementBehind
  <2>3. m <= a /\ a - call[d].count < m
    BY <1>4, ElementBehind
  <2>4. b + call[d].count <= a \/ a + call[c].count <= b
    BY <1>1 DEF HeldInv, AllHeld, Apart
  <2> HIDE DEF a, b, m
  <2> QED BY <2>1, <2>2, <2>3, <2>4
<1> QED BY <1>3, <1>4

-----------------------------------------------------------------------------
(* The theorems *)

\* The sub-queue starts empty, with nothing claimed.
LEMMA ClaimsInit == Init => ClaimsInv /\ RoomInv
<1> SUFFICES ASSUME Init PROVE ClaimsInv /\ RoomInv
  OBVIOUS
<1>1. /\ tailIndex = 0 /\ headIndex = 0 /\ dequeueOptimisticCount = 0 /\ dequeueOvercommit = 0
      /\ call = [c \in Consumers |-> NoCall] /\ prod = NoEnqueue
  BY DEF Init, BaseInit
<1>2. 0 \in Index /\ 0 \in Nat /\ Minus(0, 0) = 0 /\ Plus(0, 0) = 0
  <2>1. 0 \in Index /\ 0 \in 0..IndexSize
    BY Width DEF Index
  <2> QED BY <2>1, MinusValue, PlusValue, Width
<1>3. CallsOK(call)
  <2>1. CallOK(NoCall)
    BY NoCallShape DEF CallOK
  <2> QED BY <1>1, <2>1 DEF CallsOK
<1>4. \A c \in Consumers : call[c].pc = "idle"
  BY <1>1, NoCallShape
<1>5. Total(Claims(call)) = 0
  <2>1. \A c \in Consumers : ClaimOf(call[c]) = 0
    BY <1>4 DEF ClaimOf
  <2>2. Claims(call) \in [Consumers -> Nat] /\ \A c \in Consumers : Claims(call)[c] = 0
    BY <2>1 DEF Claims
  <2> QED BY <2>2, TotalZero
<1>6. ASSUME NEW b \in Nat PROVE Total(Shares(call, headIndex, b)) = 0
  <2>1. \A c \in Consumers : ShareOf(call[c], headIndex, b) = 0
    BY <1>4 DEF ShareOf
  <2>2. /\ Shares(call, headIndex, b) \in [Consumers -> Nat]
        /\ \A c \in Consumers : Shares(call, headIndex, b)[c] = 0
    BY <2>1 DEF Shares
  <2> QED BY <2>2, TotalZero
<1>7. ClaimsInv
  <2>1. CountersOK
    BY <1>1, <1>2 DEF CountersOK
  <2>2. ProdOK(prod)
    BY <1>1, NoEnqueueShape
  <2>3. LagsOK(call, dequeueOvercommit)
    BY <1>4 DEF LagsOK
  <2>4. ClaimsOK(call, headIndex, dequeueOptimisticCount, dequeueOvercommit)
    BY <1>1, <1>2, <1>5 DEF ClaimsOK
  <2>5. SharesOK(call, tailIndex, headIndex)
    BY <1>6 DEF SharesOK
  <2> QED BY <1>3, <2>1, <2>2, <2>3, <2>4, <2>5 DEF ClaimsInv
<1>8. RoomOK(NoEnqueue, 0, 0)
  <2> DEFINE u == Minus(0, 1)
  <2>1. u \in Index /\ u + 1 = IndexSize
    <3>1. 1 \in 1..(Half - 1)
      BY CountRange
    <3> QED BY <1>2, <3>1, LastIndex
  <2>2. Slack(0) = BLOCK_SIZE - 1 - Offset(u)
    BY DEF Slack
  <2> HIDE DEF u
  <2>3. Offset(u) = BLOCK_SIZE - 1
    <3>1. PICK q \in Int : Base(u) = BLOCK_SIZE * q
      BY <2>1, IndexParts
    <3>2. PICK m \in Nat : Half = BLOCK_SIZE * m
      BY Sizes
    <3>3. Offset(u) \in 0..(BLOCK_SIZE - 1) /\ Base(u) \in Index /\ u = Base(u) + Offset(u)
      BY <2>1, IndexParts
    <3>4. BLOCK_SIZE * q + Offset(u) + 1 = 2 * (BLOCK_SIZE * m)
      BY <2>1, <3>1, <3>2, <3>3, Width, BlockFits DEF Index
    <3>5. ASSUME NEW a \in Nat, NEW x \in Int, NEW y \in Int
          PROVE  a * (2 * x - y) = 2 * (a * x) - a * y
      BY <3>5
    <3>6. BLOCK_SIZE * (2 * m - q) = Offset(u) + 1
      <4>1. BLOCK_SIZE * (2 * m - q) = 2 * (BLOCK_SIZE * m) - BLOCK_SIZE * q
        BY <3>5, BlockFits
      <4> DEFINE x == BLOCK_SIZE * m
                 y == BLOCK_SIZE * q
      <4>2. x \in Int /\ y \in Int /\ y + Offset(u) + 1 = 2 * x
        BY <3>4, BlockFits
      <4> HIDE DEF x, y
      <4>3. 2 * x - y = Offset(u) + 1
        BY <3>3, <4>2, BlockFits
      <4> QED BY <4>1, <4>3 DEF x, y
    <3>7. ASSUME NEW a \in Nat, a > 0, NEW d \in Int, a * d > 0, a * d <= a PROVE a * d = a
      <4>1. d > 0
        BY <3>7
      <4>2. d < 2
        BY <3>7
      <4>3. d = 1
        BY <4>1, <4>2
      <4> QED BY <4>3
    <3>8. 2 * m - q \in Int
      OBVIOUS
    <3>9. Offset(u) + 1 > 0 /\ Offset(u) + 1 <= BLOCK_SIZE
      BY <3>3, BlockFits
    <3>10. Offset(u) + 1 = BLOCK_SIZE
      BY <3>6, <3>7, <3>8, <3>9, BlockFits
    <3> QED BY <3>3, <3>10, BlockFits
  <2>4. Gained(NoEnqueue) = 0 /\ BLOCK_SIZE * 0 = 0
    BY NoEnqueueShape, BlockFits DEF Gained
  <2>5. Slack(0) = 0
    BY <2>2, <2>3, BlockFits
  <2>6. Extent(NoEnqueue, 0, 0) = 0
    BY <1>2, <2>4, <2>5 DEF Extent
  <2>7. \E S : NoEnqueue.chain \in Seq(S)
    BY NoEnqueueShape
  <2>8. 0 < Half /\ 0 <= MAX_SUBQUEUE_SIZE
    BY Width, BlockSizeAssumption
  <2> QED BY <2>6, <2>7, <2>8, NoEnqueueShape DEF RoomOK
<1> QED BY <1>1, <1>7, <1>8 DEF RoomInv

\* A step keeps the claims in order while the elements fit.
LEMMA ClaimsNext == ClaimsInv /\ RoomInv /\ Fits /\ [Next]_vars => ClaimsInv'
<1> SUFFICES ASSUME ClaimsInv, RoomInv, Fits, [Next]_vars PROVE ClaimsInv'
  OBVIOUS
<1>1. CASE UNCHANGED vars
  BY <1>1, ClaimsInvParts, ProdStep DEF vars, counters
<1>2. ASSUME NEW c \in Consumers, Dequeuing(c) PROVE ClaimsInv'
  BY <1>2, DequeueStep
<1>3. CASE Publish
  BY <1>3, PublishStep
<1>4. CASE isExplicit /\ ExplicitEnqueueStep /\ UNCHANGED <<counters, call, entry>>
  <2>1. ProdOK(prod')
    BY <1>4, ClaimsInvParts, ExplicitProdOK
  <2> QED BY <1>4, <2>1, ProdStep
<1>5. CASE ~isExplicit /\ ImplicitEnqueueStep /\ UNCHANGED <<counters, call, explicitVars, undone>>
  <2>1. ProdOK(prod')
    BY <1>5, ClaimsInvParts, ImplicitStep DEF RoomInv
  <2> QED BY <1>5, <2>1, ProdStep
<1> QED BY <1>1, <1>2, <1>3, <1>4, <1>5 DEF Next, Step, Enqueuing

\* A step keeps the room of an implicit producer.
LEMMA RoomNext == ClaimsInv /\ RoomInv /\ Fits /\ [Next]_vars => RoomInv'
<1> SUFFICES ASSUME ClaimsInv, RoomInv, Fits, [Next]_vars, ~isExplicit' PROVE
             RoomOK(prod', tailIndex', headIndex')
  BY DEF RoomInv
<1>1. ~isExplicit
  BY DEF Next, Step, vars
<1>2. RoomOK(prod, tailIndex, headIndex)
  BY <1>1 DEF RoomInv
<1>3. CASE UNCHANGED vars
  BY <1>2, <1>3 DEF vars, counters
<1>4. ASSUME NEW c \in Consumers, Dequeuing(c)
      PROVE  RoomOK(prod', tailIndex', headIndex')
  <2>1. tailIndex' = tailIndex /\ Minus(tailIndex, headIndex') <= Minus(tailIndex, headIndex)
    BY <1>4, DequeueShrinks
  <2>2. headIndex' \in Index
    BY <1>4, DequeueStep DEF ClaimsInv, CountersOK
  <2>3. prod' = prod
    BY <1>4 DEF Dequeuing
  <2> QED BY <1>2, <2>1, <2>2, <2>3, ClaimsInvParts, RoomIdle
<1>5. CASE Publish
  BY <1>2, <1>5, PublishRoom
<1>6. CASE ImplicitEnqueueStep /\ UNCHANGED <<counters, call, explicitVars, undone>>
  <2>1. RoomOK(prod', tailIndex, headIndex)
    BY <1>2, <1>6, ClaimsInvParts, ImplicitStep
  <2> QED BY <1>6, <2>1 DEF counters
<1> QED BY <1>1, <1>3, <1>4, <1>5, <1>6 DEF Next, Step, Enqueuing

\* The promises follow from the shares.
LEMMA ClaimsPromise ==
  ASSUME ClaimsInv, Fits
  PROVE  PromisesKept
<1> DEFINE s == Minus(tailIndex, headIndex)
           sure == [c \in Consumers |-> Sure(c)]
<1>1. [c \in Consumers |-> Pending(c)] = Claims(call)
  <2>1. ASSUME NEW c \in Consumers PROVE Pending(c) = ClaimOf(call[c])
    BY DEF Pending, ClaimOf
  <2> QED BY <2>1 DEF Claims
<1>2. Minus(dequeueOptimisticCount, dequeueOvercommit)
        = Plus(headIndex, Total([c \in Consumers |-> Pending(c)]))
  BY <1>1, ClaimsInvParts DEF ClaimsOK
<1>3. ~circular_less_than(tailIndex, headIndex)
  BY ClaimsInvParts, Width DEF Fits, circular_less_than, Half, Index
<1>4. s \in Nat /\ Total(Shares(call, headIndex, s)) <= s
  BY ClaimsInvParts DEF SharesOK
<1> HIDE DEF s
<1>5. ASSUME NEW c \in Consumers
      PROVE  /\ Sure(c) \in Nat /\ ShareOf(call[c], headIndex, s) \in Nat
             /\ Sure(c) <= ShareOf(call[c], headIndex, s)
  <2>1. ShareOf(call[c], headIndex, s) \in Nat
    BY <1>4, ClaimsInvParts, ShareValue
  <2>2. CASE call[c].pc \in {"overcommit", "take"}
    <3>1. Sure(c) = ShareOf(call[c], headIndex, s)
      BY <2>2 DEF Sure, ShareOf
    <3> QED BY <2>1, <3>1
  <2>3. CASE call[c].pc \notin {"overcommit", "take"}
    <3>1. Sure(c) = 0
      BY <2>3 DEF Sure
    <3> QED BY <2>1, <3>1
  <2> QED BY <2>2, <2>3
<1>6. sure \in [Consumers -> Nat] /\ Shares(call, headIndex, s) \in [Consumers -> Nat]
      /\ \A c \in Consumers : sure[c] <= Shares(call, headIndex, s)[c]
  BY <1>5 DEF Shares
<1> HIDE DEF sure
<1>7. Total(sure) <= Total(Shares(call, headIndex, s))
  BY <1>6, ClaimsAssumption, TotalLess
<1>8. Total(sure) \in Nat /\ Total(Shares(call, headIndex, s)) \in Nat
  BY <1>6, ClaimsAssumption, TotalType
<1>9. Total(sure) <= s
  BY <1>4, <1>7, <1>8
<1> QED BY <1>2, <1>3, <1>9 DEF PromisesKept, sure, s

\* The inductive invariant of implicit producers.
LEMMA ImplicitInvariant == Spec => [](~isExplicit => ClaimsInv /\ RoomInv /\ HeldInv)
<1> DEFINE Inv == ~isExplicit => ClaimsInv /\ RoomInv /\ HeldInv
<1>1. Init => Inv
  BY ClaimsInit, HeldInit
<1>2. Inv /\ [Next]_vars => Inv'
  <2> SUFFICES ASSUME Inv, [Next]_vars, ~isExplicit' PROVE ClaimsInv' /\ RoomInv' /\ HeldInv'
    OBVIOUS
  <2>1. ~isExplicit
    BY DEF Next, Step, vars
  <2> QED BY <2>1, RoomFits, ClaimsNext, RoomNext, HeldNext
<1> QED BY <1>1, <1>2, PTL DEF Spec

\* An implicit producer never holds more than MAX_SUBQUEUE_SIZE elements, however
\* its enqueues and the dequeues of any number of consumers interleave, although
\* it looks at the head before it constructs and publishes.
THEOREM WithinLimitInvariant == Spec => []WithinLimit
<1>1. (~isExplicit => ClaimsInv /\ RoomInv /\ HeldInv) => WithinLimit
  BY RoomFits DEF WithinLimit
<1> QED BY <1>1, ImplicitInvariant, PTL

\* In the sub-queue of an implicit producer the consumers that have been promised
\* elements (dequeueOptimisticCount raised, and the tail read again) find them: head
\* never passes tail, with indices that wrap around and any number of consumers.
THEOREM ImplicitPromises == Spec => [](~isExplicit => PromisesKept)
<1>1. (~isExplicit => ClaimsInv /\ RoomInv /\ HeldInv) => (~isExplicit => PromisesKept)
  BY RoomFits, ClaimsPromise
<1> QED BY <1>1, ImplicitInvariant, PTL

\* In the sub-queue of an implicit producer every element goes to one consumer:
\* what headIndex.fetch_add hands out is disjoint from what any other consumer still
\* holds, from what is left and from what an enqueue is adding, with any number of
\* consumers, of which each may stall until MaxSpan holds the producer up.
THEOREM ImplicitDistinct == Spec => [](~isExplicit => DistinctElements)
<1>1. (~isExplicit => ClaimsInv /\ RoomInv /\ HeldInv) => (~isExplicit => DistinctElements)
  BY HeldDistinct
<1> QED BY <1>1, ImplicitInvariant, PTL

\* In either kind of sub-queue the sums of PromisesKept hold as long as the elements
\* fit in half the range of an index.  (An explicit producer that uses its blocks
\* again does not test this: it is a matter of how many blocks there are.)
THEOREM PromisesWhileElementsFit ==
  Spec /\ []~circular_less_than(tailIndex, headIndex) => []PromisesKept
<1>1. ClaimsInv /\ ~circular_less_than(tailIndex, headIndex) => Fits
  <2> SUFFICES ASSUME ClaimsInv, ~circular_less_than(tailIndex, headIndex) PROVE Fits
    OBVIOUS
  <2> QED BY ClaimsInvParts, Width DEF Fits, circular_less_than, Half
<1>2. Init => ClaimsInv /\ RoomInv
  BY ClaimsInit
<1>3. ClaimsInv /\ RoomInv /\ ~circular_less_than(tailIndex, headIndex) /\ [Next]_vars
        => (ClaimsInv /\ RoomInv)'
  BY <1>1, ClaimsNext, RoomNext
<1>4. ClaimsInv /\ ~circular_less_than(tailIndex, headIndex) => PromisesKept
  BY <1>1, ClaimsPromise
<1> QED BY <1>2, <1>3, <1>4, PTL DEF Spec
==============================================================================
