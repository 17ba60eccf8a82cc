--------------------------- MODULE ProducersProofs ---------------------------
(***************************************************************************)
(* Proofs about module Producers, for any number of threads and tokens,    *)
(* any hash function and any initial size of the table.                    *)
(*                                                                         *)
(* The hash tables.  A key sits where the probe for it ends, so a thread   *)
(* is in a table at most once and stays there: others only claim slots     *)
(* that are empty, and nobody's probe went over one of those to find his   *)
(* key.  A table is never filled because of the reservations.  Consider    *)
(* the threads that are in one of the tables up to the i-th, or are on     *)
(* their way into one: those that have passed the test of HasRoom.  The    *)
(* one that made its reservation last had counted all of them when it did, *)
(* and its number was below three quarters of a table that is not larger.  *)
(* Invariant RoomKept says the same without speaking of the past.          *)
(*                                                                         *)
(* The producers.  Each has exactly one holder, and it is on the list      *)
(* unless it is held by the call that created it and has not linked it.    *)
(***************************************************************************)
EXTENDS Producers, FiniteSetTheorems, FunctionTheorems, WellFoundedInduction, TLAPS

SafeSpec == Init /\ [][Next]_vars

-----------------------------------------------------------------------------
(* The inductive invariant: the hash tables *)

Entries == [key : Threads \cup {NoThread}, value : Producers \cup {Null}]
Tables == UNION {[capacity : {c}, entries : [0..(c - 1) -> Entries]] : c \in Nat \ {0}}
Slots(h) == 0..(h.capacity - 1)

\* A key is where the probe for it ends.
WellPlaced(h) == \A s \in Slots(h) : h.entries[s].key # NoThread =>
    Holds(h, h.entries[s].key) /\ Probe(h, h.entries[s].key) = s

\* The tables of a chain h grow.
TablesSound(h) ==
    /\ h \in Seq(Tables)
    /\ Len(h) >= 1
    /\ \A i \in 1..Len(h) : WellPlaced(h[i])
    /\ \A i, j \in 1..Len(h) : i <= j => h[i].capacity <= h[j].capacity

\* The threads in one of the first i tables.
Held(h, i) == {t \in Threads : \E j \in 1..i : Holds(h[j], t)}

\* The tables hold what result says.
ValuesSound(h, res) ==
    /\ \A i \in 1..Len(h) : \A s \in Slots(h[i]) : h[i].entries[s].key # NoThread =>
          h[i].entries[s].value = res[h[i].entries[s].key] /\ h[i].entries[s].value # Null
    /\ \A t \in Threads : res[t] # Null => t \in Held(h, Len(h))

\* A call c that waits for room, one that has a table to add to, and either.
Waits(c) == c.pc \in {"room", "resize", "unlock"}
Commits(c) == c.pc = "insert" \/ (c.pc \in {"scan", "link"} /\ c.token = NoToken)
Reserves(c) == Waits(c) \/ Commits(c)

Labels == {"idle", "look", "room", "resize", "unlock", "scan", "link", "insert", "retire"}
Records == [pc : Labels, token : Tokens \cup {NoToken}, mainHash : Nat, newCount : Nat,
            position : Nat, producer : Producers \cup {Null}]

\* What holds of the local variables c of a thread t.
CallSound(c, t, h, res) ==
    /\ c.pc \in {"idle", "look", "room", "resize", "unlock", "insert"} => c.token = NoToken
    /\ c.pc = "look" \/ Reserves(c) => c.mainHash \in 1..Len(h)
    /\ c.pc = "look" /\ res[t] # Null => t \in Held(h, c.mainHash)
    /\ c.pc = "resize" => c.mainHash = Len(h)
    /\ Reserves(c) => res[t] = Null /\ c.newCount # 0

\* One thread at a time allocates a table.
Resizing(c) == c.pc \in {"resize", "unlock"}
LockHeld == \A t \in Threads : Resizing(call[t]) =>
    resizeInProgress /\ \A u \in Threads : Resizing(call[u]) => u = t

\* The threads that implicitProducerHashCount counts.
Counted(h, calls) == Held(h, Len(h)) \cup {t \in Threads : Reserves(calls[t])}

Limit(h) == Half(h) + h.capacity \div 4

\* The threads of the first i tables, those on their way into one, and those
\* that wait with a number of at most b.
Crowd(h, calls, i, b) ==
    Held(h, i)
    \cup {t \in Threads : Commits(calls[t]) /\ calls[t].mainHash <= i}
    \cup {t \in Threads : Waits(calls[t]) /\ calls[t].newCount <= b}

RoomKept(h, calls) == \A i \in 1..Len(h) : \A b \in Nat :
    Limit(h[i]) <= b + 1 => Cardinality(Crowd(h, calls, i, b)) <= b

HashInv ==
    /\ TablesSound(implicitProducerHash)
    /\ result \in [Threads -> Producers \cup {Null}]
    /\ ValuesSound(implicitProducerHash, result)
    /\ call \in [Threads -> Records]
    /\ \A t \in Threads : CallSound(call[t], t, implicitProducerHash, result)
    /\ resizeInProgress \in BOOLEAN
    /\ LockHeld
    /\ implicitProducerHashCount = Cardinality(Counted(implicitProducerHash, call))
    /\ RoomKept(implicitProducerHash, call)

-----------------------------------------------------------------------------
(* The inductive invariant: the producers *)

Created == 1..Len(explicit)

\* The call c has a producer in its hands.
Carries(c, p) == c.pc \in {"link", "insert"} /\ c.producer = p

\* Every producer has a holder ...
SomeHolder == \A p \in Created :
    \/ \E t \in Threads : result[t] = p
    \/ \E k \in alive : producerOf[k] = p
    \/ \E t \in Threads : Carries(call[t], p)
    \/ p \in inactive

\* ... and no other.
NoOtherHolder == \A p \in Created :
    /\ \A t \in Threads : result[t] = p =>
          /\ \A u \in Threads : result[u] = p => u = t
          /\ \A k \in alive : producerOf[k] # p
          /\ \A u \in Threads : ~Carries(call[u], p)
          /\ p \notin inactive
    /\ \A k \in alive : producerOf[k] = p =>
          /\ \A l \in alive : producerOf[l] = p => l = k
          /\ \A u \in Threads : ~Carries(call[u], p)
          /\ p \notin inactive
    /\ \A t \in Threads : Carries(call[t], p) =>
          /\ \A u \in Threads : Carries(call[u], p) => u = t
          /\ p \notin inactive

\* The call c, its token and its producer.
CallKnown(c) ==
    /\ c.pc = "retire" =>
          /\ c.token \in alive
          /\ c.producer = producerOf[c.token]
          /\ c.producer # Null => tokenOf[c.producer] = NoToken
    /\ c.token = NoToken => c.position = 0 /\ c.pc # "retire"
    /\ c.pc \in {"scan", "link"} => c.token \notin alive
    /\ c.pc \in {"link", "insert"} =>
          c.producer \in Created /\ explicit[c.producer] = (c.token # NoToken)

\* A token is in one call at most.
OneCall == \A t, u \in Threads :
    call[t].token = call[u].token /\ call[t].token # NoToken => u = t

\* What is held exists.
HeldExist ==
    /\ \A t \in Threads : result[t] # Null => result[t] \in Created
    /\ \A k \in Tokens : producerOf[k] # Null =>
          k \in alive /\ producerOf[k] \in Created /\ explicit[producerOf[k]]
    /\ \A p \in Producers : tokenOf[p] # NoToken => p \in Created

CallsAndTokens == (\A t \in Threads : CallKnown(call[t])) /\ OneCall /\ HeldExist

Types ==
    /\ explicit \in Seq(BOOLEAN)
    /\ producerCount = Len(explicit) /\ Len(explicit) <= MaxProducers
    /\ inactive \subseteq {p \in Created : explicit[p]}
    /\ tokenOf \in [Producers -> Tokens \cup {NoToken}]
    /\ producerOf \in [Tokens -> Producers \cup {Null}]
    /\ alive \subseteq Tokens

\* The list has every producer once, but for those about to be linked.
ListSound ==
    /\ producerList \in Seq(Created)
    /\ \A i, j \in 1..Len(producerList) : producerList[i] = producerList[j] => i = j
    /\ \A p \in Created :
          (\A i \in 1..Len(producerList) : producerList[i] # p)
          <=> \E t \in Threads : call[t].pc = "link" /\ call[t].producer = p

OwnerInv == Types /\ SomeHolder /\ NoOtherHolder /\ TokensKnown /\ CallsAndTokens /\ ListSound

IInv == HashInv /\ OwnerInv

-----------------------------------------------------------------------------
(* Lemmas about tables *)

\* A set of natural numbers has a least element.
LEMMA Least ==
  ASSUME NEW T \in SUBSET Nat, T # {}
  PROVE  \E x \in T : \A y \in T : x <= y
<1> DEFINE R == {ss \in Nat \X Nat : ss[1] < ss[2]}
<1>1. IsWellFoundedOn(R, Nat)
  BY NatLessThanWellFounded DEF OpToRel
<1>2. PICK x \in T : \A y \in T : ~ (<<y, x>> \in R)
  <2> HIDE DEF R
  <2> QED BY <1>1, WFMin
<1>3. ASSUME NEW y \in T PROVE x <= y
  <2>1. ~(<<y, x>> \in R) BY <1>2
  <2>2. ~(y < x) BY <2>1
  <2> QED BY <2>2
<1> QED BY <1>3

\* The parts of a table.
LEMMA TableParts ==
  ASSUME NEW h \in Tables
  PROVE  /\ h.capacity \in Nat \ {0}
         /\ h.entries \in [Slots(h) -> Entries]
         /\ h = [capacity |-> h.capacity, entries |-> h.entries]
<1>1. PICK c \in Nat \ {0} : h \in [capacity : {c}, entries : [0..(c - 1) -> Entries]]
  BY DEF Tables
<1>2. h.capacity = c /\ h.entries \in [0..(c - 1) -> Entries]
  BY <1>1
<1>3. h = [capacity |-> h.capacity, entries |-> h.entries]
  BY <1>1
<1> QED BY <1>2, <1>3 DEF Slots

\* A table is made of its parts.
LEMMA TableMade ==
  ASSUME NEW c \in Nat \ {0}, NEW e \in [0..(c - 1) -> Entries]
  PROVE  [capacity |-> c, entries |-> e] \in Tables
BY DEF Tables

\* The n-th place of a probe is a slot.
LEMMA ProbeSlot ==
  ASSUME NEW h \in Tables, NEW t \in Threads, NEW n \in Nat
  PROVE  (HashOf(t) + n) % h.capacity \in Slots(h)
<1>1. h.capacity \in Nat \ {0}
  BY TableParts
<1>2. HashOf(t) + n \in Nat
  BY HashAssumption
<1> DEFINE x == HashOf(t) + n
           c == h.capacity
<1>3. x \in Nat /\ c \in Nat \ {0}
  BY <1>1, <1>2
<1> HIDE DEF x, c
<1>4. x % c \in 0..(c - 1)
  BY <1>3
<1> QED BY <1>4 DEF x, c, Slots

\* A probe that ends, ends at the first slot where it may.
LEMMA ProbeFirst ==
  ASSUME NEW h \in Tables, NEW t \in Threads, ProbeEnds(h, t)
  PROVE  \E n \in Slots(h) :
            /\ Ends(h, t, n) /\ \A m \in 0..(n - 1) : ~Ends(h, t, m)
            /\ Probe(h, t) = (HashOf(t) + n) % h.capacity
            /\ Probe(h, t) \in Slots(h)
<1>0. h.capacity \in Nat \ {0}
  BY TableParts
<1> DEFINE T == {n \in Slots(h) : Ends(h, t, n)}
           First(n) == Ends(h, t, n) /\ \A m \in 0..(n - 1) : ~Ends(h, t, m)
<1>1. T \in SUBSET Nat /\ T # {}
  BY <1>0 DEF ProbeEnds, Slots
<1>2. PICK x \in T : \A y \in T : x <= y
  <2> HIDE DEF T
  <2> QED BY <1>1, Least
<1>3. x \in Slots(h) /\ First(x)
  <2>1. ASSUME NEW m \in 0..(x - 1), Ends(h, t, m) PROVE FALSE
    <3>1. m \in Slots(h)
      BY <1>0, <1>2 DEF Slots
    <3>2. x <= m
      BY <1>2, <3>1, <2>1
    <3> QED BY <3>2, <1>0, <1>2 DEF Slots
  <2> QED BY <1>2, <2>1
<1> DEFINE n == CHOOSE n \in Slots(h) : First(n)
<1>4. n \in Slots(h) /\ First(n)
  <2>1. \E y \in Slots(h) : First(y)
    BY <1>3
  <2> HIDE DEF First
  <2> QED BY <2>1
<1>5. Probe(h, t) = (HashOf(t) + n) % h.capacity
  BY DEF Probe, Slots
<1>6. Probe(h, t) \in Slots(h)
  BY <1>0, <1>4, <1>5, ProbeSlot DEF Slots
<1> HIDE DEF n
<1> QED BY <1>4, <1>5, <1>6

\* The first slot where a probe may end is where it ends.
LEMMA ProbeUnique ==
  ASSUME NEW h \in Tables, NEW t \in Threads, NEW n \in Slots(h),
         Ends(h, t, n), \A m \in 0..(n - 1) : ~Ends(h, t, m)
  PROVE  ProbeEnds(h, t) /\ Probe(h, t) = (HashOf(t) + n) % h.capacity
<1>0. h.capacity \in Nat \ {0}
  BY TableParts
<1>1. ProbeEnds(h, t)
  BY DEF ProbeEnds, Slots
<1>2. PICK m \in Slots(h) :
            /\ Ends(h, t, m) /\ \A l \in 0..(m - 1) : ~Ends(h, t, l)
            /\ Probe(h, t) = (HashOf(t) + m) % h.capacity
  BY <1>1, ProbeFirst
<1>3. m = n
  <2>1. CASE m < n
    <3>1. m \in 0..(n - 1)
      BY <2>1, <1>0 DEF Slots
    <3> QED BY <3>1, <1>2
  <2>2. CASE n < m
    <3>1. n \in 0..(m - 1)
      BY <2>2, <1>0 DEF Slots
    <3> QED BY <3>1, <1>2
  <2> QED BY <2>1, <2>2, <1>0 DEF Slots
<1> QED BY <1>1, <1>2, <1>3

\* Where a probe ends is its key or nothing.
LEMMA ProbeFinds ==
  ASSUME NEW h \in Tables, NEW t \in Threads, ProbeEnds(h, t)
  PROVE  Probe(h, t) \in Slots(h) /\ h.entries[Probe(h, t)].key \in {t, NoThread}
BY ProbeFirst DEF Ends

\* In a table with its keys in place, a thread is found if it is there.
LEMMA HoldsKey ==
  ASSUME NEW h \in Tables, NEW t \in Threads, WellPlaced(h)
  PROVE  Holds(h, t) <=> \E s \in Slots(h) : h.entries[s].key = t
<1>1. t # NoThread
  BY HashAssumption
<1>2. ASSUME Holds(h, t) PROVE \E s \in Slots(h) : h.entries[s].key = t
  BY <1>2, ProbeFinds DEF Holds
<1>3. ASSUME NEW s \in Slots(h), h.entries[s].key = t PROVE Holds(h, t)
  BY <1>1, <1>3 DEF WellPlaced
<1> QED BY <1>2, <1>3

\* Table h with t and its producer p where the probe for t ends.
Put(h, t, p) == [h EXCEPT !.entries[Probe(h, t)] = [key |-> t, value |-> p]]

\* The table stays one, and its other entries stay.
LEMMA PutEntries ==
  ASSUME NEW h \in Tables, NEW t \in Threads, NEW p \in Producers, ProbeEnds(h, t)
  PROVE  /\ Put(h, t, p) \in Tables
         /\ Put(h, t, p).capacity = h.capacity
         /\ Put(h, t, p).entries[Probe(h, t)] = [key |-> t, value |-> p]
         /\ \A s \in Slots(h) : s # Probe(h, t) => Put(h, t, p).entries[s] = h.entries[s]
<1> DEFINE e == [h.entries EXCEPT ![Probe(h, t)] = [key |-> t, value |-> p]]
<1>1. /\ h.capacity \in Nat \ {0} /\ h.entries \in [Slots(h) -> Entries]
      /\ h = [capacity |-> h.capacity, entries |-> h.entries]
  BY TableParts
<1>2. Put(h, t, p) = [capacity |-> h.capacity, entries |-> e]
  BY <1>1 DEF Put
<1>3. Probe(h, t) \in Slots(h)
  BY ProbeFinds
<1>4. [key |-> t, value |-> p] \in Entries
  BY DEF Entries
<1>5. e \in [Slots(h) -> Entries]
  BY <1>1, <1>3, <1>4
<1>6. Put(h, t, p) \in Tables
  <2> HIDE DEF e
  <2> QED BY <1>1, <1>2, <1>5, TableMade DEF Slots
<1> QED BY <1>1, <1>2, <1>3, <1>6

\* The keys stay in place: a probe that found its key did not pass the slot,
\* which was empty; and t is there now.
LEMMA PutPlaced ==
  ASSUME NEW h \in Tables, NEW t \in Threads, NEW p \in Producers, ProbeEnds(h, t),
         WellPlaced(h)
  PROVE  /\ WellPlaced(Put(h, t, p))
         /\ \A u \in Threads : Holds(Put(h, t, p), u) <=> (Holds(h, u) \/ u = t)
<1> DEFINE g == Put(h, t, p)
           q == Probe(h, t)
<1>1. /\ g \in Tables /\ g.capacity = h.capacity
      /\ g.entries[q] = [key |-> t, value |-> p]
      /\ \A s \in Slots(h) : s # q => g.entries[s] = h.entries[s]
  BY PutEntries
<1>2. q \in Slots(h) /\ h.entries[q].key \in {t, NoThread}
  BY ProbeFinds
<1>3. t # NoThread
  BY HashAssumption
<1>4. Slots(g) = Slots(h)
  BY <1>1 DEF Slots
<1>9. h.capacity \in Nat \ {0}
  BY TableParts
<1> HIDE DEF g, q
<1>5. Holds(g, t) /\ Probe(g, t) = q
  <2>1. PICK n \in Slots(h) :
            /\ Ends(h, t, n) /\ \A m \in 0..(n - 1) : ~Ends(h, t, m)
            /\ q = (HashOf(t) + n) % h.capacity
    BY ProbeFirst DEF q
  <2>2. Ends(g, t, n)
    BY <1>1, <2>1 DEF Ends
  <2>3. ASSUME NEW m \in 0..(n - 1) PROVE ~Ends(g, t, m)
    <3>0. m \in Nat
      BY <1>9 DEF Slots
    <3> DEFINE s == (HashOf(t) + m) % h.capacity
    <3>1. s \in Slots(h)
      BY <3>0, ProbeSlot
    <3>2. h.entries[s].key \notin {t, NoThread}
      BY <2>1 DEF Ends
    <3>3. s # q
      BY <3>2, <1>2
    <3> HIDE DEF s
    <3>4. g.entries[s].key \notin {t, NoThread}
      BY <1>1, <3>1, <3>2, <3>3
    <3> QED BY <3>4, <1>1 DEF Ends, s
  <2>4. ProbeEnds(g, t) /\ Probe(g, t) = q
    BY <1>1, <1>4, <2>1, <2>2, <2>3, ProbeUnique
  <2> QED BY <2>4, <1>1 DEF Holds
<1>6. ASSUME NEW u \in Threads, u # t, Holds(h, u)
      PROVE  Holds(g, u) /\ Probe(g, u) = Probe(h, u)
  <2>1. PICK n \in Slots(h) :
            /\ Ends(h, u, n) /\ \A m \in 0..(n - 1) : ~Ends(h, u, m)
            /\ Probe(h, u) = (HashOf(u) + n) % h.capacity
            /\ Probe(h, u) \in Slots(h)
    BY <1>6, ProbeFirst DEF Holds
  <2> DEFINE r == (HashOf(u) + n) % h.capacity
  <2>2. r \in Slots(h) /\ h.entries[r].key = u
    BY <1>6, <2>1 DEF Holds
  <2>3. u # NoThread
    BY HashAssumption
  <2>4. r # q
    BY <2>2, <2>3, <1>2, <1>6
  <2> HIDE DEF r
  <2>5. g.entries[r].key = u
    BY <1>1, <2>2, <2>4
  <2>6. Ends(g, u, n)
    BY <2>5, <1>1 DEF Ends, r
  <2>7. ASSUME NEW m \in 0..(n - 1) PROVE ~Ends(g, u, m)
    <3>0. m \in Nat
      BY <1>9 DEF Slots
    <3> DEFINE s == (HashOf(u) + m) % h.capacity
    <3>1. s \in Slots(h)
      BY <3>0, ProbeSlot
    <3>2. h.entries[s].key \notin {u, NoThread}
      BY <2>1 DEF Ends
    <3> HIDE DEF s
    <3>3. g.entries[s].key \notin {u, NoThread}
      <4>1. CASE s = q
        BY <4>1, <1>1, <1>3, <1>6
      <4>2. CASE s # q
        BY <4>2, <1>1, <3>1, <3>2
      <4> QED BY <4>1, <4>2
    <3> QED BY <3>3, <1>1 DEF Ends, s
  <2>8. ProbeEnds(g, u) /\ Probe(g, u) = r
    BY <1>1, <1>4, <2>1, <2>6, <2>7, ProbeUnique DEF r
  <2> QED BY <2>8, <2>5, <2>1 DEF Holds, r
<1>7. ASSUME NEW s \in Slots(g), g.entries[s].key # NoThread
      PROVE  Holds(g, g.entries[s].key) /\ Probe(g, g.entries[s].key) = s
  <2>1. CASE s = q
    BY <2>1, <1>1, <1>5
  <2>2. CASE s # q
    <3>1. g.entries[s] = h.entries[s]
      BY <2>2, <1>1, <1>4
    <3>2. Holds(h, h.entries[s].key) /\ Probe(h, h.entries[s].key) = s
      BY <3>1, <1>7, <1>4 DEF WellPlaced
    <3>3. h.entries[s].key # t
      BY <3>2, <2>2 DEF q
    <3>4. h.entries[s].key \in Threads
      <4>1. h.entries[s] \in Entries
        BY TableParts, <1>4
      <4>2. h.entries[s].key \in Threads \cup {NoThread}
        BY <4>1 DEF Entries
      <4> QED BY <4>2, <3>1, <1>7
    <3> QED BY <3>1, <3>2, <3>3, <3>4, <1>6
  <2> QED BY <2>1, <2>2
<1>8. WellPlaced(g)
  BY <1>7 DEF WellPlaced
<1>10. ASSUME NEW u \in Threads, u # t, Holds(g, u) PROVE Holds(h, u)
  <2>1. PICK s \in Slots(g) : g.entries[s].key = u
    BY <1>10, <1>1, <1>8, HoldsKey
  <2>2. s # q
    BY <2>1, <1>1, <1>10
  <2>3. h.entries[s].key = u
    BY <2>1, <2>2, <1>1, <1>4
  <2> QED BY <2>3, <1>4, HoldsKey
<1> QED BY <1>5, <1>6, <1>8, <1>10 DEF g

\* The table that is allocated is empty.
LEMMA EmptyTableFacts ==
  ASSUME NEW c \in Nat \ {0}
  PROVE  /\ EmptyTable(c) \in Tables /\ EmptyTable(c).capacity = c
         /\ WellPlaced(EmptyTable(c))
         /\ \A s \in Slots(EmptyTable(c)) : EmptyTable(c).entries[s].key = NoThread
         /\ \A t \in Threads : ~Holds(EmptyTable(c), t)
<1> DEFINE h == EmptyTable(c)
           e == [i \in 0..(c - 1) |-> [key |-> NoThread, value |-> Null]]
<1>1. h = [capacity |-> c, entries |-> e]
  BY DEF EmptyTable
<1>2. e \in [0..(c - 1) -> Entries]
  BY DEF Entries
<1>3. h \in Tables
  <2> HIDE DEF e, h
  <2> QED BY <1>1, <1>2, TableMade
<1>4. h.capacity = c /\ \A s \in Slots(h) : h.entries[s].key = NoThread
  BY <1>1 DEF Slots
<1> HIDE DEF h
<1>5. WellPlaced(h)
  BY <1>4 DEF WellPlaced
<1>6. ASSUME NEW t \in Threads PROVE ~Holds(h, t)
  <2>1. t # NoThread
    BY HashAssumption
  <2> QED BY <1>3, <1>4, <1>5, <2>1, HoldsKey
<1> QED BY <1>3, <1>4, <1>5, <1>6 DEF h

-----------------------------------------------------------------------------
(* Lemmas about the chain of tables *)

\* More tables hold more threads.
LEMMA HeldGrows ==
  ASSUME NEW h, NEW i \in Nat, NEW j \in Nat, i <= j
  PROVE  Held(h, i) \subseteq Held(h, j)
BY DEF Held

\* An element of a sequence is replaced.
LEMMA SeqPut ==
  ASSUME NEW S, NEW q \in Seq(S), NEW i \in 1..Len(q), NEW x \in S
  PROVE  /\ [q EXCEPT ![i] = x] \in Seq(S) /\ Len([q EXCEPT ![i] = x]) = Len(q)
         /\ [q EXCEPT ![i] = x][i] = x
         /\ \A j \in 1..Len(q) : j # i => [q EXCEPT ![i] = x][j] = q[j]
OBVIOUS

\* The chain when table i is given an entry.
ChainWith(h, i, t, p) ==
    [h EXCEPT ![i].entries[Probe(h[i], t)] = [key |-> t, value |-> p]]

\* The other tables stay, and t is in the chain from table i on.
LEMMA ChainPut ==
  ASSUME NEW h, TablesSound(h), NEW i \in 1..Len(h), NEW t \in Threads, NEW p \in Producers,
         ProbeEnds(h[i], t), NEW g, g = ChainWith(h, i, t, p)
  PROVE  /\ TablesSound(g) /\ Len(g) = Len(h)
         /\ g[i] = Put(h[i], t, p)
         /\ \A j \in 1..Len(h) : j # i => g[j] = h[j]
         /\ \A j \in 1..Len(h) : g[j].capacity = h[j].capacity
         /\ \A j \in 1..Len(h) : Held(g, j) = IF i <= j THEN Held(h, j) \cup {t} ELSE Held(h, j)
<1>1. h \in Seq(Tables) /\ Len(h) \in Nat
  BY DEF TablesSound
<1>2. h[i] \in Tables
  BY <1>1
<1>3. g = [h EXCEPT ![i] = Put(h[i], t, p)]
  BY DEF Put, ChainWith
<1>4. Put(h[i], t, p) \in Tables /\ Put(h[i], t, p).capacity = h[i].capacity
  BY <1>2, PutEntries
<1>5. /\ WellPlaced(Put(h[i], t, p))
      /\ \A u \in Threads : Holds(Put(h[i], t, p), u) <=> (Holds(h[i], u) \/ u = t)
  BY <1>2, PutPlaced DEF TablesSound
<1>6. /\ g \in Seq(Tables) /\ Len(g) = Len(h)
      /\ g[i] = Put(h[i], t, p)
      /\ \A j \in 1..Len(h) : j # i => g[j] = h[j]
  BY <1>1, <1>3, <1>4, SeqPut
<1>7. \A j \in 1..Len(h) : g[j].capacity = h[j].capacity
  BY <1>4, <1>6
<1>8. TablesSound(g)
  BY <1>5, <1>6, <1>7 DEF TablesSound
<1>9. ASSUME NEW j \in 1..Len(h), NEW u \in Threads
      PROVE  u \in Held(g, j) <=> (u \in Held(h, j) \/ (i <= j /\ u = t))
  <2>1. \A l \in 1..j : Holds(g[l], u) <=> (Holds(h[l], u) \/ (l = i /\ u = t))
    BY <1>1, <1>5, <1>6
  <2> QED BY <2>1, <1>1 DEF Held
<1>10. ASSUME NEW j \in 1..Len(h)
       PROVE  Held(g, j) = IF i <= j THEN Held(h, j) \cup {t} ELSE Held(h, j)
  <2>1. Held(g, j) \subseteq Threads /\ Held(h, j) \subseteq Threads
    BY DEF Held
  <2> QED BY <2>1, <1>9
<1> QED BY <1>6, <1>7, <1>8, <1>10

\* A larger table is appended to the chain.
LEMMA ChainAppend ==
  ASSUME NEW h, TablesSound(h), NEW c \in Nat \ {0}, h[Len(h)].capacity <= c,
         NEW g, g = Append(h, EmptyTable(c))
  PROVE  /\ TablesSound(g) /\ Len(g) = Len(h) + 1
         /\ g[Len(h) + 1] = EmptyTable(c)
         /\ \A j \in 1..Len(h) : g[j] = h[j] /\ Held(g, j) = Held(h, j)
         /\ Held(g, Len(h) + 1) = Held(h, Len(h))
<1> DEFINE n == Len(h)
<1>1. h \in Seq(Tables) /\ n \in Nat \ {0}
  BY DEF TablesSound
<1>2. /\ EmptyTable(c) \in Tables /\ EmptyTable(c).capacity = c
      /\ WellPlaced(EmptyTable(c)) /\ \A t \in Threads : ~Holds(EmptyTable(c), t)
  BY EmptyTableFacts
<1>3. /\ g \in Seq(Tables) /\ Len(g) = n + 1 /\ g[n + 1] = EmptyTable(c)
      /\ \A j \in 1..n : g[j] = h[j]
  BY <1>1, <1>2
<1>a. \A i, j \in 1..n : i <= j => h[i].capacity <= h[j].capacity
  BY DEF TablesSound
<1>b. \A i \in 1..n : WellPlaced(h[i])
  BY DEF TablesSound
<1>c. \A i \in 1..n : h[i].capacity \in Nat
  BY <1>1, TableParts
<1>d. h[n].capacity <= c
  OBVIOUS
<1> HIDE DEF n
<1>4. ASSUME NEW i \in 1..(n + 1), NEW j \in 1..(n + 1), i <= j
      PROVE  g[i].capacity <= g[j].capacity
  <2>1. CASE j \in 1..n
    BY <2>1, <1>1, <1>3, <1>4, <1>a
  <2>2. CASE j = n + 1 /\ i = n + 1
    BY <2>2, <1>2, <1>3
  <2>3. CASE j = n + 1 /\ i \in 1..n
    <3>1. h[i].capacity <= h[n].capacity
      BY <2>3, <1>1, <1>a
    <3>2. h[i].capacity <= c
      BY <3>1, <2>3, <1>1, <1>c, <1>d
    <3> QED BY <3>2, <2>3, <1>2, <1>3
  <2>4. (j \in 1..n \/ j = n + 1) /\ (i \in 1..n \/ i = n + 1)
    BY <1>1
  <2> QED BY <2>1, <2>2, <2>3, <2>4
<1>5. TablesSound(g)
  BY <1>1, <1>2, <1>3, <1>4, <1>b DEF TablesSound
<1>6. ASSUME NEW j \in 1..n PROVE Held(g, j) = Held(h, j)
  <2>1. \A l \in 1..j : g[l] = h[l]
    BY <1>1, <1>3
  <2> QED BY <2>1 DEF Held
<1>7. Held(g, n + 1) = Held(h, n)
  <2>1. ASSUME NEW t \in Threads PROVE (\E j \in 1..(n + 1) : Holds(g[j], t)) <=> \E j \in 1..n : Holds(h[j], t)
    <3>1. \A j \in 1..(n + 1) : j \in 1..n \/ j = n + 1
      BY <1>1
    <3>2. 1..n \subseteq 1..(n + 1)
      BY <1>1
    <3> QED BY <3>1, <3>2, <1>2, <1>3
  <2> QED BY <2>1 DEF Held
<1> QED BY <1>3, <1>5, <1>6, <1>7 DEF n

\* A table that is not smaller takes as many threads.
LEMMA LimitGrows ==
  ASSUME NEW g, NEW h, g.capacity \in Nat, h.capacity \in Nat, g.capacity <= h.capacity
  PROVE  Limit(g) <= Limit(h) /\ Limit(g) \in Nat /\ Limit(h) \in Nat
<1> DEFINE c == g.capacity
           d == h.capacity
<1>1. c \in Nat /\ d \in Nat /\ c <= d
  OBVIOUS
<1> HIDE DEF c, d
<1>2. /\ c \div 2 + c \div 4 <= d \div 2 + d \div 4
      /\ c \div 2 + c \div 4 \in Nat /\ d \div 2 + d \div 4 \in Nat
  BY <1>1
<1> QED BY <1>2 DEF Limit, Half, c, d

\* The values stay right when a thread enters the producer it has or is given.
LEMMA ValuesPut ==
  ASSUME NEW h, TablesSound(h), NEW i \in 1..Len(h), NEW t \in Threads, NEW p \in Producers,
         ProbeEnds(h[i], t), NEW g, g = ChainWith(h, i, t, p),
         NEW res \in [Threads -> Producers \cup {Null}], ValuesSound(h, res),
         res[t] \in {p, Null}
  PROVE  ValuesSound(g, [res EXCEPT ![t] = p])
<1> DEFINE new == [res EXCEPT ![t] = p]
           q == Probe(h[i], t)
<1>0. h \in Seq(Tables) /\ h[i] \in Tables /\ Len(h) \in Nat
  BY DEF TablesSound
<1>1. /\ Len(g) = Len(h) /\ g[i] = Put(h[i], t, p)
      /\ \A j \in 1..Len(h) : j # i => g[j] = h[j]
      /\ \A j \in 1..Len(h) : g[j].capacity = h[j].capacity
      /\ \A j \in 1..Len(h) : Held(g, j) = IF i <= j THEN Held(h, j) \cup {t} ELSE Held(h, j)
  BY ChainPut
<1>2. new[t] = p /\ \A u \in Threads : u # t => new[u] = res[u]
  OBVIOUS
<1>3. p # Null
  BY DEF Producers, Null
<1>4. /\ Put(h[i], t, p).entries[q] = [key |-> t, value |-> p]
      /\ \A s \in Slots(h[i]) : s # q => Put(h[i], t, p).entries[s] = h[i].entries[s]
  BY <1>0, PutEntries
<1> HIDE DEF new, q
<1>5. ASSUME NEW j \in 1..Len(h), NEW s \in Slots(h[j]), h[j].entries[s].key # NoThread
      PROVE  h[j].entries[s].value = new[h[j].entries[s].key] /\ h[j].entries[s].value # Null
  <2>1. h[j].entries[s].value = res[h[j].entries[s].key] /\ h[j].entries[s].value # Null
    BY <1>5 DEF ValuesSound
  <2>2. h[j].entries[s].key \in Threads
    <3>1. h[j] \in Tables
      BY <1>0
    <3>2. h[j].entries[s] \in Entries
      BY <3>1, TableParts
    <3> QED BY <3>2, <1>5 DEF Entries
  <2>3. CASE h[j].entries[s].key = t
    BY <2>1, <2>3, <1>2
  <2>4. CASE h[j].entries[s].key # t
    BY <2>1, <2>2, <2>4, <1>2
  <2> QED BY <2>3, <2>4
<1>6. ASSUME NEW j \in 1..Len(g), NEW s \in Slots(g[j]), g[j].entries[s].key # NoThread
      PROVE  g[j].entries[s].value = new[g[j].entries[s].key] /\ g[j].entries[s].value # Null
  <2>0. Slots(g[j]) = Slots(h[j])
    BY <1>1 DEF Slots
  <2>1. CASE j # i
    <3>1. g[j] = h[j] /\ j \in 1..Len(h)
      BY <2>1, <1>1
    <3> QED BY <3>1, <1>5, <1>6
  <2>2. CASE j = i /\ s = q
    <3>1. g[j].entries[s] = [key |-> t, value |-> p]
      BY <2>2, <1>1, <1>4
    <3> QED BY <3>1, <1>2, <1>3
  <2>3. CASE j = i /\ s # q
    <3>1. g[i].entries[s] = h[i].entries[s]
      BY <2>0, <2>3, <1>1, <1>4
    <3>2. s \in Slots(h[i])
      BY <2>0, <2>3
    <3> QED BY <2>3, <3>1, <3>2, <1>5, <1>6
  <2> QED BY <2>1, <2>2, <2>3
<1>7. ASSUME NEW u \in Threads, new[u] # Null PROVE u \in Held(g, Len(g))
  <2>1. Held(g, Len(g)) = Held(h, Len(h)) \cup {t}
    <3>1. Len(h) \in 1..Len(h) /\ i <= Len(h)
      BY <1>0
    <3> QED BY <3>1, <1>1
  <2>2. CASE u = t
    BY <2>1, <2>2
  <2>3. CASE u # t
    BY <2>1, <2>3, <1>2, <1>7 DEF ValuesSound
  <2> QED BY <2>2, <2>3
<1>8. ValuesSound(g, new)
  BY <1>6, <1>7 DEF ValuesSound
<1> QED BY <1>8 DEF new

-----------------------------------------------------------------------------
(* Steps and the hash tables *)

\* The sets that are counted are finite.
LEMMA Finite ==
  ASSUME NEW S, S \subseteq Threads
  PROVE  IsFiniteSet(S) /\ Cardinality(S) \in Nat
BY HashAssumption, FS_Subset, FS_CardinalityType

\* A call that is over.
LEMMA NoCallFacts ==
  /\ NoCall \in Records /\ NoCall.pc = "idle" /\ NoCall.token = NoToken
  /\ NoCall.position = 0 /\ NoCall.producer = Null
  /\ ~Reserves(NoCall) /\ ~Waits(NoCall) /\ ~Commits(NoCall) /\ ~Resizing(NoCall)
  /\ \A t, h, res : CallSound(NoCall, t, h, res)
<1>1. /\ NoCall \in Records /\ NoCall.pc = "idle" /\ NoCall.token = NoToken
      /\ NoCall.position = 0 /\ NoCall.producer = Null
  BY DEF NoCall, Records, Labels
<1>2. ~Reserves(NoCall) /\ ~Waits(NoCall) /\ ~Commits(NoCall) /\ ~Resizing(NoCall)
  BY <1>1 DEF Reserves, Waits, Commits, Resizing
<1> QED BY <1>1, <1>2 DEF CallSound

\* A thread without a producer is in no table.
LEMMA NotHeld ==
  ASSUME NEW h, TablesSound(h), NEW res, ValuesSound(h, res), NEW t \in Threads, res[t] = Null
  PROVE  t \notin Held(h, Len(h))
<1> SUFFICES ASSUME NEW j \in 1..Len(h), Holds(h[j], t) PROVE FALSE
  BY DEF Held
<1>1. h[j] \in Tables /\ WellPlaced(h[j])
  BY DEF TablesSound
<1>2. PICK s \in Slots(h[j]) : h[j].entries[s].key = t
  BY <1>1, HoldsKey
<1>3. t # NoThread
  BY HashAssumption
<1> QED BY <1>2, <1>3 DEF ValuesSound

\* No table gets fuller when no crowd grows.
LEMMA RoomLess ==
  ASSUME NEW h, NEW g, NEW calls, NEW new, RoomKept(h, calls), Len(g) = Len(h),
         \A i \in 1..Len(h) : g[i].capacity = h[i].capacity,
         \A i \in 1..Len(h) : \A b \in Nat :
            Limit(h[i]) <= b + 1 => Crowd(g, new, i, b) \subseteq Crowd(h, calls, i, b)
  PROVE  RoomKept(g, new)
<1> SUFFICES ASSUME NEW i \in 1..Len(h), NEW b \in Nat, Limit(g[i]) <= b + 1
             PROVE  Cardinality(Crowd(g, new, i, b)) <= b
  BY DEF RoomKept
<1>1. Limit(g[i]) = Limit(h[i])
  BY DEF Limit, Half
<1>2. Crowd(g, new, i, b) \subseteq Crowd(h, calls, i, b) /\ Cardinality(Crowd(h, calls, i, b)) <= b
  BY <1>1 DEF RoomKept
<1>3. Crowd(h, calls, i, b) \subseteq Threads
  BY DEF Crowd, Held
<1>4. Cardinality(Crowd(g, new, i, b)) <= Cardinality(Crowd(h, calls, i, b))
  BY <1>2, <1>3, Finite, FS_Subset
<1>5. Cardinality(Crowd(g, new, i, b)) \in Nat /\ Cardinality(Crowd(h, calls, i, b)) \in Nat
  BY <1>2, <1>3, Finite
<1> QED BY <1>2, <1>4, <1>5

\* A step of t that only changes its local variables, commits it to a table
\* with room, or takes its reservation back.
LEMMA CallStep ==
  ASSUME HashInv, NEW t \in Threads, NEW c \in Records,
         UNCHANGED <<implicitProducerHash, result>>,
         call' = [call EXCEPT ![t] = c],
         CallSound(c, t, implicitProducerHash, result),
         resizeInProgress' \in BOOLEAN, LockHeld',
         Reserves(c) => Reserves(call[t]),
         implicitProducerHashCount' =
            IF Reserves(call[t]) /\ ~Reserves(c)
            THEN implicitProducerHashCount - 1 ELSE implicitProducerHashCount,
         Commits(c) => \/ Commits(call[t]) /\ c.mainHash = call[t].mainHash
                       \/ /\ Waits(call[t])
                          /\ call[t].newCount < Limit(implicitProducerHash[c.mainHash]),
         Waits(c) => Waits(call[t]) /\ c.newCount = call[t].newCount
  PROVE  HashInv'
<1> DEFINE H == implicitProducerHash
           calls == call'
<1>0. TablesSound(H) /\ ValuesSound(H, result) /\ call \in [Threads -> Records] /\ RoomKept(H, call)
  BY DEF HashInv
<1>1. calls \in [Threads -> Records] /\ calls[t] = c /\ \A u \in Threads : u # t => calls[u] = call[u]
  BY <1>0
<1>2. \A u \in Threads : CallSound(call[u], u, H, result)
  BY DEF HashInv
<1>3. \A u \in Threads : CallSound(calls[u], u, H, result)
  BY <1>1, <1>2
<1> HIDE DEF H, calls
<1>4. implicitProducerHashCount' = Cardinality(Counted(H, calls))
  <2>0. implicitProducerHashCount = Cardinality(Counted(H, call))
    BY DEF HashInv, H
  <2>1. CASE Reserves(call[t]) /\ ~Reserves(c)
    <3>1. t \notin Held(H, Len(H))
      BY <2>1, <1>0, <1>2, NotHeld DEF CallSound
    <3>2. t \in Counted(H, call) /\ Counted(H, calls) = Counted(H, call) \ {t}
      BY <2>1, <3>1, <1>1 DEF Counted
    <3>3. Counted(H, call) \subseteq Threads
      BY DEF Counted, Held
    <3>4. Cardinality(Counted(H, calls)) = Cardinality(Counted(H, call)) - 1
      BY <3>2, <3>3, Finite, FS_RemoveElement
    <3> QED BY <3>4, <2>0, <2>1
  <2>2. CASE ~(Reserves(call[t]) /\ ~Reserves(c))
    <3>1. Counted(H, calls) = Counted(H, call)
      BY <2>2, <1>1 DEF Counted
    <3> QED BY <3>1, <2>0, <2>2
  <2> QED BY <2>1, <2>2
<1>5. RoomKept(H, calls)
  <2>1. ASSUME NEW i \in 1..Len(H), NEW b \in Nat, Limit(H[i]) <= b + 1
        PROVE  Crowd(H, calls, i, b) \subseteq Crowd(H, call, i, b)
    <3>1. ASSUME Commits(c), c.mainHash <= i PROVE t \in Crowd(H, call, i, b)
      <4>1. CASE Commits(call[t]) /\ c.mainHash = call[t].mainHash
        BY <4>1, <3>1 DEF Crowd
      <4>2. CASE Waits(call[t]) /\ call[t].newCount < Limit(H[c.mainHash])
        <5>1. c.mainHash \in 1..Len(H)
          BY <3>1 DEF CallSound, Reserves, H
        <5>2. H[c.mainHash].capacity <= H[i].capacity
          BY <5>1, <3>1, <1>0 DEF TablesSound
        <5>3. H[i].capacity \in Nat /\ H[c.mainHash].capacity \in Nat
          BY <5>1, <1>0, TableParts DEF TablesSound
        <5>4. Limit(H[c.mainHash]) <= Limit(H[i]) /\ Limit(H[c.mainHash]) \in Nat /\ Limit(H[i]) \in Nat
          BY <5>2, <5>3, LimitGrows
        <5>5. call[t].newCount \in Nat
          BY <1>0 DEF Records
        <5>6. call[t].newCount <= b
          BY <5>4, <5>5, <4>2, <2>1
        <5> QED BY <5>6, <4>2 DEF Crowd
      <4> QED BY <4>1, <4>2, <3>1 DEF H
    <3>2. ASSUME Waits(c), c.newCount <= b PROVE t \in Crowd(H, call, i, b)
      BY <3>2 DEF Crowd
    <3>3. ASSUME NEW u \in Crowd(H, calls, i, b), u # t PROVE u \in Crowd(H, call, i, b)
      BY <3>3, <1>1 DEF Crowd, Held
    <3>4. ASSUME t \in Crowd(H, calls, i, b) PROVE t \in Crowd(H, call, i, b)
      <4>1. CASE t \in Held(H, i)
        BY <4>1 DEF Crowd
      <4>2. CASE t \notin Held(H, i)
        BY <4>2, <3>1, <3>2, <3>4, <1>1 DEF Crowd
      <4> QED BY <4>1, <4>2
    <3> QED BY <3>3, <3>4
  <2> QED BY <2>1, <1>0, RoomLess
<1> QED BY <1>0, <1>1, <1>3, <1>4, <1>5 DEF HashInv, H, calls

\* A step that enters t in table i, where it is expected.
LEMMA PutStep ==
  ASSUME HashInv, NEW t \in Threads, NEW i \in 1..Len(implicitProducerHash),
         NEW p \in Producers, ProbeEnds(implicitProducerHash[i], t),
         implicitProducerHash' = ChainWith(implicitProducerHash, i, t, p),
         result[t] \in {p, Null}, result' = [result EXCEPT ![t] = p],
         call' = [call EXCEPT ![t] = NoCall], ~Waits(call[t]),
         UNCHANGED <<implicitProducerHashCount, resizeInProgress>>,
         \/ t \in Held(implicitProducerHash, i) /\ ~Reserves(call[t])
         \/ Commits(call[t]) /\ call[t].mainHash = i
  PROVE  HashInv'
<1> DEFINE H == implicitProducerHash
           G == implicitProducerHash'
           calls == call'
           res == result'
<1>0. /\ TablesSound(H) /\ ValuesSound(H, result) /\ call \in [Threads -> Records]
      /\ RoomKept(H, call) /\ result \in [Threads -> Producers \cup {Null}]
      /\ LockHeld /\ resizeInProgress \in BOOLEAN
      /\ implicitProducerHashCount = Cardinality(Counted(H, call))
      /\ \A u \in Threads : CallSound(call[u], u, H, result)
  BY DEF HashInv
<1>1. /\ NoCall \in Records /\ ~Reserves(NoCall) /\ ~Waits(NoCall) /\ ~Commits(NoCall)
      /\ ~Resizing(NoCall) /\ CallSound(NoCall, t, G, res)
  BY NoCallFacts
<1>2. calls \in [Threads -> Records] /\ calls[t] = NoCall /\ \A u \in Threads : u # t => calls[u] = call[u]
  BY <1>0, <1>1
<1>3. res \in [Threads -> Producers \cup {Null}] /\ \A u \in Threads : u # t => res[u] = result[u]
  BY <1>0
<1>4. /\ TablesSound(G) /\ Len(G) = Len(H)
      /\ \A j \in 1..Len(H) : G[j].capacity = H[j].capacity
      /\ \A j \in 1..Len(H) : Held(G, j) = IF i <= j THEN Held(H, j) \cup {t} ELSE Held(H, j)
  BY <1>0, ChainPut
<1>5. ValuesSound(G, res)
  BY <1>0, ValuesPut
<1>6. Len(H) \in Nat /\ i \in Nat /\ Len(H) \in 1..Len(H) /\ i <= Len(H)
  BY <1>0 DEF TablesSound
<1>7. t \in Held(H, i) \/ (Commits(call[t]) /\ call[t].mainHash = i)
  OBVIOUS
<1>8. ~Waits(call[t]) /\ (t \in Held(H, i) \/ Commits(call[t]))
  OBVIOUS
<1>9. LockHeld'
  <2>1. \A u \in Threads : Resizing(calls[u]) => Resizing(call[u])
    BY <1>1, <1>2
  <2> QED BY <2>1, <1>0 DEF LockHeld
<1> HIDE DEF H, G, calls, res
<1>10. ASSUME NEW u \in Threads PROVE CallSound(calls[u], u, G, res)
  <2>1. CASE u = t
    BY <2>1, <1>1, <1>2
  <2>2. CASE u # t
    <3>1. CallSound(call[u], u, H, result) /\ calls[u] = call[u] /\ res[u] = result[u]
      BY <2>2, <1>0, <1>2, <1>3
    <3>2. ASSUME call[u].pc = "look" \/ Reserves(call[u])
          PROVE  Held(H, call[u].mainHash) \subseteq Held(G, call[u].mainHash)
      <4>1. call[u].mainHash \in 1..Len(H)
        BY <3>1, <3>2 DEF CallSound
      <4> QED BY <4>1, <1>4
    <3> QED BY <3>1, <3>2, <1>4 DEF CallSound
  <2> QED BY <2>1, <2>2
<1>11. Counted(G, calls) = Counted(H, call)
  <2>1. Held(G, Len(G)) = Held(H, Len(H)) \cup {t}
    BY <1>4, <1>6
  <2>2. Held(H, i) \subseteq Held(H, Len(H))
    BY <1>6, HeldGrows
  <2>3. t \in Counted(H, call)
    BY <2>2, <1>8 DEF Counted, Reserves
  <2>4. t \in Counted(G, calls)
    BY <2>1 DEF Counted
  <2>5. ASSUME NEW u \in Threads, u # t PROVE u \in Counted(G, calls) <=> u \in Counted(H, call)
    BY <2>1, <2>5, <1>2 DEF Counted
  <2>6. Counted(G, calls) \subseteq Threads /\ Counted(H, call) \subseteq Threads
    BY DEF Counted, Held
  <2> QED BY <2>3, <2>4, <2>5, <2>6
<1>12. RoomKept(G, calls)
  <2>1. ASSUME NEW j \in 1..Len(H), NEW b \in Nat
        PROVE  Crowd(G, calls, j, b) \subseteq Crowd(H, call, j, b)
    <3>1. ASSUME NEW u \in Crowd(G, calls, j, b), u # t PROVE u \in Crowd(H, call, j, b)
      <4>1. u \in Held(G, j) => u \in Held(H, j)
        BY <3>1, <1>4
      <4>2. u \in Threads /\ calls[u] = call[u]
        BY <3>1, <1>2 DEF Crowd, Held
      <4> QED BY <3>1, <4>1, <4>2 DEF Crowd
    <3>2. ASSUME t \in Crowd(G, calls, j, b) PROVE t \in Crowd(H, call, j, b)
      <4>1. t \in Held(G, j)
        BY <3>2, <1>1, <1>2 DEF Crowd
      <4>2. CASE i <= j
        <5>1. Held(H, i) \subseteq Held(H, j)
          BY <4>2, <1>6, HeldGrows
        <5> QED BY <5>1, <4>2, <1>7 DEF Crowd
      <4>3. CASE ~(i <= j)
        BY <4>1, <4>3, <1>4 DEF Crowd
      <4> QED BY <4>2, <4>3
    <3> QED BY <3>1, <3>2
  <2> QED BY <2>1, <1>0, <1>4, RoomLess
<1> QED BY <1>0, <1>2, <1>3, <1>4, <1>5, <1>9, <1>10, <1>11, <1>12 DEF HashInv, H, G, calls, res

\* t makes a reservation: it has counted everybody.
LEMMA ReserveStep ==
  ASSUME HashInv, NEW t \in Threads, NotFound(t)
  PROVE  HashInv'
<1> DEFINE H == implicitProducerHash
           calls == call'
           n == implicitProducerHashCount + 1
           c == [call[t] EXCEPT !.pc = "room", !.newCount = n]
<1>0. /\ TablesSound(H) /\ ValuesSound(H, result) /\ call \in [Threads -> Records]
      /\ RoomKept(H, call) /\ result \in [Threads -> Producers \cup {Null}]
      /\ LockHeld /\ resizeInProgress \in BOOLEAN
      /\ implicitProducerHashCount = Cardinality(Counted(H, call))
      /\ \A u \in Threads : CallSound(call[u], u, H, result)
  BY DEF HashInv
<1>1. /\ call[t].pc = "look" /\ calls = [call EXCEPT ![t] = c]
      /\ \A i \in 1..call[t].mainHash : ~Holds(H[i], t)
      /\ UNCHANGED <<H, result, resizeInProgress>> /\ implicitProducerHashCount' = n
  BY DEF NotFound, At, Goto, FoundIn, Table, hashVars
<1>a. Counted(H, call) \subseteq Threads
  BY DEF Counted, Held
<1>2. implicitProducerHashCount \in Nat /\ n \in Nat \ {0}
  <2>1. implicitProducerHashCount \in Nat
    BY <1>0, <1>a, Finite
  <2> QED BY <2>1
<1>3. /\ c \in Records /\ c.pc = "room" /\ c.newCount = n /\ c.token = call[t].token
      /\ c.mainHash = call[t].mainHash
  BY <1>0, <1>2 DEF Records, Labels
<1>4. calls \in [Threads -> Records] /\ calls[t] = c /\ \A u \in Threads : u # t => calls[u] = call[u]
  BY <1>0, <1>1, <1>3
<1>5. ~Reserves(call[t]) /\ Waits(c) /\ ~Commits(c) /\ Reserves(c) /\ ~Resizing(c)
  BY <1>1, <1>3 DEF Reserves, Waits, Commits, Resizing
<1>6. call[t].mainHash \in 1..Len(H) /\ call[t].token = NoToken
  BY <1>0, <1>1 DEF CallSound
<1>7. result[t] = Null
  BY <1>0, <1>1 DEF CallSound, Held
<1>8. t \notin Counted(H, call)
  BY <1>0, <1>5, <1>7, NotHeld DEF Counted
<1> HIDE DEF c, calls, H, n
<1>9. CallSound(c, t, H, result)
  BY <1>2, <1>3, <1>6, <1>7 DEF CallSound
<1>10. \A u \in Threads : CallSound(calls[u], u, H, result)
  BY <1>0, <1>4, <1>9
<1>11. Counted(H, calls) = Counted(H, call) \cup {t}
  BY <1>4, <1>5 DEF Counted
<1>12. Cardinality(Counted(H, calls)) = n
  BY <1>0, <1>8, <1>a, <1>11, Finite, FS_AddElement DEF n
<1>13. RoomKept(H, calls)
  <2> SUFFICES ASSUME NEW i \in 1..Len(H), NEW b \in Nat, Limit(H[i]) <= b + 1
               PROVE  Cardinality(Crowd(H, calls, i, b)) <= b
    BY DEF RoomKept
  <2>1. CASE n <= b
    <3>1. Held(H, i) \subseteq Held(H, Len(H))
      BY <1>0, HeldGrows DEF TablesSound
    <3>2. Crowd(H, calls, i, b) \subseteq Counted(H, calls)
      BY <3>1 DEF Crowd, Counted, Reserves
    <3>3. Counted(H, calls) \subseteq Threads
      BY <1>a, <1>11
    <3>4. Cardinality(Crowd(H, calls, i, b)) <= n
      BY <3>2, <3>3, <1>12, Finite, FS_Subset
    <3>5. Cardinality(Crowd(H, calls, i, b)) \in Nat
      BY <3>2, <3>3, Finite
    <3> QED BY <3>4, <3>5, <2>1, <1>2
  <2>2. CASE ~(n <= b)
    <3>1. ASSUME NEW u \in Threads PROVE u \in Crowd(H, calls, i, b) <=> u \in Crowd(H, call, i, b)
      <4>1. CASE u # t
        BY <4>1, <1>4 DEF Crowd
      <4>2. CASE u = t
        BY <4>2, <2>2, <1>3, <1>4, <1>5 DEF Crowd, Reserves
      <4> QED BY <4>1, <4>2
    <3>2. Crowd(H, calls, i, b) \subseteq Threads /\ Crowd(H, call, i, b) \subseteq Threads
      BY DEF Crowd, Held
    <3>3. Crowd(H, calls, i, b) = Crowd(H, call, i, b)
      BY <3>1, <3>2
    <3> QED BY <3>3, <1>0 DEF RoomKept
  <2> QED BY <2>1, <2>2
<1>14. LockHeld'
  <2>1. \A u \in Threads : Resizing(calls[u]) => Resizing(call[u])
    BY <1>4, <1>5
  <2> QED BY <2>1, <1>0, <1>1 DEF LockHeld, calls
<1> QED BY <1>0, <1>1, <1>4, <1>10, <1>12, <1>13, <1>14 DEF HashInv, H, calls

\* t makes a larger table the main one: it starts with the crowd of the last.
LEMMA ResizeStep ==
  ASSUME HashInv, NEW t \in Threads, Resize(t)
  PROVE  HashInv'
<1> DEFINE H == implicitProducerHash
           G == implicitProducerHash'
           calls == call'
           l == Len(implicitProducerHash)
           c == [call[t] EXCEPT !.pc = "unlock", !.mainHash = l + 1]
<1>0. /\ TablesSound(H) /\ ValuesSound(H, result) /\ call \in [Threads -> Records]
      /\ RoomKept(H, call) /\ result \in [Threads -> Producers \cup {Null}]
      /\ LockHeld /\ resizeInProgress \in BOOLEAN
      /\ implicitProducerHashCount = Cardinality(Counted(H, call))
      /\ \A u \in Threads : CallSound(call[u], u, H, result)
  BY DEF HashInv
<1>1. /\ call[t].pc = "resize" /\ calls = [call EXCEPT ![t] = c]
      /\ UNCHANGED <<result, resizeInProgress, implicitProducerHashCount>>
  BY DEF Resize, At, Goto
<1>2. call[t].mainHash = l /\ l \in Nat \ {0}
  BY <1>0, <1>1 DEF CallSound, TablesSound
<1>3. H[l].capacity \in Nat \ {0} /\ call[t].newCount \in Nat
  <2>1. H[l] \in Tables
    BY <1>0, <1>2 DEF TablesSound
  <2>2. call[t].newCount \in Nat
    BY <1>0 DEF Records
  <2> QED BY <2>1, <2>2, TableParts
<1>4. PICK d \in (2 * H[l].capacity)..(2 * H[l].capacity + 4 * call[t].newCount) :
        G = Append(H, EmptyTable(d))
  BY <1>2 DEF Resize, Table
<1>5. d \in Nat \ {0} /\ H[l].capacity <= d
  BY <1>3
<1>6. /\ TablesSound(G) /\ Len(G) = l + 1
      /\ G[l + 1] = EmptyTable(d)
      /\ \A j \in 1..l : G[j] = H[j] /\ Held(G, j) = Held(H, j)
      /\ Held(G, l + 1) = Held(H, l)
  BY <1>0, <1>4, <1>5, ChainAppend
<1>7. /\ c \in Records /\ c.pc = "unlock" /\ c.token = call[t].token
      /\ c.mainHash = l + 1 /\ c.newCount = call[t].newCount
  <2>1. l + 1 \in Nat /\ call[t] \in Records
    BY <1>0, <1>2
  <2> HIDE DEF l
  <2> QED BY <2>1 DEF Records, Labels
<1>8. calls \in [Threads -> Records] /\ calls[t] = c /\ \A u \in Threads : u # t => calls[u] = call[u]
  BY <1>0, <1>1, <1>7
<1>9. /\ Waits(call[t]) /\ Reserves(call[t]) /\ Waits(c) /\ ~Commits(c) /\ ~Commits(call[t]) /\ Reserves(c)
      /\ Resizing(call[t]) /\ Resizing(c)
  BY <1>1, <1>7 DEF Reserves, Waits, Commits, Resizing
<1>10. result' = result /\ Len(H) = l
  BY <1>1
<1> HIDE DEF H, G, l, c, calls
<1>11. ASSUME NEW u \in Threads PROVE CallSound(calls[u], u, G, result)
  <2>1. CASE u = t
    <3>1. CallSound(call[t], t, H, result)
      BY <1>0
    <3> QED BY <2>1, <3>1, <1>1, <1>2, <1>6, <1>7, <1>8, <1>9 DEF CallSound
  <2>2. CASE u # t
    <3>1. CallSound(call[u], u, H, result) /\ calls[u] = call[u]
      BY <2>2, <1>0, <1>8
    <3>2. call[u].pc # "resize"
      BY <2>2, <1>0, <1>9 DEF LockHeld, Resizing
    <3>3. call[u].mainHash \in 1..l => Held(G, call[u].mainHash) = Held(H, call[u].mainHash)
      BY <1>6
    <3> QED BY <3>1, <3>2, <3>3, <1>2, <1>6, <1>10 DEF CallSound
  <2> QED BY <2>1, <2>2
<1>12. ValuesSound(G, result)
  <2>1. ASSUME NEW j \in 1..Len(G), NEW s \in Slots(G[j]), G[j].entries[s].key # NoThread
        PROVE  G[j].entries[s].value = result[G[j].entries[s].key] /\ G[j].entries[s].value # Null
    <3>1. CASE j = l + 1
      BY <2>1, <3>1, <1>5, <1>6, EmptyTableFacts
    <3>2. CASE j \in 1..l
      BY <2>1, <3>2, <1>0, <1>6, <1>10 DEF ValuesSound
    <3> QED BY <3>1, <3>2, <1>2, <1>6
  <2> QED BY <2>1, <1>0, <1>6, <1>10 DEF ValuesSound
<1>13. Counted(G, calls) = Counted(H, call)
  BY <1>6, <1>8, <1>9, <1>10 DEF Counted
<1>14. ASSUME NEW i \in 1..l, NEW b \in Nat PROVE Crowd(G, calls, i, b) = Crowd(H, call, i, b)
  <2>1. Held(G, i) = Held(H, i)
    BY <1>6
  <2> QED BY <2>1, <1>7, <1>8, <1>9 DEF Crowd
<1>15. ASSUME NEW b \in Nat PROVE Crowd(G, calls, l + 1, b) = Crowd(H, call, l, b)
  <2>1. \A u \in Threads : Commits(call[u]) => call[u].mainHash <= l /\ call[u].mainHash <= l + 1
    BY <1>0, <1>2, <1>10 DEF CallSound, Reserves
  <2> QED BY <2>1, <1>6, <1>7, <1>8, <1>9 DEF Crowd
<1>16. RoomKept(G, calls)
  <2> SUFFICES ASSUME NEW i \in 1..(l + 1), NEW b \in Nat, Limit(G[i]) <= b + 1
               PROVE  Cardinality(Crowd(G, calls, i, b)) <= b
    BY <1>6 DEF RoomKept
  <2>1. CASE i \in 1..l
    <3>1. G[i] = H[i] /\ Crowd(G, calls, i, b) = Crowd(H, call, i, b)
      BY <2>1, <1>6, <1>14
    <3> QED BY <2>1, <3>1, <1>0, <1>10 DEF RoomKept
  <2>2. CASE i = l + 1
    <3>1. G[i].capacity = d
      BY <2>2, <1>5, <1>6, EmptyTableFacts
    <3>2. Limit(H[l]) <= Limit(G[i]) /\ Limit(H[l]) \in Nat /\ Limit(G[i]) \in Nat
      BY <3>1, <1>3, <1>5, LimitGrows
    <3>3. Limit(H[l]) <= b + 1
      BY <3>2
    <3>4. Cardinality(Crowd(H, call, l, b)) <= b
      BY <3>3, <1>0, <1>2, <1>10 DEF RoomKept
    <3> QED BY <2>2, <3>4, <1>15
  <2> QED BY <2>1, <2>2, <1>2
<1>17. LockHeld'
  <2>1. \A u \in Threads : Resizing(calls[u]) => Resizing(call[u])
    BY <1>8, <1>9
  <2> QED BY <2>1, <1>0, <1>1 DEF LockHeld, calls
<1> QED BY <1>0, <1>1, <1>6, <1>8, <1>11, <1>12, <1>13, <1>16, <1>17 DEF HashInv, H, G, calls

\* The lock is not touched by a step of t that does not acquire it.
LEMMA LockStays ==
  ASSUME LockHeld, call \in [Threads -> Records], NEW t \in Threads, NEW c,
         call' = [call EXCEPT ![t] = c], UNCHANGED resizeInProgress,
         Resizing(c) => Resizing(call[t])
  PROVE  LockHeld'
<1>1. \A u \in Threads : Resizing(call'[u]) => Resizing(call[u])
  OBVIOUS
<1> QED BY <1>1 DEF LockHeld

\* t releases the lock.
LEMMA LockReleased ==
  ASSUME LockHeld, call \in [Threads -> Records], NEW t \in Threads, NEW c,
         call' = [call EXCEPT ![t] = c], Resizing(call[t]), ~Resizing(c)
  PROVE  LockHeld'
<1>1. \A u \in Threads : Resizing(call[u]) => u = t
  BY DEF LockHeld
<1>2. \A u \in Threads : ~Resizing(call'[u])
  BY <1>1
<1> QED BY <1>2 DEF LockHeld

\* A step of t that leaves the hash tables and their counter alone.
LEMMA QuietStep ==
  ASSUME HashInv, NEW t \in Threads, NEW c \in Records,
         UNCHANGED <<hashVars, result>>,
         call' = [call EXCEPT ![t] = c],
         CallSound(c, t, implicitProducerHash, result),
         Resizing(c) => Resizing(call[t]),
         Reserves(c) <=> Reserves(call[t]),
         Commits(c) => \/ Commits(call[t]) /\ c.mainHash = call[t].mainHash
                       \/ /\ Waits(call[t])
                          /\ call[t].newCount < Limit(implicitProducerHash[c.mainHash]),
         Waits(c) => Waits(call[t]) /\ c.newCount = call[t].newCount
  PROVE  HashInv'
<1>1. UNCHANGED <<implicitProducerHash, result, resizeInProgress, implicitProducerHashCount>>
  BY DEF hashVars
<1>2. LockHeld'
  BY <1>1, LockStays DEF HashInv
<1>3. resizeInProgress' \in BOOLEAN
  BY <1>1 DEF HashInv
<1> QED BY <1>1, <1>2, <1>3, CallStep

\* A step of t outside of get_or_add_implicit_producer.
LEMMA OtherCallStep ==
  ASSUME HashInv, NEW t \in Threads, NEW c \in Records,
         UNCHANGED <<hashVars, result>>,
         call' = [call EXCEPT ![t] = c],
         ~Reserves(call[t]),
         c = NoCall \/ (c.pc \in {"scan", "link", "retire"} /\ c.token # NoToken)
  PROVE  HashInv'
<1>1. ~Reserves(c) /\ ~Waits(c) /\ ~Commits(c) /\ ~Resizing(c)
  BY NoCallFacts DEF Reserves, Waits, Commits, Resizing
<1>2. CallSound(c, t, implicitProducerHash, result)
  <2>1. CASE c = NoCall
    BY <2>1, NoCallFacts
  <2>2. CASE c.pc \in {"scan", "link", "retire"} /\ c.token # NoToken
    BY <2>2, <1>1 DEF CallSound
  <2> QED BY <2>1, <2>2
<1> QED BY <1>1, <1>2, QuietStep

\* The steps of get_or_add_implicit_producer until the thread has a table.
LEMMA HashSearchStep ==
  ASSUME HashInv, NEW t \in Threads,
         \/ GetImplicit(t) \/ AcquireResize(t) \/ NoResize(t)
         \/ ResizeFails(t) \/ ResizeNeedless(t) \/ Unlock(t)
  PROVE  HashInv'
<1> DEFINE H == implicitProducerHash
<1>0. /\ TablesSound(H) /\ call \in [Threads -> Records] /\ call[t] \in Records
      /\ LockHeld /\ resizeInProgress \in BOOLEAN
      /\ CallSound(call[t], t, H, result) /\ ValuesSound(H, result)
  BY DEF HashInv
<1>1. Len(H) \in 1..Len(H) /\ Len(H) \in Nat
  BY <1>0 DEF TablesSound
<1> HIDE DEF H
<1>2. CASE GetImplicit(t)
  <2> DEFINE c == [NoCall EXCEPT !.pc = "look", !.mainHash = Len(H)]
  <2>1. /\ call[t].pc = "idle" /\ call' = [call EXCEPT ![t] = c]
        /\ UNCHANGED <<hashVars, result>>
    BY <1>2 DEF GetImplicit, At, Goto, H
  <2>2. c \in Records /\ c.pc = "look" /\ c.mainHash = Len(H) /\ c.token = NoToken
    BY <1>1 DEF NoCall, Records, Labels
  <2> HIDE DEF c
  <2>3. /\ ~Reserves(c) /\ ~Waits(c) /\ ~Commits(c) /\ ~Resizing(c) /\ ~Reserves(call[t])
    BY <2>1, <2>2 DEF Reserves, Waits, Commits, Resizing
  <2>4. CallSound(c, t, H, result)
    BY <2>2, <2>3, <1>0, <1>1 DEF CallSound, ValuesSound
  <2> QED BY <2>1, <2>2, <2>3, <2>4, QuietStep DEF H
<1>3. CASE AcquireResize(t)
  <2> DEFINE c == [call[t] EXCEPT !.pc = "resize", !.mainHash = Len(H)]
  <2>1. /\ call[t].pc = "room" /\ call' = [call EXCEPT ![t] = c]
        /\ UNCHANGED <<implicitProducerHash, implicitProducerHashCount, result>>
        /\ ~resizeInProgress /\ resizeInProgress' = TRUE
    BY <1>3 DEF AcquireResize, At, Goto, H
  <2>2. /\ c \in Records /\ c.pc = "resize" /\ c.mainHash = Len(H) /\ c.token = call[t].token
        /\ c.newCount = call[t].newCount
    BY <1>0, <1>1 DEF Records, Labels
  <2> HIDE DEF c
  <2>3. /\ Reserves(c) /\ Waits(c) /\ ~Commits(c) /\ Reserves(call[t]) /\ Waits(call[t])
    BY <2>1, <2>2 DEF Reserves, Waits, Commits, Resizing
  <2>4. CallSound(c, t, H, result)
    BY <2>1, <2>2, <2>3, <1>0, <1>1 DEF CallSound
  <2>5. LockHeld'
    <3>1. \A u \in Threads : ~Resizing(call[u])
      BY <2>1, <1>0 DEF LockHeld
    <3>2. \A u \in Threads : Resizing(call'[u]) => u = t
      BY <3>1, <2>1, <1>0
    <3> QED BY <3>2, <2>1 DEF LockHeld
  <2> QED BY <2>1, <2>2, <2>3, <2>4, <2>5, CallStep DEF H
<1>4. CASE ResizeFails(t)
  <2>1. /\ call[t].pc = "resize" /\ call' = [call EXCEPT ![t] = NoCall]
        /\ UNCHANGED <<implicitProducerHash, result>> /\ resizeInProgress' = FALSE
        /\ implicitProducerHashCount' = implicitProducerHashCount - 1
    BY <1>4 DEF ResizeFails, At, Goto
  <2>2. Reserves(call[t]) /\ Resizing(call[t])
    BY <2>1 DEF Reserves, Waits, Resizing
  <2>3. LockHeld'
    BY <2>1, <2>2, <1>0, NoCallFacts, LockReleased
  <2> QED BY <2>1, <2>2, <2>3, NoCallFacts, CallStep
<1>5. CASE ResizeNeedless(t)
  <2> DEFINE c == [call[t] EXCEPT !.pc = "unlock"]
  <2>1. /\ call[t].pc = "resize" /\ call' = [call EXCEPT ![t] = c]
        /\ UNCHANGED <<hashVars, result>>
    BY <1>5 DEF ResizeNeedless, At, Goto
  <2>2. /\ c \in Records /\ c.pc = "unlock" /\ c.mainHash = call[t].mainHash
        /\ c.token = call[t].token /\ c.newCount = call[t].newCount
    BY <1>0 DEF Records, Labels
  <2> HIDE DEF c
  <2>3. /\ Reserves(c) /\ Waits(c) /\ ~Commits(c) /\ Reserves(call[t]) /\ Waits(call[t])
        /\ Resizing(call[t])
    BY <2>1, <2>2 DEF Reserves, Waits, Commits, Resizing
  <2>4. CallSound(c, t, H, result)
    BY <2>1, <2>2, <2>3, <1>0 DEF CallSound
  <2> QED BY <2>1, <2>2, <2>3, <2>4, QuietStep DEF H
<1>6. ASSUME call[t].pc \in {"room", "unlock"}, NEW c, c = AfterResize(t, call[t].mainHash)
      PROVE  /\ c \in Records /\ Reserves(c) /\ Reserves(call[t]) /\ Waits(call[t])
             /\ ~Resizing(c) /\ CallSound(c, t, H, result)
             /\ Commits(c) => call[t].newCount < Limit(H[c.mainHash])
             /\ Waits(c) => c.newCount = call[t].newCount
  <2>1. Reserves(call[t]) /\ Waits(call[t])
    BY <1>6 DEF Reserves, Waits
  <2>2. CASE HasRoom(H[call[t].mainHash], call[t].newCount)
    <3>1. c = [call[t] EXCEPT !.pc = "scan", !.mainHash = call[t].mainHash]
      BY <2>2, <1>6 DEF AfterResize, Table, H
    <3>2. /\ c \in Records /\ c.pc = "scan" /\ c.mainHash = call[t].mainHash
          /\ c.token = call[t].token /\ c.newCount = call[t].newCount
      BY <3>1, <1>0 DEF Records, Labels
    <3>3. call[t].token = NoToken
      BY <1>0, <1>6 DEF CallSound
    <3>4. Reserves(c) /\ ~Waits(c) /\ ~Resizing(c)
      BY <3>2, <3>3 DEF Reserves, Waits, Commits, Resizing
    <3>5. CallSound(c, t, H, result)
      BY <2>1, <3>2, <3>3, <3>4, <1>0 DEF CallSound
    <3> QED BY <2>1, <2>2, <3>2, <3>4, <3>5 DEF HasRoom, Limit
  <2>3. CASE ~HasRoom(H[call[t].mainHash], call[t].newCount)
    <3>1. c = [call[t] EXCEPT !.pc = "room", !.mainHash = Len(H)]
      BY <2>3, <1>6 DEF AfterResize, Table, H
    <3>2. /\ c \in Records /\ c.pc = "room" /\ c.mainHash = Len(H)
          /\ c.token = call[t].token /\ c.newCount = call[t].newCount
      BY <3>1, <1>0, <1>1 DEF Records, Labels
    <3>3. call[t].token = NoToken
      BY <1>0, <1>6 DEF CallSound
    <3>4. Reserves(c) /\ Waits(c) /\ ~Commits(c) /\ ~Resizing(c)
      BY <3>2, <3>3 DEF Reserves, Waits, Commits, Resizing
    <3>5. CallSound(c, t, H, result)
      BY <2>1, <3>2, <3>3, <3>4, <1>0, <1>1 DEF CallSound
    <3> QED BY <2>1, <3>2, <3>4, <3>5
  <2> QED BY <2>2, <2>3
<1>7. CASE NoResize(t)
  <2> DEFINE c == AfterResize(t, call[t].mainHash)
  <2>1. call[t].pc = "room" /\ call' = [call EXCEPT ![t] = c] /\ UNCHANGED <<hashVars, result>>
    BY <1>7 DEF NoResize, At, Goto
  <2> HIDE DEF c
  <2>2. c = AfterResize(t, call[t].mainHash)
    BY DEF c
  <2>3. /\ c \in Records /\ Reserves(c) /\ Reserves(call[t]) /\ Waits(call[t])
        /\ ~Resizing(c) /\ CallSound(c, t, H, result)
        /\ Commits(c) => call[t].newCount < Limit(H[c.mainHash])
        /\ Waits(c) => c.newCount = call[t].newCount
    BY <2>1, <2>2, <1>6
  <2> QED BY <2>1, <2>3, QuietStep DEF H
<1>8. CASE Unlock(t)
  <2> DEFINE c == AfterResize(t, call[t].mainHash)
  <2>1. /\ call[t].pc = "unlock" /\ call' = [call EXCEPT ![t] = c] /\ resizeInProgress' = FALSE
        /\ UNCHANGED <<implicitProducerHash, implicitProducerHashCount, result>>
    BY <1>8 DEF Unlock, At, Goto
  <2> HIDE DEF c
  <2>2. c = AfterResize(t, call[t].mainHash)
    BY DEF c
  <2>3. /\ c \in Records /\ Reserves(c) /\ Reserves(call[t]) /\ Waits(call[t])
        /\ ~Resizing(c) /\ CallSound(c, t, H, result)
        /\ Commits(c) => call[t].newCount < Limit(H[c.mainHash])
        /\ Waits(c) => c.newCount = call[t].newCount
    BY <2>1, <2>2, <1>6
  <2>4. LockHeld'
    <3>1. Resizing(call[t])
      BY <2>1 DEF Resizing
    <3> QED BY <2>1, <2>3, <3>1, <1>0, LockReleased
  <2> QED BY <2>1, <2>3, <2>4, CallStep DEF H
<1> QED BY <1>2, <1>3, <1>4, <1>5, <1>7, <1>8

\* A bounded set of natural numbers has a greatest element.
LEMMA Greatest ==
  ASSUME NEW n \in Nat, NEW T \in SUBSET (1..n), T # {}
  PROVE  \E x \in T : \A y \in T : y <= x
<1> DEFINE R == {m \in 0..n : n - m \in T}
<1>1. R \in SUBSET Nat
  OBVIOUS
<1>2. ASSUME NEW y \in T PROVE n - y \in R
  <2>1. n - y \in 0..n /\ n - (n - y) = y
    OBVIOUS
  <2> QED BY <2>1
<1>3. R # {}
  BY <1>2
<1> HIDE DEF R
<1>4. PICK m \in R : \A y \in R : m <= y
  BY <1>1, <1>3, Least
<1>5. m \in 0..n /\ n - m \in T
  BY DEF R
<1>6. ASSUME NEW y \in T PROVE y <= n - m
  <2>1. m <= n - y
    BY <1>2, <1>4
  <2> QED BY <2>1, <1>5
<1> QED BY <1>5, <1>6

\* The next candidate of a scan is a place of the list, or 0.
LEMMA CandidateType ==
  ASSUME NEW i \in Nat
  PROVE  CandidateBefore(i) \in Nat
<1> DEFINE S == {j \in 1..(i - 1) : explicit[producerList[j]]}
<1>1. CASE S = {}
  BY <1>1 DEF CandidateBefore
<1>2. CASE S # {}
  <2>1. i - 1 \in Nat /\ S \in SUBSET (1..(i - 1))
    BY <1>2
  <2>2. \E x \in S : \A y \in S : y <= x
    <3> HIDE DEF S
    <3> QED BY <1>2, <2>1, Greatest
  <2>3. (CHOOSE j \in S : \A k \in S : k <= j) \in S
    BY <2>2
  <2>4. CandidateBefore(i) = CHOOSE j \in S : \A k \in S : k <= j
    BY <1>2 DEF CandidateBefore
  <2> QED BY <2>3, <2>4
<1> QED BY <1>1, <1>2

\* What a thread finds in a table is its producer.
LEMMA FindsResult ==
  ASSUME HashInv, NEW t \in Threads, NEW i \in 1..Len(implicitProducerHash),
         Holds(implicitProducerHash[i], t)
  PROVE  /\ implicitProducerHash[i].entries[Probe(implicitProducerHash[i], t)].value = result[t]
         /\ result[t] \in Producers
<1> DEFINE h == implicitProducerHash[i]
<1>1. h \in Tables /\ ProbeEnds(h, t) /\ h.entries[Probe(h, t)].key = t
  BY DEF HashInv, TablesSound, Holds
<1>2. Probe(h, t) \in Slots(h)
  BY <1>1, ProbeFinds
<1>3. t # NoThread
  BY HashAssumption
<1>4. h.entries[Probe(h, t)].value = result[t] /\ result[t] # Null
  BY <1>1, <1>2, <1>3 DEF HashInv, ValuesSound
<1> QED BY <1>4 DEF HashInv

\* t finds its producer, and may enter it in a newer table.
LEMMA FoundStep ==
  ASSUME HashInv, NEW t \in Threads, Found(t)
  PROVE  HashInv' /\ result' = result /\ call' = [call EXCEPT ![t] = NoCall] /\ result[t] # Null
<1> DEFINE H == implicitProducerHash
           main == call[t].mainHash
           i == CHOOSE i \in FoundIn(t) : \A j \in FoundIn(t) : j <= i
           p == H[i].entries[Probe(H[i], t)].value
<1>0. /\ TablesSound(H) /\ call \in [Threads -> Records] /\ result \in [Threads -> Producers \cup {Null}]
      /\ CallSound(call[t], t, H, result)
  BY DEF HashInv
<1>1. /\ call[t].pc = "look" /\ FoundIn(t) # {} /\ call' = [call EXCEPT ![t] = NoCall]
      /\ result' = [result EXCEPT ![t] = p]
      /\ IF i = main THEN UNCHANGED H
         ELSE ProbeEnds(H[main], t) /\ H' = ChainWith(H, main, t, p)
      /\ UNCHANGED <<implicitProducerHashCount, resizeInProgress>>
  BY DEF Found, At, Goto, Table, WithProducer, ChainWith
<1>2. main \in 1..Len(H) /\ Len(H) \in Nat
  BY <1>0, <1>1 DEF CallSound, TablesSound
<1>3. FoundIn(t) \in SUBSET (1..main) /\ \A j \in FoundIn(t) : Holds(H[j], t)
  BY DEF FoundIn, Table
<1>4. i \in FoundIn(t)
  <2>1. \E x \in FoundIn(t) : \A y \in FoundIn(t) : y <= x
    <3>1. main \in Nat
      BY <1>2
    <3> HIDE DEF main
    <3> QED BY <1>1, <1>3, <3>1, Greatest
  <2> QED BY <2>1
<1> HIDE DEF i
<1>5. i \in 1..main /\ i \in 1..Len(H) /\ Holds(H[i], t)
  BY <1>2, <1>3, <1>4
<1>6. p = result[t] /\ result[t] \in Producers
  BY <1>5, FindsResult
<1>7. result[t] # Null
  BY <1>6 DEF Producers, Null
<1>8. result' = result
  BY <1>0, <1>1, <1>6
<1>9. ~Reserves(call[t]) /\ ~Waits(call[t])
  BY <1>1 DEF Reserves, Waits, Commits
<1>10. CASE i = main
  <2>1. UNCHANGED <<hashVars, result>>
    BY <1>1, <1>8, <1>10 DEF hashVars
  <2>2. HashInv'
    BY <2>1, <1>1, <1>9, NoCallFacts, OtherCallStep
  <2> QED BY <2>2, <1>1, <1>7, <1>8
<1>11. CASE i # main
  <2>1. t \in Held(H, main)
    BY <1>5 DEF Held
  <2>2. ProbeEnds(H[main], t) /\ H' = ChainWith(H, main, t, p)
    BY <1>1, <1>11
  <2> HIDE DEF main, p
  <2>3. HashInv'
    BY <2>1, <2>2, <1>1, <1>2, <1>6, <1>9, PutStep
  <2> QED BY <2>3, <1>1, <1>7, <1>8
<1> QED BY <1>10, <1>11

\* t enters the producer it has created.
LEMMA InsertStep ==
  ASSUME HashInv, NEW t \in Threads, call[t].producer \in Producers, InsertProducer(t)
  PROVE  HashInv' /\ result[t] = Null
<1> DEFINE H == implicitProducerHash
           main == call[t].mainHash
           p == call[t].producer
<1>1. /\ call[t].pc = "insert" /\ ProbeEnds(H[main], t) /\ call' = [call EXCEPT ![t] = NoCall]
      /\ H' = ChainWith(H, main, t, p) /\ result' = [result EXCEPT ![t] = p]
      /\ UNCHANGED <<implicitProducerHashCount, resizeInProgress>>
  BY DEF InsertProducer, At, Goto, Table, WithProducer, ChainWith
<1>2. Commits(call[t]) /\ ~Waits(call[t]) /\ Reserves(call[t])
  BY <1>1 DEF Reserves, Waits, Commits
<1>3. main \in 1..Len(H) /\ result[t] = Null
  BY <1>2 DEF HashInv, CallSound
<1>4. p \in Producers
  OBVIOUS
<1> HIDE DEF p
<1>5. HashInv'
  BY <1>1, <1>2, <1>3, <1>4, PutStep
<1> QED BY <1>3, <1>5

\* The steps of recycle_or_create_producer and of the tokens.
LEMMA HashProducerStep ==
  ASSUME HashInv, NEW t \in Threads, call[t].token = NoToken => call[t].position = 0,
         Len(explicit) \in Nat, Len(producerList) \in Nat,
         producerOf \in [Tokens -> Producers \cup {Null}],
         \/ Create(t) \/ CreateFails(t) \/ Recycle(t) \/ PassBy(t) \/ LinkProducer(t)
         \/ Retire(t) \/ \E k \in Tokens : NewToken(t, k) \/ DestroyToken(t, k)
  PROVE  HashInv'
<1> DEFINE H == implicitProducerHash
<1>0. /\ call \in [Threads -> Records] /\ call[t] \in Records
      /\ LockHeld /\ resizeInProgress \in BOOLEAN
      /\ CallSound(call[t], t, H, result)
  BY DEF HashInv
<1> HIDE DEF H
<1>1. ASSUME call[t].pc \in {"scan", "link"}, call[t].token # NoToken PROVE ~Reserves(call[t])
  BY <1>1 DEF Reserves, Waits, Commits
<1>2. ASSUME call[t].pc \in {"idle", "retire"} PROVE ~Reserves(call[t])
  BY <1>2 DEF Reserves, Waits, Commits
<1>3. ASSUME call[t].pc \in {"scan", "link"}, call[t].token = NoToken, NEW c \in Records,
             c.pc \in {"scan", "link", "insert"}, c.token = NoToken, c.mainHash = call[t].mainHash,
             c.newCount = call[t].newCount,
             call' = [call EXCEPT ![t] = c], UNCHANGED <<hashVars, result>>
      PROVE  HashInv'
  <2>1. /\ Reserves(c) /\ Commits(c) /\ ~Waits(c) /\ Reserves(call[t]) /\ Commits(call[t])
        /\ ~Resizing(c)
    BY <1>3 DEF Reserves, Waits, Commits, Resizing
  <2>2. CallSound(c, t, H, result)
    BY <2>1, <1>0, <1>3 DEF CallSound
  <2> QED BY <2>1, <2>2, <1>3, QuietStep DEF H
<1>4. CASE Create(t)
  <2> DEFINE c == [call[t] EXCEPT !.pc = "link", !.producer = Len(explicit) + 1]
  <2>1. /\ call[t].pc = "scan" /\ call' = [call EXCEPT ![t] = c] /\ Len(explicit) < MaxProducers
        /\ UNCHANGED <<hashVars, result>>
    BY <1>4 DEF Create, At, Goto
  <2>2. Len(explicit) + 1 \in Producers
    BY <2>1, HashAssumption DEF Producers
  <2>3. /\ c \in Records /\ c.pc = "link" /\ c.token = call[t].token
        /\ c.mainHash = call[t].mainHash /\ c.newCount = call[t].newCount
    BY <2>2, <1>0 DEF Records, Labels
  <2> HIDE DEF c
  <2>4. CASE call[t].token = NoToken
    BY <2>1, <2>3, <2>4, <1>3
  <2>5. CASE call[t].token # NoToken
    BY <2>1, <2>3, <2>5, <1>1, OtherCallStep
  <2> QED BY <2>4, <2>5
<1>5. CASE CreateFails(t)
  <2>1. /\ call[t].pc = "scan" /\ call' = [call EXCEPT ![t] = NoCall]
        /\ IF call[t].token = NoToken
           THEN implicitProducerHashCount' = implicitProducerHashCount - 1
           ELSE UNCHANGED implicitProducerHashCount
        /\ UNCHANGED <<implicitProducerHash, resizeInProgress, result>>
    BY <1>5 DEF CreateFails, At, Goto, IsImplicit
  <2>2. CASE call[t].token # NoToken
    <3>1. UNCHANGED <<hashVars, result>>
      BY <2>1, <2>2 DEF hashVars
    <3> QED BY <2>1, <2>2, <3>1, <1>1, NoCallFacts, OtherCallStep
  <2>3. CASE call[t].token = NoToken
    <3>1. Reserves(call[t])
      BY <2>1, <2>3 DEF Reserves, Commits
    <3>2. LockHeld'
      BY <2>1, <1>0, NoCallFacts, LockStays
    <3> QED BY <2>1, <2>3, <3>1, <3>2, <1>0, NoCallFacts, CallStep
  <2> QED BY <2>2, <2>3
<1>6. CASE Recycle(t)
  <2>1. /\ call[t].pc = "scan" /\ call[t].position # 0 /\ call' = [call EXCEPT ![t] = NoCall]
        /\ UNCHANGED <<hashVars, result>>
    BY <1>6 DEF Recycle, At, Goto
  <2> QED BY <2>1, <1>1, NoCallFacts, OtherCallStep
<1>7. CASE PassBy(t)
  <2> DEFINE c == [call[t] EXCEPT !.position = CandidateBefore(@)]
  <2>1. /\ call[t].pc = "scan" /\ call[t].position # 0 /\ call' = [call EXCEPT ![t] = c]
        /\ UNCHANGED <<hashVars, result>>
    BY <1>7 DEF PassBy, At, Goto
  <2>2. CandidateBefore(call[t].position) \in Nat
    <3>1. call[t].position \in Nat
      BY <1>0 DEF Records
    <3> QED BY <3>1, CandidateType
  <2>3. /\ c \in Records /\ c.pc = "scan" /\ c.token = call[t].token
    BY <2>1, <2>2, <1>0 DEF Records, Labels
  <2> HIDE DEF c
  <2> QED BY <2>1, <2>3, <1>1, OtherCallStep
<1>8. CASE LinkProducer(t)
  <2>1. call[t].pc = "link" /\ UNCHANGED <<hashVars, result>>
    BY <1>8 DEF LinkProducer, At
  <2>2. CASE call[t].token = NoToken
    <3> DEFINE c == [call[t] EXCEPT !.pc = "insert"]
    <3>1. call' = [call EXCEPT ![t] = c]
      BY <1>8, <2>2 DEF LinkProducer, Goto, IsImplicit
    <3>2. /\ c \in Records /\ c.pc = "insert" /\ c.token = call[t].token
          /\ c.mainHash = call[t].mainHash /\ c.newCount = call[t].newCount
      BY <1>0 DEF Records, Labels
    <3> HIDE DEF c
    <3> QED BY <2>1, <2>2, <3>1, <3>2, <1>3
  <2>3. CASE call[t].token # NoToken
    <3>1. call' = [call EXCEPT ![t] = NoCall]
      BY <1>8, <2>3 DEF LinkProducer, Goto, IsImplicit
    <3> QED BY <2>1, <2>3, <3>1, <1>1, NoCallFacts, OtherCallStep
  <2> QED BY <2>2, <2>3
<1>9. CASE Retire(t)
  <2>1. /\ call[t].pc = "retire" /\ call' = [call EXCEPT ![t] = NoCall]
        /\ UNCHANGED <<hashVars, result>>
    BY <1>9 DEF Retire, At, Goto
  <2> QED BY <2>1, <1>2, NoCallFacts, OtherCallStep
<1>10. ASSUME NEW k \in Tokens, NewToken(t, k) PROVE HashInv'
  <2> DEFINE n == CandidateBefore(Len(producerList) + 1)
             c == [NoCall EXCEPT !.pc = "scan", !.token = k, !.position = n]
  <2>1. /\ call[t].pc = "idle" /\ call' = [call EXCEPT ![t] = c]
        /\ UNCHANGED <<hashVars, result>>
    BY <1>10 DEF NewToken, At, Goto
  <2>2. n \in Nat
    BY CandidateType
  <2>3. c \in Records /\ c.pc = "scan" /\ c.token = k
    BY <2>2, NoCallFacts DEF NoCall, Records, Labels
  <2>4. k # NoToken
    BY HashAssumption
  <2> HIDE DEF c
  <2> QED BY <2>1, <2>3, <2>4, <1>2, OtherCallStep
<1>11. ASSUME NEW k \in Tokens, DestroyToken(t, k) PROVE HashInv'
  <2> DEFINE c == [NoCall EXCEPT !.pc = "retire", !.token = k, !.producer = producerOf[k]]
  <2>1. /\ call[t].pc = "idle" /\ call' = [call EXCEPT ![t] = c]
        /\ UNCHANGED <<hashVars, result>>
    BY <1>11 DEF DestroyToken, At, Goto
  <2>2. producerOf[k] \in Producers \cup {Null}
    OBVIOUS
  <2>3. c \in Records /\ c.pc = "retire" /\ c.token = k
    BY <2>2 DEF NoCall, Records, Labels
  <2>4. k # NoToken
    BY HashAssumption
  <2> HIDE DEF c
  <2> QED BY <2>1, <2>3, <2>4, <1>2, OtherCallStep
<1> QED BY <1>4, <1>5, <1>6, <1>7, <1>8, <1>9, <1>10, <1>11

-----------------------------------------------------------------------------
(* Steps and the producers *)

\* A step of t that leaves producers and tokens alone.
LEMMA OwnerQuiet ==
  ASSUME OwnerInv, call \in [Threads -> Records], NEW t \in Threads, NEW c \in Records,
         call' = [call EXCEPT ![t] = c], UNCHANGED <<listVars, tokenVars, result>>,
         call[t].pc \notin {"link", "insert", "retire"}, c.pc \notin {"link", "insert", "retire"},
         c.token = NoToken => c.position = 0,
         \/ c.token = call[t].token
         \/ call[t].token = NoToken /\ \A u \in Threads : call[u].token # c.token,
         c.token \notin alive
  PROVE  OwnerInv'
<1>0. UNCHANGED <<explicit, producerList, producerCount, inactive, tokenOf, producerOf, alive, result>>
  BY DEF listVars, tokenVars
<1>1. call'[t] = c /\ \A u \in Threads : u # t => call'[u] = call[u]
  OBVIOUS
<1>2. \A u \in Threads : \A p : Carries(call'[u], p) <=> Carries(call[u], p)
  BY <1>1 DEF Carries
<1>3. Created' = Created
  BY <1>0 DEF Created
<1>4. Types'
  BY <1>0, <1>3 DEF OwnerInv, Types
<1>5. SomeHolder'
  BY <1>0, <1>2, <1>3 DEF OwnerInv, SomeHolder
<1>6. NoOtherHolder'
  BY <1>0, <1>2, <1>3 DEF OwnerInv, NoOtherHolder
<1>7. TokensKnown'
  <2>1. \A k : Settled(k)' => Settled(k)
    <3>1. NoToken \notin alive
      BY HashAssumption DEF OwnerInv, Types
    <3> QED BY <3>1, <1>0, <1>1 DEF Settled
  <2> QED BY <2>1, <1>0 DEF OwnerInv, TokensKnown
<1>8. CallsAndTokens'
  <2>1. CallsAndTokens
    BY DEF OwnerInv
  <2> QED BY <2>1, <1>0, <1>1, <1>3 DEF CallsAndTokens, CallKnown, OneCall, HeldExist
<1>9. ListSound'
  <2>1. \A u \in Threads : \A p : (call'[u].pc = "link" /\ call'[u].producer = p)
                                  <=> (call[u].pc = "link" /\ call[u].producer = p)
    BY <1>1
  <2> QED BY <2>1, <1>0, <1>3 DEF OwnerInv, ListSound
<1> QED BY <1>4, <1>5, <1>6, <1>7, <1>8, <1>9 DEF OwnerInv

\* t creates a producer and carries it.
LEMMA CreateStep ==
  ASSUME OwnerInv, HashInv, NEW t \in Threads, Create(t)
  PROVE  OwnerInv'
<1> DEFINE n == Len(explicit) + 1
           c == [call[t] EXCEPT !.pc = "link", !.producer = n]
<1>0. /\ call \in [Threads -> Records] /\ Types /\ CallsAndTokens
      /\ SomeHolder /\ NoOtherHolder /\ TokensKnown /\ ListSound
  BY DEF OwnerInv, HashInv
<1>1. /\ call[t].pc = "scan" /\ call' = [call EXCEPT ![t] = c] /\ Len(explicit) < MaxProducers
      /\ explicit' = Append(explicit, call[t].token # NoToken)
      /\ producerCount' = producerCount + 1
      /\ UNCHANGED <<producerList, inactive, tokenOf, producerOf, alive, result>>
  BY DEF Create, At, Goto, IsImplicit, tokenVars
<1>2. Len(explicit) \in Nat /\ n \in Producers
  BY <1>0, <1>1, HashAssumption DEF Types, Producers
<1>3. /\ c.pc = "link" /\ c.token = call[t].token /\ c.position = call[t].position
      /\ c.producer = n
  BY <1>0 DEF Records
<1>4. call'[t] = c /\ \A u \in Threads : u # t => call'[u] = call[u]
  BY <1>0, <1>1
<1> HIDE DEF c
<1>5. /\ explicit' \in Seq(BOOLEAN) /\ Len(explicit') = n
      /\ explicit'[n] = (call[t].token # NoToken)
      /\ \A p \in Created : explicit'[p] = explicit[p]
  BY <1>0, <1>1 DEF Types, Created
<1>6. Created' = Created \cup {n} /\ n \notin Created
  BY <1>2, <1>5 DEF Created
<1> HIDE DEF n
<1>7. /\ \A u \in Threads : result[u] # n /\ ~Carries(call[u], n)
      /\ \A k \in alive : producerOf[k] # n
      /\ n \notin inactive /\ tokenOf[n] = NoToken
  <2>1. n # Null
    BY <1>2 DEF Producers, Null
  <2> QED BY <2>1, <1>0, <1>2, <1>6 DEF CallsAndTokens, CallKnown, HeldExist, Types, Carries
<1>8. /\ Carries(call'[t], n) /\ \A p \in Created : ~Carries(call'[t], p) /\ ~Carries(call[t], p)
      /\ \A u \in Threads : u # t => \A p : Carries(call'[u], p) <=> Carries(call[u], p)
  BY <1>1, <1>3, <1>4, <1>6 DEF Carries
<1>9. Types'
  <2>1. producerCount' = Len(explicit') /\ Len(explicit') <= MaxProducers
    BY <1>0, <1>1, <1>2, <1>5 DEF Types, Producers
  <2>2. inactive' \subseteq {p \in Created' : explicit'[p]}
    BY <1>0, <1>1, <1>5, <1>6 DEF Types
  <2> QED BY <2>1, <2>2, <1>0, <1>1, <1>5 DEF Types
<1>10. SomeHolder'
  BY <1>0, <1>1, <1>4, <1>6, <1>8 DEF SomeHolder
<1>11. NoOtherHolder'
  <2>1. ASSUME NEW p \in Created', NEW u \in Threads, result'[u] = p
        PROVE  /\ \A v \in Threads : result'[v] = p => v = u
               /\ \A k \in alive' : producerOf'[k] # p
               /\ \A v \in Threads : ~Carries(call'[v], p)
               /\ p \notin inactive'
    BY <2>1, <1>0, <1>1, <1>6, <1>7, <1>8 DEF NoOtherHolder
  <2>2. ASSUME NEW p \in Created', NEW k \in alive', producerOf'[k] = p
        PROVE  /\ \A l \in alive' : producerOf'[l] = p => l = k
               /\ \A v \in Threads : ~Carries(call'[v], p)
               /\ p \notin inactive'
    BY <2>2, <1>0, <1>1, <1>6, <1>7, <1>8 DEF NoOtherHolder
  <2>3. ASSUME NEW p \in Created', NEW u \in Threads, Carries(call'[u], p)
        PROVE  /\ \A v \in Threads : Carries(call'[v], p) => v = u
               /\ p \notin inactive'
    BY <2>3, <1>0, <1>1, <1>6, <1>7, <1>8 DEF NoOtherHolder
  <2> QED BY <2>1, <2>2, <2>3 DEF NoOtherHolder
<1>12. TokensKnown'
  <2>1. \A k : Settled(k)' <=> Settled(k)
    BY <1>1, <1>3, <1>4 DEF Settled
  <2>2. DOMAIN explicit = Created /\ (DOMAIN explicit)' = Created'
    BY <1>0, <1>5 DEF Types, Created
  <2> QED BY <2>1, <2>2, <1>0, <1>1, <1>6, <1>7 DEF TokensKnown
<1>13. CallsAndTokens'
  <2>1. ASSUME NEW u \in Threads PROVE CallKnown(call[u])'
    <3>1. CallKnown(call[u]) /\ CallKnown(call[t])
      BY <1>0 DEF CallsAndTokens
    <3>2. CASE u = t
      BY <3>1, <3>2, <1>1, <1>3, <1>4, <1>5, <1>6 DEF CallKnown
    <3>3. CASE u # t
      <4> DEFINE d == call[u]
      <4>1. call'[u] = d /\ CallKnown(d)
        BY <3>1, <3>3, <1>4
      <4> HIDE DEF d
      <4>2. d.pc \in {"link", "insert"} =>
              d.producer \in Created' /\ explicit'[d.producer] = (d.token # NoToken)
        BY <4>1, <1>5, <1>6 DEF CallKnown
      <4>3. /\ d.pc = "retire" =>
                 /\ d.token \in alive' /\ d.producer = producerOf'[d.token]
                 /\ d.producer # Null => tokenOf'[d.producer] = NoToken
            /\ d.token = NoToken => d.position = 0 /\ d.pc # "retire"
            /\ d.pc \in {"scan", "link"} => d.token \notin alive'
        BY <4>1, <1>1 DEF CallKnown
      <4> QED BY <4>1, <4>2, <4>3 DEF CallKnown
    <3> QED BY <3>2, <3>3
  <2>2. OneCall'
    BY <1>0, <1>3, <1>4 DEF CallsAndTokens, OneCall
  <2>3. HeldExist'
    BY <1>0, <1>1, <1>5, <1>6 DEF CallsAndTokens, HeldExist
  <2> QED BY <2>1, <2>2, <2>3 DEF CallsAndTokens
<1>14. ListSound'
  <2>1. producerList' \in Seq(Created')
    BY <1>0, <1>1, <1>6 DEF ListSound
  <2>2. \A i \in 1..Len(producerList) : producerList[i] # n
    BY <1>0, <1>6 DEF ListSound
  <2>3. ASSUME NEW p \in Created'
        PROVE  (\A i \in 1..Len(producerList) : producerList[i] # p)
               <=> \E u \in Threads : call'[u].pc = "link" /\ call'[u].producer = p
    <3>1. CASE p = n
      BY <3>1, <2>2, <1>3, <1>4
    <3>2. CASE p \in Created
      BY <3>2, <1>0, <1>1, <1>3, <1>4, <1>6 DEF ListSound
    <3> QED BY <3>1, <3>2, <1>6
  <2> QED BY <2>1, <2>3, <1>0, <1>1 DEF ListSound
<1> QED BY <1>9, <1>10, <1>11, <1>12, <1>13, <1>14 DEF OwnerInv

OtherThanList == Types /\ SomeHolder /\ NoOtherHolder /\ TokensKnown /\ CallsAndTokens

\* The token of t's call is given the producer that t carries, an inactive one,
\* or none.
LEMMA GiveStep ==
  ASSUME OwnerInv, HashInv, NEW t \in Threads, NEW p \in Producers \cup {Null},
         call[t].pc \in {"scan", "link"}, call[t].token # NoToken,
         call[t].pc = "link" => p = call[t].producer,
         p # Null => p \in Created /\ explicit[p] /\ (call[t].pc = "link" \/ p \in inactive),
         GiveToken(t, p), inactive' = inactive \ {p}, call' = [call EXCEPT ![t] = NoCall],
         UNCHANGED <<explicit, producerCount, result>>
  PROVE  OtherThanList'
<1> DEFINE k == call[t].token
<1>0. /\ call \in [Threads -> Records] /\ Types /\ CallsAndTokens
      /\ SomeHolder /\ NoOtherHolder /\ TokensKnown
  BY DEF OwnerInv, HashInv
<1>1. /\ k \in Tokens /\ k \notin alive /\ producerOf[k] = Null
  <2>1. k \in Tokens
    BY <1>0 DEF Records
  <2>2. k \notin alive
    BY <1>0 DEF CallsAndTokens, CallKnown
  <2> QED BY <2>1, <2>2, <1>0 DEF CallsAndTokens, HeldExist
<1>2. /\ producerOf' = [producerOf EXCEPT ![k] = p] /\ alive' = alive \cup {k}
      /\ tokenOf' = IF p = Null THEN tokenOf ELSE [tokenOf EXCEPT ![p] = k]
  BY DEF GiveToken
<1>3. k # NoToken /\ \A u \in Threads : u # t => call[u].token # k
  BY <1>0 DEF CallsAndTokens, OneCall
<1>4. /\ NoCall.pc = "idle" /\ NoCall.token = NoToken /\ NoCall.position = 0
  BY NoCallFacts
<1>5. call'[t] = NoCall /\ \A u \in Threads : u # t => call'[u] = call[u]
  BY <1>0
<1>6. Created' = Created /\ Null \notin Created
  BY DEF Created, Null
<1>7. call[t].pc = "link" => p \in Created
  BY <1>0 DEF CallsAndTokens, CallKnown
<1>8. \A q : /\ ~Carries(call'[t], q)
             /\ Carries(call[t], q) => q = p
             /\ call[t].pc = "link" => Carries(call[t], p)
             /\ \A u \in Threads : u # t => (Carries(call'[u], q) <=> Carries(call[u], q))
  BY <1>4, <1>5 DEF Carries
<1> HIDE DEF k
<1>9. /\ producerOf' \in [Tokens -> Producers \cup {Null}] /\ producerOf'[k] = p
      /\ \A l \in Tokens : l # k => producerOf'[l] = producerOf[l]
  BY <1>0, <1>1, <1>2 DEF Types
<1>10. /\ tokenOf' \in [Producers -> Tokens \cup {NoToken}]
       /\ p # Null => tokenOf'[p] = k
       /\ \A q \in Producers : q # p => tokenOf'[q] = tokenOf[q]
  BY <1>0, <1>1, <1>2 DEF Types
<1>11. alive \subseteq Tokens /\ alive' \subseteq Tokens
  BY <1>0, <1>1, <1>2 DEF Types
<1>12. Created \subseteq Producers
  BY <1>0, HashAssumption DEF Types, Created, Producers
\* nobody else has p
<1>13. ASSUME p # Null
       PROVE  /\ \A u \in Threads : result[u] # p
              /\ \A l \in alive : producerOf[l] # p
              /\ \A u \in Threads : u # t => ~Carries(call[u], p)
              /\ tokenOf[p] = NoToken
  <2>1. p \in Created
    BY <1>13
  <2>2. CASE call[t].pc = "link"
    <3>1. Carries(call[t], p)
      BY <2>2, <1>8
    <3>2. /\ \A u \in Threads : result[u] # p
          /\ \A l \in alive : producerOf[l] # p
          /\ \A u \in Threads : u # t => ~Carries(call[u], p)
      BY <2>1, <3>1, <1>0 DEF NoOtherHolder
    <3> QED BY <2>1, <3>2, <1>0, <1>6 DEF TokensKnown, Types, Created
  <2>3. CASE p \in inactive
    <3>2. /\ \A u \in Threads : result[u] # p
          /\ \A l \in alive : producerOf[l] # p
          /\ \A u \in Threads : ~Carries(call[u], p)
      BY <2>1, <2>3, <1>0 DEF NoOtherHolder
    <3> QED BY <2>1, <3>2, <1>0, <1>6 DEF TokensKnown, Types, Created
  <2> QED BY <2>2, <2>3, <1>13
<1>14. Types'
  <2>1. inactive' \subseteq {q \in Created' : explicit'[q]}
    BY <1>0, <1>6 DEF Types
  <2> QED BY <2>1, <1>0, <1>9, <1>10, <1>11 DEF Types
<1>15. SomeHolder'
  <2> SUFFICES ASSUME NEW q \in Created
               PROVE  \/ \E u \in Threads : result[u] = q
                      \/ \E l \in alive' : producerOf'[l] = q
                      \/ \E u \in Threads : Carries(call'[u], q)
                      \/ q \in inactive'
    BY <1>6 DEF SomeHolder
  <2>1. CASE q = p
    BY <2>1, <1>2, <1>9
  <2>2. CASE q # p
    <3>1. \/ \E u \in Threads : result[u] = q
          \/ \E l \in alive : producerOf[l] = q
          \/ \E u \in Threads : Carries(call[u], q)
          \/ q \in inactive
      BY <1>0 DEF SomeHolder
    <3>2. \A l \in alive : l \in alive' /\ producerOf'[l] = producerOf[l]
      BY <1>1, <1>2, <1>9, <1>11
    <3>3. \A u \in Threads : Carries(call[u], q) => Carries(call'[u], q)
      BY <2>2, <1>8
    <3> QED BY <2>2, <3>1, <3>2, <3>3
  <2> QED BY <2>1, <2>2
<1>16. NoOtherHolder'
  <2>0. \A l \in alive' : l = k \/ (l \in alive /\ producerOf'[l] = producerOf[l])
    BY <1>1, <1>2, <1>9, <1>11
  <2>1. ASSUME NEW q \in Created, NEW u \in Threads, result[u] = q
        PROVE  /\ \A v \in Threads : result[v] = q => v = u
               /\ \A l \in alive' : producerOf'[l] # q
               /\ \A v \in Threads : ~Carries(call'[v], q)
               /\ q \notin inactive'
    <3>1. q # p
      BY <2>1, <1>6, <1>13
    <3> QED BY <2>0, <2>1, <3>1, <1>0, <1>8, <1>9 DEF NoOtherHolder
  <2>2. ASSUME NEW q \in Created, NEW l \in alive', producerOf'[l] = q
        PROVE  /\ \A m \in alive' : producerOf'[m] = q => m = l
               /\ \A v \in Threads : ~Carries(call'[v], q)
               /\ q \notin inactive'
    <3>1. CASE q = p
      <4>1. p # Null
        BY <3>1, <1>6
      <4>2. l = k /\ \A m \in alive' : producerOf'[m] = q => m = k
        BY <2>0, <2>2, <3>1, <4>1, <1>13
      <4> QED BY <3>1, <4>1, <4>2, <1>8, <1>13
    <3>2. CASE q # p
      <4>1. l \in alive /\ producerOf[l] = q /\ \A m \in alive' : producerOf'[m] = q => m \in alive /\ producerOf[m] = q
        BY <2>0, <2>2, <3>2, <1>9
      <4> QED BY <4>1, <1>0, <1>8 DEF NoOtherHolder
    <3> QED BY <3>1, <3>2
  <2>3. ASSUME NEW q \in Created, NEW u \in Threads, Carries(call'[u], q)
        PROVE  /\ \A v \in Threads : Carries(call'[v], q) => v = u
               /\ q \notin inactive'
    <3>1. u # t /\ Carries(call[u], q) /\ \A v \in Threads : Carries(call'[v], q) => Carries(call[v], q)
      BY <2>3, <1>8
    <3> QED BY <3>1, <1>0 DEF NoOtherHolder
  <2> QED BY <2>1, <2>2, <2>3, <1>6 DEF NoOtherHolder
<1>17. TokensKnown'
  <2>0. DOMAIN explicit = Created
    BY <1>0 DEF Types, Created
  <2>1. ASSUME NEW q \in Created, tokenOf'[q] # NoToken
        PROVE  tokenOf'[q] \in alive' /\ producerOf'[tokenOf'[q]] = q
    <3>1. CASE q = p
      BY <3>1, <1>2, <1>6, <1>9, <1>10
    <3>2. CASE q # p
      <4>1. tokenOf'[q] = tokenOf[q]
        BY <3>2, <1>10, <1>12
      <4>2. tokenOf[q] \in alive /\ producerOf[tokenOf[q]] = q
        BY <2>0, <2>1, <4>1, <1>0 DEF TokensKnown
      <4> QED BY <4>1, <4>2, <1>1, <1>2, <1>9, <1>11
    <3> QED BY <3>1, <3>2
  <2>2. ASSUME NEW q \in Created, NEW l \in alive', Settled(l)', producerOf'[l] = q
        PROVE  tokenOf'[q] = l
    <3>1. CASE l = k
      BY <2>2, <3>1, <1>6, <1>9, <1>10
    <3>2. CASE l # k
      <4>1. l \in alive /\ producerOf[l] = q
        BY <2>2, <3>2, <1>2, <1>9, <1>11
      <4>2. Settled(l)
        BY <2>2, <3>2, <4>1, <1>5 DEF Settled, k
      <4>3. tokenOf[q] = l
        BY <2>0, <4>1, <4>2, <1>0 DEF TokensKnown
      <4>4. q # p
        BY <4>1, <1>6, <1>13
      <4> QED BY <4>3, <4>4, <1>10, <1>12
    <3> QED BY <3>1, <3>2
  <2> QED BY <2>0, <2>1, <2>2 DEF TokensKnown
<1>18. CallsAndTokens'
  <2>1. ASSUME NEW u \in Threads PROVE CallKnown(call[u])'
    <3>1. CASE u = t
      BY <3>1, <1>4, <1>5 DEF CallKnown
    <3>2. CASE u # t
      <4> DEFINE d == call[u]
      <4>1. call'[u] = d /\ CallKnown(d) /\ d.token # k /\ d \in Records
        BY <3>2, <1>0, <1>3, <1>5 DEF CallsAndTokens
      <4> HIDE DEF d
      <4>2. d.pc \in {"link", "insert"} =>
              d.producer \in Created' /\ explicit'[d.producer] = (d.token # NoToken)
        BY <4>1, <1>6 DEF CallKnown
      <4>3. ASSUME d.pc = "retire"
            PROVE  /\ d.token \in alive' /\ d.producer = producerOf'[d.token]
                   /\ d.producer # Null => tokenOf'[d.producer] = NoToken
        <5>1. d.token \in alive /\ d.producer = producerOf[d.token] /\ d.producer \in Producers \cup {Null}
          BY <4>1, <4>3 DEF CallKnown, Records
        <5>2. d.token \in alive' /\ d.producer = producerOf'[d.token]
          BY <4>1, <5>1, <1>2, <1>9, <1>11
        <5>3. d.producer # Null => d.producer # p
          BY <5>1, <1>13
        <5> QED BY <4>1, <4>3, <5>1, <5>2, <5>3, <1>10 DEF CallKnown
      <4>4. /\ d.token = NoToken => d.position = 0 /\ d.pc # "retire"
            /\ d.pc \in {"scan", "link"} => d.token \notin alive'
        BY <4>1, <1>2 DEF CallKnown
      <4> QED BY <4>1, <4>2, <4>3, <4>4 DEF CallKnown
    <3> QED BY <3>1, <3>2
  <2>2. OneCall'
    BY <1>0, <1>4, <1>5 DEF CallsAndTokens, OneCall
  <2>3. HeldExist'
    <3>0. HeldExist
      BY <1>0 DEF CallsAndTokens
    <3>1. ASSUME NEW l \in Tokens, producerOf'[l] # Null
          PROVE  l \in alive' /\ producerOf'[l] \in Created /\ explicit[producerOf'[l]]
      BY <3>0, <3>1, <1>2, <1>9 DEF HeldExist
    <3>2. \A q \in Producers : tokenOf'[q] # NoToken => q \in Created
      <4>1. p # Null => p \in Created
        OBVIOUS
      <4>2. p \notin Producers => p = Null
        OBVIOUS
      <4> QED BY <3>0, <4>1, <4>2, <1>10 DEF HeldExist, Producers, Null
    <3> QED BY <3>0, <3>1, <3>2, <1>6 DEF HeldExist
  <2> QED BY <2>1, <2>2, <2>3 DEF CallsAndTokens
<1> QED BY <1>14, <1>15, <1>16, <1>17, <1>18 DEF OtherThanList

\* The call c is about to link p.
Links(c, p) == c.pc = "link" /\ c.producer = p

\* The list stays as it is, and so does who is about to link what.
LEMMA ListKept ==
  ASSUME ListSound, UNCHANGED <<explicit, producerList>>,
         \A u \in Threads : \A p \in Created : Links(call'[u], p) <=> Links(call[u], p)
  PROVE  ListSound'
<1>1. Created' = Created
  BY DEF Created
<1> QED BY <1>1 DEF ListSound, Links

\* t is given an inactive producer.
LEMMA RecycleStep ==
  ASSUME OwnerInv, HashInv, NEW t \in Threads, Recycle(t)
  PROVE  OwnerInv'
<1> DEFINE p == producerList[call[t].position]
<1>0. call \in [Threads -> Records] /\ ListSound /\ Types /\ CallsAndTokens
  BY DEF OwnerInv, HashInv
<1>1. /\ call[t].pc = "scan" /\ call[t].position # 0 /\ p \in inactive
      /\ inactive' = inactive \ {p} /\ GiveToken(t, p) /\ call' = [call EXCEPT ![t] = NoCall]
      /\ UNCHANGED <<explicit, producerList, producerCount, result>>
  BY DEF Recycle, At, Goto, Recyclable, listVars
<1> HIDE DEF p
<1>2. p \in Created /\ explicit[p] /\ p \in Producers
  BY <1>0, <1>1, HashAssumption DEF Types, Created, Producers
<1>3. call[t].token # NoToken
  BY <1>0, <1>1 DEF CallsAndTokens, CallKnown
<1>4. OtherThanList'
  BY <1>1, <1>2, <1>3, GiveStep
<1>5. ListSound'
  BY <1>0, <1>1, NoCallFacts, ListKept DEF Links
<1> QED BY <1>4, <1>5 DEF OwnerInv, OtherThanList

\* A token is invalid, or a reservation is taken back.
LEMMA CreateFailsStep ==
  ASSUME OwnerInv, HashInv, NEW t \in Threads, CreateFails(t)
  PROVE  OwnerInv'
<1>0. /\ call \in [Threads -> Records] /\ ListSound /\ Types /\ CallsAndTokens
      /\ CallSound(call[t], t, implicitProducerHash, result)
  BY DEF OwnerInv, HashInv
<1>1. /\ call[t].pc = "scan" /\ call' = [call EXCEPT ![t] = NoCall]
      /\ UNCHANGED <<listVars, result>>
  BY DEF CreateFails, At, Goto
<1>2. CASE call[t].token = NoToken
  <2>1. UNCHANGED tokenVars
    BY <1>2 DEF CreateFails, IsImplicit
  <2>2. NoToken \notin alive
    BY <1>0, HashAssumption DEF Types
  <2> QED BY <1>0, <1>1, <1>2, <2>1, <2>2, NoCallFacts, OwnerQuiet
<1>3. CASE call[t].token # NoToken
  <2>1. GiveToken(t, Null) /\ UNCHANGED inactive
    BY <1>3 DEF CreateFails, IsImplicit
  <2>2. inactive' = inactive \ {Null}
    BY <2>1, <1>0 DEF Types, Created, Null
  <2>3. UNCHANGED <<explicit, producerList, producerCount>>
    BY <1>1 DEF listVars
  <2>4. OtherThanList'
    BY <2>1, <2>2, <2>3, <1>1, <1>3, GiveStep
  <2>5. ListSound'
    BY <2>3, <1>0, <1>1, NoCallFacts, ListKept DEF Links
  <2> QED BY <2>4, <2>5 DEF OwnerInv, OtherThanList
<1> QED BY <1>2, <1>3

\* t links the producer it carries.
LEMMA LinkList ==
  ASSUME OwnerInv, HashInv, NEW t \in Threads, LinkProducer(t)
  PROVE  ListSound'
<1> DEFINE p == call[t].producer
           n == Len(producerList)
<1>0. call \in [Threads -> Records] /\ ListSound /\ Types /\ CallsAndTokens /\ NoOtherHolder
  BY DEF OwnerInv, HashInv
<1>1. /\ call[t].pc = "link" /\ producerList' = Append(producerList, p)
      /\ UNCHANGED <<explicit, result>>
  BY DEF LinkProducer, At
<1>2. Created' = Created
  BY <1>1 DEF Created
<1>3. p \in Created
  BY <1>0, <1>1 DEF CallsAndTokens, CallKnown
<1>4. \A u \in Threads : u # t => call'[u] = call[u]
  BY <1>0 DEF LinkProducer, Goto
<1>5. call'[t].pc # "link"
  BY <1>0, NoCallFacts DEF LinkProducer, Goto, Records
<1>6. producerList \in Seq(Created) /\ n \in Nat
  BY <1>0 DEF ListSound
<1>7. /\ producerList' \in Seq(Created) /\ Len(producerList') = n + 1
      /\ producerList'[n + 1] = p /\ \A i \in 1..n : producerList'[i] = producerList[i]
  BY <1>1, <1>3, <1>6
<1>8. Links(call[t], p) /\ Carries(call[t], p)
  BY <1>1 DEF Links, Carries
<1>9. \A q \in Created : (\A i \in 1..n : producerList[i] # q) <=> \E u \in Threads : Links(call[u], q)
  BY <1>0 DEF ListSound, Links
<1>10. \A i, j \in 1..n : producerList[i] = producerList[j] => i = j
  BY <1>0 DEF ListSound
<1>11. \A u \in Threads : Links(call[u], p) => u = t
  BY <1>0, <1>3, <1>8 DEF NoOtherHolder, Links, Carries
<1>12. \A u \in Threads : \A q : Links(call'[u], q) <=> (u # t /\ Links(call[u], q))
  BY <1>4, <1>5 DEF Links
<1>13. \A q : Links(call[t], q) => q = p
  BY DEF Links
<1> HIDE DEF p, n
<1>14. \A i \in 1..n : producerList[i] # p
  BY <1>3, <1>8, <1>9
<1>15. ASSUME NEW i \in 1..(n + 1), NEW j \in 1..(n + 1), producerList'[i] = producerList'[j]
       PROVE  i = j
  <2>1. (i \in 1..n \/ i = n + 1) /\ (j \in 1..n \/ j = n + 1)
    BY <1>6
  <2> QED BY <2>1, <1>7, <1>10, <1>14, <1>15
<1>16. ASSUME NEW q \in Created
       PROVE  (\A i \in 1..(n + 1) : producerList'[i] # q) <=> \E u \in Threads : Links(call'[u], q)
  <2>1. (\A i \in 1..(n + 1) : producerList'[i] # q)
        <=> ((\A i \in 1..n : producerList[i] # q) /\ q # p)
    <3>1. \A i \in 1..(n + 1) : i \in 1..n \/ i = n + 1
      BY <1>6
    <3>2. 1..n \subseteq 1..(n + 1) /\ n + 1 \in 1..(n + 1)
      BY <1>6
    <3> QED BY <3>1, <3>2, <1>7
  <2>2. (\E u \in Threads : Links(call'[u], q)) <=> ((\E u \in Threads : Links(call[u], q)) /\ q # p)
    BY <1>8, <1>11, <1>12, <1>13
  <2> QED BY <2>1, <2>2, <1>9
<1> QED BY <1>2, <1>7, <1>15, <1>16 DEF ListSound, Links

\* The producer that t links is given to its token, or t goes on carrying it.
LEMMA LinkStep ==
  ASSUME OwnerInv, HashInv, NEW t \in Threads, LinkProducer(t)
  PROVE  OwnerInv'
<1> DEFINE p == call[t].producer
<1>0. /\ call \in [Threads -> Records] /\ Types /\ CallsAndTokens
      /\ SomeHolder /\ NoOtherHolder /\ TokensKnown
  BY DEF OwnerInv, HashInv
<1>1. /\ call[t].pc = "link" /\ UNCHANGED <<explicit, producerCount, result>>
  BY DEF LinkProducer, At
<1>2. /\ p \in Created /\ explicit[p] = (call[t].token # NoToken) /\ p \in Producers
  BY <1>0, <1>1, HashAssumption DEF CallsAndTokens, CallKnown, Types, Created, Producers
<1>3. OtherThanList'
  <2>1. CASE call[t].token # NoToken
    <3>1. GiveToken(t, p) /\ UNCHANGED inactive /\ call' = [call EXCEPT ![t] = NoCall]
      BY <2>1 DEF LinkProducer, IsImplicit, Goto
    <3>2. p \notin inactive
      BY <1>0, <1>1, <1>2 DEF NoOtherHolder, Carries
    <3>3. inactive' = inactive \ {p}
      BY <3>1, <3>2
    <3>4. explicit[p]
      BY <1>2, <2>1
    <3> QED BY <2>1, <3>1, <3>3, <3>4, <1>1, <1>2, GiveStep
  <2>2. CASE call[t].token = NoToken
    <3> DEFINE c == [call[t] EXCEPT !.pc = "insert"]
    <3>1. call' = [call EXCEPT ![t] = c] /\ UNCHANGED tokenVars
      BY <2>2 DEF LinkProducer, IsImplicit, Goto
    <3>2. /\ c.pc = "insert" /\ c.token = NoToken /\ c.producer = p
          /\ c.position = call[t].position
      BY <2>2, <1>0 DEF Records
    <3> HIDE DEF c
    <3>3. call'[t] = c /\ \A u \in Threads : u # t => call'[u] = call[u]
      BY <3>1, <1>0
    <3>4. \A u \in Threads : \A q : Carries(call'[u], q) <=> Carries(call[u], q)
      BY <3>2, <3>3, <1>1 DEF Carries
    <3>5. UNCHANGED <<inactive, tokenOf, producerOf, alive>> /\ Created' = Created
      BY <3>1, <1>1 DEF tokenVars, Created
    <3>6. Types'
      BY <3>5, <1>0, <1>1 DEF Types
    <3>7. SomeHolder'
      BY <3>4, <3>5, <1>0, <1>1 DEF SomeHolder
    <3>8. NoOtherHolder'
      BY <3>4, <3>5, <1>0, <1>1 DEF NoOtherHolder
    <3>9. TokensKnown'
      <4>1. \A k : Settled(k)' <=> Settled(k)
        BY <2>2, <3>2, <3>3, <3>5 DEF Settled
      <4> QED BY <4>1, <3>5, <1>0, <1>1 DEF TokensKnown
    <3>10. CallsAndTokens'
      <4>1. ASSUME NEW u \in Threads PROVE CallKnown(call[u])'
        <5>1. CallKnown(call[u]) /\ CallKnown(call[t])
          BY <1>0 DEF CallsAndTokens
        <5>2. CASE u = t
          BY <5>1, <5>2, <3>2, <3>3, <3>5, <2>2, <1>1, <1>2 DEF CallKnown
        <5>3. CASE u # t
          BY <5>1, <5>3, <3>3, <3>5, <1>1 DEF CallKnown
        <5> QED BY <5>2, <5>3
      <4>2. OneCall'
        BY <2>2, <3>2, <3>3, <1>0 DEF CallsAndTokens, OneCall
      <4>3. HeldExist'
        BY <3>5, <1>0, <1>1 DEF CallsAndTokens, HeldExist
      <4> QED BY <4>1, <4>2, <4>3 DEF CallsAndTokens
    <3> QED BY <3>6, <3>7, <3>8, <3>9, <3>10 DEF OtherThanList
  <2> QED BY <2>1, <2>2
<1>4. ListSound'
  BY LinkList
<1> QED BY <1>3, <1>4 DEF OwnerInv, OtherThanList

\* The producer that t carries becomes t's.
LEMMA InsertOwner ==
  ASSUME OwnerInv, HashInv, NEW t \in Threads, InsertProducer(t), result[t] = Null
  PROVE  OwnerInv'
<1> DEFINE p == call[t].producer
<1>0. /\ call \in [Threads -> Records] /\ result \in [Threads -> Producers \cup {Null}]
      /\ Types /\ CallsAndTokens /\ SomeHolder /\ NoOtherHolder /\ TokensKnown /\ ListSound
      /\ CallSound(call[t], t, implicitProducerHash, result)
  BY DEF OwnerInv, HashInv
<1>1. /\ call[t].pc = "insert" /\ call' = [call EXCEPT ![t] = NoCall]
      /\ result' = [result EXCEPT ![t] = p]
      /\ UNCHANGED <<explicit, producerList, producerCount, inactive, tokenOf, producerOf, alive>>
  BY DEF InsertProducer, At, Goto, listVars, tokenVars
<1>2. p \in Created /\ Carries(call[t], p) /\ call[t].token = NoToken
  BY <1>0, <1>1 DEF CallsAndTokens, CallKnown, Carries, CallSound
<1>3. Created' = Created /\ Null \notin Created
  BY <1>1 DEF Created, Null
<1>4. NoCall.pc = "idle" /\ NoCall.token = NoToken /\ NoCall.position = 0
  BY NoCallFacts
<1>5. /\ call'[t] = NoCall /\ \A u \in Threads : u # t => call'[u] = call[u]
      /\ result'[t] = p /\ \A u \in Threads : u # t => result'[u] = result[u]
  BY <1>0, <1>1
<1>6. \A q : /\ ~Carries(call'[t], q)
             /\ Carries(call[t], q) => q = p
             /\ \A u \in Threads : u # t => (Carries(call'[u], q) <=> Carries(call[u], q))
  BY <1>4, <1>5 DEF Carries
<1> HIDE DEF p
<1>7. /\ \A u \in Threads : result[u] # p /\ (u # t => ~Carries(call[u], p))
      /\ \A k \in alive : producerOf[k] # p
      /\ p \notin inactive
  BY <1>0, <1>2 DEF NoOtherHolder
<1>8. Types'
  BY <1>0, <1>1, <1>3 DEF Types
<1>9. SomeHolder'
  <2> SUFFICES ASSUME NEW q \in Created
               PROVE  \/ \E u \in Threads : result'[u] = q
                      \/ \E k \in alive : producerOf[k] = q
                      \/ \E u \in Threads : Carries(call'[u], q)
                      \/ q \in inactive
    BY <1>1, <1>3 DEF SomeHolder
  <2>1. CASE q = p
    BY <2>1, <1>5
  <2>2. CASE q # p
    <3>1. \A u \in Threads : result[u] = q => u # t
      BY <1>3
    <3> QED BY <2>2, <3>1, <1>0, <1>5, <1>6 DEF SomeHolder
  <2> QED BY <2>1, <2>2
<1>10. NoOtherHolder'
  <2>1. ASSUME NEW q \in Created, NEW u \in Threads, result'[u] = q
        PROVE  /\ \A v \in Threads : result'[v] = q => v = u
               /\ \A k \in alive : producerOf[k] # q
               /\ \A v \in Threads : ~Carries(call'[v], q)
               /\ q \notin inactive
    <3>1. CASE q = p
      <4>1. u = t /\ \A v \in Threads : result'[v] = q => v = t
        BY <2>1, <3>1, <1>5, <1>7
      <4> QED BY <3>1, <4>1, <1>6, <1>7
    <3>2. CASE q # p
      <4>1. u # t /\ result[u] = q /\ \A v \in Threads : result'[v] = q => v # t /\ result[v] = q
        BY <2>1, <3>2, <1>5
      <4> QED BY <3>2, <4>1, <1>0, <1>6 DEF NoOtherHolder
    <3> QED BY <3>1, <3>2
  <2>2. ASSUME NEW q \in Created, NEW k \in alive, producerOf[k] = q
        PROVE  /\ \A l \in alive : producerOf[l] = q => l = k
               /\ \A v \in Threads : ~Carries(call'[v], q)
               /\ q \notin inactive
    BY <2>2, <1>0, <1>6 DEF NoOtherHolder
  <2>3. ASSUME NEW q \in Created, NEW u \in Threads, Carries(call'[u], q)
        PROVE  /\ \A v \in Threads : Carries(call'[v], q) => v = u
               /\ q \notin inactive
    BY <2>3, <1>0, <1>6 DEF NoOtherHolder
  <2> QED BY <2>1, <2>2, <2>3, <1>1, <1>3 DEF NoOtherHolder
<1>11. TokensKnown'
  <2>1. ASSUME NEW k, Settled(k)' PROVE Settled(k)
    <3>1. k \in alive /\ NoToken \notin alive
      BY <2>1, <1>0, <1>1, HashAssumption DEF Settled, Types
    <3> QED BY <2>1, <3>1, <1>1, <1>2, <1>5 DEF Settled
  <2> QED BY <2>1, <1>0, <1>1 DEF TokensKnown
<1>12. CallsAndTokens'
  <2>1. ASSUME NEW u \in Threads PROVE CallKnown(call[u])'
    <3>1. CASE u = t
      BY <3>1, <1>4, <1>5 DEF CallKnown
    <3>2. CASE u # t
      <4>1. CallKnown(call[u]) /\ call'[u] = call[u]
        BY <3>2, <1>0, <1>5 DEF CallsAndTokens
      <4> QED BY <4>1, <1>1, <1>3 DEF CallKnown
    <3> QED BY <3>1, <3>2
  <2>2. OneCall'
    BY <1>0, <1>4, <1>5 DEF CallsAndTokens, OneCall
  <2>3. HeldExist'
    BY <1>0, <1>1, <1>2, <1>3, <1>5 DEF CallsAndTokens, HeldExist
  <2> QED BY <2>1, <2>2, <2>3 DEF CallsAndTokens
<1>13. ListSound'
  BY <1>0, <1>1, <1>4, <1>5, ListKept DEF Links
<1> QED BY <1>8, <1>9, <1>10, <1>11, <1>12, <1>13 DEF OwnerInv

\* The producer of k forgets its token; who holds it does not change.
LEMMA DestroyStep ==
  ASSUME OwnerInv, HashInv, NEW t \in Threads, NEW k \in Tokens, DestroyToken(t, k)
  PROVE  OwnerInv'
<1> DEFINE p == producerOf[k]
           c == [NoCall EXCEPT !.pc = "retire", !.token = k, !.producer = p]
<1>0. /\ call \in [Threads -> Records] /\ Types /\ CallsAndTokens
      /\ SomeHolder /\ NoOtherHolder /\ TokensKnown /\ ListSound
  BY DEF OwnerInv, HashInv
<1>1. /\ call[t].pc = "idle" /\ Settled(k) /\ call' = [call EXCEPT ![t] = c]
      /\ tokenOf' = IF p = Null THEN tokenOf ELSE [tokenOf EXCEPT ![p] = NoToken]
      /\ UNCHANGED <<explicit, producerList, producerCount, inactive, producerOf, alive, result>>
  BY DEF DestroyToken, At, Goto, listVars
<1>2. /\ c.pc = "retire" /\ c.token = k /\ c.producer = p /\ c.position = 0 /\ k # NoToken
  BY HashAssumption DEF NoCall
<1>3. p \in Producers \cup {Null} /\ (p # Null => p \in Created) /\ k \in alive
  BY <1>0, <1>1 DEF Types, CallsAndTokens, HeldExist, Settled
<1> HIDE DEF c, p
<1>4. call'[t] = c /\ \A u \in Threads : u # t => call'[u] = call[u]
  BY <1>0, <1>1
<1>5. /\ tokenOf' \in [Producers -> Tokens \cup {NoToken}]
      /\ p # Null => tokenOf'[p] = NoToken
      /\ \A q \in Producers : q # p => tokenOf'[q] = tokenOf[q]
  BY <1>0, <1>1, <1>3 DEF Types
<1>6. Created' = Created /\ Null \notin Created /\ Created \subseteq Producers /\ DOMAIN explicit = Created
  BY <1>0, <1>1, HashAssumption DEF Created, Null, Types, Producers
<1>7. \A u \in Threads : \A q : Carries(call'[u], q) <=> Carries(call[u], q)
  BY <1>1, <1>2, <1>4 DEF Carries
<1>8. Types'
  BY <1>0, <1>1, <1>5, <1>6 DEF Types
<1>9. SomeHolder'
  BY <1>0, <1>1, <1>6, <1>7 DEF SomeHolder
<1>10. NoOtherHolder'
  BY <1>0, <1>1, <1>6, <1>7 DEF NoOtherHolder
<1>11. TokensKnown'
  <2>1. ASSUME NEW q \in Created, tokenOf'[q] # NoToken
        PROVE  tokenOf'[q] \in alive /\ producerOf[tokenOf'[q]] = q
    <3>1. q # p
      BY <2>1, <1>5, <1>6
    <3> QED BY <2>1, <3>1, <1>0, <1>5, <1>6 DEF TokensKnown
  <2>2. ASSUME NEW q \in Created, NEW l \in alive, Settled(l)', producerOf[l] = q
        PROVE  tokenOf'[q] = l
    <3>1. Settled(l) /\ l # k
      <4>1. NoToken \notin alive
        BY <1>0, HashAssumption DEF Types
      <4>2. call[t].token = NoToken
        BY <1>1 DEF HashInv, CallSound
      <4> QED BY <2>2, <4>1, <4>2, <1>1, <1>2, <1>4 DEF Settled
    <3>2. q # p
      BY <2>2, <3>1, <1>0, <1>3 DEF NoOtherHolder, p
    <3> QED BY <2>2, <3>1, <3>2, <1>0, <1>5, <1>6 DEF TokensKnown
  <2> QED BY <2>1, <2>2, <1>1, <1>6 DEF TokensKnown
<1>12. CallsAndTokens'
  <2>1. ASSUME NEW u \in Threads PROVE CallKnown(call[u])'
    <3>1. CASE u = t
      BY <3>1, <1>1, <1>2, <1>3, <1>4, <1>5 DEF CallKnown, p
    <3>2. CASE u # t
      <4> DEFINE d == call[u]
      <4>1. call'[u] = d /\ CallKnown(d) /\ d \in Records /\ d.token # k
        BY <3>2, <1>0, <1>1, <1>4 DEF CallsAndTokens, Settled
      <4> HIDE DEF d
      <4>2. /\ d.pc \in {"link", "insert"} =>
                 d.producer \in Created' /\ explicit'[d.producer] = (d.token # NoToken)
            /\ d.token = NoToken => d.position = 0 /\ d.pc # "retire"
            /\ d.pc \in {"scan", "link"} => d.token \notin alive'
        BY <4>1, <1>1, <1>6 DEF CallKnown
      <4>3. ASSUME d.pc = "retire"
            PROVE  /\ d.token \in alive' /\ d.producer = producerOf'[d.token]
                   /\ d.producer # Null => tokenOf'[d.producer] = NoToken
        <5>1. d.token \in alive /\ d.producer = producerOf[d.token]
          BY <4>1, <4>3 DEF CallKnown
        <5>2. ASSUME d.producer # Null PROVE tokenOf'[d.producer] = NoToken
          <6>1. d.producer \in Producers /\ tokenOf[d.producer] = NoToken
            BY <4>1, <4>3, <5>2 DEF CallKnown, Records
          <6> QED BY <6>1, <5>2, <1>5
        <5> QED BY <5>1, <5>2, <1>1
      <4> QED BY <4>1, <4>2, <4>3 DEF CallKnown
    <3> QED BY <3>1, <3>2
  <2>2. OneCall'
    BY <1>0, <1>1, <1>2, <1>4 DEF CallsAndTokens, OneCall, Settled
  <2>3. HeldExist'
    <3>1. HeldExist
      BY <1>0 DEF CallsAndTokens
    <3>2. \A q \in Producers : tokenOf'[q] # NoToken => q \in Created
      <4>1. \A q \in Producers : q = p => p # Null
        BY DEF Producers, Null
      <4> QED BY <3>1, <4>1, <1>5 DEF HeldExist
    <3> QED BY <3>1, <3>2, <1>1, <1>6 DEF HeldExist
  <2> QED BY <2>1, <2>2, <2>3 DEF CallsAndTokens
<1>13. ListSound'
  BY <1>0, <1>1, <1>2, <1>4, ListKept DEF Links
<1> QED BY <1>8, <1>9, <1>10, <1>11, <1>12, <1>13 DEF OwnerInv

\* The token of t's call is gone, and its producer may be recycled.
LEMMA RetireStep ==
  ASSUME OwnerInv, HashInv, NEW t \in Threads, Retire(t)
  PROVE  OwnerInv'
<1> DEFINE p == call[t].producer
           k == call[t].token
<1>0. /\ call \in [Threads -> Records] /\ Types /\ CallsAndTokens
      /\ SomeHolder /\ NoOtherHolder /\ TokensKnown /\ ListSound
  BY DEF OwnerInv, HashInv
<1>1. /\ call[t].pc = "retire" /\ call' = [call EXCEPT ![t] = NoCall]
      /\ inactive' = IF p = Null THEN inactive ELSE inactive \cup {p}
      /\ producerOf' = [producerOf EXCEPT ![k] = Null] /\ alive' = alive \ {k}
      /\ UNCHANGED <<explicit, producerList, producerCount, tokenOf, result>>
  BY DEF Retire, At, Goto, listVars
<1>2. /\ k \in alive /\ p = producerOf[k] /\ (p # Null => tokenOf[p] = NoToken) /\ k # NoToken
      /\ \A u \in Threads : u # t => call[u].token # k
  BY <1>0, <1>1 DEF CallsAndTokens, CallKnown, OneCall
<1>3. k \in Tokens /\ p \in Producers \cup {Null} /\ (p # Null => p \in Created /\ explicit[p])
  BY <1>0, <1>2 DEF Types, CallsAndTokens, HeldExist
<1>4. NoCall.pc = "idle" /\ NoCall.token = NoToken /\ NoCall.position = 0
  BY NoCallFacts
<1>5. call'[t] = NoCall /\ \A u \in Threads : u # t => call'[u] = call[u]
  BY <1>0, <1>1
<1>6. /\ producerOf' \in [Tokens -> Producers \cup {Null}] /\ producerOf'[k] = Null
      /\ \A l \in Tokens : l # k => producerOf'[l] = producerOf[l]
  BY <1>0, <1>1, <1>3 DEF Types
<1>7. Created' = Created /\ Null \notin Created /\ DOMAIN explicit = Created /\ alive \subseteq Tokens
  BY <1>0, <1>1 DEF Created, Null, Types
<1>8. \A u \in Threads : \A q : Carries(call'[u], q) <=> Carries(call[u], q)
  BY <1>1, <1>4, <1>5 DEF Carries
<1> HIDE DEF p, k
<1>9. \A q : q \in inactive' <=> (q \in inactive \/ (q = p /\ p # Null))
  BY <1>1
<1>10. \A l \in alive' : l \in alive /\ l # k /\ l \in Tokens /\ producerOf'[l] = producerOf[l]
  BY <1>1, <1>6, <1>7
<1>11. Types'
  <2>1. inactive' \subseteq {q \in Created' : explicit'[q]}
    BY <1>0, <1>1, <1>3, <1>7, <1>9 DEF Types
  <2> QED BY <2>1, <1>0, <1>1, <1>6, <1>7 DEF Types
<1>12. SomeHolder'
  <2> SUFFICES ASSUME NEW q \in Created
               PROVE  \/ \E u \in Threads : result[u] = q
                      \/ \E l \in alive' : producerOf'[l] = q
                      \/ \E u \in Threads : Carries(call'[u], q)
                      \/ q \in inactive'
    BY <1>1, <1>7 DEF SomeHolder
  <2>1. CASE q = p
    BY <2>1, <1>7, <1>9
  <2>2. CASE q # p
    <3>1. \A l \in alive : producerOf[l] = q => l \in alive' /\ producerOf'[l] = q
      BY <2>2, <1>1, <1>2, <1>6, <1>7
    <3> QED BY <3>1, <1>0, <1>8, <1>9 DEF SomeHolder
  <2> QED BY <2>1, <2>2
<1>13. NoOtherHolder'
  <2>0. ASSUME p # Null
        PROVE  /\ \A u \in Threads : result[u] # p /\ ~Carries(call[u], p)
               /\ \A l \in alive : producerOf[l] = p => l = k
    BY <2>0, <1>0, <1>2, <1>3 DEF NoOtherHolder
  <2>1. ASSUME NEW q \in Created, NEW u \in Threads, result[u] = q
        PROVE  /\ \A v \in Threads : result[v] = q => v = u
               /\ \A l \in alive' : producerOf'[l] # q
               /\ \A v \in Threads : ~Carries(call'[v], q)
               /\ q \notin inactive'
    <3>1. q # p \/ p = Null
      BY <2>0, <2>1
    <3> QED BY <2>1, <3>1, <1>0, <1>8, <1>9, <1>10 DEF NoOtherHolder
  <2>2. ASSUME NEW q \in Created, NEW l \in alive', producerOf'[l] = q
        PROVE  /\ \A m \in alive' : producerOf'[m] = q => m = l
               /\ \A v \in Threads : ~Carries(call'[v], q)
               /\ q \notin inactive'
    <3>1. q # p \/ p = Null
      BY <2>0, <2>2, <1>10
    <3>2. l \in alive /\ producerOf[l] = q
      BY <2>2, <1>10
    <3> QED BY <3>1, <3>2, <1>0, <1>8, <1>9, <1>10 DEF NoOtherHolder
  <2>3. ASSUME NEW q \in Created, NEW u \in Threads, Carries(call'[u], q)
        PROVE  /\ \A v \in Threads : Carries(call'[v], q) => v = u
               /\ q \notin inactive'
    <3>1. Carries(call[u], q)
      BY <2>3, <1>8
    <3>2. q # p \/ p = Null
      BY <2>0, <3>1
    <3> QED BY <3>1, <3>2, <1>0, <1>8, <1>9 DEF NoOtherHolder
  <2> QED BY <2>1, <2>2, <2>3, <1>1, <1>7 DEF NoOtherHolder
<1>14. TokensKnown'
  <2>1. ASSUME NEW q \in Created, tokenOf[q] # NoToken
        PROVE  tokenOf[q] \in alive' /\ producerOf'[tokenOf[q]] = q
    <3>1. tokenOf[q] \in alive /\ producerOf[tokenOf[q]] = q
      BY <2>1, <1>0, <1>7 DEF TokensKnown
    <3>2. tokenOf[q] # k
      BY <2>1, <3>1, <1>2, <1>7
    <3> QED BY <3>1, <3>2, <1>1, <1>6, <1>7
  <2>2. ASSUME NEW q \in Created, NEW l \in alive', Settled(l)', producerOf'[l] = q
        PROVE  tokenOf[q] = l
    <3>1. Settled(l) /\ producerOf[l] = q
      BY <2>2, <1>5, <1>10 DEF Settled, k
    <3> QED BY <2>2, <3>1, <1>0, <1>7, <1>10 DEF TokensKnown
  <2> QED BY <2>1, <2>2, <1>1, <1>7 DEF TokensKnown
<1>15. CallsAndTokens'
  <2>1. ASSUME NEW u \in Threads PROVE CallKnown(call[u])'
    <3>1. CASE u = t
      BY <3>1, <1>4, <1>5 DEF CallKnown
    <3>2. CASE u # t
      <4> DEFINE d == call[u]
      <4>1. call'[u] = d /\ CallKnown(d) /\ d \in Records /\ d.token # k
        BY <3>2, <1>0, <1>2, <1>5 DEF CallsAndTokens
      <4> HIDE DEF d
      <4>2. /\ d.pc \in {"link", "insert"} =>
                 d.producer \in Created' /\ explicit'[d.producer] = (d.token # NoToken)
            /\ d.token = NoToken => d.position = 0 /\ d.pc # "retire"
            /\ d.pc \in {"scan", "link"} => d.token \notin alive'
        BY <4>1, <1>1, <1>7 DEF CallKnown
      <4>3. ASSUME d.pc = "retire"
            PROVE  /\ d.token \in alive' /\ d.producer = producerOf'[d.token]
                   /\ d.producer # Null => tokenOf'[d.producer] = NoToken
        <5>1. /\ d.token \in alive /\ d.producer = producerOf[d.token]
              /\ d.producer # Null => tokenOf[d.producer] = NoToken
          BY <4>1, <4>3 DEF CallKnown
        <5> QED BY <4>1, <5>1, <1>1, <1>6, <1>7
      <4> QED BY <4>1, <4>2, <4>3 DEF CallKnown
    <3> QED BY <3>1, <3>2
  <2>2. OneCall'
    BY <1>0, <1>4, <1>5 DEF CallsAndTokens, OneCall
  <2>3. HeldExist'
    <3>1. HeldExist
      BY <1>0 DEF CallsAndTokens
    <3>2. ASSUME NEW l \in Tokens, producerOf'[l] # Null
          PROVE  l \in alive' /\ producerOf'[l] \in Created /\ explicit[producerOf'[l]]
      <4>1. l # k /\ producerOf'[l] = producerOf[l]
        BY <3>2, <1>6
      <4> QED BY <3>1, <3>2, <4>1, <1>1 DEF HeldExist
    <3> QED BY <3>1, <3>2, <1>1, <1>7 DEF HeldExist
  <2> QED BY <2>1, <2>2, <2>3 DEF CallsAndTokens
<1>16. ListSound'
  BY <1>0, <1>1, <1>4, <1>5, ListKept DEF Links
<1> QED BY <1>11, <1>12, <1>13, <1>14, <1>15, <1>16 DEF OwnerInv

\* Two tokens exchange their producers; one of them may be new.
LEMMA ExchangeStep ==
  ASSUME OwnerInv, HashInv, NEW k \in Tokens, NEW o \in Tokens, k # o,
         Settled(o), \A t \in Threads : call[t].token # k,
         k \notin alive => producerOf[k] = Null,
         producerOf' = [producerOf EXCEPT ![k] = producerOf[o], ![o] = producerOf[k]],
         tokenOf' \in [Producers -> Tokens \cup {NoToken}],
         \A p \in Producers : tokenOf'[p] = IF p = producerOf[k] THEN o
                                            ELSE IF p = producerOf[o] THEN k ELSE tokenOf[p],
         alive' = alive \cup {k},
         UNCHANGED <<explicit, producerList, producerCount, inactive, call, result>>
  PROVE  OwnerInv'
<1>0. /\ call \in [Threads -> Records] /\ Types /\ CallsAndTokens
      /\ SomeHolder /\ NoOtherHolder /\ TokensKnown /\ ListSound
  BY DEF OwnerInv, HashInv
<1>1. o \in alive /\ \A t \in Threads : call[t].token # o
  BY DEF Settled
<1>2. /\ producerOf' \in [Tokens -> Producers \cup {Null}]
      /\ producerOf'[k] = producerOf[o] /\ producerOf'[o] = producerOf[k]
      /\ \A l \in Tokens : l # k /\ l # o => producerOf'[l] = producerOf[l]
  BY <1>0 DEF Types
<1>3. Created' = Created /\ Null \notin Created /\ DOMAIN explicit = Created
  BY <1>0 DEF Created, Null, Types
<1>4. alive \subseteq Tokens /\ Created \subseteq Producers /\ Null \notin Producers
  BY <1>0, HashAssumption DEF Types, Created, Producers, Null
<1>5. HeldExist
  BY <1>0 DEF CallsAndTokens
\* one token holds a producer
<1>6. \A l, m \in alive : producerOf[l] = producerOf[m] /\ producerOf[l] # Null => l = m
  BY <1>0, <1>4, <1>5 DEF NoOtherHolder, HeldExist
<1>7. ASSUME NEW q \in Created PROVE (\E l \in alive' : producerOf'[l] = q) <=> \E l \in alive : producerOf[l] = q
  <2>1. ASSUME NEW l \in alive', producerOf'[l] = q PROVE \E m \in alive : producerOf[m] = q
    <3>1. CASE l = k
      BY <2>1, <3>1, <1>1, <1>2
    <3>2. CASE l = o
      BY <2>1, <3>2, <1>2, <1>3
    <3>3. CASE l # k /\ l # o
      BY <2>1, <3>3, <1>2, <1>4
    <3> QED BY <3>1, <3>2, <3>3
  <2>2. ASSUME NEW l \in alive, producerOf[l] = q PROVE \E m \in alive' : producerOf'[m] = q
    <3>1. CASE l = k
      BY <2>2, <3>1, <1>1, <1>2
    <3>2. CASE l = o
      BY <2>2, <3>2, <1>2
    <3>3. CASE l # k /\ l # o
      BY <2>2, <3>3, <1>2, <1>4
    <3> QED BY <3>1, <3>2, <3>3
  <2> QED BY <2>1, <2>2
<1>8. ASSUME NEW q \in Created, NEW l \in alive', NEW m \in alive', producerOf'[l] = q, producerOf'[m] = q
      PROVE  l = m
  <2> DEFINE s(x) == IF x = k THEN o ELSE IF x = o THEN k ELSE x
  <2>1. \A x \in alive' : producerOf'[x] = q => s(x) \in alive /\ producerOf[s(x)] = q
    BY <1>1, <1>2, <1>3, <1>4
  <2>2. s(l) = s(m)
    BY <2>1, <1>3, <1>6, <1>8
  <2> QED BY <2>2
<1>9. Types'
  BY <1>0, <1>2, <1>3 DEF Types
<1>10. SomeHolder'
  BY <1>0, <1>3, <1>7 DEF SomeHolder
<1>11. NoOtherHolder'
  <2>1. ASSUME NEW q \in Created, NEW l \in alive', producerOf'[l] = q
        PROVE  /\ \A v \in Threads : result[v] # q /\ ~Carries(call[v], q)
               /\ q \notin inactive
    <3>1. PICK m \in alive : producerOf[m] = q
      BY <2>1, <1>7
    <3> QED BY <3>1, <1>0 DEF NoOtherHolder
  <2>2. ASSUME NEW q \in Created, NEW u \in Threads, result'[u] = q
        PROVE  /\ \A v \in Threads : result'[v] = q => v = u
               /\ \A l \in alive' : producerOf'[l] # q
               /\ \A v \in Threads : ~Carries(call'[v], q)
               /\ q \notin inactive'
    BY <2>1, <2>2, <1>0 DEF NoOtherHolder
  <2>3. ASSUME NEW q \in Created, NEW u \in Threads, Carries(call'[u], q)
        PROVE  /\ \A v \in Threads : Carries(call'[v], q) => v = u
               /\ q \notin inactive'
    BY <2>3, <1>0 DEF NoOtherHolder
  <2>4. ASSUME NEW q \in Created, NEW l \in alive', producerOf'[l] = q
        PROVE  /\ \A m \in alive' : producerOf'[m] = q => m = l
               /\ \A v \in Threads : ~Carries(call'[v], q)
               /\ q \notin inactive'
    BY <2>1, <2>4, <1>8
  <2>5. ASSUME NEW q \in Created
        PROVE  /\ \A u \in Threads : result'[u] = q =>
                     /\ \A v \in Threads : result'[v] = q => v = u
                     /\ \A l \in alive' : producerOf'[l] # q
                     /\ \A v \in Threads : ~Carries(call'[v], q)
                     /\ q \notin inactive'
               /\ \A l \in alive' : producerOf'[l] = q =>
                     /\ \A m \in alive' : producerOf'[m] = q => m = l
                     /\ \A v \in Threads : ~Carries(call'[v], q)
                     /\ q \notin inactive'
               /\ \A u \in Threads : Carries(call'[u], q) =>
                     /\ \A v \in Threads : Carries(call'[v], q) => v = u
                     /\ q \notin inactive'
    BY <2>2, <2>3, <2>4
  <2> QED BY <2>5, <1>3, Zenon DEF NoOtherHolder
<1>12. TokensKnown'
  <2>1. ASSUME NEW q \in Created, tokenOf'[q] # NoToken
        PROVE  tokenOf'[q] \in alive' /\ producerOf'[tokenOf'[q]] = q
    <3>1. CASE q = producerOf[k]
      BY <3>1, <1>1, <1>2, <1>4
    <3>2. CASE q # producerOf[k] /\ q = producerOf[o]
      BY <3>2, <1>2, <1>4
    <3>3. CASE q # producerOf[k] /\ q # producerOf[o]
      <4>1. tokenOf'[q] = tokenOf[q]
        BY <3>3, <1>4
      <4>2. tokenOf[q] \in alive /\ producerOf[tokenOf[q]] = q
        BY <2>1, <4>1, <1>0, <1>3 DEF TokensKnown
      <4> QED BY <3>3, <4>1, <4>2, <1>2, <1>4
    <3> QED BY <3>1, <3>2, <3>3
  <2>2. ASSUME NEW q \in Created, NEW l \in alive', Settled(l)', producerOf'[l] = q
        PROVE  tokenOf'[q] = l
    <3>1. CASE l = o
      BY <2>2, <3>1, <1>2, <1>4
    <3>2. CASE l = k
      <4>1. q = producerOf[o] /\ q # producerOf[k]
        BY <2>2, <3>2, <1>1, <1>2, <1>3, <1>6
      <4> QED BY <3>2, <4>1, <1>4
    <3>3. CASE l # k /\ l # o
      <4>1. l \in alive /\ producerOf[l] = q /\ Settled(l)
        BY <2>2, <3>3, <1>2, <1>4 DEF Settled
      <4>2. q # producerOf[k] /\ q # producerOf[o]
        BY <3>3, <4>1, <1>1, <1>3, <1>6
      <4> QED BY <4>1, <4>2, <1>0, <1>3, <1>4 DEF TokensKnown
    <3> QED BY <3>1, <3>2, <3>3
  <2> QED BY <2>1, <2>2, <1>3 DEF TokensKnown
<1>13. CallsAndTokens'
  <2>1. ASSUME NEW u \in Threads PROVE CallKnown(call[u])'
    <3> DEFINE d == call[u]
    <3>1. call'[u] = d /\ CallKnown(d) /\ d \in Records /\ d.token # k /\ d.token # o
      BY <1>0, <1>1 DEF CallsAndTokens
    <3> HIDE DEF d
    <3>2. /\ d.pc \in {"link", "insert"} =>
               d.producer \in Created' /\ explicit'[d.producer] = (d.token # NoToken)
          /\ d.token = NoToken => d.position = 0 /\ d.pc # "retire"
          /\ d.pc \in {"scan", "link"} => d.token \notin alive'
      BY <3>1, <1>3 DEF CallKnown
    <3>3. ASSUME d.pc = "retire"
          PROVE  /\ d.token \in alive' /\ d.producer = producerOf'[d.token]
                 /\ d.producer # Null => tokenOf'[d.producer] = NoToken
      <4>1. /\ d.token \in alive /\ d.producer = producerOf[d.token]
            /\ d.producer # Null => tokenOf[d.producer] = NoToken
        BY <3>1, <3>3 DEF CallKnown
      <4>2. d.producer # Null => d.producer # producerOf[k] /\ d.producer # producerOf[o]
        BY <3>1, <4>1, <1>1, <1>6
      <4>3. d.producer \in Producers \cup {Null}
        BY <3>1 DEF Records
      <4> QED BY <3>1, <4>1, <4>2, <4>3, <1>2, <1>4
    <3> QED BY <3>1, <3>2, <3>3 DEF CallKnown
  <2>2. OneCall'
    BY <1>0 DEF CallsAndTokens, OneCall
  <2>3. HeldExist'
    <3>1. ASSUME NEW l \in Tokens, producerOf'[l] # Null
          PROVE  l \in alive' /\ producerOf'[l] \in Created /\ explicit[producerOf'[l]]
      BY <3>1, <1>1, <1>2, <1>5 DEF HeldExist
    <3>2. \A p \in Producers : tokenOf'[p] # NoToken => p \in Created
      BY <1>4, <1>5 DEF HeldExist
    <3> QED BY <3>1, <3>2, <1>3, <1>5 DEF HeldExist
  <2> QED BY <2>1, <2>2, <2>3 DEF CallsAndTokens
<1>14. ListSound'
  BY <1>0, ListKept DEF Links
<1> QED BY <1>9, <1>10, <1>11, <1>12, <1>13, <1>14 DEF OwnerInv

\* A token is moved from, or swapped with, another one.
LEMMA MoveStep ==
  ASSUME OwnerInv, HashInv, NEW k \in Tokens, NEW other \in Tokens,
         MoveToken(k, other) \/ SwapTokens(k, other)
  PROVE  OwnerInv'
<1>0. Types /\ CallsAndTokens
  BY DEF OwnerInv
<1>1. \A p \in Producers : p # Null
  BY DEF Producers, Null
<1>2. CASE MoveToken(k, other)
  <2>1. /\ k \notin alive /\ Settled(other) /\ \A t \in Threads : call[t].token # k
        /\ producerOf' = [producerOf EXCEPT ![k] = producerOf[other], ![other] = Null]
        /\ tokenOf' = IF producerOf[other] = Null THEN tokenOf
                      ELSE [tokenOf EXCEPT ![producerOf[other]] = k]
        /\ alive' = alive \cup {k}
        /\ UNCHANGED <<explicit, producerList, producerCount, inactive, call, result>>
    BY <1>2 DEF MoveToken, listVars
  <2>2. producerOf[k] = Null /\ k # other
    BY <2>1, <1>0 DEF CallsAndTokens, HeldExist, Settled
  <2>3. tokenOf' \in [Producers -> Tokens \cup {NoToken}]
    BY <2>1, <1>0 DEF Types
  <2>4. \A p \in Producers : tokenOf'[p] = IF p = producerOf[k] THEN other
                                           ELSE IF p = producerOf[other] THEN k ELSE tokenOf[p]
    BY <2>1, <2>2, <1>0, <1>1 DEF Types
  <2> QED BY <2>1, <2>2, <2>3, <2>4, ExchangeStep
<1>3. CASE SwapTokens(k, other)
  <2>1. /\ k # other /\ Settled(k) /\ Settled(other)
        /\ producerOf' = [producerOf EXCEPT ![k] = producerOf[other], ![other] = producerOf[k]]
        /\ tokenOf' = Swapped(k, other)
        /\ UNCHANGED <<alive, explicit, producerList, producerCount, inactive, call, result>>
    BY <1>3 DEF SwapTokens, listVars
  <2>2. k \in alive /\ \A t \in Threads : call[t].token # k
    BY <2>1 DEF Settled
  <2>3. \A p \in Producers : tokenOf'[p] = IF p = producerOf[k] THEN other
                                           ELSE IF p = producerOf[other] THEN k ELSE tokenOf[p]
    <3>1. \A p \in Producers : ~(p = producerOf[k] /\ p = producerOf[other])
      <4>1. NoOtherHolder /\ other \in alive
        BY <2>1 DEF OwnerInv, Settled
      <4> QED BY <4>1, <2>1, <2>2, <1>0, <1>1 DEF NoOtherHolder, CallsAndTokens, HeldExist
    <3> QED BY <2>1, <3>1 DEF Swapped
  <2>4. tokenOf' \in [Producers -> Tokens \cup {NoToken}]
    <3>1. \A p \in Producers : (IF p = producerOf[k] THEN other
                                ELSE IF p = producerOf[other] THEN k ELSE tokenOf[p]) \in Tokens \cup {NoToken}
      BY <1>0 DEF Types
    <3>2. tokenOf' = [p \in Producers |-> tokenOf'[p]]
      BY <2>1 DEF Swapped
    <3> QED BY <2>3, <3>1, <3>2
  <2>5. alive' = alive \cup {k}
    BY <2>1, <2>2
  <2> QED BY <2>1, <2>2, <2>3, <2>4, <2>5, ExchangeStep
<1> QED BY <1>2, <1>3

\* The steps that leave producers and tokens alone.
LEMMA OwnerOther ==
  ASSUME OwnerInv, HashInv, NEW t \in Threads,
         \/ GetImplicit(t) \/ NotFound(t) \/ Found(t) \/ AcquireResize(t) \/ NoResize(t)
         \/ Resize(t) \/ ResizeFails(t) \/ ResizeNeedless(t) \/ Unlock(t) \/ PassBy(t)
         \/ \E k \in Tokens : NewToken(t, k)
  PROVE  OwnerInv'
<1>0. /\ call \in [Threads -> Records] /\ call[t] \in Records /\ CallKnown(call[t])
      /\ CallSound(call[t], t, implicitProducerHash, result)
      /\ NoToken \notin alive /\ Len(producerList) \in Nat /\ Len(implicitProducerHash) \in Nat
      /\ TablesSound(implicitProducerHash)
  <2>1. call \in [Threads -> Records] /\ TablesSound(implicitProducerHash)
    BY DEF HashInv
  <2>2. CallKnown(call[t]) /\ CallSound(call[t], t, implicitProducerHash, result)
    BY DEF HashInv, OwnerInv, CallsAndTokens
  <2>3. NoToken \notin alive
    BY HashAssumption DEF OwnerInv, Types
  <2>4. Len(producerList) \in Nat
    BY DEF OwnerInv, ListSound
  <2>5. Len(implicitProducerHash) \in Nat
    BY <2>1 DEF TablesSound
  <2> QED BY <2>1, <2>2, <2>3, <2>4, <2>5
<1>1. ASSUME NEW c \in Records, call' = [call EXCEPT ![t] = c],
             UNCHANGED <<listVars, tokenVars, result>>,
             call[t].pc \in {"idle", "look", "room", "resize", "unlock"},
             c.pc \notin {"link", "insert", "retire"}, c.token = NoToken, c.position = 0
      PROVE  OwnerInv'
  <2>1. call[t].token = NoToken
    BY <1>0, <1>1 DEF CallSound
  <2> QED BY <2>1, <1>0, <1>1, OwnerQuiet
<1>2. ASSUME NEW pc \in Labels, NEW m \in Nat, NEW n \in Nat,
             call[t].pc \in {"look", "room", "resize", "unlock"},
             pc \notin {"link", "insert", "retire"},
             call' = [call EXCEPT ![t] = [call[t] EXCEPT !.pc = pc, !.mainHash = m, !.newCount = n]],
             UNCHANGED <<listVars, tokenVars, result>>
      PROVE  OwnerInv'
  <2> DEFINE c == [call[t] EXCEPT !.pc = pc, !.mainHash = m, !.newCount = n]
  <2>1. c \in Records /\ c.pc = pc /\ c.token = call[t].token /\ c.position = call[t].position
    BY <1>0 DEF Records
  <2>2. call[t].token = NoToken /\ call[t].position = 0
    BY <1>0, <1>2 DEF CallSound, CallKnown
  <2>3. call' = [call EXCEPT ![t] = c]
    BY <1>2
  <2> HIDE DEF c
  <2> QED BY <2>1, <2>2, <2>3, <1>1, <1>2
<1>3. CASE GetImplicit(t)
  <2> DEFINE c == [NoCall EXCEPT !.pc = "look", !.mainHash = Len(implicitProducerHash)]
  <2>1. /\ call[t].pc = "idle" /\ call' = [call EXCEPT ![t] = c]
        /\ UNCHANGED <<listVars, tokenVars, result>>
    BY <1>3 DEF GetImplicit, At, Goto
  <2>2. c \in Records /\ c.pc = "look" /\ c.token = NoToken /\ c.position = 0
    BY <1>0 DEF NoCall, Records, Labels
  <2> HIDE DEF c
  <2> QED BY <2>1, <2>2, <1>1
<1>4. CASE Found(t)
  <2>1. /\ call[t].pc = "look" /\ call' = [call EXCEPT ![t] = NoCall] /\ result' = result
        /\ UNCHANGED <<listVars, tokenVars>>
    BY <1>4, FoundStep DEF Found, At
  <2> QED BY <2>1, <1>1, NoCallFacts
<1>5. CASE NotFound(t)
  <2>1. /\ call[t].pc = "look" /\ UNCHANGED <<listVars, tokenVars, result>>
        /\ call' = [call EXCEPT ![t] = [call[t] EXCEPT !.pc = "room",
                                          !.newCount = implicitProducerHashCount + 1]]
    BY <1>5 DEF NotFound, At, Goto
  <2>2. implicitProducerHashCount + 1 \in Nat
    <3>1. Counted(implicitProducerHash, call) \subseteq Threads
      BY DEF Counted, Held
    <3> QED BY <3>1, Finite DEF HashInv
  <2> DEFINE n == implicitProducerHashCount + 1
  <2>3. [call[t] EXCEPT !.pc = "room", !.newCount = n]
        = [call[t] EXCEPT !.pc = "room", !.mainHash = call[t].mainHash, !.newCount = n]
    BY <1>0 DEF Records
  <2>4. call[t].mainHash \in Nat
    BY <1>0 DEF Records
  <2> HIDE DEF n
  <2> QED BY <2>1, <2>2, <2>3, <2>4, <1>2 DEF Labels, n
<1>6. ASSUME NEW pc \in Labels, NEW m \in Nat,
             call[t].pc \in {"look", "room", "resize", "unlock"},
             pc \notin {"link", "insert", "retire"},
             call' = [call EXCEPT ![t] = [call[t] EXCEPT !.pc = pc, !.mainHash = m]],
             UNCHANGED <<listVars, tokenVars, result>>
      PROVE  OwnerInv'
  <2>1. [call[t] EXCEPT !.pc = pc, !.mainHash = m]
        = [call[t] EXCEPT !.pc = pc, !.mainHash = m, !.newCount = call[t].newCount]
    BY <1>0 DEF Records
  <2>2. call[t].newCount \in Nat
    BY <1>0 DEF Records
  <2> QED BY <2>1, <2>2, <1>2, <1>6
<1>7. CASE AcquireResize(t)
  BY <1>0, <1>6, <1>7 DEF AcquireResize, At, Goto, Labels
<1>8. CASE Resize(t)
  <2>1. Len(implicitProducerHash) + 1 \in Nat
    BY <1>0
  <2> QED BY <2>1, <1>6, <1>8 DEF Resize, At, Goto, Labels
<1>9. CASE ResizeFails(t)
  BY <1>1, <1>9, NoCallFacts DEF ResizeFails, At, Goto
<1>10. CASE ResizeNeedless(t)
  <2>1. call[t].mainHash \in Nat
        /\ [call[t] EXCEPT !.pc = "unlock"]
           = [call[t] EXCEPT !.pc = "unlock", !.mainHash = call[t].mainHash]
    BY <1>0 DEF Records
  <2> QED BY <2>1, <1>6, <1>10 DEF ResizeNeedless, At, Goto, Labels
<1>11. CASE NoResize(t) \/ Unlock(t)
  <2>1. /\ call[t].pc \in {"room", "unlock"} /\ UNCHANGED <<listVars, tokenVars, result>>
        /\ call' = [call EXCEPT ![t] = AfterResize(t, call[t].mainHash)]
    BY <1>11 DEF NoResize, Unlock, At, Goto
  <2>2. call[t].mainHash \in Nat
    BY <1>0 DEF Records
  <2>3. CASE HasRoom(Table(call[t].mainHash), call[t].newCount)
    BY <2>1, <2>2, <2>3, <1>6 DEF AfterResize, Labels
  <2>4. CASE ~HasRoom(Table(call[t].mainHash), call[t].newCount)
    BY <2>1, <2>4, <1>0, <1>6 DEF AfterResize, Labels
  <2> QED BY <2>3, <2>4
<1>12. CASE PassBy(t)
  <2> DEFINE n == CandidateBefore(call[t].position)
             c == [call[t] EXCEPT !.position = n]
  <2>1. /\ call[t].pc = "scan" /\ call[t].position # 0 /\ call' = [call EXCEPT ![t] = c]
        /\ UNCHANGED <<listVars, tokenVars, result>>
    BY <1>12 DEF PassBy, At, Goto
  <2>2. n \in Nat
    <3>1. call[t].position \in Nat
      BY <1>0 DEF Records
    <3> QED BY <3>1, CandidateType
  <2> HIDE DEF n
  <2>3. c \in Records /\ c.pc = "scan" /\ c.token = call[t].token
    BY <2>1, <2>2, <1>0 DEF Records, Labels
  <2>4. call[t].token # NoToken /\ call[t].token \notin alive
    BY <2>1, <1>0 DEF CallKnown
  <2> HIDE DEF c
  <2> QED BY <2>1, <2>3, <2>4, <1>0, OwnerQuiet
<1>13. ASSUME NEW k \in Tokens, NewToken(t, k) PROVE OwnerInv'
  <2> DEFINE n == CandidateBefore(Len(producerList) + 1)
             c == [NoCall EXCEPT !.pc = "scan", !.token = k, !.position = n]
  <2>1. /\ call[t].pc = "idle" /\ k \notin alive /\ call' = [call EXCEPT ![t] = c]
        /\ \A u \in Threads : call[u].token # k
        /\ UNCHANGED <<listVars, tokenVars, result>>
    BY <1>13 DEF NewToken, At, Goto
  <2>2. n \in Nat
    BY <1>0, CandidateType
  <2> HIDE DEF n
  <2>3. c \in Records /\ c.pc = "scan" /\ c.token = k
    BY <2>2 DEF NoCall, Records, Labels
  <2>4. k # NoToken /\ call[t].token = NoToken
    BY <2>1, <1>0, HashAssumption DEF CallSound
  <2> HIDE DEF c
  <2> QED BY <2>1, <2>3, <2>4, <1>0, OwnerQuiet
<1> QED BY <1>3, <1>4, <1>5, <1>7, <1>8, <1>9, <1>10, <1>11, <1>12, <1>13

-----------------------------------------------------------------------------
(* The invariant, and what follows from it *)

\* Nothing has been created at first.
LEMMA InvInit == Init => IInv
<1> SUFFICES ASSUME Init PROVE IInv
  OBVIOUS
<1> DEFINE c == INITIAL_IMPLICIT_PRODUCER_HASH_SIZE
           e == EmptyTable(c)
<1>0. /\ implicitProducerHash = <<e>> /\ implicitProducerHashCount = 0
      /\ resizeInProgress = FALSE /\ call = [t \in Threads |-> NoCall]
      /\ result = [t \in Threads |-> Null]
  BY DEF Init
<1>1. c \in Nat \ {0}
  BY HashAssumption
<1>2. e \in Tables /\ WellPlaced(e) /\ (\A t \in Threads : ~Holds(e, t))
      /\ \A s \in Slots(e) : e.entries[s].key = NoThread
  BY <1>1, EmptyTableFacts
<1> HIDE DEF c, e
<1> DEFINE H == <<e>>
<1>3. H \in Seq(Tables) /\ Len(H) = 1 /\ H[1] = e
  BY <1>2
<1>4. TablesSound(H)
  <2>1. e.capacity \in Nat
    BY <1>2, TableParts
  <2>2. \A i \in 1..Len(H) : i = 1
    BY <1>3
  <2>3. \A i, j \in 1..Len(H) : i <= j => H[i].capacity <= H[j].capacity
    BY <2>1, <2>2, <1>3
  <2> QED BY <2>2, <2>3, <1>2, <1>3 DEF TablesSound
<1> HIDE DEF H
<1>5. \A i \in 1..1 : Held(H, i) = {}
  BY <1>2, <1>3 DEF Held
<1>6. call \in [Threads -> Records] /\ result \in [Threads -> Producers \cup {Null}]
      /\ \A t \in Threads : call[t] = NoCall /\ result[t] = Null
  BY <1>0, NoCallFacts
<1>7. ValuesSound(H, result)
  <2>1. ASSUME NEW i \in 1..Len(H) PROVE \A s \in Slots(H[i]) : H[i].entries[s].key = NoThread
    BY <1>2, <1>3
  <2> QED BY <2>1, <1>6 DEF ValuesSound
<1>8. LockHeld /\ \A t \in Threads : CallSound(call[t], t, H, result)
  BY <1>6, NoCallFacts DEF LockHeld
<1>9. Counted(H, call) = {}
  BY <1>3, <1>5, <1>6, NoCallFacts DEF Counted
<1>10. implicitProducerHashCount = Cardinality(Counted(H, call))
  BY <1>0, <1>9, FS_EmptySet
<1>11. RoomKept(H, call)
  <2>1. ASSUME NEW i \in 1..Len(H), NEW b \in Nat PROVE Cardinality(Crowd(H, call, i, b)) = 0
    <3>1. Crowd(H, call, i, b) = {}
      BY <1>3, <1>5, <1>6, NoCallFacts DEF Crowd
    <3> QED BY <3>1, FS_EmptySet
  <2> QED BY <2>1 DEF RoomKept
<1>12. HashInv
  BY <1>0, <1>4, <1>6, <1>7, <1>8, <1>10, <1>11 DEF HashInv, H
<1>13. /\ explicit = <<>> /\ producerList = <<>> /\ producerCount = 0 /\ inactive = {}
       /\ tokenOf = [p \in Producers |-> NoToken] /\ producerOf = [k \in Tokens |-> Null]
       /\ alive = {}
  BY DEF Init
<1>14. Created = {} /\ explicit \in Seq(BOOLEAN) /\ Len(explicit) = 0 /\ DOMAIN explicit = {}
  BY <1>13 DEF Created
<1>15. Types
  BY <1>13, <1>14, HashAssumption DEF Types
<1>16. SomeHolder /\ NoOtherHolder /\ TokensKnown
  BY <1>14 DEF SomeHolder, NoOtherHolder, TokensKnown
<1>17. CallsAndTokens
  BY <1>6, <1>13, NoCallFacts DEF CallsAndTokens, CallKnown, OneCall, HeldExist
<1>18. ListSound
  <2>1. producerList \in Seq(Created) /\ Len(producerList) = 0
    BY <1>13
  <2> QED BY <2>1, <1>14 DEF ListSound
<1> QED BY <1>12, <1>15, <1>16, <1>17, <1>18 DEF IInv, OwnerInv

\* Every step keeps it.
LEMMA InvNext == IInv /\ [Next]_vars => IInv'
<1> SUFFICES ASSUME IInv, [Next]_vars PROVE IInv'
  OBVIOUS
<1>0. HashInv /\ OwnerInv
  BY DEF IInv
<1>a. /\ Len(explicit) \in Nat /\ Len(producerList) \in Nat
      /\ producerOf \in [Tokens -> Producers \cup {Null}]
      /\ \A t \in Threads : call[t].token = NoToken => call[t].position = 0
  <2>1. Len(explicit) \in Nat /\ producerOf \in [Tokens -> Producers \cup {Null}]
    BY <1>0 DEF OwnerInv, Types
  <2>2. Len(producerList) \in Nat
    BY <1>0 DEF OwnerInv, ListSound
  <2>3. \A t \in Threads : call[t].token = NoToken => call[t].position = 0
    BY <1>0 DEF OwnerInv, CallsAndTokens, CallKnown
  <2> QED BY <2>1, <2>2, <2>3
<1>1. ASSUME NEW t \in Threads,
             \/ GetImplicit(t) \/ AcquireResize(t) \/ NoResize(t)
             \/ ResizeFails(t) \/ ResizeNeedless(t) \/ Unlock(t)
      PROVE  IInv'
  BY <1>0, <1>1, HashSearchStep, OwnerOther DEF IInv
<1>2. ASSUME NEW t \in Threads, Found(t) PROVE IInv'
  BY <1>0, <1>2, FoundStep, OwnerOther DEF IInv
<1>3. ASSUME NEW t \in Threads, NotFound(t) PROVE IInv'
  BY <1>0, <1>3, ReserveStep, OwnerOther DEF IInv
<1>4. ASSUME NEW t \in Threads, Resize(t) PROVE IInv'
  BY <1>0, <1>4, ResizeStep, OwnerOther DEF IInv
<1>5. ASSUME NEW t \in Threads, Create(t) PROVE IInv'
  BY <1>0, <1>5, <1>a, HashProducerStep, CreateStep DEF IInv
<1>6. ASSUME NEW t \in Threads, CreateFails(t) PROVE IInv'
  BY <1>0, <1>6, <1>a, HashProducerStep, CreateFailsStep DEF IInv
<1>7. ASSUME NEW t \in Threads, Recycle(t) PROVE IInv'
  BY <1>0, <1>7, <1>a, HashProducerStep, RecycleStep DEF IInv
<1>8. ASSUME NEW t \in Threads, PassBy(t) PROVE IInv'
  BY <1>0, <1>8, <1>a, HashProducerStep, OwnerOther DEF IInv
<1>9. ASSUME NEW t \in Threads, LinkProducer(t) PROVE IInv'
  BY <1>0, <1>9, <1>a, HashProducerStep, LinkStep DEF IInv
<1>10. ASSUME NEW t \in Threads, InsertProducer(t) PROVE IInv'
  <2>1. call[t].producer \in Producers
    BY <1>0, <1>10, HashAssumption DEF OwnerInv, CallsAndTokens, CallKnown, InsertProducer, At,
                                       Types, Created, Producers
  <2> QED BY <2>1, <1>0, <1>10, InsertStep, InsertOwner DEF IInv
<1>11. ASSUME NEW t \in Threads, Retire(t) PROVE IInv'
  BY <1>0, <1>11, <1>a, HashProducerStep, RetireStep DEF IInv
<1>12. ASSUME NEW t \in Threads, NEW k \in Tokens, NewToken(t, k) PROVE IInv'
  BY <1>0, <1>12, <1>a, HashProducerStep, OwnerOther DEF IInv
<1>13. ASSUME NEW t \in Threads, NEW k \in Tokens, DestroyToken(t, k) PROVE IInv'
  BY <1>0, <1>13, <1>a, HashProducerStep, DestroyStep DEF IInv
<1>14. ASSUME NEW k \in Tokens, NEW other \in Tokens, MoveToken(k, other) \/ SwapTokens(k, other)
       PROVE  IInv'
  <2>1. UNCHANGED <<hashVars, call, result>>
    BY <1>14 DEF MoveToken, SwapTokens
  <2>2. HashInv'
    BY <2>1, <1>0 DEF HashInv, hashVars, LockHeld
  <2> QED BY <2>2, <1>0, <1>14, MoveStep DEF IInv
<1>15. CASE UNCHANGED vars
  <2>1. UNCHANGED <<implicitProducerHash, implicitProducerHashCount, resizeInProgress, explicit,
                    producerList, producerCount, inactive, tokenOf, producerOf, alive, call, result>>
    BY <1>15 DEF vars, hashVars, listVars, tokenVars
  <2>2. HashInv'
    BY <2>1, <1>0 DEF HashInv, LockHeld
  <2>3. OwnerInv'
    BY <2>1, <1>0 DEF OwnerInv, Types, SomeHolder, NoOtherHolder, TokensKnown, CallsAndTokens,
                      ListSound, Created, CallKnown, OneCall, HeldExist, Settled
  <2> QED BY <2>2, <2>3 DEF IInv
<1> QED BY <1>1, <1>2, <1>3, <1>4, <1>5, <1>6, <1>7, <1>8, <1>9, <1>10, <1>11, <1>12, <1>13,
           <1>14, <1>15 DEF Next, Get

\* The inductive invariant holds in every reachable state.
THEOREM InvHolds == SafeSpec => []IInv
<1>1. Init => IInv
  BY InvInit
<1>2. IInv /\ [Next]_vars => IInv'
  BY InvNext
<1> QED BY <1>1, <1>2, PTL DEF SafeSpec

\* A slot is always free (concurrentqueue.h, get_or_add_implicit_producer): no
\* table of the chain that is in use fills up to three quarters.
THEOREM SlotIsFreeInvariant == SafeSpec => []SlotIsFree
<1>1. IInv => SlotIsFree
  <2> SUFFICES ASSUME IInv, NEW i \in DOMAIN implicitProducerHash, Filled(Table(i)) # {}
               PROVE  Cardinality(Filled(Table(i))) < Limit(Table(i))
    BY DEF SlotIsFree, Limit
  <2> DEFINE H == implicitProducerHash
             h == H[i]
             Key == [s \in Filled(h) |-> h.entries[s].key]
             b == IF Limit(h) = 0 THEN 0 ELSE Limit(h) - 1
             C == Crowd(H, call, i, b)
  <2>1. TablesSound(H) /\ i \in 1..Len(H) /\ RoomKept(H, call)
    BY DEF IInv, HashInv, TablesSound
  <2>2. h \in Tables /\ WellPlaced(h) /\ h.capacity \in Nat
    BY <2>1, TableParts DEF TablesSound
  <2>3. Limit(h) \in Nat
    BY <2>2, LimitGrows
  <2>4. b \in Nat /\ Limit(h) <= b + 1 /\ (Limit(h) # 0 => b = Limit(h) - 1) /\ (Limit(h) = 0 => b = 0)
    <3> HIDE DEF h
    <3> QED BY <2>3
  <2> HIDE DEF b
  <2>5. Cardinality(C) <= b
    BY <2>1, <2>4 DEF RoomKept
  <2>6. C \subseteq Threads
    BY DEF Crowd, Held
  <2>7. IsFiniteSet(C) /\ Cardinality(C) \in Nat
    <3> HIDE DEF C
    <3> QED BY <2>6, Finite
  <2>8. ASSUME NEW s \in Filled(h)
        PROVE  s \in Slots(h) /\ Key[s] \in C /\ Probe(h, Key[s]) = s
    <3>1. s \in Slots(h) /\ h.entries[s].key # NoThread
      BY DEF Filled, Slots
    <3>2. Holds(h, h.entries[s].key) /\ Probe(h, h.entries[s].key) = s
      BY <3>1, <2>2 DEF WellPlaced
    <3>3. h.entries[s].key \in Threads
      <4>1. h.entries[s] \in Entries
        BY <2>2, <3>1, TableParts
      <4> QED BY <4>1, <3>1 DEF Entries
    <3>4. h.entries[s].key \in Held(H, i)
      <4>1. i \in 1..i
        BY <2>1
      <4> QED BY <4>1, <3>2, <3>3 DEF Held
    <3> QED BY <3>1, <3>2, <3>4 DEF Crowd
  <2>9. Key \in Injection(Filled(h), C)
    <3>1. Key \in [Filled(h) -> C]
      BY <2>8
    <3>2. \A r, s \in Filled(h) : Key[r] = Key[s] => r = s
      <4> HIDE DEF Key
      <4> QED BY <2>8
    <3> HIDE DEF Key, C, h
    <3> QED BY <3>1, <3>2 DEF Injection, IsInjective
  <2>10. IsFiniteSet(Filled(h)) /\ Cardinality(Filled(h)) <= Cardinality(C)
    <3> HIDE DEF Key, C, h
    <3> QED BY <2>7, <2>9, FS_Injection
  <2>11. Table(i) = h
    BY DEF Table
  <2>12. Cardinality(Filled(h)) \in Nat /\ Cardinality(Filled(h)) # 0
    BY <2>10, <2>11, FS_CardinalityType, FS_EmptySet
  <2> HIDE DEF h, C
  <2> QED BY <2>3, <2>4, <2>5, <2>7, <2>10, <2>11, <2>12
<1> QED BY <1>1, InvHolds, PTL

\* implicitProducerHashCount is exact (concurrentqueue.h,
\* get_or_add_implicit_producer): failures take back their own reservation.
THEOREM CountExactInvariant == SafeSpec => []CountExact
<1>1. IInv => CountExact
  <2> SUFFICES ASSUME IInv PROVE CountExact
    OBVIOUS
  <2>1. /\ implicitProducerHashCount = Cardinality(Counted(implicitProducerHash, call))
        /\ DOMAIN implicitProducerHash = 1..Len(implicitProducerHash)
    BY DEF IInv, HashInv, TablesSound
  <2>2. Counted(implicitProducerHash, call) =
          {t \in Threads :
             \/ call[t].pc \in {"room", "resize", "unlock", "insert"}
             \/ call[t].pc \in {"scan", "link"} /\ IsImplicit(t)
             \/ \E i \in DOMAIN implicitProducerHash : Holds(Table(i), t)}
    BY <2>1 DEF Counted, Held, Reserves, Waits, Commits, IsImplicit, Table
  <2> QED BY <2>1, <2>2 DEF CountExact
<1> QED BY <1>1, InvHolds, PTL

\* A thread keeps its implicit producer (concurrentqueue.h,
\* get_or_add_implicit_producer), whichever table it finds it in.
THEOREM KeepsProducer == SafeSpec => SameProducer
<1>1. IInv /\ [Next]_vars => [\A t \in Threads : result[t] # Null => result'[t] = result[t]]_vars
  <2> SUFFICES ASSUME IInv, Next PROVE \A t \in Threads : result[t] # Null => result'[t] = result[t]
    BY DEF vars
  <2>0. HashInv /\ OwnerInv
    BY DEF IInv
  <2>1. ASSUME NEW t \in Threads, Found(t) PROVE result' = result
    BY <2>0, <2>1, FoundStep
  <2>2. ASSUME NEW t \in Threads, InsertProducer(t)
        PROVE  result[t] = Null /\ result' = [result EXCEPT ![t] = call[t].producer]
    <3>1. call[t].producer \in Producers
      BY <2>0, <2>2, HashAssumption DEF OwnerInv, CallsAndTokens, CallKnown, InsertProducer, At,
                                        Types, Created, Producers
    <3>2. result[t] = Null
      BY <2>0, <2>2, <3>1, InsertStep
    <3> QED BY <2>2, <3>2 DEF InsertProducer
  <2>3. ASSUME NEW t \in Threads,
               \/ GetImplicit(t) \/ NotFound(t) \/ AcquireResize(t) \/ NoResize(t) \/ Resize(t)
               \/ ResizeFails(t) \/ ResizeNeedless(t) \/ Unlock(t) \/ Create(t) \/ CreateFails(t)
               \/ Recycle(t) \/ PassBy(t) \/ LinkProducer(t) \/ Retire(t)
               \/ \E k \in Tokens : NewToken(t, k) \/ DestroyToken(t, k)
        PROVE  result' = result
    BY <2>3 DEF GetImplicit, NotFound, AcquireResize, NoResize, Resize, ResizeFails,
         ResizeNeedless, Unlock, Create, CreateFails, Recycle, PassBy, LinkProducer, Retire,
         NewToken, DestroyToken
  <2>4. ASSUME NEW k \in Tokens, NEW other \in Tokens, MoveToken(k, other) \/ SwapTokens(k, other)
        PROVE  result' = result
    BY <2>4 DEF MoveToken, SwapTokens
  <2>5. result \in [Threads -> Producers \cup {Null}]
    BY <2>0 DEF HashInv
  <2>6. result' = result \/ \E t \in Threads : result[t] = Null /\ \E p : result' = [result EXCEPT ![t] = p]
    BY <2>1, <2>2, <2>3, <2>4 DEF Next, Get
  <2> QED BY <2>5, <2>6
<1> QED BY <1>1, InvHolds, PTL DEF SafeSpec, SameProducer

\* Who holds a producer is never in doubt (concurrentqueue.h,
\* recycle_or_create_producer and struct ProducerToken): every producer has one
\* holder, and a producer and its token refer to each other.
THEOREM OwnershipInvariant == SafeSpec => []Ownership
<1>1. IInv => TypeOK
  <2> SUFFICES ASSUME IInv PROVE TypeOK
    OBVIOUS
  <2>0. HashInv /\ Types
    BY DEF IInv, OwnerInv
  <2>1. ASSUME NEW i \in DOMAIN implicitProducerHash, NEW s \in 0..(Table(i).capacity - 1)
        PROVE  /\ Table(i).entries[s].key \in Threads \cup {NoThread}
               /\ Table(i).entries[s].value \in Producers \cup {Null}
    <3>1. Table(i) \in Tables
      BY <2>0 DEF HashInv, TablesSound, Table
    <3>2. Table(i).entries[s] \in Entries
      BY <3>1, TableParts DEF Slots
    <3> QED BY <3>2 DEF Entries
  <2>2. implicitProducerHashCount \in Nat
    <3>1. Counted(implicitProducerHash, call) \subseteq Threads
      BY DEF Counted, Held
    <3> QED BY <2>0, <3>1, Finite DEF HashInv
  <2>3. DOMAIN explicit = Created
    BY <2>0 DEF Types, Created
  <2> QED BY <2>0, <2>1, <2>2, <2>3 DEF TypeOK, Types, HashInv
<1>2. IInv => OneOwner
  <2> SUFFICES ASSUME IInv, NEW p \in Created PROVE Cardinality(Holders(p)) = 1
    <3>1. IInv => DOMAIN explicit = Created
      BY DEF IInv, OwnerInv, Types, Created
    <3> QED BY <3>1 DEF OneOwner
  <2>0. SomeHolder /\ NoOtherHolder
    BY DEF IInv, OwnerInv
  <2> DEFINE A == {<<"thread", t>> : t \in {u \in Threads : result[u] = p}}
             B == {<<"token", k>> : k \in {j \in alive : producerOf[j] = p}}
             C == {<<"call", t>> : t \in {u \in Threads : Carries(call[u], p)}}
             D == {<<"pool">> : x \in inactive \cap {p}}
  <2>1. Holders(p) = A \cup B \cup C \cup D
    BY Zenon DEF Holders, Carries
  <2>2. \E h : Holders(p) = {h}
    <3>1. ASSUME NEW t \in Threads, result[t] = p PROVE Holders(p) = {<<"thread", t>>}
      <4>1. A = {<<"thread", t>>} /\ B = {} /\ C = {} /\ D = {}
        BY <3>1, <2>0 DEF NoOtherHolder
      <4> QED BY <4>1, <2>1
    <3>2. ASSUME NEW k \in alive, producerOf[k] = p PROVE Holders(p) = {<<"token", k>>}
      <4>1. A = {} /\ B = {<<"token", k>>} /\ C = {} /\ D = {}
        BY <3>2, <2>0 DEF NoOtherHolder
      <4> QED BY <4>1, <2>1
    <3>3. ASSUME NEW t \in Threads, Carries(call[t], p) PROVE Holders(p) = {<<"call", t>>}
      <4>1. A = {} /\ B = {} /\ C = {<<"call", t>>} /\ D = {}
        BY <3>3, <2>0 DEF NoOtherHolder
      <4> QED BY <4>1, <2>1
    <3>4. ASSUME p \in inactive PROVE Holders(p) = {<<"pool">>}
      <4>1. A = {} /\ B = {} /\ C = {} /\ D = {<<"pool">>}
        BY <3>4, <2>0 DEF NoOtherHolder
      <4> QED BY <4>1, <2>1
    <3> QED BY <3>1, <3>2, <3>3, <3>4, <2>0 DEF SomeHolder
  <2> QED BY <2>2, FS_Singleton
<1>3. IInv => Ownership
  BY <1>1, <1>2 DEF Ownership, IInv, OwnerInv
<1> QED BY <1>3, InvHolds, PTL

\* Consumers find every producer somebody can enqueue to (concurrentqueue.h,
\* add_producer): it is on the list, once, and it was counted before.
THEOREM OnTheListInvariant == SafeSpec => []OnTheList
<1>1. IInv => OnTheList
  <2> SUFFICES ASSUME IInv PROVE OnTheList
    OBVIOUS
  <2>0. Types /\ NoOtherHolder /\ ListSound /\ HeldExist
    BY DEF IInv, OwnerInv, CallsAndTokens
  <2>1. DOMAIN producerList = 1..Len(producerList)
    BY <2>0 DEF ListSound
  <2>2. ASSUME NEW p \in Created, \A u \in Threads : ~Carries(call[u], p)
        PROVE  \E i \in 1..Len(producerList) : producerList[i] = p
    BY <2>0, <2>2 DEF ListSound, Carries
  <2>3. ASSUME NEW t \in Threads, result[t] # Null
        PROVE  \E i \in 1..Len(producerList) : producerList[i] = result[t]
    <3>1. result[t] \in Created
      BY <2>0, <2>3 DEF HeldExist
    <3> QED BY <2>0, <2>2, <3>1 DEF NoOtherHolder
  <2>4. ASSUME NEW k \in alive, producerOf[k] # Null
        PROVE  \E i \in 1..Len(producerList) : producerList[i] = producerOf[k]
    <3>1. producerOf[k] \in Created
      BY <2>0, <2>4 DEF HeldExist, Types
    <3> QED BY <2>0, <2>2, <3>1 DEF NoOtherHolder
  <2>5. producerCount >= Len(producerList)
    <3> DEFINE n == Len(producerList)
               m == Len(explicit)
    <3>1. n \in Nat /\ m \in Nat /\ producerCount = m /\ Created = 1..m
      BY <2>0 DEF Types, ListSound, Created
    <3>2. producerList \in Injection(1..n, Created)
      <4>1. producerList \in [1..n -> Created]
        BY <2>0 DEF ListSound
      <4>2. \A i, j \in 1..n : producerList[i] = producerList[j] => i = j
        BY <2>0 DEF ListSound
      <4> QED BY <4>1, <4>2 DEF Injection, IsInjective
    <3> HIDE DEF n, m
    <3>3. IsFiniteSet(Created) /\ Cardinality(Created) = m /\ Cardinality(1..n) = n
      BY <3>1, FS_Interval
    <3>4. Cardinality(1..n) <= Cardinality(Created)
      BY <3>2, <3>3, FS_Injection
    <3>5. n <= m
      BY <3>3, <3>4
    <3> QED BY <3>1, <3>5 DEF n
  <2> QED BY <2>0, <2>1, <2>3, <2>4, <2>5 DEF OnTheList, ListSound
<1> QED BY <1>1, InvHolds, PTL

==============================================================================
