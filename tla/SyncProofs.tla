------------------------------ MODULE SyncProofs ------------------------------
(***************************************************************************)
(* Proofs about fes::sync and its connections, for any finite set of       *)
(* guards and any bounds.                                                  *)
(***************************************************************************)
EXTENDS Sync, SequenceTheorems, TLAPS

Increasing(s) == \A i, j \in DOMAIN s : i < j => s[i] < s[j]
Elems(s) == {s[i] : i \in DOMAIN s}

\* The list is in the order of the registration numbers, and a sync that has
\* been destroyed has none.
ListInOrder ==
    /\ Increasing(registered)
    /\ Members \subseteq 1..created
    /\ ~alive => registered = <<>>

\* A call f of operator(), innermost or not, on the list `list' when n
\* subscriptions have been made: the node it is at is the last of those it has
\* called, it has called them in order, and it has left out nobody of the list
\* up to that node.
FrameInOrder(f, list, n) ==
    /\ f.called # <<>>
    /\ f.called[Len(f.called)] = f.at
    /\ f.at \in 1..n
    /\ Increasing(f.called)
    /\ \A h \in list : h <= f.at => h \in Elems(f.called)

FramesInOrder == \A k \in DOMAIN stack : FrameInOrder(stack[k], Members, created)

\* A sync is not destroyed under its subscribers, and a node that an iterator
\* is at stays in the list unless somebody cuts it.
IteratorsValid ==
    /\ stack # <<>> => alive
    /\ ~cutRunning => Running \subseteq Members

\* The inductive invariant.
IInv == /\ TypeOK /\ ListInOrder /\ FlagTellsMembership /\ FramesInOrder
        /\ IteratorsValid /\ OneWayToUndefined

-----------------------------------------------------------------------------
(* Sequences *)

\* Erasing the node of h takes h, and nobody else, out of the list and leaves
\* the others in order.
LEMMA EraseElement ==
  ASSUME NEW s \in Seq(Handlers), Increasing(s), NEW h \in Elems(s)
  PROVE  /\ Erase(s, h) \in Seq(Handlers)
         /\ Increasing(Erase(s, h))
         /\ Elems(Erase(s, h)) = Elems(s) \ {h}
<1> DEFINE n == Len(s)
           i == CHOOSE j \in DOMAIN s : s[j] = h
           e == Erase(s, h)
<1>1. n \in Nat /\ DOMAIN s = 1..n /\ \A j \in 1..n : s[j] \in Handlers
  OBVIOUS
<1>2. i \in 1..n /\ s[i] = h
  BY <1>1 DEF Elems
<1> HIDE DEF n, i
<1>3. e = [j \in 1..(n - 1) |-> s[IF j < i THEN j ELSE j + 1]]
  BY DEF Erase, n, i
<1>4. e \in Seq(Handlers) /\ DOMAIN e = 1..(n - 1)
  <2>1. \A j \in 1..(n - 1) : s[IF j < i THEN j ELSE j + 1] \in Handlers
    BY <1>1, <1>2
  <2> QED
    BY <1>1, <1>2, <1>3, <2>1
<1> HIDE DEF e
<1> DEFINE o(j) == IF j < i THEN j ELSE j + 1
<1>o. \A j, k \in 1..(n - 1) : j < k => o(j) \in 1..n /\ o(k) \in 1..n /\ o(j) < o(k)
  BY <1>1, <1>2
<1>p. \A j \in 1..(n - 1) : e[j] = s[o(j)]
  BY <1>3
<1> HIDE DEF o
<1>5. Increasing(e)
  BY <1>1, <1>4, <1>o, <1>p DEF Increasing
<1>6. \A j \in 1..n : j # i => s[j] # h
  BY <1>1, <1>2 DEF Increasing, Handlers
<1>7. Elems(e) \subseteq Elems(s) \ {h}
  BY <1>1, <1>2, <1>3, <1>4, <1>6 DEF Elems
<1>8. ASSUME NEW x \in Elems(s) \ {h} PROVE x \in Elems(e)
  <2>1. PICK j \in 1..n : s[j] = x /\ j # i
    BY <1>1, <1>2, <1>8 DEF Elems
  <2>2. CASE j < i
    <3>1. j \in 1..(n - 1) /\ e[j] = x
      BY <1>1, <1>2, <1>3, <2>1, <2>2
    <3> QED
      BY <1>4, <3>1 DEF Elems
  <2>3. CASE j > i
    <3>1. j - 1 \in 1..(n - 1) /\ e[j - 1] = x
      BY <1>1, <1>2, <1>3, <2>1, <2>3
    <3> QED
      BY <1>4, <3>1 DEF Elems
  <2> QED
    BY <1>1, <1>2, <2>1, <2>2, <2>3
<1> QED
  BY <1>4, <1>5, <1>7, <1>8 DEF e

\* Appending a larger number keeps a sequence in order.
LEMMA AppendLarger ==
  ASSUME NEW s \in Seq(Handlers), Increasing(s), NEW h \in Handlers,
         \A x \in Elems(s) : x < h
  PROVE  /\ Append(s, h) \in Seq(Handlers)
         /\ Increasing(Append(s, h))
         /\ Elems(Append(s, h)) = Elems(s) \cup {h}
<1> DEFINE n == Len(s)
           a == Append(s, h)
<1>1. /\ n \in Nat /\ DOMAIN s = 1..n /\ \A j \in 1..n : s[j] \in Handlers
      /\ a \in Seq(Handlers) /\ DOMAIN a = 1..(n + 1)
      /\ a[n + 1] = h /\ \A j \in 1..n : a[j] = s[j]
  OBVIOUS
<1> HIDE DEF n, a
<1>2. \A j \in 1..n : s[j] < h
  BY <1>1 DEF Elems
<1>3. Increasing(a)
  BY <1>1, <1>2 DEF Increasing, Handlers
<1>4. Elems(a) = Elems(s) \cup {h}
  BY <1>1 DEF Elems
<1> QED
  BY <1>1, <1>3, <1>4 DEF a

\* The calls that are left when the innermost one ends.
LEMMA PopFrames ==
  ASSUME NEW s \in Seq(Frames), s # <<>>
  PROVE  /\ Pop(s) \in Seq(Frames)
         /\ Len(Pop(s)) = Len(s) - 1
         /\ \A k \in DOMAIN Pop(s) : k \in DOMAIN s /\ Pop(s)[k] = s[k]
<1> DEFINE n == Len(s) - 1
<1>1. Len(s) \in Nat \ {0} /\ n \in Nat /\ DOMAIN s = 1..Len(s) /\ \A i \in 1..n : s[i] \in Frames
  OBVIOUS
<1>2. n < Len(s) /\ Pop(s) = SubSeq(s, 1, n)
  BY <1>1 DEF Pop
<1> HIDE DEF n
<1>3. /\ SubSeq(s, 1, n) \in Seq(Frames)
      /\ Len(SubSeq(s, 1, n)) = IF 1 <= n THEN n - 1 + 1 ELSE 0
      /\ \A i \in 1..(n - 1 + 1) : SubSeq(s, 1, n)[i] = s[1 + i - 1]
  BY <1>1, SubSeqProperties
<1>4. Pop(s) \in Seq(Frames) /\ Len(Pop(s)) = n /\ \A i \in 1..n : Pop(s)[i] = s[i]
  BY <1>1, <1>2, <1>3
<1>5. \A k \in DOMAIN Pop(s) : k \in DOMAIN s /\ Pop(s)[k] = s[k]
  BY <1>1, <1>2, <1>4
<1> QED
  BY <1>4, <1>5 DEF n

-----------------------------------------------------------------------------
(* What the actions do to the list and to the calls under way *)

\* A call under way is as it was when others join the end of the list or leave it.
LEMMA FrameKept ==
  ASSUME NEW n \in Nat, NEW m \in Nat, n <= m,
         NEW list \in SUBSET (1..n), NEW list2 \in SUBSET (1..m),
         \A h \in list2 : h \in list \/ h > n,
         NEW f \in Frames, FrameInOrder(f, list, n)
  PROVE  FrameInOrder(f, list2, m)
BY DEF FrameInOrder, Frames, Handlers

\* The calls under way are as they were when only the list has changed.
LEMMA FramesKept ==
  ASSUME IInv, stack' = stack, created' \in Nat, created <= created',
         Members' \subseteq 1..created',
         \A h \in Members' : h \in Members \/ h > created
  PROVE  FramesInOrder'
<1>1. created \in Nat /\ Members \in SUBSET (1..created)
  BY DEF IInv, TypeOK, ListInOrder
<1>2. ASSUME NEW k \in DOMAIN stack
      PROVE  FrameInOrder(stack[k], Members', created')
  <2>1. stack[k] \in Frames /\ FrameInOrder(stack[k], Members, created)
    BY DEF IInv, TypeOK, FramesInOrder
  <2> QED
    BY <1>1, <2>1, FrameKept
<1> QED
  BY <1>2 DEF FramesInOrder

\* The list, as a set: the subscriptions and the flags agree with it.
LEMMA ListFacts ==
  ASSUME IInv
  PROVE  /\ registered \in Seq(Handlers) /\ Increasing(registered)
         /\ Members = Elems(registered)
         /\ Members \subseteq 1..created
         /\ created \in Nat /\ 1..created \subseteq Handlers
<1>1. Members = Elems(registered)
  BY DEF Members, Elems
<1>2. registered \in Seq(Handlers) /\ Increasing(registered) /\ Members \subseteq 1..created
  BY DEF IInv, TypeOK, ListInOrder
<1>3. created \in Nat /\ 1..created \subseteq Handlers
  BY BoundsAssumption DEF IInv, TypeOK, Handlers
<1> QED
  BY <1>1, <1>2, <1>3

\* disconnect takes the node of h out of the list if it is there and does nothing
\* else to it; nothing undefined happens.
LEMMA CutEffect ==
  ASSUME IInv, alive, ~undefined, NEW h \in 1..created, Cut(h)
  PROVE  /\ registered' \in Seq(Handlers) /\ Increasing(registered')
         /\ Members' = Members \ {h}
         /\ connected' = connected \ {h}
         /\ undefined' = FALSE
         /\ cutRunning' \in BOOLEAN
         /\ cutRunning => cutRunning'
         /\ ~cutRunning' => h \notin Running \/ Members' = Members
<1>1. h \in connected <=> h \in Members
  BY DEF IInv, FlagTellsMembership
<1>2. CASE h \in connected
  <2>1. registered' = Erase(registered, h) /\ undefined' = FALSE
        /\ connected' = connected \ {h} /\ cutRunning' = (cutRunning \/ h \in Running)
    BY <1>1, <1>2 DEF Cut
  <2>2. Members' = Elems(registered')
    BY DEF Members, Elems
  <2>3. /\ Erase(registered, h) \in Seq(Handlers) /\ Increasing(Erase(registered, h))
        /\ Elems(Erase(registered, h)) = Elems(registered) \ {h}
    BY <1>1, <1>2, ListFacts, EraseElement
  <2>4. cutRunning' \in BOOLEAN /\ (cutRunning => cutRunning')
        /\ (~cutRunning' => h \notin Running)
    BY <2>1 DEF IInv, TypeOK
  <2> QED
    BY <2>1, <2>2, <2>3, <2>4, ListFacts
<1>3. CASE h \notin connected
  <2>1. UNCHANGED <<registered, connected, undefined, cutRunning>>
    BY <1>3 DEF Cut
  <2>2. Members' = Members
    BY <2>1 DEF Members
  <2>3. undefined' = FALSE /\ cutRunning' \in BOOLEAN /\ (cutRunning => cutRunning')
    BY <2>1 DEF IInv, TypeOK
  <2> QED
    BY <1>1, <1>3, <2>1, <2>2, <2>3, ListFacts
<1> QED
  BY <1>2, <1>3

\* disconnect keeps the invariant, whoever calls it.
LEMMA CutStep ==
  ASSUME IInv, alive, ~undefined, NEW h \in 1..created, Cut(h),
         UNCHANGED <<alive, created, stack, held>>,
         guard' \in [Guards -> 0..created]
  PROVE  IInv'
<1>1. /\ registered' \in Seq(Handlers) /\ Increasing(registered')
      /\ Members' = Members \ {h}
      /\ connected' = connected \ {h}
      /\ undefined' = FALSE
      /\ cutRunning' \in BOOLEAN
      /\ cutRunning => cutRunning'
      /\ ~cutRunning' => h \notin Running \/ Members' = Members
  BY CutEffect
<1>2. TypeOK'
  BY <1>1 DEF IInv, TypeOK
<1>3. ListInOrder'
  BY <1>1 DEF IInv, ListInOrder
<1>4. FlagTellsMembership'
  BY <1>1 DEF IInv, FlagTellsMembership
<1>5. FramesInOrder'
  BY <1>1, ListFacts, FramesKept
<1>6. IteratorsValid'
  <2>1. Running' = Running
    BY DEF Running
  <2> QED
    BY <1>1, <2>1 DEF IInv, IteratorsValid
<1>7. OneWayToUndefined'
  BY <1>1 DEF OneWayToUndefined
<1> QED
  BY <1>2, <1>3, <1>4, <1>5, <1>6, <1>7 DEF IInv

\* Leaving the innermost call, at the end of the list or with an exception.
LEMMA PopStep ==
  ASSUME IInv, stack # <<>>, stack' = Pop(stack),
         UNCHANGED <<alive, registered, created, connected, guard, undefined, held, cutRunning>>
  PROVE  IInv'
<1>1. /\ stack' \in Seq(Frames)
      /\ \A k \in DOMAIN stack' : k \in DOMAIN stack /\ stack'[k] = stack[k]
  BY PopFrames DEF IInv, TypeOK
<1>2. Members' = Members /\ Running' \subseteq Running
  BY <1>1 DEF Members, Running
<1>3. TypeOK'
  BY <1>1 DEF IInv, TypeOK
<1>4. ListInOrder' /\ FlagTellsMembership'
  BY <1>2 DEF IInv, ListInOrder, FlagTellsMembership
<1>5. FramesInOrder'
  BY <1>1, <1>2 DEF IInv, FramesInOrder
<1>6. IteratorsValid' /\ OneWayToUndefined'
  BY <1>2 DEF IInv, IteratorsValid, OneWayToUndefined
<1> QED
  BY <1>3, <1>4, <1>5, <1>6 DEF IInv

\* What ++it finds: the next node is larger than all that have been called, and
\* nobody of the list is between it and them.
LEMMA NextNode ==
  ASSUME IInv, NEW f \in Frames, FrameInOrder(f, Members, created),
         NEW i \in DOMAIN registered, registered[i] = f.at, i < Len(registered)
  PROVE  LET g == [at |-> registered[i + 1], called |-> Append(f.called, registered[i + 1])]
         IN  g \in Frames /\ FrameInOrder(g, Members, created) /\ g.at \in Members
<1> DEFINE n == Len(registered)
           h == registered[i + 1]
           c == f.called
           m == Len(c)
           a == Append(c, h)
<1>1. n \in Nat /\ DOMAIN registered = 1..n /\ i \in 1..n /\ i + 1 \in 1..n
  BY ListFacts
<1>2. \A j \in 1..n : registered[j] \in Handlers /\ registered[j] \in Members
  BY <1>1, ListFacts DEF Members
<1>3. \A j, k \in 1..n : j < k => registered[j] < registered[k]
  BY <1>1, ListFacts DEF Increasing
<1>4. c \in Seq(Handlers) /\ m \in Nat \ {0} /\ DOMAIN c = 1..m /\ c[m] = f.at
      /\ Increasing(c) /\ \A j \in 1..m : c[j] \in Handlers
  BY DEF Frames, FrameInOrder
<1>5. h \in Handlers /\ h \in Members /\ f.at < h /\ f.at \in Nat /\ h \in Nat
  BY <1>1, <1>2, <1>3 DEF Handlers
<1>6. \A x \in Members : x \in Nat /\ (x <= h => x <= f.at \/ x = h)
  <2>1. ASSUME NEW j \in 1..n, registered[j] <= h PROVE j <= i + 1
    BY <1>1, <1>2, <1>3, <2>1 DEF Handlers
  <2>2. \A j \in 1..i : registered[j] <= f.at
    BY <1>1, <1>2, <1>3 DEF Handlers
  <2>3. ASSUME NEW j \in 1..n, registered[j] <= h
        PROVE  registered[j] <= f.at \/ registered[j] = h
    BY <1>1, <2>1, <2>2, <2>3
  <2>4. \A x \in Members : \E j \in 1..n : x = registered[j]
    BY <1>1 DEF Members
  <2> QED
    BY <1>2, <2>3, <2>4 DEF Handlers
<1> HIDE DEF n, h, c, m, a
<1>7. \A x \in Elems(c) : x < h
  <2>1. \A j \in 1..m : j # m => c[j] < c[m]
    BY <1>4 DEF Increasing
  <2>2. \A j \in 1..m : c[j] < h
    BY <1>4, <1>5, <2>1 DEF Handlers
  <2> QED
    BY <1>4, <2>2 DEF Elems
<1>8. a \in Seq(Handlers) /\ Increasing(a) /\ Elems(a) = Elems(c) \cup {h}
  BY <1>4, <1>5, <1>7, AppendLarger DEF a
<1>9. a # <<>> /\ a[Len(a)] = h
  BY <1>4, <1>5 DEF a
<1>10. \A x \in Members : x <= h => x \in Elems(a)
  BY <1>6, <1>8 DEF FrameInOrder, c
<1>11. h \in 1..created
  BY <1>5, ListFacts
<1> DEFINE g == [at |-> h, called |-> a]
<1>12. g \in Frames /\ FrameInOrder(g, Members, created) /\ g.at \in Members
  BY <1>5, <1>8, <1>9, <1>10, <1>11 DEF Frames, FrameInOrder
<1> QED
  BY <1>12 DEF h, c, a

\* A call that begins at the first node has left out nobody before it.
LEMMA FirstNode ==
  ASSUME IInv, registered # <<>>
  PROVE  LET g == [at |-> Head(registered), called |-> <<Head(registered)>>]
         IN  g \in Frames /\ FrameInOrder(g, Members, created) /\ g.at \in Members
<1> DEFINE n == Len(registered)
           h == registered[1]
           g == [at |-> h, called |-> <<h>>]
<1>1. n \in Nat \ {0} /\ DOMAIN registered = 1..n /\ Head(registered) = h
  BY ListFacts
<1>2. h \in Handlers /\ h \in Members /\ h \in 1..created
  BY <1>1, ListFacts DEF Members
<1>3. \A j, k \in 1..n : j < k => registered[j] < registered[k]
  BY <1>1, ListFacts DEF Increasing
<1>4. \A j \in 1..n : registered[j] \in Nat /\ (registered[j] <= h => registered[j] = h)
  <2>1. \A j \in 1..n : registered[j] \in Handlers
    BY <1>1, ListFacts
  <2>2. \A j \in 1..n : j = 1 \/ registered[1] < registered[j]
    BY <1>1, <1>3
  <2> QED
    BY <1>1, <2>1, <2>2 DEF Handlers
<1>5. \A x \in Members : x <= h => x = h
  BY <1>1, <1>4 DEF Members
<1> HIDE DEF h, n
<1>6. <<h>> \in Seq(Handlers) /\ Len(<<h>>) = 1 /\ <<h>>[1] = h /\ DOMAIN <<h>> = 1..1
  BY <1>2
<1>7. Increasing(<<h>>) /\ h \in Elems(<<h>>)
  BY <1>6 DEF Increasing, Elems
<1>8. g \in Frames
  BY <1>2, <1>6 DEF Frames
<1>9. FrameInOrder(g, Members, created)
  BY <1>2, <1>5, <1>6, <1>7 DEF FrameInOrder
<1> QED
  BY <1>1, <1>2, <1>8, <1>9

\* The calls are replaced by s, whose every call is an old one or in order.
LEMMA StackStep ==
  ASSUME IInv, alive, NEW s \in Seq(Frames), stack' = s,
         \A k \in DOMAIN s :
            \/ k \in DOMAIN stack /\ s[k] = stack[k]
            \/ FrameInOrder(s[k], Members, created) /\ s[k].at \in Members,
         UNCHANGED <<alive, registered, created, connected, guard, undefined, held, cutRunning>>
  PROVE  IInv'
<1>1. Members' = Members
  BY DEF Members
<1>2. TypeOK'
  BY DEF IInv, TypeOK
<1>3. ListInOrder' /\ FlagTellsMembership'
  BY <1>1 DEF IInv, ListInOrder, FlagTellsMembership
<1>4. FramesInOrder'
  BY <1>1 DEF IInv, FramesInOrder
<1>5. IteratorsValid' /\ OneWayToUndefined'
  <2>1. ~cutRunning => Running' \subseteq Members
    BY DEF IInv, IteratorsValid, Running
  <2> QED
    BY <1>1, <2>1 DEF IInv, IteratorsValid, OneWayToUndefined
<1> QED
  BY <1>2, <1>3, <1>4, <1>5 DEF IInv

-----------------------------------------------------------------------------
(* The invariant *)

\* The invariant holds in a new sync.
LEMMA InvInit == Init => IInv
<1> SUFFICES ASSUME Init PROVE IInv
  OBVIOUS
<1>1. Members = {} /\ Running = {}
  BY DEF Init, Members, Running
<1>2. TypeOK
  <2>1. registered \in Seq(Handlers) /\ stack \in Seq(Frames)
    BY DEF Init
  <2>2. created \in 0..MaxHandlers /\ guard \in [Guards -> 0..created]
    BY BoundsAssumption DEF Init, None
  <2> QED
    BY <2>1, <2>2 DEF Init, TypeOK
<1>3. ListInOrder /\ FlagTellsMembership
  BY <1>1 DEF Init, ListInOrder, FlagTellsMembership, Increasing
<1>4. FramesInOrder /\ IteratorsValid /\ OneWayToUndefined
  BY <1>1 DEF Init, FramesInOrder, IteratorsValid, OneWayToUndefined
<1> QED
  BY <1>2, <1>3, <1>4 DEF IInv

\* connect appends a node with a new number.
LEMMA ConnectStep == ASSUME IInv, Connect PROVE IInv'
<1> DEFINE h == created + 1
<1>1. created \in Nat /\ h \in Handlers /\ h \in 1..h /\ h \in 0..MaxHandlers
      /\ 1..created \subseteq 1..h /\ 0..created \subseteq 0..h /\ h \notin 1..created
  BY BoundsAssumption DEF IInv, TypeOK, Connect, Handlers
<1>2. /\ created' = h /\ registered' = Append(registered, h)
      /\ connected' = connected \cup {h} /\ alive
      /\ UNCHANGED <<alive, guard, stack, undefined, held, cutRunning>>
  BY DEF Connect
<1>3. \A x \in Elems(registered) : x < h
  BY <1>1, ListFacts
<1> HIDE DEF h
<1>4. /\ registered' \in Seq(Handlers) /\ Increasing(registered')
      /\ Elems(registered') = Elems(registered) \cup {h}
  BY <1>1, <1>2, <1>3, ListFacts, AppendLarger
<1>5. Members' = Members \cup {h} /\ Running' = Running
  BY <1>2, <1>4 DEF Members, Elems, Running
<1>6. TypeOK'
  <2>1. connected' \subseteq 1..created' /\ held' \subseteq 1..created'
    BY <1>1, <1>2 DEF IInv, TypeOK
  <2>2. guard' \in [Guards -> 0..created']
    BY <1>1, <1>2 DEF IInv, TypeOK
  <2> QED
    BY <1>1, <1>2, <1>4, <2>1, <2>2 DEF IInv, TypeOK
<1>7. ListInOrder'
  BY <1>1, <1>2, <1>4, <1>5, ListFacts DEF ListInOrder
<1>8. FlagTellsMembership'
  <2>1. \A x \in 1..h : x = h \/ x \in 1..created
    BY <1>1 DEF h
  <2> QED
    BY <1>1, <1>2, <1>5, <2>1 DEF IInv, FlagTellsMembership
<1>9. FramesInOrder'
  <2>1. created' \in Nat /\ created <= created' /\ h > created
    BY <1>1, <1>2 DEF h
  <2>2. Members' \subseteq 1..created'
    BY <1>1, <1>2, <1>5, ListFacts
  <2> QED
    BY <1>2, <1>5, <2>1, <2>2, FramesKept
<1>10. IteratorsValid' /\ OneWayToUndefined'
  BY <1>2, <1>5 DEF IInv, IteratorsValid, OneWayToUndefined
<1> QED
  BY <1>6, <1>7, <1>8, <1>9, <1>10 DEF IInv

\* The destructor of the sync, which no subscriber runs under.
LEMMA DestroyStep == ASSUME IInv, Destroy PROVE IInv'
<1>1. Members' = {} /\ Running' = {}
  BY DEF Destroy, Members, Running
<1>2. TypeOK'
  <2>1. registered' \in Seq(Handlers)
    BY DEF Destroy
  <2> QED
    BY <2>1 DEF IInv, TypeOK, Destroy
<1>3. ListInOrder' /\ FlagTellsMembership'
  BY <1>1 DEF Destroy, ListInOrder, FlagTellsMembership, Increasing
<1>4. FramesInOrder' /\ IteratorsValid' /\ OneWayToUndefined'
  BY <1>1 DEF IInv, Destroy, FramesInOrder, IteratorsValid, OneWayToUndefined
<1> QED
  BY <1>2, <1>3, <1>4 DEF IInv

\* operator() calls the first subscriber.
LEMMA PublishStep == ASSUME IInv, Publish PROVE IInv'
<1> DEFINE g == [at |-> Head(registered), called |-> <<Head(registered)>>]
<1>1. g \in Frames /\ FrameInOrder(g, Members, created) /\ g.at \in Members
  BY FirstNode DEF Publish
<1>2. stack \in Seq(Frames) /\ stack' = Append(stack, g) /\ alive
      /\ UNCHANGED <<alive, registered, created, connected, guard, undefined, held, cutRunning>>
  BY DEF IInv, TypeOK, Publish
<1> HIDE DEF g
<1>3. Append(stack, g) \in Seq(Frames)
      /\ \A k \in DOMAIN Append(stack, g) :
            \/ k \in DOMAIN stack /\ Append(stack, g)[k] = stack[k]
            \/ Append(stack, g)[k] = g
  BY <1>1, <1>2
<1> QED
  BY <1>1, <1>2, <1>3, StackStep

\* operator() goes on to the next subscriber, or returns after the last.
LEMMA AdvanceStep == ASSUME IInv, Advance PROVE IInv'
<1> DEFINE n == Len(stack)
<1>1. stack \in Seq(Frames) /\ n \in DOMAIN stack /\ Top = stack[n] /\ Top \in Frames
      /\ FrameInOrder(Top, Members, created) /\ alive /\ stack # <<>>
      /\ UNCHANGED <<alive, registered, created, connected, guard, undefined, held, cutRunning>>
  BY DEF IInv, TypeOK, FramesInOrder, IteratorsValid, Advance, Top
<1>2. PICK i \in DOMAIN registered :
          /\ registered[i] = Top.at
          /\ \/ /\ i < Len(registered)
                /\ stack' = [stack EXCEPT ![n] =
                      [at |-> registered[i + 1], called |-> Append(@.called, registered[i + 1])]]
             \/ /\ i = Len(registered)
                /\ stack' = Pop(stack)
  BY DEF Advance
<1>3. CASE stack' = Pop(stack)
  BY <1>1, <1>3, PopStep
<1>4. CASE /\ i < Len(registered)
           /\ stack' = [stack EXCEPT ![n] =
                 [at |-> registered[i + 1], called |-> Append(@.called, registered[i + 1])]]
  <2> DEFINE g == [at |-> registered[i + 1], called |-> Append(Top.called, registered[i + 1])]
             s == [stack EXCEPT ![n] = g]
  <2>1. g \in Frames /\ FrameInOrder(g, Members, created) /\ g.at \in Members
    BY <1>1, <1>2, <1>4, NextNode
  <2>2. stack' = s
    BY <1>1, <1>4
  <2> HIDE DEF g
  <2>3. s \in Seq(Frames) /\ \A k \in DOMAIN s : k \in DOMAIN stack /\ (s[k] = stack[k] \/ s[k] = g)
    BY <1>1, <2>1
  <2> HIDE DEF s
  <2> QED
    BY <1>1, <2>1, <2>2, <2>3, StackStep
<1> QED
  BY <1>2, <1>3, <1>4

\* operator() increments an iterator whose node is gone.
LEMMA DanglingStep == ASSUME IInv, AdvanceDangling PROVE IInv'
<1>1. Members' = Members /\ Running' = Running
  BY DEF AdvanceDangling, Members, Running
<1>2. Top.at \in Running
  BY DEF AdvanceDangling, IInv, TypeOK, Top, Running
<1>3. cutRunning
  BY <1>2 DEF AdvanceDangling, IInv, IteratorsValid
<1>4. TypeOK'
  BY DEF IInv, TypeOK, AdvanceDangling
<1>5. ListInOrder' /\ FlagTellsMembership' /\ FramesInOrder'
  BY <1>1 DEF IInv, ListInOrder, FlagTellsMembership, FramesInOrder, AdvanceDangling
<1>6. IteratorsValid' /\ OneWayToUndefined'
  BY <1>1, <1>3 DEF IInv, IteratorsValid, OneWayToUndefined, AdvanceDangling
<1> QED
  BY <1>4, <1>5, <1>6 DEF IInv

\* The guards change and nothing else does.
LEMMA GuardStep ==
  ASSUME IInv, guard' \in [Guards -> 0..created], held' \subseteq 1..created,
         UNCHANGED <<alive, registered, created, connected, stack, undefined, cutRunning>>
  PROVE  IInv'
<1>1. Members' = Members /\ Running' = Running
  BY DEF Members, Running
<1>2. TypeOK'
  BY DEF IInv, TypeOK
<1>3. ListInOrder' /\ FlagTellsMembership' /\ FramesInOrder'
  BY <1>1 DEF IInv, ListInOrder, FlagTellsMembership, FramesInOrder
<1>4. IteratorsValid' /\ OneWayToUndefined'
  BY <1>1 DEF IInv, IteratorsValid, OneWayToUndefined
<1> QED
  BY <1>2, <1>3, <1>4 DEF IInv

\* Every step keeps the invariant.
LEMMA InvStep == IInv /\ [Next]_vars => IInv'
<1> SUFFICES ASSUME IInv, [Next]_vars PROVE IInv'
  OBVIOUS
<1>1. CASE Connect
  BY <1>1, ConnectStep
<1>2. CASE Destroy
  BY <1>2, DestroyStep
<1>3. CASE Publish
  BY <1>3, PublishStep
<1>4. CASE Advance
  BY <1>4, AdvanceStep
<1>5. CASE AdvanceDangling
  BY <1>5, DanglingStep
<1>6. CASE Throw
  BY <1>6, PopStep DEF Throw
<1>7. ASSUME NEW h \in Handlers, Disconnect(h) PROVE IInv'
  <2>1. h \in 1..created /\ guard' \in [Guards -> 0..created]
    BY <1>7 DEF Disconnect, IInv, TypeOK, Handlers
  <2> QED
    BY <1>7, <2>1, CutStep DEF Disconnect
<1>8. ASSUME NEW g \in Guards, Release(g) PROVE IInv'
  <2>1. guard[g] \in 1..created /\ 0 \in 0..created
    BY <1>8 DEF Release, IInv, TypeOK, None
  <2>2. guard' \in [Guards -> 0..created]
    BY <1>8, <2>1 DEF Release, IInv, TypeOK, None
  <2>3. CASE alive /\ Cut(guard[g])
    BY <1>8, <2>1, <2>2, <2>3, CutStep DEF Release
  <2>4. CASE ~alive /\ UNCHANGED <<registered, connected, undefined, cutRunning>>
    BY <1>8, <2>2, <2>4, GuardStep DEF Release, IInv, TypeOK
  <2> QED
    BY <1>8, <2>3, <2>4 DEF Release
<1>9. ASSUME NEW g \in Guards, NEW h \in Handlers, Hold(g, h) PROVE IInv'
  <2>1. h \in 1..created /\ h \in 0..created
    BY <1>9 DEF Hold, IInv, TypeOK, Handlers
  <2> QED
    BY <1>9, <2>1, GuardStep DEF Hold, IInv, TypeOK
<1>10. ASSUME NEW g \in Guards, NEW to \in Guards, Move(g, to) PROVE IInv'
  <2>1. 0 \in 0..created
    BY DEF IInv, TypeOK
  <2> QED
    BY <1>10, <2>1, GuardStep DEF Move, IInv, TypeOK, None
<1>11. CASE UNCHANGED vars
  BY <1>11, GuardStep DEF vars, IInv, TypeOK
<1> QED
  BY <1>1, <1>2, <1>3, <1>4, <1>5, <1>6, <1>7, <1>8, <1>9, <1>10, <1>11 DEF Next

\* The invariant holds in every reachable state.
LEMMA InvHolds == SafeSpec => []IInv
BY InvInit, InvStep, PTL DEF SafeSpec

-----------------------------------------------------------------------------
(* Theorems *)

\* Every variable of a sync stays in its range.
THEOREM TypeCorrect == SafeSpec => []TypeOK
BY InvHolds, PTL DEF IInv

\* While the sync lives, _connected of an internal_connection tells whether its
\* node is in _registered, so disconnect never erases a node that is gone.
THEOREM FlagTellsMembershipInvariant == SafeSpec => []FlagTellsMembership
BY InvHolds, PTL DEF IInv

\* Nothing undefined happens, whatever the subscribers do to the list, unless
\* one that is being called is disconnected.
THEOREM OneWayToUndefinedInvariant == SafeSpec => []OneWayToUndefined
BY InvHolds, PTL DEF IInv

\* operator() calls the subscribers in the order of their connection, each at
\* most once, at every depth of nested publications.
THEOREM CallsInOrderInvariant == SafeSpec => []CallsInOrder
<1>1. IInv => CallsInOrder
  BY DEF IInv, FramesInOrder, FrameInOrder, Increasing, CallsInOrder
<1> QED
  BY <1>1, InvHolds, PTL

\* When operator() comes to its end it has called every subscriber of the list.
THEOREM EverybodyIsCalled == SafeSpec => EverybodyCalled
<1>1. ASSUME IInv, Advance, Len(stack') < Len(stack), NEW h \in Members
      PROVE  \E i \in DOMAIN Top.called : Top.called[i] = h
  <2>1. stack \in Seq(Frames) /\ FrameInOrder(Top, Members, created)
    BY <1>1 DEF IInv, TypeOK, FramesInOrder, Advance, Top
  <2>2. PICK i \in DOMAIN registered :
          /\ registered[i] = Top.at
          /\ \/ /\ i < Len(registered)
                /\ stack' = [stack EXCEPT ![Len(stack)] =
                      [at |-> registered[i + 1], called |-> Append(@.called, registered[i + 1])]]
             \/ /\ i = Len(registered)
                /\ stack' = Pop(stack)
    BY <1>1 DEF Advance
  <2>3. ASSUME NEW g, stack' = [stack EXCEPT ![Len(stack)] = g] PROVE FALSE
    <3>1. Len(stack') = Len(stack) /\ Len(stack) \in Nat
      BY <2>1, <2>3
    <3> QED
      BY <1>1, <3>1
  <2>4. i = Len(registered)
    BY <2>2, <2>3
  <2>5. PICK j \in DOMAIN registered : registered[j] = h
    BY DEF Members
  <2>6. j = i \/ registered[j] < registered[i]
    BY <1>1, <2>4, ListFacts DEF Increasing
  <2>7. registered[j] \in Handlers /\ registered[i] \in Handlers
    BY <1>1, ListFacts
  <2>8. h <= Top.at
    BY <2>2, <2>5, <2>6, <2>7 DEF Handlers
  <2> QED
    BY <2>1, <2>8 DEF FrameInOrder, Elems
<1>2. IInv /\ [Next]_vars =>
        [(Advance /\ Len(stack') < Len(stack)) =>
            \A h \in Members : \E i \in DOMAIN Top.called : Top.called[i] = h]_vars
  BY <1>1
<1> QED
  BY <1>2, InvHolds, PTL DEF SafeSpec, EverybodyCalled

\* A guard that loses its connection has disconnected it or handed it over, as
\* long as guards that hold a connection are not assigned another.
THEOREM AutoDisconnectInvariant ==
  ASSUME ~Reassign PROVE SafeSpec => []AutoDisconnect
<1>1. Init => AutoDisconnect
  BY DEF Init, AutoDisconnect
<1>2. ASSUME IInv, AutoDisconnect, [Next]_vars PROVE AutoDisconnect'
  <2>g. ASSUME Members' \subseteq Members, UNCHANGED <<guard, held>> PROVE AutoDisconnect'
    BY <1>2, <2>g DEF AutoDisconnect
  <2>m. registered' = registered => Members' = Members
    BY DEF Members
  <2>1. CASE Connect
    <3>1. Members' = Members \cup {created + 1} /\ UNCHANGED <<guard, held>>
      <4>1. registered \in Seq(Handlers) /\ created + 1 \in Handlers
        BY <1>2, <2>1, BoundsAssumption DEF Connect, IInv, TypeOK, Handlers
      <4> QED
        BY <2>1, <4>1 DEF Connect, Members
    <3>2. created + 1 \notin held
      BY <1>2 DEF IInv, TypeOK
    <3> QED
      BY <1>2, <3>1, <3>2 DEF AutoDisconnect
  <2>2. CASE Destroy
    BY <2>2 DEF Destroy, AutoDisconnect, Members
  <2>3. CASE Publish \/ Advance \/ AdvanceDangling \/ Throw
    BY <2>3, <2>g, <2>m DEF Publish, Advance, AdvanceDangling, Throw
  <2>4. ASSUME NEW h \in Handlers, Disconnect(h) PROVE AutoDisconnect'
    <3>1. h \in 1..created
      BY <1>2, <2>4 DEF Disconnect, IInv, TypeOK, Handlers
    <3>2. Members' \subseteq Members
      BY <1>2, <2>4, <3>1, CutEffect DEF Disconnect
    <3> QED
      BY <2>4, <2>g, <3>2 DEF Disconnect
  <2>5. ASSUME NEW g \in Guards, Release(g) PROVE AutoDisconnect'
    <3>1. guard[g] \in 1..created /\ guard' = [guard EXCEPT ![g] = None] /\ held' = held
      BY <1>2, <2>5 DEF Release, IInv, TypeOK, None
    <3>2. Members' \subseteq Members /\ guard[g] \notin Members'
      <4>1. CASE alive /\ Cut(guard[g])
        BY <1>2, <2>5, <3>1, <4>1, CutEffect DEF Release
      <4>2. CASE ~alive /\ UNCHANGED <<registered, connected, undefined, cutRunning>>
        BY <1>2, <4>2 DEF IInv, ListInOrder, Members
      <4> QED
        BY <2>5, <4>1, <4>2 DEF Release
    <3> QED
      BY <1>2, <3>1, <3>2 DEF AutoDisconnect, IInv, TypeOK
  <2>6. ASSUME NEW g \in Guards, NEW h \in Handlers, Hold(g, h) PROVE AutoDisconnect'
    <3>1. guard[g] = None /\ guard' = [guard EXCEPT ![g] = h] /\ held' = held \cup {h}
          /\ Members' = Members
      BY <2>6, <2>m DEF Hold, CanAssign
    <3>2. \A x \in held : x # None
      BY <1>2 DEF IInv, TypeOK, None
    <3> QED
      BY <1>2, <3>1, <3>2 DEF AutoDisconnect, IInv, TypeOK
  <2>7. ASSUME NEW g \in Guards, NEW to \in Guards, Move(g, to) PROVE AutoDisconnect'
    <3>1. guard[to] = None /\ g # to /\ held' = held /\ Members' = Members
          /\ guard' = [guard EXCEPT ![to] = guard[g], ![g] = None]
      BY <2>7, <2>m DEF Move, CanAssign
    <3>2. \A x \in held : x # None
      BY <1>2 DEF IInv, TypeOK, None
    <3>3. \A x \in held : (\E k \in Guards : guard[k] = x) => \E k \in Guards : guard'[k] = x
      BY <1>2, <3>1, <3>2 DEF IInv, TypeOK
    <3> QED
      BY <1>2, <3>1, <3>3 DEF AutoDisconnect
  <2>8. CASE UNCHANGED vars
    BY <2>8, <2>g, <2>m DEF vars
  <2> QED
    BY <1>2, <2>1, <2>2, <2>3, <2>4, <2>5, <2>6, <2>7, <2>8 DEF Next
<1> QED
  BY <1>1, <1>2, InvHolds, PTL DEF SafeSpec
=============================================================================
