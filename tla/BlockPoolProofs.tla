--------------------------- MODULE BlockPoolProofs ---------------------------
(***************************************************************************)
(* Proofs about the block pool of the ConcurrentQueue and its lock-free    *)
(* FreeList, for any finite set of threads and any number of blocks.       *)
(***************************************************************************)
EXTENDS BlockPool, FiniteSetTheorems, TLAPS

\* The blocks that have left the initial pool or came from the allocator.
Handed == {b \in created : ~(b <= initialBlockPoolSize /\ b > initialBlockPoolIndex)}

InitialExist == 1..initialBlockPoolSize \subseteq created

\* What the local variables of a thread at p hold where they are used.  At the
\* exchange of try_get, nxt is still the successor of hd, although both were
\* loaded earlier: this is what excludes ABA.
LocalOK(p, hd, nd, nxt, links) ==
    /\ p \in {"ref", "next", "take", "taken"} => hd # Null
    /\ p \in PushSteps \cup {"drop"} => nd # Null
    /\ p = "take" => nxt = links[hd]
    /\ p \in {"setrefs", "link"} => nxt = links[nd]

LocalsSound == \A t \in Threads :
    LocalOK(pc[t], head[t], node[t], next[t], freeListNext)

\* No two pointers of the list lead to the same block.
ListLinear ==
    /\ \A b \in OnList : freeListNext[b] # Null => freeListNext[b] # freeListHead
    /\ \A a, b \in OnList :
          freeListNext[a] # Null /\ freeListNext[a] = freeListNext[b] => a = b

\* The block that t has taken off the list, or is putting there.
Takes(t) == IF pc[t] = "taken" THEN {head[t]} ELSE {}
Pushes(t) == IF pc[t] \in PushSteps THEN {node[t]} ELSE {}
Has(t) == owned[t] \cup Takes(t) \cup Pushes(t)

\* No block is in two places, and those that are in one are those that have
\* been handed out.
InPlaces ==
    /\ \A t \in Threads : owned[t] \cap (Takes(t) \cup Pushes(t)) = {}
    /\ \A t, u \in Threads : t # u => Has(t) \cap Has(u) = {}
    /\ \A t \in Threads : Has(t) \cap OnList = {} /\ Has(t) \cap Left = {}
    /\ OnList \cap Left = {}
    /\ \A b \in Blocks : b \in Handed <=>
          (\E t \in Threads : b \in Has(t)) \/ b \in OnList \/ b \in Left

\* A block that is being put on the list is marked, and has no reference, until
\* freeListRefs is stored; then the mark is gone.
MarkOK(p, nd, marked, refs) ==
    /\ p \in {"push", "store", "setrefs"} => nd \in marked /\ refs[nd] = 0
    /\ p \in {"link", "unlink"} => nd \notin marked

Marks == \A t \in Threads : MarkOK(pc[t], node[t], shouldBe, freeListRefs)

\* A marked block that was left to others is referenced by one of them.
LeftIsHeld == \A b \in Left : freeListRefs[b] > 0

\* The inductive invariant.
IInv == /\ TypeOK /\ InitialExist /\ LocalsSound /\ ListLinear
        /\ InPlaces /\ Marks /\ RefsCounted /\ LeftIsHeld

-----------------------------------------------------------------------------
(* The list *)

Pointers == Blocks \cup {Null}
Links == [Blocks -> Pointers]

\* Reach is closed, and every closed set of blocks holds it.
LEMMA ReachLeast ==
  ASSUME NEW h \in Pointers, NEW n \in Links
  PROVE  /\ Reach(h, n) \subseteq Blocks /\ Closed(Reach(h, n), h, n)
         /\ \A S \in SUBSET Blocks : Closed(S, h, n) => Reach(h, n) \subseteq S
<1>1. /\ Reach(h, n) \subseteq Blocks
      /\ \A S \in SUBSET Blocks : Closed(S, h, n) => Reach(h, n) \subseteq S
  BY DEF Reach
<1>2. h \in Reach(h, n) \cup {Null}
  BY DEF Reach, Closed, Pointers
<1>3. ASSUME NEW b \in Reach(h, n) PROVE n[b] \in Reach(h, n) \cup {Null}
  <2>1. n[b] \in Blocks \cup {Null}
    BY <1>1 DEF Links, Pointers
  <2>2. ASSUME NEW S \in SUBSET Blocks, Closed(S, h, n) PROVE n[b] \in S \cup {Null}
    BY <1>1, <2>2 DEF Closed
  <2> QED
    BY <2>1, <2>2 DEF Reach
<1> QED
  BY <1>1, <1>2, <1>3 DEF Closed

\* The next pointer of a block that is not on the list may change.
LEMMA ReachKept ==
  ASSUME NEW h \in Pointers, NEW n \in Links, NEW m \in Links,
         \A b \in Reach(h, n) : m[b] = n[b]
  PROVE  Reach(h, m) = Reach(h, n)
<1> DEFINE R == Reach(h, n)
           Q == Reach(h, m)
<1>1. R \subseteq Blocks /\ Closed(R, h, n) /\ \A S \in SUBSET Blocks : Closed(S, h, n) => R \subseteq S
  BY ReachLeast
<1>2. Q \subseteq Blocks /\ Closed(Q, h, m) /\ \A S \in SUBSET Blocks : Closed(S, h, m) => Q \subseteq S
  BY ReachLeast
<1>3. Closed(R, h, m)
  BY <1>1 DEF Closed
<1>4. Closed(R \cap Q, h, n)
  BY <1>1, <1>2 DEF Closed
<1> QED
  BY <1>1, <1>2, <1>3, <1>4

\* A new first block.
LEMMA ReachPush ==
  ASSUME NEW h \in Pointers, NEW n \in Links, NEW b \in Blocks, n[b] = h
  PROVE  Reach(b, n) = Reach(h, n) \cup {b}
<1> DEFINE R == Reach(h, n)
           Q == Reach(b, n)
<1>0. b \in Pointers
  BY DEF Pointers
<1>1. R \subseteq Blocks /\ Closed(R, h, n) /\ \A S \in SUBSET Blocks : Closed(S, h, n) => R \subseteq S
  BY ReachLeast
<1>2. Q \subseteq Blocks /\ Closed(Q, b, n) /\ \A S \in SUBSET Blocks : Closed(S, b, n) => Q \subseteq S
  BY <1>0, ReachLeast
<1>3. Closed(R \cup {b}, b, n)
  BY <1>1 DEF Closed
<1>4. b \in Q
  BY <1>2 DEF Closed, Blocks, Null
<1>5. Closed(Q, h, n)
  BY <1>2, <1>4 DEF Closed
<1> QED
  BY <1>1, <1>2, <1>3, <1>4, <1>5

\* The first block is taken off a list in which no pointer leads back to it.
LEMMA ReachPop ==
  ASSUME NEW h \in Blocks, NEW n \in Links, \A b \in Reach(h, n) : n[b] # h
  PROVE  h \in Reach(h, n) /\ Reach(n[h], n) = Reach(h, n) \ {h}
<1> DEFINE R == Reach(h, n)
           Q == Reach(n[h], n)
<1>0. h \in Pointers /\ n[h] \in Pointers
  BY DEF Pointers, Links
<1>1. R \subseteq Blocks /\ Closed(R, h, n) /\ \A S \in SUBSET Blocks : Closed(S, h, n) => R \subseteq S
  BY <1>0, ReachLeast
<1>2. Q \subseteq Blocks /\ Closed(Q, n[h], n) /\ \A S \in SUBSET Blocks : Closed(S, n[h], n) => Q \subseteq S
  BY <1>0, ReachLeast
<1>3. h \in R
  BY <1>1 DEF Closed, Blocks, Null
<1>4. Closed(R \ {h}, n[h], n)
  BY <1>1, <1>3 DEF Closed
<1>5. Closed(Q \cup {h}, h, n)
  BY <1>2 DEF Closed
<1> QED
  BY <1>1, <1>2, <1>3, <1>4, <1>5

-----------------------------------------------------------------------------
(* Where the blocks are *)

\* A step of t leaves the other threads alone.
Others(t) == \A u \in Threads : u # t =>
    /\ pc'[u] = pc[u] /\ head'[u] = head[u] /\ node'[u] = node[u] /\ next'[u] = next[u]
    /\ owned'[u] = owned[u]

\* The blocks that are being pushed are those some thread pushes.
LEMMA PushedMembers ==
  \A b : b \in Pushed <=> \E t \in Threads : b \in Pushes(t)
BY DEF Pushed, Pushes, At

\* A marked block is being pushed or is left; Has and the list hold no block
\* that is left.
LEMMA MarkedPlaces ==
  ASSUME TypeOK, InPlaces
  PROVE  /\ \A t \in Threads : \A b \in owned[t] \cup Takes(t) : b \notin shouldBe
         /\ \A t, u \in Threads : \A b \in Pushes(t) : t # u => b \notin Has(u)
         /\ OnList \cap shouldBe = {}
<1>1. ASSUME NEW t \in Threads, NEW b \in owned[t] \cup Takes(t) PROVE b \notin shouldBe
  <2>1. \A u \in Threads : b \notin Pushes(u)
    BY <1>1 DEF InPlaces, Has, Takes, Pushes, PushSteps
  <2> QED
    BY <1>1, <2>1, PushedMembers DEF InPlaces, Has, Left
<1>2. OnList \cap shouldBe = {}
  <2>1. ASSUME NEW b \in OnList PROVE b \notin Pushed
    BY PushedMembers DEF InPlaces, Has
  <2> QED
    BY <2>1 DEF InPlaces, Left
<1> QED
  BY <1>1, <1>2 DEF InPlaces, Has

\* Nothing moves.
LEMMA PlacesKept ==
  ASSUME InPlaces, \A u \in Threads : Pushes(u)' = Pushes(u) /\ Takes(u)' = Takes(u),
         UNCHANGED <<owned, shouldBe, created>>, OnList' = OnList, Handed' = Handed
  PROVE  InPlaces' /\ Left' = Left
<1>1. Pushed' = Pushed
  <2>1. \A b : b \in Pushed' <=> \E u \in Threads : b \in Pushes(u)'
    BY DEF Pushed, Pushes, At
  <2> QED
    BY <2>1, PushedMembers
<1>2. Left' = Left
  BY <1>1 DEF Left
<1>3. \A u \in Threads : Has(u)' = Has(u)
  BY DEF Has
<1> QED
  BY <1>2, <1>3 DEF InPlaces

\* Block b moves from t, from the list, from being left or from nowhere to one
\* place.
LEMMA PlacesMove ==
  ASSUME TypeOK, InPlaces, NEW t \in Threads, NEW b \in Blocks, Others(t),
         \A x \in Blocks \ {b} :
            /\ x \in owned'[t] <=> x \in owned[t]
            /\ x \in Takes(t)' <=> x \in Takes(t)
            /\ x \in Pushes(t)' <=> x \in Pushes(t)
            /\ x \in OnList' <=> x \in OnList
            /\ x \in shouldBe' <=> x \in shouldBe
            /\ x \in Handed' <=> x \in Handed,
         b \in Has(t) \/ b \in OnList \/ b \in Left \/ b \notin Handed,
         Has(t)' \subseteq Blocks, OnList' \subseteq Blocks, shouldBe' \subseteq Blocks,
         b \in Handed',
         b \in owned'[t] => b \notin Takes(t)' /\ b \notin Pushes(t)',
         b \in Has(t)' => b \notin OnList' /\ (b \notin shouldBe' \/ b \in Pushes(t)'),
         b \in OnList' => b \notin shouldBe',
         b \in Has(t)' \/ b \in OnList' \/ b \in shouldBe'
  PROVE  InPlaces' /\ Left' \ {b} = Left \ {b} /\ (b \in Left' => b \notin Has(t)')
<1>1. \A u \in Threads \ {t} : Takes(u)' = Takes(u) /\ Pushes(u)' = Pushes(u) /\ Has(u)' = Has(u)
  BY DEF Others, Takes, Pushes, Has
<1>2. \A u \in Threads \ {t} : b \notin Has(u)
  BY DEF InPlaces
<1>3. \A x : x \in Pushed' <=> \E u \in Threads : x \in Pushes(u)'
  BY DEF Pushed, Pushes, At
<1>4. b \in Pushed' <=> b \in Pushes(t)'
  BY <1>1, <1>2, <1>3 DEF Has
<1>5. \A x \in Blocks \ {b} : x \in Pushed' <=> x \in Pushed
  BY <1>1, <1>3, PushedMembers
<1>6. \A x \in Blocks \ {b} : x \in Left' <=> x \in Left
  BY <1>5 DEF Left
<1>7. b \in Left' <=> b \in shouldBe' /\ b \notin Pushes(t)'
  BY <1>4 DEF Left
<1>8. Left \subseteq Blocks /\ Left' \subseteq Blocks /\ OnList \subseteq Blocks
  BY DEF Left, TypeOK, OnList, Reach
<1>9. \A x \in Blocks \ {b} : x \in Has(t)' <=> x \in Has(t)
  BY DEF Has
<1>10. b \in Has(t)' => b \notin OnList' /\ b \notin Left'
  BY <1>7
<1>11. b \in OnList' => b \notin Left'
  BY <1>7
<1>12. b \in Has(t)' \/ b \in OnList' \/ b \in Left'
  BY <1>7 DEF Has
<1>13. \A u \in Threads : owned'[u] \cap (Takes(u)' \cup Pushes(u)') = {}
  <2>1. ASSUME NEW u \in Threads, u # t PROVE owned'[u] \cap (Takes(u)' \cup Pushes(u)') = {}
    BY <1>1, <2>1 DEF InPlaces, Others
  <2>2. owned'[t] \cap (Takes(t)' \cup Pushes(t)') = {}
    BY DEF InPlaces, Has
  <2> QED
    BY <2>1, <2>2
<1>14. \A u, v \in Threads : u # v => Has(u)' \cap Has(v)' = {}
  BY <1>1, <1>2, <1>9 DEF InPlaces
<1>15. \A u \in Threads : Has(u)' \cap OnList' = {} /\ Has(u)' \cap Left' = {}
  BY <1>1, <1>2, <1>6, <1>8, <1>9, <1>10 DEF InPlaces
<1>16. OnList' \cap Left' = {}
  BY <1>6, <1>8, <1>11 DEF InPlaces
<1>17. \A x \in Blocks : x \in Handed' <=>
          (\E u \in Threads : x \in Has(u)') \/ x \in OnList' \/ x \in Left'
  <2>1. ASSUME NEW x \in Blocks \ {b}
        PROVE  x \in Handed' <=> (\E u \in Threads : x \in Has(u)') \/ x \in OnList' \/ x \in Left'
    <3>1. (\E u \in Threads : x \in Has(u)') <=> (\E u \in Threads : x \in Has(u))
      BY <1>1, <1>9
    <3> QED
      BY <1>6, <3>1 DEF InPlaces
  <2> QED
    BY <1>12, <2>1
<1>18. Left' \ {b} = Left \ {b}
  BY <1>6, <1>8
<1> QED
  BY <1>10, <1>13, <1>14, <1>15, <1>16, <1>17, <1>18 DEF InPlaces

-----------------------------------------------------------------------------
(* The references *)

Following(b) == {t \in At({"next", "take", "taken"}) : head[t] = b}
Dropping(b) == {t \in At({"drop", "link", "unlink"}) : node[t] = b}
Removing(b) == {t \in At({"taken"}) : head[t] = b}

\* The references to b that a thread with these locals accounts for, and the list's.
Weight(p, hd, nd, b) ==
    (IF p \in {"next", "take", "taken"} /\ hd = b THEN 1 ELSE 0)
    + (IF p \in {"drop", "link", "unlink"} /\ nd = b THEN 1 ELSE 0)
    + (IF p = "taken" /\ hd = b THEN 1 ELSE 0)
Bit(b, L) == IF b \in L THEN 1 ELSE 0

\* The sets that freeListRefs counts are finite.
LEMMA Sizes ==
  ASSUME NEW b
  PROVE  /\ IsFiniteSet(Following(b)) /\ Cardinality(Following(b)) \in Nat
         /\ IsFiniteSet(Dropping(b)) /\ Cardinality(Dropping(b)) \in Nat
         /\ IsFiniteSet(Removing(b)) /\ Cardinality(Removing(b)) \in Nat
         /\ Cardinality({b} \cap OnList) = Bit(b, OnList)
<1>1. IsFiniteSet(Following(b)) /\ IsFiniteSet(Dropping(b)) /\ IsFiniteSet(Removing(b))
  BY PoolThreadsAssumption, FS_Subset DEF Following, Dropping, Removing, At
<1>2. b \in OnList => {b} \cap OnList = {b}
  OBVIOUS
<1>3. b \notin OnList => {b} \cap OnList = {}
  OBVIOUS
<1>4. Cardinality({b} \cap OnList) = Bit(b, OnList)
  BY <1>2, <1>3, FS_EmptySet, FS_Singleton DEF Bit
<1> QED
  BY <1>1, <1>4, FS_CardinalityType

\* The size of a set of threads that t may enter or leave.
LEMMA SizeMoves ==
  ASSUME NEW F, NEW G, IsFiniteSet(F), NEW t, G \ {t} = F \ {t}
  PROVE  Cardinality(G) = Cardinality(F) + Bit(t, G) - Bit(t, F)
<1>0. Cardinality(F) \in Nat
  BY FS_CardinalityType
<1>1. CASE t \in F /\ t \in G
  <2>1. G = F
    BY <1>1
  <2> QED
    BY <1>0, <1>1, <2>1 DEF Bit
<1>2. CASE t \notin F /\ t \notin G
  <2>1. G = F
    BY <1>2
  <2> QED
    BY <1>0, <1>2, <2>1 DEF Bit
<1>3. CASE t \in F /\ t \notin G
  <2>1. G = F \ {t}
    BY <1>3
  <2>2. Cardinality(G) = Cardinality(F) - 1
    BY <1>3, <2>1, FS_RemoveElement
  <2> QED
    BY <1>0, <1>3, <2>2 DEF Bit
<1>4. CASE t \notin F /\ t \in G
  <2>1. G = F \cup {t}
    BY <1>4
  <2>2. Cardinality(G) = Cardinality(F) + 1
    BY <1>4, <2>1, FS_AddElement
  <2> QED
    BY <1>0, <1>4, <2>2 DEF Bit
<1> QED
  BY <1>1, <1>2, <1>3, <1>4

\* The count stays right if it changes with what t and the list account for.
LEMMA RefsStep ==
  ASSUME TypeOK, RefsCounted, NEW t \in Threads, Others(t),
         freeListRefs' \in [Blocks -> Int],
         \A b \in Blocks : freeListRefs'[b] =
            freeListRefs[b] + Weight(pc'[t], head'[t], node'[t], b)
                            - Weight(pc[t], head[t], node[t], b)
                            + Bit(b, OnList') - Bit(b, OnList)
  PROVE  RefsCounted'
<1> SUFFICES ASSUME NEW b \in Blocks
             PROVE  freeListRefs'[b] = Cardinality(Following(b)') + Cardinality(Dropping(b)')
                       + Cardinality(Removing(b)') + Cardinality({b} \cap OnList')
  BY DEF RefsCounted, Following, Dropping, Removing
<1>1. freeListRefs[b] = Cardinality(Following(b)) + Cardinality(Dropping(b))
                          + Cardinality(Removing(b)) + Bit(b, OnList)
  BY Sizes DEF RefsCounted, Following, Dropping, Removing
<1>2. Cardinality({b} \cap OnList') = Bit(b, OnList')
  <2>1. b \in OnList' => {b} \cap OnList' = {b}
    OBVIOUS
  <2>2. b \notin OnList' => {b} \cap OnList' = {}
    OBVIOUS
  <2> QED
    BY <2>1, <2>2, FS_EmptySet, FS_Singleton DEF Bit
<1>3. /\ Following(b)' \ {t} = Following(b) \ {t}
      /\ Dropping(b)' \ {t} = Dropping(b) \ {t}
      /\ Removing(b)' \ {t} = Removing(b) \ {t}
  BY DEF Others, Following, Dropping, Removing, At
<1>4. /\ Cardinality(Following(b)') = Cardinality(Following(b)) + Bit(t, Following(b)') - Bit(t, Following(b))
      /\ Cardinality(Dropping(b)') = Cardinality(Dropping(b)) + Bit(t, Dropping(b)') - Bit(t, Dropping(b))
      /\ Cardinality(Removing(b)') = Cardinality(Removing(b)) + Bit(t, Removing(b)') - Bit(t, Removing(b))
  BY <1>3, Sizes, SizeMoves
<1>5. Weight(pc[t], head[t], node[t], b)
        = Bit(t, Following(b)) + Bit(t, Dropping(b)) + Bit(t, Removing(b))
  BY DEF Weight, Bit, Following, Dropping, Removing, At
<1>6. Weight(pc'[t], head'[t], node'[t], b)
        = Bit(t, Following(b)') + Bit(t, Dropping(b)') + Bit(t, Removing(b)')
  BY DEF Weight, Bit, Following, Dropping, Removing, At
<1>7. /\ Bit(t, Following(b)) \in Nat /\ Bit(t, Dropping(b)) \in Nat /\ Bit(t, Removing(b)) \in Nat
      /\ Bit(t, Following(b)') \in Nat /\ Bit(t, Dropping(b)') \in Nat /\ Bit(t, Removing(b)') \in Nat
      /\ Bit(b, OnList) \in Nat /\ Bit(b, OnList') \in Nat
  BY DEF Bit
<1>8. /\ Cardinality(Following(b)) \in Nat /\ Cardinality(Dropping(b)) \in Nat
      /\ Cardinality(Removing(b)) \in Nat
  BY Sizes
<1> QED
  BY <1>1, <1>2, <1>4, <1>5, <1>6, <1>7, <1>8

\* A reference that somebody holds is counted.
LEMMA Referenced ==
  ASSUME TypeOK, RefsCounted, NEW b \in Blocks, NEW t \in Threads
  PROVE  /\ freeListRefs[b] >= Weight(pc[t], head[t], node[t], b) + Bit(b, OnList)
         /\ freeListRefs[b] \in Nat
<1>1. freeListRefs[b] = Cardinality(Following(b)) + Cardinality(Dropping(b))
                          + Cardinality(Removing(b)) + Bit(b, OnList)
  BY Sizes DEF RefsCounted, Following, Dropping, Removing
<1>2. /\ IsFiniteSet(Following(b)) /\ Cardinality(Following(b)) \in Nat
      /\ IsFiniteSet(Dropping(b)) /\ Cardinality(Dropping(b)) \in Nat
      /\ IsFiniteSet(Removing(b)) /\ Cardinality(Removing(b)) \in Nat
  BY Sizes
<1>3. /\ t \in Following(b) => Cardinality(Following(b)) # 0
      /\ t \in Dropping(b) => Cardinality(Dropping(b)) # 0
      /\ t \in Removing(b) => Cardinality(Removing(b)) # 0
  BY <1>2, FS_EmptySet
<1>4. Weight(pc[t], head[t], node[t], b)
        = Bit(t, Following(b)) + Bit(t, Dropping(b)) + Bit(t, Removing(b))
  BY DEF Weight, Bit, Following, Dropping, Removing, At
<1>5. /\ Bit(t, Following(b)) <= Cardinality(Following(b))
      /\ Bit(t, Dropping(b)) <= Cardinality(Dropping(b))
      /\ Bit(t, Removing(b)) <= Cardinality(Removing(b))
      /\ Bit(t, Following(b)) \in Nat /\ Bit(t, Dropping(b)) \in Nat /\ Bit(t, Removing(b)) \in Nat
      /\ Bit(b, OnList) \in Nat
  BY <1>2, <1>3 DEF Bit
<1> QED
  BY <1>1, <1>2, <1>4, <1>5 DEF TypeOK

-----------------------------------------------------------------------------
(* The steps *)

\* A step of t leaves the local variables of the others alone.
LEMMA OnlyOneThread ==
  ASSUME TypeOK, NEW t \in Threads,
         \/ Requisition(t) \/ TakeInitial(t) \/ Create(t)
         \/ LoadHead(t) \/ AddRef(t) \/ LoadNext(t) \/ Take(t) \/ Taken(t) \/ Drop(t)
         \/ \E b \in owned[t] : Add(t, b)
         \/ PushLoad(t) \/ PushStore(t) \/ PushRefs(t) \/ PushLink(t) \/ PushUndo(t)
  PROVE  Others(t)
<1> USE DEF TypeOK, Others, Goto, Own, Forget, locals
<1>1. CASE Requisition(t)
  BY <1>1 DEF Requisition
<1>2. CASE TakeInitial(t)
  BY <1>2 DEF TakeInitial
<1>3. CASE Create(t)
  BY <1>3 DEF Create
<1>4. CASE LoadHead(t)
  BY <1>4 DEF LoadHead
<1>5. CASE AddRef(t)
  BY <1>5 DEF AddRef
<1>6. CASE LoadNext(t)
  BY <1>6 DEF LoadNext
<1>7. CASE Take(t)
  BY <1>7 DEF Take
<1>8. CASE Taken(t)
  BY <1>8 DEF Taken
<1>9. CASE Drop(t)
  BY <1>9 DEF Drop
<1>10. ASSUME NEW b \in owned[t], Add(t, b) PROVE Others(t)
  BY <1>10 DEF Add
<1>11. CASE PushLoad(t)
  BY <1>11 DEF PushLoad
<1>12. CASE PushStore(t)
  BY <1>12 DEF PushStore
<1>13. CASE PushRefs(t)
  BY <1>13 DEF PushRefs
<1>14. CASE PushLink(t)
  BY <1>14 DEF PushLink, PushDone
<1>15. CASE PushUndo(t)
  BY <1>15 DEF PushUndo, PushDone
<1> QED
  BY <1>1, <1>2, <1>3, <1>4, <1>5, <1>6, <1>7, <1>8, <1>9, <1>10, <1>11, <1>12, <1>13, <1>14, <1>15

\* The list depends on its head and its next pointers only.
LEMMA ListSame ==
  ASSUME UNCHANGED <<freeListHead, freeListNext>>
  PROVE  OnList' = OnList
BY DEF OnList

\* The list consists of blocks.
LEMMA ListType ==
  ASSUME TypeOK
  PROVE  freeListHead \in Pointers /\ freeListNext \in Links /\ OnList \subseteq Blocks
BY DEF TypeOK, Pointers, Links, OnList, Reach

\* A step of t that moves neither a block nor a reference: t is in a part of its
\* call that has none, or goes on with what it has.
LEMMA QuietStep ==
  ASSUME IInv, TypeOK', NEW t \in Threads, Others(t),
         UNCHANGED <<list, owned, created>>, Handed' = Handed,
         \/ /\ pc[t] \notin PushSteps \cup {"next", "take", "taken", "drop"}
            /\ pc'[t] \notin PushSteps \cup {"next", "take", "taken", "drop"}
         \/ /\ UNCHANGED <<head, node>>
            /\ pc[t] \in {"next", "take"} /\ pc'[t] \in {"next", "take"}
         \/ /\ UNCHANGED <<head, node>>
            /\ pc[t] \in {"push", "store"} /\ pc'[t] \in {"push", "store"},
         LocalOK(pc'[t], head'[t], node'[t], next'[t], freeListNext)
  PROVE  IInv'
<1> USE DEF IInv
<1>1. OnList' = OnList
  BY ListSame DEF list
<1>2. InitialExist' /\ ListLinear'
  BY <1>1 DEF InitialExist, ListLinear, list
<1>3. LocalsSound'
  BY DEF LocalsSound, Others, list
<1>4. \A u \in Threads : Pushes(u)' = Pushes(u) /\ Takes(u)' = Takes(u)
  <2>1. ASSUME NEW u \in Threads, u # t PROVE Pushes(u)' = Pushes(u) /\ Takes(u)' = Takes(u)
    BY <2>1 DEF Others, Pushes, Takes
  <2>2. Pushes(t)' = Pushes(t) /\ Takes(t)' = Takes(t)
    BY DEF Pushes, Takes, PushSteps
  <2> QED
    BY <2>1, <2>2
<1>5. InPlaces' /\ Left' = Left
  BY <1>1, <1>4, PlacesKept DEF list
<1>6. Marks'
  <2>1. MarkOK(pc'[t], node'[t], shouldBe, freeListRefs)
    BY DEF Marks, MarkOK, PushSteps
  <2> QED
    BY <2>1 DEF Marks, Others, list
<1>7. RefsCounted'
  <2>1. \A b \in Blocks :
          Weight(pc'[t], head'[t], node'[t], b) = Weight(pc[t], head[t], node[t], b)
    BY DEF Weight, PushSteps
  <2>2. \A b \in Blocks : /\ Weight(pc[t], head[t], node[t], b) \in Int
                          /\ Bit(b, OnList) \in Int /\ freeListRefs[b] \in Int
    BY DEF Weight, Bit, TypeOK
  <2>3. freeListRefs' = freeListRefs /\ freeListRefs' \in [Blocks -> Int]
    BY DEF list, TypeOK
  <2> QED
    BY <1>1, <2>1, <2>2, <2>3, RefsStep
<1>8. LeftIsHeld'
  BY <1>5 DEF LeftIsHeld, list
<1> QED
  BY <1>2, <1>3, <1>5, <1>6, <1>7, <1>8

\* The steps that only read.
LEMMA ReadSteps ==
  ASSUME IInv, NEW t \in Threads,
         \/ Requisition(t) \/ LoadHead(t) \/ LoadNext(t) \/ PushLoad(t)
  PROVE  IInv'
<1>0. Others(t) /\ TypeOK /\ LocalOK(pc[t], head[t], node[t], next[t], freeListNext)
  BY OnlyOneThread DEF IInv, LocalsSound
<1>1. UNCHANGED <<list, owned, created>> /\ Handed' = Handed
  BY DEF Requisition, LoadHead, LoadNext, PushLoad, pool, Handed
<1>2. CASE Requisition(t)
  <2>1. TypeOK'
    BY <1>0, <1>2 DEF TypeOK, Requisition, Goto, pool, list, locals
  <2>2. pc[t] = "idle" /\ pc'[t] \in {"get", "pool"}
    BY <1>0, <1>2 DEF TypeOK, Requisition, Goto
  <2>3. LocalOK(pc'[t], head'[t], node'[t], next'[t], freeListNext)
    BY <2>2 DEF LocalOK, PushSteps
  <2> QED
    BY <1>0, <1>1, <2>1, <2>2, <2>3, QuietStep DEF PushSteps
<1>3. CASE LoadHead(t)
  <2>1. TypeOK'
    BY <1>0, <1>3 DEF TypeOK, LoadHead, Loop, Goto, pool, list
  <2>2. /\ pc[t] = "get" /\ head'[t] = freeListHead
        /\ pc'[t] = IF freeListHead = Null THEN "create" ELSE "ref"
    BY <1>0, <1>3 DEF TypeOK, LoadHead, Loop, Goto
  <2>3. LocalOK(pc'[t], head'[t], node'[t], next'[t], freeListNext)
    BY <2>2 DEF LocalOK, PushSteps
  <2> QED
    BY <1>0, <1>1, <2>1, <2>2, <2>3, QuietStep DEF PushSteps
<1>4. CASE LoadNext(t)
  <2>1. pc[t] = "next" /\ head[t] \in Blocks
    BY <1>0, <1>4 DEF TypeOK, LoadNext, Goto, LocalOK
  <2>2. TypeOK'
    BY <1>0, <1>4, <2>1 DEF TypeOK, LoadNext, Goto, pool, list
  <2>3. /\ pc'[t] = "take" /\ next'[t] = freeListNext[head[t]]
        /\ UNCHANGED <<head, node>>
    BY <1>0, <1>4 DEF TypeOK, LoadNext, Goto
  <2>4. LocalOK(pc'[t], head'[t], node'[t], next'[t], freeListNext)
    BY <1>0, <2>1, <2>3 DEF LocalOK, PushSteps
  <2> QED
    BY <1>0, <1>1, <2>1, <2>2, <2>3, <2>4, QuietStep
<1>5. CASE PushLoad(t)
  <2>1. TypeOK'
    BY <1>0, <1>5 DEF TypeOK, PushLoad, Goto, pool, list
  <2>2. pc[t] = "push" /\ pc'[t] = "store" /\ UNCHANGED <<head, node>>
    BY <1>0, <1>5 DEF TypeOK, PushLoad, Goto
  <2>3. LocalOK(pc'[t], head'[t], node'[t], next'[t], freeListNext)
    BY <1>0, <2>2 DEF LocalOK, PushSteps
  <2> QED
    BY <1>0, <1>1, <2>1, <2>2, <2>3, QuietStep
<1> QED
  BY <1>2, <1>3, <1>4, <1>5

\* t gets a block that had not been handed out.
LEMMA NewBlockStep ==
  ASSUME IInv, NEW t \in Threads, NEW b \in Blocks, b \notin Handed, Handed' = Handed \cup {b},
         Others(t), TypeOK', InitialExist', UNCHANGED <<list, locals>>,
         pc[t] \in {"pool", "create"}, pc'[t] = "idle",
         owned'[t] = owned[t] \cup {b}
  PROVE  IInv'
<1> USE DEF IInv
<1>1. OnList' = OnList /\ OnList \subseteq Blocks
  BY ListSame, ListType DEF list
<1>2. ListLinear' /\ LocalsSound'
  <2>1. LocalOK(pc'[t], head'[t], node'[t], next'[t], freeListNext)
    BY DEF LocalOK, PushSteps
  <2> QED
    BY <1>1, <2>1 DEF ListLinear, LocalsSound, Others, list
<1>3. Takes(t) = {} /\ Takes(t)' = {} /\ Pushes(t) = {} /\ Pushes(t)' = {}
  BY DEF Takes, Pushes, PushSteps
<1>4. Has(t)' = owned'[t] /\ Has(t)' \subseteq Blocks
  BY <1>3 DEF Has, TypeOK
<1>5. b \notin OnList /\ b \notin Left /\ b \notin Pushed /\ b \notin shouldBe
  BY PushedMembers DEF InPlaces, Has, Left
<1>6. InPlaces' /\ Left' \ {b} = Left \ {b} /\ b \notin Left'
  BY <1>1, <1>3, <1>4, <1>5, PlacesMove DEF list, TypeOK
<1>7. Marks'
  <2>1. MarkOK(pc'[t], node'[t], shouldBe, freeListRefs)
    BY DEF MarkOK
  <2> QED
    BY <2>1 DEF Marks, Others, list
<1>8. RefsCounted'
  <2>1. \A x \in Blocks : /\ Weight(pc'[t], head'[t], node'[t], x) = 0
                          /\ Weight(pc[t], head[t], node[t], x) = 0
                          /\ Bit(x, OnList) \in Int /\ freeListRefs[x] \in Int
    BY DEF Weight, Bit, TypeOK
  <2>2. freeListRefs' = freeListRefs /\ freeListRefs' \in [Blocks -> Int]
    BY DEF list, TypeOK
  <2> QED
    BY <1>1, <2>1, <2>2, RefsStep
<1>9. LeftIsHeld'
  BY <1>6 DEF LeftIsHeld, list
<1> QED
  BY <1>2, <1>6, <1>7, <1>8, <1>9

\* try_get_block_from_initial_pool: a block of the initial pool, or none is left.
LEMMA TakeInitialStep == ASSUME IInv, NEW t \in Threads, TakeInitial(t) PROVE IInv'
<1>0. Others(t) /\ TypeOK /\ initialBlockPoolIndex \in Nat
      /\ initialBlockPoolSize \in Nat /\ initialBlockPoolSize <= MaxBlocks
  BY OnlyOneThread, PoolSizeAssumption DEF IInv, TypeOK
<1>1. /\ initialBlockPoolIndex' = initialBlockPoolIndex + 1
      /\ pc[t] = "pool" /\ UNCHANGED <<created, list, locals>>
  BY DEF TakeInitial
<1>2. \A b \in created : b \in Nat
  BY <1>0 DEF TypeOK, Blocks
<1>3. CASE initialBlockPoolIndex < initialBlockPoolSize
  <2> DEFINE b == initialBlockPoolIndex + 1
  <2>1. b \in Blocks /\ b \in 1..initialBlockPoolSize /\ b \in created
    BY <1>0, <1>3, PoolSizeAssumption DEF Blocks, IInv, InitialExist
  <2>2. b \notin Handed /\ Handed' = Handed \cup {b}
    BY <1>0, <1>1, <1>2, <2>1 DEF Handed
  <2>3. pc'[t] = "idle" /\ pc' = [pc EXCEPT ![t] = "idle"]
        /\ owned' = [owned EXCEPT ![t] = @ \cup {b}]
    BY <1>0, <1>3 DEF TakeInitial, Goto, Own, TypeOK
  <2> HIDE DEF b
  <2>4. owned'[t] = owned[t] \cup {b}
    BY <1>0, <2>3 DEF TypeOK
  <2>5. TypeOK'
    BY <1>0, <1>1, <2>1, <2>3 DEF TypeOK, list, locals
  <2>6. InitialExist'
    BY <1>1 DEF IInv, InitialExist
  <2> QED
    BY <1>0, <1>1, <2>1, <2>2, <2>3, <2>4, <2>5, <2>6, NewBlockStep
<1>4. CASE ~(initialBlockPoolIndex < initialBlockPoolSize)
  <2>1. Handed' = Handed
    BY <1>0, <1>1, <1>2, <1>4 DEF Handed
  <2>2. pc'[t] = "get" /\ pc' = [pc EXCEPT ![t] = "get"] /\ owned' = owned
    BY <1>0, <1>4 DEF TakeInitial, Goto, TypeOK
  <2>3. TypeOK'
    BY <1>0, <1>1, <2>2 DEF TypeOK, list, locals
  <2>4. LocalOK(pc'[t], head'[t], node'[t], next'[t], freeListNext)
    BY <2>2 DEF LocalOK, PushSteps
  <2> QED
    BY <1>0, <1>1, <2>1, <2>2, <2>3, <2>4, QuietStep DEF PushSteps
<1> QED
  BY <1>3, <1>4

\* create: a new block, or no memory.
LEMMA CreateStep == ASSUME IInv, NEW t \in Threads, Create(t) PROVE IInv'
<1>0. Others(t) /\ TypeOK
  BY OnlyOneThread DEF IInv
<1>1. /\ pc[t] = "create" /\ pc'[t] = "idle" /\ pc' = [pc EXCEPT ![t] = "idle"]
      /\ UNCHANGED <<initialBlockPoolIndex, list, locals>>
  BY <1>0 DEF Create, Goto, TypeOK
<1>2. ASSUME NEW b \in Blocks \ created, created' = created \cup {b}, Own(t, b) PROVE IInv'
  <2>1. b \notin Handed /\ b \notin 1..initialBlockPoolSize
    BY <1>2 DEF Handed, IInv, InitialExist
  <2>2. ~(b <= initialBlockPoolSize /\ b > initialBlockPoolIndex)
    BY <1>2, <2>1, PoolSizeAssumption DEF Blocks
  <2>3. Handed' = Handed \cup {b}
    BY <1>1, <1>2, <2>2 DEF Handed
  <2>4. owned'[t] = owned[t] \cup {b} /\ owned' = [owned EXCEPT ![t] = @ \cup {b}]
    BY <1>0, <1>2 DEF Own, TypeOK
  <2>5. TypeOK'
    BY <1>0, <1>1, <1>2, <2>4 DEF TypeOK, list, locals
  <2>6. InitialExist'
    BY <1>2 DEF IInv, InitialExist
  <2> QED
    BY <1>0, <1>1, <1>2, <2>1, <2>3, <2>4, <2>5, <2>6, NewBlockStep
<1>3. CASE UNCHANGED <<created, owned>>
  <2>1. Handed' = Handed
    BY <1>1, <1>3 DEF Handed
  <2>2. TypeOK'
    BY <1>0, <1>1, <1>3 DEF TypeOK, list, locals
  <2>3. LocalOK(pc'[t], head'[t], node'[t], next'[t], freeListNext)
    BY <1>1 DEF LocalOK, PushSteps
  <2> QED
    BY <1>0, <1>1, <1>3, <2>1, <2>2, <2>3, QuietStep DEF PushSteps
<1> QED
  BY <1>2, <1>3 DEF Create

\* A step of t that moves no block and changes no link: the count of block b
\* follows what t holds of it, and does not go down to nothing if it is left.
LEMMA CountStep ==
  ASSUME IInv, TypeOK', NEW t \in Threads, NEW b \in Blocks, Others(t),
         UNCHANGED <<pool, freeListHead, freeListNext, shouldBe, owned>>,
         Takes(t) = {}, Takes(t)' = {}, Pushes(t)' = Pushes(t),
         \A x \in Blocks : freeListRefs'[x] = freeListRefs[x]
            + Weight(pc'[t], head'[t], node'[t], x) - Weight(pc[t], head[t], node[t], x),
         \A x \in Blocks \ {b} : freeListRefs'[x] = freeListRefs[x],
         freeListRefs[b] > 0,
         b \in Left => freeListRefs'[b] > 0,
         LocalOK(pc'[t], head'[t], node'[t], next'[t], freeListNext),
         MarkOK(pc'[t], node'[t], shouldBe, freeListRefs')
  PROVE  IInv'
<1> USE DEF IInv
<1>1. OnList' = OnList
  BY ListSame
<1>2. InitialExist' /\ ListLinear' /\ Handed' = Handed
  BY <1>1 DEF InitialExist, ListLinear, Handed, pool
<1>3. LocalsSound'
  BY DEF LocalsSound, Others
<1>4. \A u \in Threads : Pushes(u)' = Pushes(u) /\ Takes(u)' = Takes(u)
  <2>1. ASSUME NEW u \in Threads, u # t PROVE Pushes(u)' = Pushes(u) /\ Takes(u)' = Takes(u)
    BY <2>1 DEF Others, Pushes, Takes
  <2> QED
    BY <2>1
<1>5. InPlaces' /\ Left' = Left
  BY <1>1, <1>2, <1>4, PlacesKept DEF pool
<1>6. Marks'
  <2>1. ASSUME NEW u \in Threads, u # t PROVE MarkOK(pc'[u], node'[u], shouldBe', freeListRefs')
    <3>1. pc'[u] = pc[u] /\ node'[u] = node[u] /\ MarkOK(pc[u], node[u], shouldBe, freeListRefs)
      BY <2>1 DEF Others, Marks
    <3>2. pc[u] \in PushSteps => node[u] \in Blocks
      BY DEF TypeOK, LocalsSound, LocalOK
    <3> QED
      BY <3>1, <3>2 DEF MarkOK, PushSteps
  <2> QED
    BY <2>1 DEF Marks
<1>7. RefsCounted'
  <2>1. \A x \in Blocks : /\ Weight(pc[t], head[t], node[t], x) \in Int
                          /\ Weight(pc'[t], head'[t], node'[t], x) \in Int
                          /\ Bit(x, OnList) \in Int /\ freeListRefs[x] \in Int
    BY DEF Weight, Bit, TypeOK
  <2>2. freeListRefs' \in [Blocks -> Int]
    BY DEF TypeOK
  <2> QED
    BY <1>1, <2>1, <2>2, RefsStep
<1>8. LeftIsHeld'
  <2>1. Left \subseteq Blocks
    BY DEF Left, TypeOK
  <2> QED
    BY <1>5, <2>1 DEF LeftIsHeld
<1> QED
  BY <1>2, <1>3, <1>5, <1>6, <1>7, <1>8

\* try_get: the head gets a reference, unless its count is zero.
LEMMA AddRefStep == ASSUME IInv, NEW t \in Threads, AddRef(t) PROVE IInv'
<1> DEFINE b == head[t]
<1>0. Others(t) /\ TypeOK /\ LocalOK(pc[t], head[t], node[t], next[t], freeListNext)
  BY OnlyOneThread DEF IInv, LocalsSound
<1>1. /\ pc[t] = "ref" /\ b \in Blocks /\ freeListRefs[b] \in Nat
      /\ UNCHANGED <<pool, freeListHead, freeListNext, shouldBe, owned, locals>>
  BY <1>0 DEF AddRef, LocalOK, TypeOK
<1>2. CASE freeListRefs[b] = 0
  <2>1. pc' = [pc EXCEPT ![t] = "get"] /\ pc'[t] = "get" /\ UNCHANGED <<list, owned, created>>
        /\ Handed' = Handed
    BY <1>0, <1>1, <1>2 DEF AddRef, Goto, TypeOK, list, pool, Handed
  <2>2. TypeOK'
    BY <1>0, <1>1, <2>1 DEF TypeOK, list, locals, pool
  <2>3. LocalOK(pc'[t], head'[t], node'[t], next'[t], freeListNext)
    BY <2>1 DEF LocalOK, PushSteps
  <2> QED
    BY <1>0, <1>1, <2>1, <2>2, <2>3, QuietStep DEF PushSteps
<1>3. CASE freeListRefs[b] # 0
  <2>1. /\ pc' = [pc EXCEPT ![t] = "next"] /\ pc'[t] = "next"
        /\ freeListRefs' = [freeListRefs EXCEPT ![b] = @ + 1]
    BY <1>0, <1>3 DEF AddRef, Goto, TypeOK
  <2>2. head'[t] = b /\ node'[t] = node[t] /\ next'[t] = next[t]
    BY <1>1 DEF locals
  <2> HIDE DEF b
  <2>3. TypeOK'
    BY <1>0, <1>1, <2>1 DEF TypeOK, locals, pool
  <2>4. Takes(t) = {} /\ Takes(t)' = {} /\ Pushes(t)' = {} /\ Pushes(t) = {}
    BY <1>1, <2>1 DEF Takes, Pushes, PushSteps
  <2>5. \A x \in Blocks : freeListRefs'[x] = freeListRefs[x] + (IF x = b THEN 1 ELSE 0)
    BY <1>0, <1>1, <2>1 DEF TypeOK
  <2>6. \A x \in Blocks : /\ Weight(pc'[t], head'[t], node'[t], x) = IF x = b THEN 1 ELSE 0
                          /\ Weight(pc[t], head[t], node[t], x) = 0
    BY <1>1, <2>1, <2>2 DEF Weight
  <2>7. \A x \in Blocks : freeListRefs[x] \in Nat
    BY <1>0 DEF TypeOK
  <2>8. LocalOK(pc'[t], head'[t], node'[t], next'[t], freeListNext)
    BY <1>0, <1>1, <2>1, <2>2 DEF LocalOK, PushSteps, b
  <2>9. MarkOK(pc'[t], node'[t], shouldBe, freeListRefs')
    BY <2>1 DEF MarkOK
  <2>10. /\ \A x \in Blocks : freeListRefs'[x] = freeListRefs[x]
            + Weight(pc'[t], head'[t], node'[t], x) - Weight(pc[t], head[t], node[t], x)
         /\ \A x \in Blocks \ {b} : freeListRefs'[x] = freeListRefs[x]
         /\ freeListRefs[b] > 0 /\ freeListRefs'[b] > 0
    BY <1>1, <1>3, <2>5, <2>6, <2>7
  <2> QED
    BY <1>0, <1>1, <2>3, <2>4, <2>8, <2>9, <2>10, CountStep
<1> QED
  BY <1>2, <1>3

\* A step of t that moves block b, which t has or which is left, but not to or
\* from the list.
LEMMA MoveStep ==
  ASSUME IInv, TypeOK', NEW t \in Threads, NEW b \in Blocks, Others(t),
         UNCHANGED <<pool, freeListHead, freeListNext>>,
         \A x \in Blocks \ {b} :
            /\ x \in owned'[t] <=> x \in owned[t]
            /\ x \in Takes(t)' <=> x \in Takes(t)
            /\ x \in Pushes(t)' <=> x \in Pushes(t)
            /\ x \in shouldBe' <=> x \in shouldBe
            /\ freeListRefs'[x] = freeListRefs[x],
         b \in Has(t) \/ b \in Left,
         b \in owned'[t] => b \notin Takes(t)' /\ b \notin Pushes(t)',
         b \in owned'[t] \cup Takes(t)' => b \notin shouldBe',
         b \in Has(t)' \/ b \in shouldBe',
         \A x \in Blocks : freeListRefs'[x] = freeListRefs[x]
            + Weight(pc'[t], head'[t], node'[t], x) - Weight(pc[t], head[t], node[t], x),
         b \in shouldBe' /\ b \notin Pushes(t)' => freeListRefs'[b] > 0,
         LocalOK(pc'[t], head'[t], node'[t], next'[t], freeListNext),
         MarkOK(pc'[t], node'[t], shouldBe', freeListRefs')
  PROVE  IInv'
<1> USE DEF IInv
<1>1. OnList' = OnList /\ OnList \subseteq Blocks
  BY ListSame, ListType
<1>2. InitialExist' /\ ListLinear' /\ Handed' = Handed
  BY <1>1 DEF InitialExist, ListLinear, Handed, pool
<1>3. LocalsSound'
  BY DEF LocalsSound, Others
<1>4. Has(t)' \subseteq Blocks
  <2>1. Takes(t)' \subseteq Blocks /\ Pushes(t)' \subseteq Blocks
    BY DEF Takes, Pushes, LocalOK, TypeOK, Null, PushSteps
  <2> QED
    BY <2>1 DEF Has, TypeOK
<1>5. b \in Handed /\ b \notin OnList
  BY DEF InPlaces
<1>6. b \in Has(t)' => b \notin shouldBe' \/ b \in Pushes(t)'
  BY DEF Has
<1>7. InPlaces' /\ Left' \ {b} = Left \ {b} /\ (b \in Left' => b \notin Has(t)')
  BY <1>1, <1>2, <1>4, <1>5, <1>6, PlacesMove DEF TypeOK
<1>8. Marks'
  <2>1. ASSUME NEW u \in Threads, u # t PROVE MarkOK(pc'[u], node'[u], shouldBe', freeListRefs')
    <3>1. pc'[u] = pc[u] /\ node'[u] = node[u] /\ MarkOK(pc[u], node[u], shouldBe, freeListRefs)
      BY <2>1 DEF Others, Marks
    <3>2. pc[u] \in PushSteps => node[u] \in Blocks /\ node[u] # b
      BY <2>1 DEF TypeOK, LocalsSound, LocalOK, InPlaces, Has, Pushes
    <3> QED
      BY <3>1, <3>2 DEF MarkOK, PushSteps
  <2> QED
    BY <2>1 DEF Marks
<1>9. RefsCounted'
  <2>1. \A x \in Blocks : /\ Weight(pc[t], head[t], node[t], x) \in Int
                          /\ Weight(pc'[t], head'[t], node'[t], x) \in Int
                          /\ Bit(x, OnList) \in Int /\ freeListRefs[x] \in Int
    BY DEF Weight, Bit, TypeOK
  <2>2. freeListRefs' \in [Blocks -> Int]
    BY DEF TypeOK
  <2> QED
    BY <1>1, <2>1, <2>2, RefsStep
<1>10. LeftIsHeld'
  <2>1. Left' \subseteq Blocks
    BY DEF Left, TypeOK
  <2>2. b \in Left' => b \in shouldBe' /\ b \notin Pushes(t)'
    BY <1>7 DEF Left, Has
  <2> QED
    BY <1>7, <2>1, <2>2 DEF LeftIsHeld
<1> QED
  BY <1>2, <1>3, <1>7, <1>8, <1>9, <1>10

\* try_get: the two references of the block that was taken are given up.
LEMMA TakenStep == ASSUME IInv, NEW t \in Threads, Taken(t) PROVE IInv'
<1> DEFINE b == head[t]
<1>0. Others(t) /\ TypeOK /\ LocalOK(pc[t], head[t], node[t], next[t], freeListNext)
      /\ RefsCounted /\ InPlaces
  BY OnlyOneThread DEF IInv, LocalsSound
<1>1. /\ pc[t] = "taken" /\ b \in Blocks
      /\ UNCHANGED <<pool, freeListHead, freeListNext, shouldBe, node>>
      /\ pc' = [pc EXCEPT ![t] = "idle"] /\ pc'[t] = "idle"
      /\ freeListRefs' = [freeListRefs EXCEPT ![b] = @ - 2]
      /\ owned' = [owned EXCEPT ![t] = @ \cup {b}]
      /\ head' = [head EXCEPT ![t] = Null] /\ next' = [next EXCEPT ![t] = Null]
      /\ getting' = getting \ {t}
  BY <1>0 DEF Taken, Goto, Own, Forget, LocalOK, TypeOK
<1>2. Takes(t) = {b} /\ Takes(t)' = {} /\ Pushes(t) = {} /\ Pushes(t)' = {}
  BY <1>1 DEF Takes, Pushes, PushSteps
<1> HIDE DEF b
<1>3. Weight(pc[t], head[t], node[t], b) = 2
  BY <1>1 DEF Weight, b
<1>4. freeListRefs[b] >= 2 /\ freeListRefs[b] \in Nat
  <2>1. freeListRefs[b] >= 2 + Bit(b, OnList) /\ freeListRefs[b] \in Nat
    BY <1>0, <1>1, <1>3, Referenced
  <2> QED
    BY <2>1 DEF Bit
<1>5. \A x \in Blocks : /\ freeListRefs'[x] = freeListRefs[x] - (IF x = b THEN 2 ELSE 0)
                        /\ freeListRefs[x] \in Nat
  BY <1>0, <1>1, <1>4 DEF TypeOK
<1>6. TypeOK'
  BY <1>0, <1>1, <1>4 DEF TypeOK, pool
<1>7. \A x \in Blocks : /\ Weight(pc'[t], head'[t], node'[t], x) = 0
                        /\ Weight(pc[t], head[t], node[t], x) = IF x = b THEN 2 ELSE 0
  BY <1>1 DEF Weight, b
<1>8. \A x \in Blocks : freeListRefs'[x] = freeListRefs[x]
            + Weight(pc'[t], head'[t], node'[t], x) - Weight(pc[t], head[t], node[t], x)
  BY <1>5, <1>7
<1>9. owned'[t] = owned[t] \cup {b} /\ b \in Has(t) /\ b \in Has(t)'
  BY <1>0, <1>1, <1>2 DEF TypeOK, Has
<1>10. b \notin shouldBe
  BY <1>0, <1>2, MarkedPlaces
<1>11. LocalOK(pc'[t], head'[t], node'[t], next'[t], freeListNext)
       /\ MarkOK(pc'[t], node'[t], shouldBe', freeListRefs')
  BY <1>1 DEF LocalOK, MarkOK, PushSteps
<1>12. \A x \in Blocks \ {b} :
            /\ x \in owned'[t] <=> x \in owned[t]
            /\ x \in Takes(t)' <=> x \in Takes(t)
            /\ x \in Pushes(t)' <=> x \in Pushes(t)
            /\ x \in shouldBe' <=> x \in shouldBe
            /\ freeListRefs'[x] = freeListRefs[x]
  BY <1>1, <1>2, <1>5, <1>9
<1> QED
  BY <1>0, <1>1, <1>2, <1>6, <1>8, <1>9, <1>10, <1>11, <1>12, MoveStep

\* try_get: the reference to a head that has changed is given up; whoever
\* gives up the last one of a marked block pushes it.
LEMMA DropStep == ASSUME IInv, NEW t \in Threads, Drop(t) PROVE IInv'
<1> DEFINE b == node[t]
           last == freeListRefs[b] = 1 /\ b \in shouldBe
<1>0. Others(t) /\ TypeOK /\ LocalOK(pc[t], head[t], node[t], next[t], freeListNext)
      /\ RefsCounted /\ InPlaces
  BY OnlyOneThread DEF IInv, LocalsSound
<1>1. /\ pc[t] = "drop" /\ b \in Blocks
      /\ UNCHANGED <<pool, freeListHead, freeListNext, shouldBe, owned, head>>
      /\ freeListRefs' = [freeListRefs EXCEPT ![b] = @ - 1]
      /\ next' = [next EXCEPT ![t] = Null]
      /\ getting' \subseteq Threads
  BY <1>0 DEF Drop, Goto, Forget, LocalOK, TypeOK
<1>2. last => pc' = [pc EXCEPT ![t] = "push"] /\ node' = node
  BY DEF Drop, Goto
<1>3. ~last => pc' = [pc EXCEPT ![t] = Loop(head[t])] /\ node' = [node EXCEPT ![t] = Null]
  BY DEF Drop, Goto, Forget
<1>4. Takes(t) = {} /\ Pushes(t) = {} /\ head'[t] = head[t] /\ owned'[t] = owned[t]
  BY <1>1 DEF Takes, Pushes, PushSteps
<1>5. \A x \in Blocks : Weight(pc[t], head[t], node[t], x) = IF x = b THEN 1 ELSE 0
  BY <1>1 DEF Weight
<1>b. b = node[t]
  OBVIOUS
<1> HIDE DEF b
<1>6. freeListRefs[b] >= 1 /\ freeListRefs[b] \in Nat
  <2>1. freeListRefs[b] >= 1 + Bit(b, OnList) /\ freeListRefs[b] \in Nat
    BY <1>0, <1>1, <1>5, Referenced
  <2> QED
    BY <2>1 DEF Bit
<1>7. \A x \in Blocks : /\ freeListRefs'[x] = freeListRefs[x] - (IF x = b THEN 1 ELSE 0)
                        /\ freeListRefs[x] \in Nat
  BY <1>0, <1>1, <1>6 DEF TypeOK
<1>8. freeListRefs' \in [Blocks -> Nat]
  BY <1>0, <1>1, <1>6 DEF TypeOK
<1>9. \A x \in Blocks \ {b} : freeListRefs'[x] = freeListRefs[x]
  BY <1>7
<1>10. ASSUME \A x \in Blocks : Weight(pc'[t], head'[t], node'[t], x) = 0
       PROVE  \A x \in Blocks : freeListRefs'[x] = freeListRefs[x]
                 + Weight(pc'[t], head'[t], node'[t], x) - Weight(pc[t], head[t], node[t], x)
  BY <1>5, <1>7, <1>10
<1>11. CASE last
  <2>1. pc'[t] = "push" /\ node'[t] = b
    BY <1>0, <1>2, <1>11, <1>b DEF TypeOK
  <2>2. b \in Left
    <3>1. ASSUME NEW u \in Threads, b \in Pushes(u) PROVE FALSE
      <4>1. pc[u] \in PushSteps /\ node[u] = b
        BY <3>1 DEF Pushes
      <4>2. MarkOK(pc[u], node[u], shouldBe, freeListRefs)
        BY DEF IInv, Marks
      <4> QED
        BY <1>11, <4>1, <4>2 DEF MarkOK, PushSteps
    <3> QED
      BY <1>11, <3>1, PushedMembers DEF Left
  <2>3. TypeOK'
    BY <1>0, <1>1, <1>2, <1>8, <1>11 DEF TypeOK, pool
  <2>4. Takes(t)' = {} /\ Pushes(t)' = {b}
    BY <2>1 DEF Takes, Pushes, PushSteps
  <2>5. b \in Has(t)' /\ b \notin owned[t]
    BY <1>0, <1>11, <2>4, MarkedPlaces DEF Has
  <2>6. \A x \in Blocks : Weight(pc'[t], head'[t], node'[t], x) = 0
    BY <2>1 DEF Weight
  <2>7. LocalOK(pc'[t], head'[t], node'[t], next'[t], freeListNext)
    BY <1>1, <2>1 DEF LocalOK, PushSteps, Null, Blocks
  <2>8. MarkOK(pc'[t], node'[t], shouldBe', freeListRefs')
    BY <1>1, <1>7, <1>11, <2>1 DEF MarkOK
  <2>9. \A x \in Blocks \ {b} :
            /\ x \in owned'[t] <=> x \in owned[t]
            /\ x \in Takes(t)' <=> x \in Takes(t)
            /\ x \in Pushes(t)' <=> x \in Pushes(t)
            /\ x \in shouldBe' <=> x \in shouldBe
            /\ freeListRefs'[x] = freeListRefs[x]
    BY <1>1, <1>4, <1>9, <2>4
  <2> HIDE DEF last
  <2> QED
    BY <1>0, <1>1, <1>4, <1>10, <2>2, <2>3, <2>4, <2>5, <2>6, <2>7, <2>8, <2>9, MoveStep
<1>12. CASE ~last
  <2>1. pc'[t] = Loop(head[t]) /\ node'[t] = Null /\ pc'[t] \in {"create", "ref"}
        /\ (pc'[t] = "ref" => head[t] # Null)
    BY <1>0, <1>3, <1>12 DEF TypeOK, Loop
  <2>2. TypeOK'
    BY <1>0, <1>1, <1>3, <1>8, <1>12 DEF TypeOK, pool, Loop
  <2>3. Takes(t)' = {} /\ Pushes(t)' = {}
    BY <2>1 DEF Takes, Pushes, PushSteps
  <2>4. \A x \in Blocks : Weight(pc'[t], head'[t], node'[t], x) = 0
    BY <2>1 DEF Weight
  <2>5. LocalOK(pc'[t], head'[t], node'[t], next'[t], freeListNext)
    BY <1>4, <2>1 DEF LocalOK, PushSteps
  <2>6. MarkOK(pc'[t], node'[t], shouldBe, freeListRefs')
    BY <2>1 DEF MarkOK
  <2>7. b \in Left => freeListRefs'[b] > 0
    BY <1>1, <1>6, <1>7, <1>12 DEF Left
  <2>8. freeListRefs[b] > 0
    BY <1>6
  <2> HIDE DEF last
  <2> QED
    BY <1>0, <1>1, <1>4, <1>9, <1>10, <2>2, <2>3, <2>4, <2>5, <2>6, <2>7, <2>8, CountStep
<1> QED
  BY <1>11, <1>12

\* add: the block is marked, and is pushed if nobody refers to it.
LEMMA AddStep == ASSUME IInv, NEW t \in Threads, NEW b \in owned[t], Add(t, b) PROVE IInv'
<1> DEFINE free == freeListRefs[b] = 0
<1>0. Others(t) /\ TypeOK /\ InPlaces
  BY OnlyOneThread DEF IInv
<1>1. b \in Blocks /\ b \notin shouldBe /\ freeListRefs[b] \in Nat
  BY <1>0, MarkedPlaces DEF TypeOK
<1>2. /\ pc[t] = "idle"
      /\ UNCHANGED <<pool, freeListHead, freeListNext, freeListRefs, head, next, getting>>
      /\ pc' = [pc EXCEPT ![t] = IF free THEN "push" ELSE "idle"]
      /\ node' = IF free THEN [node EXCEPT ![t] = b] ELSE node
      /\ owned' = [owned EXCEPT ![t] = @ \ {b}]
      /\ shouldBe' = shouldBe \cup {b}
  BY <1>0, <1>1 DEF Add, Goto, TypeOK
<1>3. /\ pc'[t] = IF free THEN "push" ELSE "idle"
      /\ node'[t] = IF free THEN b ELSE node[t]
      /\ owned'[t] = owned[t] \ {b}
  BY <1>0, <1>2 DEF TypeOK
<1>4. Takes(t) = {} /\ Takes(t)' = {} /\ Pushes(t) = {} /\ Pushes(t)' = IF free THEN {b} ELSE {}
  BY <1>2, <1>3 DEF Takes, Pushes, PushSteps
<1>5. TypeOK'
  BY <1>0, <1>1, <1>2 DEF TypeOK, pool
<1>6. \A x \in Blocks : freeListRefs'[x] = freeListRefs[x]
            + Weight(pc'[t], head'[t], node'[t], x) - Weight(pc[t], head[t], node[t], x)
  <2>1. \A x \in Blocks : /\ Weight(pc'[t], head'[t], node'[t], x) = 0
                          /\ Weight(pc[t], head[t], node[t], x) = 0
                          /\ freeListRefs[x] \in Nat
    BY <1>0, <1>2, <1>3 DEF Weight, TypeOK
  <2> QED
    BY <1>2, <2>1
<1>7. LocalOK(pc'[t], head'[t], node'[t], next'[t], freeListNext)
  BY <1>1, <1>3 DEF LocalOK, PushSteps, Null, Blocks
<1>8. MarkOK(pc'[t], node'[t], shouldBe', freeListRefs')
  BY <1>2, <1>3 DEF MarkOK
<1>9. b \in Has(t) /\ b \in shouldBe' /\ b \notin owned'[t] \cup Takes(t)'
  BY <1>2, <1>3, <1>4 DEF Has
<1>10. b \notin Pushes(t)' => freeListRefs'[b] > 0
  BY <1>1, <1>2, <1>4
<1>11. \A x \in Blocks \ {b} :
            /\ x \in owned'[t] <=> x \in owned[t]
            /\ x \in Takes(t)' <=> x \in Takes(t)
            /\ x \in Pushes(t)' <=> x \in Pushes(t)
            /\ x \in shouldBe' <=> x \in shouldBe
            /\ freeListRefs'[x] = freeListRefs[x]
  BY <1>2, <1>3, <1>4
<1> QED
  BY <1>0, <1>1, <1>2, <1>5, <1>6, <1>7, <1>8, <1>9, <1>10, <1>11, MoveStep

\* add_knowing_refcount_is_zero: freeListRefs is stored and the mark goes.
LEMMA PushRefsStep == ASSUME IInv, NEW t \in Threads, PushRefs(t) PROVE IInv'
<1> DEFINE b == node[t]
<1>0. Others(t) /\ TypeOK /\ LocalOK(pc[t], head[t], node[t], next[t], freeListNext)
      /\ MarkOK(pc[t], node[t], shouldBe, freeListRefs) /\ InPlaces
  BY OnlyOneThread DEF IInv, LocalsSound, Marks
<1>1. /\ pc[t] = "setrefs" /\ b \in Blocks /\ freeListRefs[b] = 0
      /\ UNCHANGED <<pool, freeListHead, freeListNext, owned, locals>>
      /\ pc' = [pc EXCEPT ![t] = "link"] /\ pc'[t] = "link"
      /\ freeListRefs' = [freeListRefs EXCEPT ![b] = 1]
      /\ shouldBe' = shouldBe \ {b}
  BY <1>0 DEF PushRefs, Goto, LocalOK, MarkOK, PushSteps, TypeOK
<1>2. head'[t] = head[t] /\ node'[t] = b /\ next'[t] = next[t] /\ owned'[t] = owned[t]
  BY <1>1 DEF locals
<1>3. Takes(t) = {} /\ Takes(t)' = {} /\ Pushes(t) = {b} /\ Pushes(t)' = {b}
  BY <1>1, <1>2 DEF Takes, Pushes, PushSteps
<1>4. \A x \in Blocks : /\ Weight(pc'[t], head'[t], node'[t], x) = IF x = b THEN 1 ELSE 0
                        /\ Weight(pc[t], head[t], node[t], x) = 0
  BY <1>1, <1>2 DEF Weight
<1>5. LocalOK(pc'[t], head'[t], node'[t], next'[t], freeListNext)
      /\ MarkOK(pc'[t], node'[t], shouldBe', freeListRefs')
  BY <1>0, <1>1, <1>2 DEF LocalOK, MarkOK, PushSteps
<1> HIDE DEF b
<1>6. \A x \in Blocks : /\ freeListRefs'[x] = IF x = b THEN 1 ELSE freeListRefs[x]
                        /\ freeListRefs[x] \in Nat
  BY <1>0, <1>1 DEF TypeOK
<1>7. TypeOK'
  BY <1>0, <1>1 DEF TypeOK, pool, locals
<1>8. \A x \in Blocks : freeListRefs'[x] = freeListRefs[x]
            + Weight(pc'[t], head'[t], node'[t], x) - Weight(pc[t], head[t], node[t], x)
  BY <1>1, <1>4, <1>6
<1>9. b \in Has(t) /\ b \in Has(t)' /\ b \notin owned[t] /\ b \notin shouldBe'
  BY <1>0, <1>1, <1>3 DEF Has, InPlaces
<1>10. \A x \in Blocks \ {b} :
            /\ x \in owned'[t] <=> x \in owned[t]
            /\ x \in Takes(t)' <=> x \in Takes(t)
            /\ x \in Pushes(t)' <=> x \in Pushes(t)
            /\ x \in shouldBe' <=> x \in shouldBe
            /\ freeListRefs'[x] = freeListRefs[x]
  BY <1>1, <1>2, <1>3, <1>6
<1> QED
  BY <1>0, <1>1, <1>2, <1>3, <1>5, <1>7, <1>8, <1>9, <1>10, MoveStep

\* add_knowing_refcount_is_zero: the exchange has failed and the mark is set
\* again.
LEMMA PushUndoStep == ASSUME IInv, NEW t \in Threads, PushUndo(t) PROVE IInv'
<1> DEFINE b == node[t]
           alone == freeListRefs[b] = 1
<1>0. Others(t) /\ TypeOK /\ LocalOK(pc[t], head[t], node[t], next[t], freeListNext)
      /\ MarkOK(pc[t], node[t], shouldBe, freeListRefs) /\ RefsCounted /\ InPlaces
  BY OnlyOneThread DEF IInv, LocalsSound, Marks
<1>1. /\ pc[t] = "unlink" /\ b \in Blocks /\ b \notin shouldBe
      /\ UNCHANGED <<pool, freeListHead, freeListNext, owned, head>>
      /\ freeListRefs' = [freeListRefs EXCEPT ![b] = @ - 1]
      /\ shouldBe' = shouldBe \cup {b}
  BY <1>0 DEF PushUndo, LocalOK, MarkOK, PushSteps, TypeOK
<1>2. alone => pc' = [pc EXCEPT ![t] = "store"] /\ UNCHANGED <<getting, node, next>>
  BY <1>1 DEF PushUndo, Goto
<1>3. ~alone => /\ pc' = [pc EXCEPT ![t] = IF t \in getting THEN Loop(head[t]) ELSE "idle"]
                /\ node' = [node EXCEPT ![t] = Null] /\ next' = [next EXCEPT ![t] = Null]
                /\ getting' \in {getting, getting \ {t}}
  BY <1>1 DEF PushUndo, PushDone, Goto, Forget
<1>4. Takes(t) = {} /\ Pushes(t) = {b} /\ head'[t] = head[t] /\ owned'[t] = owned[t]
  BY <1>1 DEF Takes, Pushes, PushSteps
<1>5. \A x \in Blocks : Weight(pc[t], head[t], node[t], x) = IF x = b THEN 1 ELSE 0
  BY <1>1 DEF Weight
<1>b. b = node[t]
  OBVIOUS
<1> HIDE DEF b
<1>6. freeListRefs[b] >= 1 /\ freeListRefs[b] \in Nat
  <2>1. freeListRefs[b] >= 1 + Bit(b, OnList) /\ freeListRefs[b] \in Nat
    BY <1>0, <1>1, <1>5, Referenced
  <2> QED
    BY <2>1 DEF Bit
<1>7. \A x \in Blocks : /\ freeListRefs'[x] = freeListRefs[x] - (IF x = b THEN 1 ELSE 0)
                        /\ freeListRefs[x] \in Nat
  BY <1>0, <1>1, <1>6 DEF TypeOK
<1>8. freeListRefs' \in [Blocks -> Nat]
  BY <1>0, <1>1, <1>6 DEF TypeOK
<1>9. b \in Has(t) /\ b \notin owned[t]
  BY <1>0, <1>4 DEF Has, InPlaces
<1>10. ASSUME \A x \in Blocks : Weight(pc'[t], head'[t], node'[t], x) = 0
       PROVE  \A x \in Blocks : freeListRefs'[x] = freeListRefs[x]
                 + Weight(pc'[t], head'[t], node'[t], x) - Weight(pc[t], head[t], node[t], x)
  BY <1>5, <1>7, <1>10
<1>11. ASSUME Takes(t)' = {}, Pushes(t)' \in {{}, {b}}
       PROVE  \A x \in Blocks \ {b} :
                 /\ x \in owned'[t] <=> x \in owned[t]
                 /\ x \in Takes(t)' <=> x \in Takes(t)
                 /\ x \in Pushes(t)' <=> x \in Pushes(t)
                 /\ x \in shouldBe' <=> x \in shouldBe
                 /\ freeListRefs'[x] = freeListRefs[x]
  BY <1>1, <1>4, <1>7, <1>11
<1>12. CASE alone
  <2>1. pc'[t] = "store" /\ node'[t] = b
    BY <1>0, <1>2, <1>12, <1>b DEF TypeOK
  <2>2. TypeOK'
    BY <1>0, <1>1, <1>2, <1>8, <1>12 DEF TypeOK, pool
  <2>3. Takes(t)' = {} /\ Pushes(t)' = {b}
    BY <2>1 DEF Takes, Pushes, PushSteps
  <2>4. \A x \in Blocks : Weight(pc'[t], head'[t], node'[t], x) = 0
    BY <2>1 DEF Weight
  <2>5. LocalOK(pc'[t], head'[t], node'[t], next'[t], freeListNext)
    BY <1>1, <2>1 DEF LocalOK, PushSteps, Null, Blocks
  <2>6. MarkOK(pc'[t], node'[t], shouldBe', freeListRefs')
    BY <1>1, <1>7, <1>12, <2>1 DEF MarkOK
  <2>7. b \in shouldBe'
    BY <1>1
  <2> HIDE DEF alone
  <2> QED
    BY <1>0, <1>1, <1>4, <1>9, <1>10, <1>11, <2>2, <2>3, <2>4, <2>5, <2>6, <2>7, MoveStep
<1>13. CASE ~alone
  <2>1. /\ node'[t] = Null /\ pc'[t] \in {"create", "ref", "idle"}
        /\ (pc'[t] = "ref" => head[t] # Null)
    BY <1>0, <1>3, <1>13 DEF TypeOK, Loop
  <2>2. TypeOK'
    BY <1>0, <1>1, <1>3, <1>8, <1>13 DEF TypeOK, pool, Loop
  <2>3. Takes(t)' = {} /\ Pushes(t)' = {}
    BY <2>1 DEF Takes, Pushes, PushSteps
  <2>4. \A x \in Blocks : Weight(pc'[t], head'[t], node'[t], x) = 0
    BY <2>1 DEF Weight
  <2>5. LocalOK(pc'[t], head'[t], node'[t], next'[t], freeListNext)
    BY <1>4, <2>1 DEF LocalOK, PushSteps
  <2>6. MarkOK(pc'[t], node'[t], shouldBe', freeListRefs')
    BY <2>1 DEF MarkOK
  <2>7. b \in shouldBe' /\ freeListRefs'[b] > 0
    BY <1>1, <1>6, <1>7, <1>13
  <2> HIDE DEF alone
  <2> QED
    BY <1>0, <1>1, <1>4, <1>9, <1>10, <1>11, <2>2, <2>3, <2>4, <2>5, <2>6, <2>7, MoveStep
<1> QED
  BY <1>12, <1>13

\* The next pointer of a block changes only while nobody can follow it: its
\* count is zero, so no thread is between taking a reference and the exchange.
LEMMA PushStoreStep == ASSUME IInv, NEW t \in Threads, PushStore(t) PROVE IInv'
<1> DEFINE b == node[t]
<1>0. Others(t) /\ TypeOK /\ LocalOK(pc[t], head[t], node[t], next[t], freeListNext)
      /\ MarkOK(pc[t], node[t], shouldBe, freeListRefs) /\ RefsCounted /\ InPlaces
  BY OnlyOneThread DEF IInv, LocalsSound, Marks
<1>1. /\ pc[t] = "store" /\ b \in Blocks /\ b \in shouldBe /\ freeListRefs[b] = 0
      /\ UNCHANGED <<pool, freeListHead, freeListRefs, shouldBe, owned, locals>>
      /\ pc' = [pc EXCEPT ![t] = "setrefs"] /\ pc'[t] = "setrefs"
      /\ freeListNext' = [freeListNext EXCEPT ![b] = next[t]]
  BY <1>0 DEF PushStore, Goto, LocalOK, MarkOK, PushSteps, TypeOK
<1>2. head'[t] = head[t] /\ node'[t] = b /\ next'[t] = next[t]
  BY <1>1 DEF locals
<1>3. Takes(t) = {} /\ Takes(t)' = {} /\ Pushes(t) = {b} /\ Pushes(t)' = {b}
  BY <1>1, <1>2 DEF Takes, Pushes, PushSteps
<1>4. \A x \in Blocks : /\ Weight(pc'[t], head'[t], node'[t], x) = 0
                        /\ Weight(pc[t], head[t], node[t], x) = 0
  BY <1>1 DEF Weight
<1> HIDE DEF b
<1>5. TypeOK'
  BY <1>0, <1>1 DEF TypeOK, pool, locals
<1>6. freeListNext'[b] = next[t] /\ \A x \in Blocks \ {b} : freeListNext'[x] = freeListNext[x]
  BY <1>0, <1>1 DEF TypeOK
<1>7. b \notin OnList
  BY <1>0, <1>3 DEF InPlaces, Has
<1>8. OnList' = OnList /\ OnList \subseteq Blocks
  <2>1. freeListHead \in Pointers /\ freeListNext \in Links /\ OnList \subseteq Blocks
    BY <1>0, ListType
  <2>2. freeListNext' \in Links
    BY <1>5 DEF TypeOK, Links, Pointers
  <2>3. \A x \in Reach(freeListHead, freeListNext) : freeListNext'[x] = freeListNext[x]
    BY <1>6, <1>7, <2>1 DEF OnList
  <2>4. Reach(freeListHead, freeListNext') = Reach(freeListHead, freeListNext)
    BY <2>1, <2>2, <2>3, ReachKept
  <2> QED
    BY <1>1, <2>1, <2>4 DEF OnList
<1>9. InitialExist' /\ Handed' = Handed
  BY <1>1 DEF IInv, InitialExist, Handed, pool
<1>10. ListLinear'
  BY <1>1, <1>6, <1>7, <1>8 DEF IInv, ListLinear
<1>11. LocalsSound'
  <2>1. LocalOK(pc'[t], head'[t], node'[t], next'[t], freeListNext')
    BY <1>1, <1>2, <1>6 DEF LocalOK, PushSteps, Null, Blocks
  <2>2. ASSUME NEW u \in Threads, u # t
        PROVE  LocalOK(pc'[u], head'[u], node'[u], next'[u], freeListNext')
    <3>1. pc'[u] = pc[u] /\ head'[u] = head[u] /\ node'[u] = node[u] /\ next'[u] = next[u]
          /\ LocalOK(pc[u], head[u], node[u], next[u], freeListNext)
      BY <1>0, <2>2 DEF Others, IInv, LocalsSound
    <3>2. pc[u] = "take" => head[u] \in Blocks \ {b}
      <4>1. CASE pc[u] = "take" /\ head[u] = b
        <5>1. Weight(pc[u], head[u], node[u], b) >= 1 /\ Bit(b, OnList) >= 0
              /\ Weight(pc[u], head[u], node[u], b) \in Int /\ Bit(b, OnList) \in Int
          BY <4>1 DEF Weight, Bit
        <5>2. freeListRefs[b] >= Weight(pc[u], head[u], node[u], b) + Bit(b, OnList)
          BY <1>0, <1>1, Referenced
        <5> QED
          BY <1>1, <5>1, <5>2
      <4> QED
        BY <1>0, <3>1, <4>1 DEF LocalOK, TypeOK
    <3>3. pc[u] \in {"setrefs", "link"} => node[u] \in Blocks \ {b}
      BY <1>0, <1>3, <2>2, <3>1 DEF LocalOK, TypeOK, InPlaces, Has, Pushes, PushSteps
    <3> QED
      BY <1>6, <3>1, <3>2, <3>3 DEF LocalOK
  <2> QED
    BY <2>1, <2>2 DEF LocalsSound
<1>12. InPlaces' /\ Left' = Left
  <2>1. ASSUME NEW u \in Threads, u # t PROVE Pushes(u)' = Pushes(u) /\ Takes(u)' = Takes(u)
    BY <1>0, <2>1 DEF Others, Pushes, Takes
  <2>2. \A u \in Threads : Pushes(u)' = Pushes(u) /\ Takes(u)' = Takes(u)
    BY <1>3, <2>1
  <2> QED
    BY <1>0, <1>1, <1>8, <1>9, <2>2, PlacesKept DEF pool
<1>13. Marks'
  <2>1. MarkOK(pc'[t], node'[t], shouldBe, freeListRefs)
    BY <1>1, <1>2 DEF MarkOK
  <2> QED
    BY <1>0, <1>1, <2>1 DEF IInv, Marks, Others
<1>14. RefsCounted'
  <2>1. \A x \in Blocks : Bit(x, OnList) \in Int /\ freeListRefs[x] \in Int
    BY <1>0 DEF Bit, TypeOK
  <2>2. freeListRefs' \in [Blocks -> Int]
    BY <1>5 DEF TypeOK
  <2>3. \A x \in Blocks : freeListRefs'[x] =
            freeListRefs[x] + Weight(pc'[t], head'[t], node'[t], x)
                            - Weight(pc[t], head[t], node[t], x)
                            + Bit(x, OnList') - Bit(x, OnList)
    BY <1>1, <1>4, <1>8, <2>1
  <2> QED
    BY <1>0, <2>2, <2>3, RefsStep
<1>15. LeftIsHeld'
  BY <1>1, <1>12 DEF IInv, LeftIsHeld
<1> QED
  BY <1>5, <1>9, <1>10, <1>11, <1>12, <1>13, <1>14, <1>15 DEF IInv

\* A step of t that moves the unmarked block b to or from the list.
LEMMA ListStep ==
  ASSUME IInv, TypeOK', NEW t \in Threads, NEW b \in Blocks, Others(t),
         UNCHANGED <<pool, freeListNext, freeListRefs, shouldBe, owned>>,
         \A x \in Blocks \ {b} :
            /\ x \in Takes(t)' <=> x \in Takes(t)
            /\ x \in Pushes(t)' <=> x \in Pushes(t)
            /\ x \in OnList' <=> x \in OnList,
         b \in Has(t) \/ b \in OnList, b \notin shouldBe, b \notin owned[t],
         b \in Has(t)' <=> b \notin OnList',
         \A x \in Blocks : Weight(pc'[t], head'[t], node'[t], x) + Bit(x, OnList')
                             = Weight(pc[t], head[t], node[t], x) + Bit(x, OnList),
         LocalOK(pc'[t], head'[t], node'[t], next'[t], freeListNext),
         MarkOK(pc'[t], node'[t], shouldBe, freeListRefs), ListLinear'
  PROVE  IInv'
<1> USE DEF IInv
<1>1. InitialExist' /\ Handed' = Handed
  BY DEF InitialExist, Handed, pool
<1>2. LocalsSound' /\ Marks'
  BY DEF LocalsSound, Marks, Others
<1>3. Has(t)' \subseteq Blocks /\ OnList' \subseteq Blocks
  <2>1. Takes(t)' \subseteq Blocks /\ Pushes(t)' \subseteq Blocks
    BY DEF Takes, Pushes, LocalOK, TypeOK, Null, PushSteps
  <2>2. OnList' \subseteq Blocks
    BY DEF OnList, Reach
  <2> QED
    BY <2>1, <2>2 DEF Has, TypeOK
<1>4. b \in Handed
  BY DEF InPlaces
<1>5. InPlaces' /\ Left' \ {b} = Left \ {b}
  BY <1>1, <1>3, <1>4, PlacesMove DEF TypeOK
<1>6. Left' \subseteq Left
  BY <1>5 DEF Left
<1>7. LeftIsHeld'
  BY <1>6 DEF LeftIsHeld
<1>8. RefsCounted'
  <2>1. \A x \in Blocks : /\ Weight(pc[t], head[t], node[t], x) \in Int
                          /\ Weight(pc'[t], head'[t], node'[t], x) \in Int
                          /\ Bit(x, OnList) \in Int /\ Bit(x, OnList') \in Int
                          /\ freeListRefs[x] \in Int
    BY DEF Weight, Bit, TypeOK
  <2>2. freeListRefs' = freeListRefs /\ freeListRefs' \in [Blocks -> Int]
    BY DEF TypeOK
  <2>3. \A x \in Blocks : freeListRefs'[x] =
            freeListRefs[x] + Weight(pc'[t], head'[t], node'[t], x)
                            - Weight(pc[t], head[t], node[t], x)
                            + Bit(x, OnList') - Bit(x, OnList)
    BY <2>1, <2>2
  <2> QED
    BY <2>2, <2>3, RefsStep
<1> QED
  BY <1>1, <1>2, <1>5, <1>7, <1>8

\* try_get: the exchange of the head.
LEMMA TakeStep == ASSUME IInv, NEW t \in Threads, Take(t) PROVE IInv'
<1> DEFINE b == head[t]
<1>0. Others(t) /\ TypeOK /\ LocalOK(pc[t], head[t], node[t], next[t], freeListNext)
      /\ RefsCounted /\ InPlaces /\ ListLinear
  BY OnlyOneThread DEF IInv, LocalsSound
<1>1. /\ pc[t] = "take" /\ b \in Blocks /\ next[t] = freeListNext[b]
      /\ UNCHANGED <<pool, freeListNext, freeListRefs, shouldBe, owned, next, getting>>
  BY <1>0 DEF Take, LocalOK, TypeOK
<1>2. Takes(t) = {} /\ Pushes(t) = {} /\ next'[t] = next[t]
  BY <1>1 DEF Takes, Pushes, PushSteps
<1>3. \A x \in Blocks : Weight(pc[t], head[t], node[t], x) = IF x = b THEN 1 ELSE 0
  BY <1>1 DEF Weight
<1>4. CASE freeListHead = b
  <2>1. /\ pc' = [pc EXCEPT ![t] = "taken"] /\ pc'[t] = "taken"
        /\ freeListHead' = freeListNext[b] /\ UNCHANGED <<head, node>>
    BY <1>0, <1>1, <1>4 DEF Take, Goto, TypeOK
  <2>2. TypeOK'
    BY <1>0, <1>1, <2>1 DEF TypeOK, pool
  <2>3. Takes(t)' = {b} /\ Pushes(t)' = {} /\ head'[t] = b
    BY <2>1 DEF Takes, Pushes, PushSteps
  <2>4. LocalOK(pc'[t], head'[t], node'[t], next'[t], freeListNext)
        /\ MarkOK(pc'[t], node'[t], shouldBe, freeListRefs)
    BY <1>1, <2>1, <2>3 DEF LocalOK, MarkOK, PushSteps, Null, Blocks
  <2>5. \A x \in Blocks : Weight(pc'[t], head'[t], node'[t], x) = IF x = b THEN 2 ELSE 0
    BY <2>1 DEF Weight
  <2> HIDE DEF b
  <2>6. b \in OnList /\ OnList' = OnList \ {b} /\ OnList \subseteq Blocks
    <3>1. freeListNext \in Links /\ OnList \subseteq Blocks
      BY <1>0, ListType
    <3>2. \A x \in Reach(b, freeListNext) : freeListNext[x] # b
      BY <1>0, <1>1, <1>4 DEF ListLinear, OnList, Null, Blocks
    <3>3. /\ b \in Reach(b, freeListNext)
          /\ Reach(freeListNext[b], freeListNext) = Reach(b, freeListNext) \ {b}
      BY <1>1, <3>1, <3>2, ReachPop
    <3> QED
      BY <1>1, <1>4, <2>1, <3>1, <3>3 DEF OnList
  <2>7. ListLinear'
    BY <1>0, <1>1, <2>1, <2>6 DEF ListLinear
  <2>8. b \notin shouldBe /\ b \notin owned[t]
    BY <1>0, <2>6, MarkedPlaces DEF InPlaces, Has
  <2>9. b \in Has(t)' /\ b \notin OnList'
    BY <2>3, <2>6 DEF Has
  <2>10. \A x \in Blocks : Weight(pc'[t], head'[t], node'[t], x) + Bit(x, OnList')
                             = Weight(pc[t], head[t], node[t], x) + Bit(x, OnList)
    BY <1>3, <2>5, <2>6 DEF Bit
  <2> QED
    BY <1>0, <1>1, <1>2, <2>2, <2>3, <2>4, <2>6, <2>7, <2>8, <2>9, <2>10, ListStep
<1>5. CASE freeListHead # b
  <2>1. /\ pc' = [pc EXCEPT ![t] = "drop"] /\ pc'[t] = "drop"
        /\ node' = [node EXCEPT ![t] = b] /\ node'[t] = b
        /\ head' = [head EXCEPT ![t] = freeListHead] /\ UNCHANGED freeListHead
    BY <1>0, <1>1, <1>5 DEF Take, Goto, TypeOK
  <2>2. TypeOK'
    BY <1>0, <1>1, <2>1 DEF TypeOK, pool
  <2>3. Takes(t)' = {} /\ Pushes(t)' = {}
    BY <2>1 DEF Takes, Pushes, PushSteps
  <2>4. LocalOK(pc'[t], head'[t], node'[t], next'[t], freeListNext)
        /\ MarkOK(pc'[t], node'[t], shouldBe, freeListRefs')
    BY <1>1, <2>1 DEF LocalOK, MarkOK, PushSteps, Null, Blocks
  <2>5. \A x \in Blocks : Weight(pc'[t], head'[t], node'[t], x) = IF x = b THEN 1 ELSE 0
    BY <2>1 DEF Weight
  <2>6. freeListRefs[b] > 0 /\ \A x \in Blocks : freeListRefs[x] \in Nat
    <3>1. freeListRefs[b] >= 1 + Bit(b, OnList) /\ freeListRefs[b] \in Nat
      BY <1>0, <1>1, <1>3, Referenced
    <3> QED
      BY <1>0, <3>1 DEF Bit, TypeOK
  <2> HIDE DEF b
  <2>7. /\ \A x \in Blocks : freeListRefs'[x] = freeListRefs[x]
            + Weight(pc'[t], head'[t], node'[t], x) - Weight(pc[t], head[t], node[t], x)
        /\ \A x \in Blocks \ {b} : freeListRefs'[x] = freeListRefs[x]
        /\ freeListRefs'[b] > 0
    BY <1>1, <1>3, <2>5, <2>6
  <2> QED
    BY <1>0, <1>1, <1>2, <2>1, <2>2, <2>3, <2>4, <2>6, <2>7, CountStep
<1> QED
  BY <1>4, <1>5

\* add_knowing_refcount_is_zero: the exchange of the head.
LEMMA PushLinkStep == ASSUME IInv, NEW t \in Threads, PushLink(t) PROVE IInv'
<1> DEFINE b == node[t]
<1>0. Others(t) /\ TypeOK /\ LocalOK(pc[t], head[t], node[t], next[t], freeListNext)
      /\ MarkOK(pc[t], node[t], shouldBe, freeListRefs)
      /\ RefsCounted /\ InPlaces /\ ListLinear
  BY OnlyOneThread DEF IInv, LocalsSound, Marks
<1>1. /\ pc[t] = "link" /\ b \in Blocks /\ next[t] = freeListNext[b] /\ b \notin shouldBe
      /\ UNCHANGED <<pool, freeListNext, freeListRefs, shouldBe, owned, head>>
  BY <1>0 DEF PushLink, LocalOK, MarkOK, PushSteps, TypeOK
<1>2. Takes(t) = {} /\ Pushes(t) = {b} /\ head'[t] = head[t]
  BY <1>1 DEF Takes, Pushes, PushSteps
<1>3. \A x \in Blocks : Weight(pc[t], head[t], node[t], x) = IF x = b THEN 1 ELSE 0
  BY <1>1 DEF Weight
<1>4. b \notin owned[t] /\ b \in Has(t) /\ b \notin OnList
  BY <1>0, <1>2 DEF InPlaces, Has
<1>5. CASE freeListHead = next[t]
  <2>1. /\ freeListHead' = b
        /\ pc' = [pc EXCEPT ![t] = IF t \in getting THEN Loop(head[t]) ELSE "idle"]
        /\ node' = [node EXCEPT ![t] = Null] /\ next' = [next EXCEPT ![t] = Null]
        /\ getting' \in {getting, getting \ {t}}
    BY <1>1, <1>5 DEF PushLink, PushDone, Goto, Forget
  <2>2. TypeOK'
    BY <1>0, <1>1, <2>1 DEF TypeOK, pool, Loop
  <2>3. /\ node'[t] = Null /\ pc'[t] \in {"create", "ref", "idle"}
        /\ (pc'[t] = "ref" => head[t] # Null)
    BY <1>0, <2>1 DEF TypeOK, Loop
  <2>4. Takes(t)' = {} /\ Pushes(t)' = {}
    BY <2>3 DEF Takes, Pushes, PushSteps
  <2>5. LocalOK(pc'[t], head'[t], node'[t], next'[t], freeListNext)
        /\ MarkOK(pc'[t], node'[t], shouldBe, freeListRefs)
    BY <1>2, <2>3 DEF LocalOK, MarkOK, PushSteps
  <2>6. \A x \in Blocks : Weight(pc'[t], head'[t], node'[t], x) = 0
    BY <2>3 DEF Weight
  <2> HIDE DEF b
  <2>7. OnList' = OnList \cup {b} /\ OnList \subseteq Blocks
    <3>1. freeListHead \in Pointers /\ freeListNext \in Links /\ OnList \subseteq Blocks
      BY <1>0, ListType
    <3>2. Reach(b, freeListNext) = Reach(freeListHead, freeListNext) \cup {b}
      BY <1>1, <1>5, <3>1, ReachPush
    <3> QED
      BY <1>1, <2>1, <3>1, <3>2 DEF OnList
  <2>8. ListLinear'
    <3>1. Closed(OnList, freeListHead, freeListNext)
      BY <1>0, ListType, ReachLeast DEF OnList
    <3>2. freeListHead # b /\ \A x \in OnList : freeListNext[x] # b
      BY <1>1, <1>4, <3>1 DEF Closed, Null, Blocks
    <3>3. freeListNext[b] = freeListHead
      BY <1>1, <1>5
    <3> QED
      BY <1>0, <1>1, <2>1, <2>7, <3>2, <3>3 DEF ListLinear
  <2>9. b \notin Has(t)' /\ b \in OnList'
    BY <1>1, <1>4, <2>4, <2>7 DEF Has
  <2>10. \A x \in Blocks : Weight(pc'[t], head'[t], node'[t], x) + Bit(x, OnList')
                             = Weight(pc[t], head[t], node[t], x) + Bit(x, OnList)
    BY <1>3, <1>4, <2>6, <2>7 DEF Bit
  <2> QED
    BY <1>0, <1>1, <1>2, <1>4, <2>2, <2>4, <2>5, <2>7, <2>8, <2>9, <2>10, ListStep
<1>6. CASE freeListHead # next[t]
  <2>1. /\ pc' = [pc EXCEPT ![t] = "unlink"] /\ pc'[t] = "unlink"
        /\ next' = [next EXCEPT ![t] = freeListHead]
        /\ UNCHANGED <<freeListHead, getting, node>> /\ node'[t] = b
    BY <1>0, <1>1, <1>6 DEF PushLink, Goto, TypeOK
  <2>2. TypeOK'
    BY <1>0, <1>1, <2>1 DEF TypeOK, pool
  <2>3. Takes(t)' = {} /\ Pushes(t)' = {b}
    BY <2>1 DEF Takes, Pushes, PushSteps
  <2>4. LocalOK(pc'[t], head'[t], node'[t], next'[t], freeListNext)
        /\ MarkOK(pc'[t], node'[t], shouldBe, freeListRefs')
    BY <1>1, <2>1 DEF LocalOK, MarkOK, PushSteps, Null, Blocks
  <2>5. \A x \in Blocks : Weight(pc'[t], head'[t], node'[t], x) = IF x = b THEN 1 ELSE 0
    BY <2>1 DEF Weight
  <2>6. freeListRefs[b] > 0 /\ \A x \in Blocks : freeListRefs[x] \in Nat
    <3>1. freeListRefs[b] >= 1 + Bit(b, OnList) /\ freeListRefs[b] \in Nat
      BY <1>0, <1>1, <1>3, Referenced
    <3> QED
      BY <1>0, <3>1 DEF Bit, TypeOK
  <2> HIDE DEF b
  <2>7. /\ \A x \in Blocks : freeListRefs'[x] = freeListRefs[x]
            + Weight(pc'[t], head'[t], node'[t], x) - Weight(pc[t], head[t], node[t], x)
        /\ \A x \in Blocks \ {b} : freeListRefs'[x] = freeListRefs[x]
        /\ freeListRefs'[b] > 0
    BY <1>1, <1>3, <2>5, <2>6
  <2> QED
    BY <1>0, <1>1, <1>2, <2>1, <2>2, <2>3, <2>4, <2>6, <2>7, CountStep
<1> QED
  BY <1>5, <1>6

\* The invariant holds in a queue nobody has used.
LEMMA InvInit == Init => IInv
<1> SUFFICES ASSUME Init PROVE IInv
  OBVIOUS
<1> USE DEF Init
<1>1. TypeOK
  <2>1. created \subseteq Blocks
    BY PoolSizeAssumption DEF Blocks
  <2> QED
    BY <2>1 DEF TypeOK
<1>2. OnList = {}
  <2>1. Closed({}, freeListHead, freeListNext)
    BY DEF Closed
  <2> QED
    BY <2>1 DEF OnList, Reach
<1>3. /\ \A t \in Threads : Takes(t) = {} /\ Pushes(t) = {} /\ Has(t) = {}
      /\ Pushed = {} /\ Left = {}
  BY DEF Takes, Pushes, Has, Pushed, Left, At, PushSteps
<1>4. Handed = {}
  BY PoolSizeAssumption DEF Handed
<1>5. InPlaces
  BY <1>2, <1>3, <1>4 DEF InPlaces
<1>6. InitialExist /\ ListLinear /\ LeftIsHeld
  BY <1>2, <1>3 DEF InitialExist, ListLinear, LeftIsHeld
<1>7. LocalsSound /\ Marks
  BY DEF LocalsSound, Marks, LocalOK, MarkOK, PushSteps
<1>8. RefsCounted
  <2>1. ASSUME NEW b \in Blocks
        PROVE  Following(b) = {} /\ Dropping(b) = {} /\ Removing(b) = {} /\ {b} \cap OnList = {}
    BY <1>2 DEF Following, Dropping, Removing, At
  <2>2. \A b \in Blocks : freeListRefs[b] = 0
    OBVIOUS
  <2> HIDE DEF Init
  <2>3. ASSUME NEW b \in Blocks
        PROVE  /\ Cardinality(Following(b)) = 0 /\ Cardinality(Dropping(b)) = 0
               /\ Cardinality(Removing(b)) = 0 /\ Cardinality({b} \cap OnList) = 0
    BY <2>1, FS_EmptySet
  <2> QED
    BY <2>2, <2>3 DEF RefsCounted, Following, Dropping, Removing
<1> QED
  BY <1>1, <1>5, <1>6, <1>7, <1>8 DEF IInv

\* Every step keeps the invariant.
LEMMA InvStep == IInv /\ [Next]_vars => IInv'
<1> SUFFICES ASSUME IInv, [Next]_vars PROVE IInv'
  OBVIOUS
<1>1. ASSUME NEW t \in Threads, Requisition(t) \/ LoadHead(t) \/ LoadNext(t) \/ PushLoad(t)
      PROVE  IInv'
  BY <1>1, ReadSteps
<1>2. ASSUME NEW t \in Threads, TakeInitial(t) PROVE IInv'
  BY <1>2, TakeInitialStep
<1>3. ASSUME NEW t \in Threads, Create(t) PROVE IInv'
  BY <1>3, CreateStep
<1>4. ASSUME NEW t \in Threads, AddRef(t) PROVE IInv'
  BY <1>4, AddRefStep
<1>5. ASSUME NEW t \in Threads, Take(t) PROVE IInv'
  BY <1>5, TakeStep
<1>6. ASSUME NEW t \in Threads, Taken(t) PROVE IInv'
  BY <1>6, TakenStep
<1>7. ASSUME NEW t \in Threads, Drop(t) PROVE IInv'
  BY <1>7, DropStep
<1>8. ASSUME NEW t \in Threads, NEW b \in owned[t], Add(t, b) PROVE IInv'
  BY <1>8, AddStep
<1>9. ASSUME NEW t \in Threads, PushStore(t) PROVE IInv'
  BY <1>9, PushStoreStep
<1>10. ASSUME NEW t \in Threads, PushRefs(t) PROVE IInv'
  BY <1>10, PushRefsStep
<1>11. ASSUME NEW t \in Threads, PushLink(t) PROVE IInv'
  BY <1>11, PushLinkStep
<1>12. ASSUME NEW t \in Threads, PushUndo(t) PROVE IInv'
  BY <1>12, PushUndoStep
<1>13. CASE UNCHANGED vars
  <2>1. UNCHANGED <<pool, list, owned, pc, locals>>
    BY <1>13 DEF vars
  <2>2. TypeOK' /\ OnList' = OnList /\ Left' = Left /\ Handed' = Handed
    BY <2>1, ListSame DEF IInv, TypeOK, pool, list, locals, Left, Pushed, At, Handed
  <2>3. InitialExist' /\ LocalsSound' /\ ListLinear' /\ Marks' /\ LeftIsHeld'
    BY <2>1, <2>2 DEF IInv, InitialExist, LocalsSound, ListLinear, Marks, LeftIsHeld,
                      pool, list, locals
  <2>4. InPlaces'
    BY <2>1, <2>2 DEF IInv, InPlaces, Has, Takes, Pushes, pool, list, locals
  <2>5. RefsCounted'
    BY <2>1, <2>2 DEF IInv, RefsCounted, At, list, locals
  <2> QED
    BY <2>2, <2>3, <2>4, <2>5 DEF IInv
<1> QED
  BY <1>1, <1>2, <1>3, <1>4, <1>5, <1>6, <1>7, <1>8, <1>9, <1>10, <1>11, <1>12, <1>13 DEF Next

\* The invariant holds in every reachable state.
LEMMA InvHolds == Spec => []IInv
BY InvInit, InvStep, PTL DEF Spec

-----------------------------------------------------------------------------
(* Theorems *)

\* For any number of threads and blocks the reference counts of the FreeList are
\* exact at every step of add and try_get, a marked block is always referenced by
\* somebody who will find the mark, and the block that try_get has just taken is
\* not marked, as its assertion says.
THEOREM ReferencesSoundInvariant == Spec => []ReferencesSound
<1>1. IInv => ReferencesSound
  <2> SUFFICES ASSUME IInv PROVE MarkedIsHeld
    BY DEF IInv, ReferencesSound
  <2>1. \A t \in Threads : \A b \in owned[t] \cup Takes(t) : b \notin shouldBe
    BY MarkedPlaces DEF IInv
  <2> QED
    BY <2>1 DEF IInv, LeftIsHeld, MarkedIsHeld, At, Takes
<1> QED
  BY <1>1, InvHolds, PTL

\* The exchange of the head in try_get never suffers from ABA: when it is about
\* to be made, the next pointer the thread has loaded is still the one of the
\* node it would take off, so that if it succeeds the list loses that node only.
THEOREM NoABA ==
  Spec => [](\A t \in Threads : pc[t] = "take" => next[t] = freeListNext[head[t]])
<1>1. IInv => \A t \in Threads : pc[t] = "take" => next[t] = freeListNext[head[t]]
  BY DEF IInv, LocalsSound, LocalOK
<1> QED
  BY <1>1, InvHolds, PTL

\* The size of a set with at most one element.
LEMMA AtMostOne ==
  ASSUME NEW S, \A x, y \in S : x = y
  PROVE  Cardinality(S) = IF S = {} THEN 0 ELSE 1
<1>1. CASE S = {}
  BY <1>1, FS_EmptySet
<1>2. CASE S # {}
  <2>1. PICK x : x \in S
    BY <1>2
  <2>2. S = {x}
    BY <2>1
  <2> QED
    BY <1>2, <2>2, FS_Singleton
<1> QED
  BY <1>1, <1>2

\* No block is lost and none is given to two producers: in every reachable state
\* each block that was handed out is in exactly one place.
THEOREM EveryBlockOnceInvariant == Spec => []EveryBlockOnce
<1>1. IInv => EveryBlockOnce
  <2> SUFFICES ASSUME IInv, NEW b \in created
               PROVE  Places(b) =
                 IF b <= initialBlockPoolSize /\ b > initialBlockPoolIndex THEN 0 ELSE 1
    BY DEF EveryBlockOnce
  <2> DEFINE O == {t \in Threads : b \in owned[t]}
             T == {t \in At({"taken"}) : head[t] = b}
             P == {t \in At(PushSteps) : node[t] = b}
             L == {b} \cap OnList
             M == {b} \cap Left
  <2>1. Places(b) = Cardinality(O) + Cardinality(T) + Cardinality(P)
                      + Cardinality(L) + Cardinality(M)
    BY DEF Places
  <2>2. /\ \A t : t \in O <=> t \in Threads /\ b \in owned[t]
        /\ \A t : t \in T <=> t \in Threads /\ b \in Takes(t)
        /\ \A t : t \in P <=> t \in Threads /\ b \in Pushes(t)
        /\ L # {} <=> b \in OnList
        /\ M # {} <=> b \in Left
    BY DEF At, Takes, Pushes
  <2>3. \A x, y \in L : x = y
    OBVIOUS
  <2>4. \A x, y \in M : x = y
    OBVIOUS
  <2> HIDE DEF O, T, P, L, M
  <2>5. InPlaces /\ b \in Blocks
    BY DEF IInv, TypeOK
  <2>6. /\ \A t, u \in O \cup T \cup P : t = u
        /\ \A t : ~(t \in O /\ t \in T) /\ ~(t \in O /\ t \in P)
        /\ \A t \in O \cup T \cup P : b \notin OnList /\ b \notin Left
        /\ ~(b \in OnList /\ b \in Left)
    BY <2>2, <2>5 DEF InPlaces, Has
  <2>7. \A t : ~(t \in T /\ t \in P)
    BY <2>2 DEF Takes, Pushes, PushSteps
  <2>8. b \in Handed <=> O \cup T \cup P # {} \/ L # {} \/ M # {}
    <3>1. O \cup T \cup P # {} <=> \E t \in Threads : b \in Has(t)
      BY <2>2 DEF Has
    <3> QED
      BY <2>2, <2>5, <3>1 DEF InPlaces
  <2>9. /\ Cardinality(O) = IF O = {} THEN 0 ELSE 1
        /\ Cardinality(T) = IF T = {} THEN 0 ELSE 1
        /\ Cardinality(P) = IF P = {} THEN 0 ELSE 1
        /\ Cardinality(L) = IF L = {} THEN 0 ELSE 1
        /\ Cardinality(M) = IF M = {} THEN 0 ELSE 1
    BY <2>3, <2>4, <2>6, AtMostOne
  <2>10. Places(b) = IF b \in Handed THEN 1 ELSE 0
    <3>1. O # {} => T = {} /\ P = {} /\ L = {} /\ M = {}
      BY <2>2, <2>6
    <3>2. T # {} => P = {} /\ L = {} /\ M = {}
      BY <2>2, <2>6, <2>7
    <3>3. P # {} => L = {} /\ M = {}
      BY <2>2, <2>6
    <3>4. L # {} => M = {}
      BY <2>2, <2>6
    <3>5. O \cup T \cup P # {} <=> O # {} \/ T # {} \/ P # {}
      OBVIOUS
    <3> QED
      BY <2>1, <2>8, <2>9, <3>1, <3>2, <3>3, <3>4, <3>5
  <2> QED
    BY <2>10 DEF Handed
<1> QED
  BY <1>1, InvHolds, PTL
=============================================================================
