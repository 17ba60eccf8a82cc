--------------------------- MODULE SemaphoreProofs ---------------------------
(***************************************************************************)
(* Proofs about the two semaphores, for any finite set of threads:         *)
(* fes::semaphore, and moodycamel::LightweightSemaphore for any number of  *)
(* tokens asked for or signalled in a call.  Their variables have nothing  *)
(* to do with each other; each theorem is about the steps of one of them.  *)
(***************************************************************************)
EXTENDS Semaphore, LightSemaphore, FiniteSetTheorems, TLAPS

-----------------------------------------------------------------------------
(* fes::semaphore *)

\* What a thread is doing is one of the steps of sem.h: every variable keeps
\* its type, whatever the threads do.
THEOREM SemaphoreTypeCorrect == SafeSpec => []TypeOK
<1> USE DEF TypeOK, PcValues, Goto
<1>1. Init => TypeOK
  BY DEF Init
<1>2. TypeOK /\ [Next]_vars => TypeOK'
  <2> SUFFICES ASSUME TypeOK, [Next]_vars PROVE TypeOK'
    OBVIOUS
  <2>1. ASSUME NEW t \in Threads, CallNotify(t) \/ CallWait(t) PROVE TypeOK'
    BY <2>1 DEF CallNotify, CallWait
  <2>2. ASSUME NEW t \in Threads, NotifyLock(t) \/ WaitLock(t) \/ Relock(t)
        PROVE TypeOK'
    BY <2>2 DEF NotifyLock, WaitLock, Relock
  <2>3. ASSUME NEW t \in Threads, NotifyInc(t) PROVE TypeOK'
    BY <2>3 DEF NotifyInc
  <2>4. ASSUME NEW t \in Threads, NotifyOne(t) PROVE TypeOK'
    BY <2>4 DEF NotifyOne
  <2>5. ASSUME NEW t \in Threads, Unlock(t) PROVE TypeOK'
    BY <2>5 DEF Unlock
  <2>6. ASSUME NEW t \in Threads, WaitTake(t) PROVE TypeOK'
    BY <2>6 DEF WaitTake
  <2>7. ASSUME NEW t \in Threads, WaitSleep(t) PROVE TypeOK'
    BY <2>7 DEF WaitSleep
  <2>8. ASSUME NEW t \in Threads, SpuriousWakeup(t) PROVE TypeOK'
    BY <2>8 DEF SpuriousWakeup
  <2>9. CASE UNCHANGED vars
    BY <2>9 DEF vars
  <2> QED
    BY <2>1, <2>2, <2>3, <2>4, <2>5, <2>6, <2>7, <2>8, <2>9 DEF Next
<1> QED
  BY <1>1, <1>2, PTL DEF SafeSpec

-----------------------------------------------------------------------------
\* Between lock and unlock there is one thread, the owner of _mutex, and the
\* condition variable holds exactly the sleeping threads.
THEOREM MutexOwnerInvariant == SafeSpec => []MutexOwner
<1> USE DEF TypeOK, PcValues, MutexOwner, Goto
<1>1. Init => MutexOwner
  BY ThreadsAssumption DEF Init
<1>2. TypeOK /\ MutexOwner /\ [Next]_vars => MutexOwner'
  <2> SUFFICES ASSUME TypeOK, MutexOwner, [Next]_vars PROVE MutexOwner'
    OBVIOUS
  <2> USE ThreadsAssumption
  <2>1. ASSUME NEW t \in Threads, CallNotify(t) \/ CallWait(t) PROVE MutexOwner'
    BY <2>1 DEF CallNotify, CallWait
  <2>2. ASSUME NEW t \in Threads, NotifyLock(t) \/ WaitLock(t) \/ Relock(t)
        PROVE MutexOwner'
    BY <2>2 DEF NotifyLock, WaitLock, Relock
  <2>3. ASSUME NEW t \in Threads, NotifyInc(t) \/ WaitTake(t) PROVE MutexOwner'
    BY <2>3 DEF NotifyInc, WaitTake
  <2>4. ASSUME NEW t \in Threads, NotifyOne(t) PROVE MutexOwner'
    BY <2>4 DEF NotifyOne
  <2>5. ASSUME NEW t \in Threads, Unlock(t) PROVE MutexOwner'
    BY <2>5 DEF Unlock
  <2>6. ASSUME NEW t \in Threads, WaitSleep(t) PROVE MutexOwner'
    BY <2>6 DEF WaitSleep
  <2>7. ASSUME NEW t \in Threads, SpuriousWakeup(t) PROVE MutexOwner'
    BY <2>7 DEF SpuriousWakeup
  <2>8. CASE UNCHANGED vars
    BY <2>8 DEF vars
  <2> QED
    BY <2>1, <2>2, <2>3, <2>4, <2>5, <2>6, <2>7, <2>8 DEF Next
<1> QED
  BY <1>1, <1>2, SemaphoreTypeCorrect, PTL DEF SafeSpec

-----------------------------------------------------------------------------
\* Counting the threads that are due: the facts about cardinality that the
\* next theorem needs, for Due as it is before and after a step.
LEMMA DueFinite ==
  /\ IsFiniteSet(Due) /\ Cardinality(Due) \in Nat
  /\ IsFiniteSet(Due') /\ Cardinality(Due') \in Nat
<1>1. Due \in SUBSET Threads /\ Due' \in SUBSET Threads
  BY DEF Due
<1> QED
  BY <1>1, ThreadsAssumption, FS_Subset, FS_CardinalityType

\* No wakeup is lost: the invariant is inductive together with the type
\* invariant and the ownership of the mutex.
THEOREM NoLostWakeupInvariant == SafeSpec => []NoLostWakeup
<1> USE DEF TypeOK, PcValues, Goto
<1>1. Init => NoLostWakeup
  BY DEF Init, NoLostWakeup
<1>2. TypeOK /\ MutexOwner /\ NoLostWakeup /\ [Next]_vars => NoLostWakeup'
  <2> SUFFICES ASSUME TypeOK, MutexOwner, NoLostWakeup, [Next]_vars,
                      cond' # {}
               PROVE  len' <= Cardinality(Due')
    BY DEF NoLostWakeup
  <2> USE DueFinite
  <2>1. ASSUME NEW t \in Threads,
               CallNotify(t) \/ CallWait(t) \/ NotifyLock(t) \/ Unlock(t)
        PROVE  len' <= Cardinality(Due')
    <3>1. Due' = Due /\ len' = len /\ cond' \subseteq cond
      BY <2>1 DEF CallNotify, CallWait, NotifyLock, Unlock, Due
    <3> QED
      BY <3>1 DEF NoLostWakeup
  <2>2. ASSUME NEW t \in Threads, NotifyInc(t)
        PROVE  len' <= Cardinality(Due')
    <3>1. t \notin Due /\ Due' = Due \cup {t}
      BY <2>2 DEF NotifyInc, Due
    <3>2. Cardinality(Due') = Cardinality(Due) + 1
      BY <3>1, FS_AddElement
    <3> QED
      BY <2>2, <3>2 DEF NotifyInc, NoLostWakeup
  <2>3. ASSUME NEW t \in Threads, NotifyOne(t)
        PROVE  len' <= Cardinality(Due')
    <3>1. PICK s \in cond : /\ cond' = cond \ {s}
                            /\ pc' = [pc EXCEPT ![t] = "unlock", ![s] = "relock"]
      BY <2>3 DEF NotifyOne
    <3>2. s \in Threads /\ pc[s] = "asleep" /\ pc[t] = "notify_one"
      BY <2>3, <3>1 DEF NotifyOne, MutexOwner
    <3>3. /\ t \in Due /\ s \notin Due \ {t}
          /\ Due' = (Due \ {t}) \cup {s}
      BY <3>1, <3>2 DEF Due
    <3>4. /\ IsFiniteSet(Due \ {t})
          /\ Cardinality(Due \ {t}) = Cardinality(Due) - 1
      BY <3>3, FS_RemoveElement
    <3>5. Cardinality(Due') = Cardinality(Due)
      BY <3>3, <3>4, FS_AddElement
    <3> QED
      BY <2>3, <3>1, <3>5 DEF NotifyOne, NoLostWakeup
  <2>4. ASSUME NEW t \in Threads, WaitTake(t)
        PROVE  len' <= Cardinality(Due')
    <3>1. t \in Due /\ Due' = Due \ {t}
      BY <2>4 DEF WaitTake, Due
    <3>2. Cardinality(Due') = Cardinality(Due) - 1
      BY <3>1, FS_RemoveElement
    <3> QED
      BY <2>4, <3>2 DEF WaitTake, NoLostWakeup
  <2>5. ASSUME NEW t \in Threads, WaitSleep(t)
        PROVE  len' <= Cardinality(Due')
    BY <2>5 DEF WaitSleep
  <2>6. ASSUME NEW t \in Threads, WaitLock(t)
        PROVE  len' <= Cardinality(Due')
    <3>1. t \notin Due /\ Due' = Due \cup {t}
      BY <2>6 DEF WaitLock, Due
    <3>2. Cardinality(Due') = Cardinality(Due) + 1
      BY <3>1, FS_AddElement
    <3> QED
      BY <2>6, <3>2 DEF WaitLock, NoLostWakeup
  <2>7. ASSUME NEW t \in Threads, Relock(t)
        PROVE  len' <= Cardinality(Due')
    <3>1. Due' = Due /\ len' = len /\ cond' = cond
      BY <2>7 DEF Relock, Due
    <3> QED
      BY <3>1 DEF NoLostWakeup
  <2>8. ASSUME NEW t \in Threads, SpuriousWakeup(t)
        PROVE  len' <= Cardinality(Due')
    <3>1. pc[t] = "asleep"
      BY <2>8 DEF SpuriousWakeup, MutexOwner
    <3>2. t \notin Due /\ Due' = Due \cup {t}
      BY <2>8, <3>1 DEF SpuriousWakeup, Due
    <3>3. Cardinality(Due') = Cardinality(Due) + 1
      BY <3>2, FS_AddElement
    <3> QED
      BY <2>8, <3>3 DEF SpuriousWakeup, NoLostWakeup
  <2>9. CASE UNCHANGED vars
    <3>1. Due' = Due /\ len' = len /\ cond' = cond
      BY <2>9 DEF vars, Due
    <3> QED
      BY <3>1 DEF NoLostWakeup
  <2> QED
    BY <2>1, <2>2, <2>3, <2>4, <2>5, <2>6, <2>7, <2>8, <2>9 DEF Next
<1> QED
  BY <1>1, <1>2, SemaphoreTypeCorrect, MutexOwnerInvariant, PTL DEF SafeSpec

-----------------------------------------------------------------------------
\* The safety half of the refinement: every step of notify() and wait() is a
\* step of the counting semaphore or leaves it alone.  (The other half, that
\* tokens are handed over, is a liveness property and stays with TLC.)
THEOREM SemaphoreRefinement == SafeSpec => Abstract!SafeSpec
<1> USE DEF TypeOK, PcValues, Goto, Waiting
<1>1. Init => Abstract!Init
  BY DEF Init, Abstract!Init
<1>2. TypeOK /\ MutexOwner /\ [Next]_vars => [Abstract!Next]_(Abstract!svars)
  <2> SUFFICES ASSUME TypeOK, MutexOwner, [Next]_vars
               PROVE  Abstract!Next \/ (len' = len /\ Waiting' = Waiting)
    BY DEF Abstract!svars
  <2>1. ASSUME NEW t \in Threads, NotifyInc(t) PROVE Abstract!Post
    BY <2>1 DEF NotifyInc, Abstract!Post
  <2>2. ASSUME NEW t \in Threads, CallWait(t) PROVE Abstract!Ask(t)
    BY <2>2 DEF CallWait, Abstract!Ask
  <2>3. ASSUME NEW t \in Threads, WaitTake(t) PROVE Abstract!Take(t)
    BY <2>3 DEF WaitTake, Abstract!Take
  <2>4. ASSUME NEW t \in Threads,
               CallNotify(t) \/ NotifyLock(t) \/ Unlock(t)
               \/ WaitLock(t) \/ WaitSleep(t) \/ Relock(t)
        PROVE  len' = len /\ Waiting' = Waiting
    BY <2>4 DEF CallNotify, NotifyLock, Unlock, WaitLock, WaitSleep, Relock
  <2>5. ASSUME NEW t \in Threads, NotifyOne(t) \/ SpuriousWakeup(t)
        PROVE  len' = len /\ Waiting' = Waiting
    BY <2>5 DEF NotifyOne, SpuriousWakeup, MutexOwner
  <2>6. CASE UNCHANGED vars
    BY <2>6 DEF vars
  <2> QED
    BY <2>1, <2>2, <2>3, <2>4, <2>5, <2>6 DEF Next, Abstract!Next
<1> QED
  BY <1>1, <1>2, SemaphoreTypeCorrect, MutexOwnerInvariant, PTL
     DEF SafeSpec, Abstract!SafeSpec

-----------------------------------------------------------------------------
(* moodycamel::LightweightSemaphore *)

\* A thread inside a wait asks for at least one token, for two if it goes on
\* after its first, and a thread has posts to make only inside signal().
CallsInShape == \A t \in Callers :
    /\ phase[t] \notin {"idle", "post"} => max[t] >= 1
    /\ phase[t] = "more" => max[t] >= 2
    /\ phase[t] = "post" <=> toRelease[t] > 0

\* The inductive invariant.
LightInv == CountersAgree /\ CallsInShape

Phases == {"idle", "try", "spin", "sleep", "blocked", "adjust", "late", "more", "post"}

-----------------------------------------------------------------------------
(* Counting *)

\* The threads in some phases can be counted.
LEMMA AtFinite ==
  ASSUME NEW P
  PROVE  IsFiniteSet(At(P)) /\ Cardinality(At(P)) \in Nat
<1>1. At(P) \in SUBSET Callers
  BY DEF At
<1> QED
  BY <1>1, CallersAssumption, FS_Subset, FS_CardinalityType

\* The posts that signal() owes can be counted.
LEMMA ReleasingFinite == IsFiniteSet(Releasing) /\ Cardinality(Releasing) \in Nat
<1>1. IsFiniteSet(1..MaxMany)
  BY FS_Interval, LightBoundsAssumption
<1>2. IsFiniteSet(Callers \X (1..MaxMany))
  BY <1>1, FS_Product, CallersAssumption
<1>3. Releasing \in SUBSET (Callers \X (1..MaxMany))
  BY DEF Releasing
<1> QED
  BY <1>2, <1>3, FS_Subset, FS_CardinalityType

\* What the move of one thread does to the number of threads in some phases.
LEMMA Moves ==
  ASSUME NEW P, NEW t \in Callers, NEW from, NEW to,
         phase \in [Callers -> Phases], Enter(t, from, to)
  PROVE  /\ from \in P /\ to \in P => At(P)' = At(P)
         /\ from \notin P /\ to \notin P => At(P)' = At(P)
         /\ from \notin P /\ to \in P => /\ t \notin At(P) /\ At(P)' = At(P) \cup {t}
                                         /\ Cardinality(At(P)') = Cardinality(At(P)) + 1
         /\ from \in P /\ to \notin P => /\ t \in At(P) /\ At(P)' = At(P) \ {t}
                                         /\ Cardinality(At(P)') = Cardinality(At(P)) - 1
<1>1. /\ from \in P /\ to \in P => At(P)' = At(P)
      /\ from \notin P /\ to \notin P => At(P)' = At(P)
      /\ from \notin P /\ to \in P => t \notin At(P) /\ At(P)' = At(P) \cup {t}
      /\ from \in P /\ to \notin P => t \in At(P) /\ At(P)' = At(P) \ {t}
  BY DEF Enter, At
<1>2. IsFiniteSet(At(P))
  BY AtFinite
<1>3. /\ t \notin At(P) => Cardinality(At(P) \cup {t}) = Cardinality(At(P)) + 1
      /\ t \in At(P) => Cardinality(At(P) \ {t}) = Cardinality(At(P)) - 1
  BY <1>2, FS_AddElement, FS_RemoveElement
<1> QED
  BY <1>1, <1>3

\* signal() with n sleepers to wake owes n more posts.
LEMMA PostsPromised ==
  ASSUME NEW t \in Callers, NEW n \in 1..MaxMany,
         toRelease \in [Callers -> 0..MaxMany], toRelease[t] = 0,
         toRelease' = [toRelease EXCEPT ![t] = n]
  PROVE  Cardinality(Releasing') = Cardinality(Releasing) + n
<1> DEFINE New == {t} \X (1..n)
<1>1. Releasing' = Releasing \cup New /\ Releasing \cap New = {}
  BY LightBoundsAssumption DEF Releasing
<1>2. IsFiniteSet(1..n) /\ Cardinality(1..n) = n
  BY FS_Interval, LightBoundsAssumption
<1>3. IsFiniteSet({t}) /\ Cardinality({t}) = 1
  BY FS_Singleton
<1>4. IsFiniteSet(New) /\ Cardinality(New) = Cardinality({t}) * Cardinality(1..n)
  BY <1>2, <1>3, FS_Product
<1>5. Cardinality(New) = n
  BY <1>2, <1>3, <1>4
<1>6. Cardinality(Releasing \cup New)
        = Cardinality(Releasing) + Cardinality(New) - Cardinality(Releasing \cap New)
  BY <1>4, ReleasingFinite, FS_Union
<1>7. Cardinality(Releasing \cap New) = 0
  BY <1>1, FS_EmptySet
<1> HIDE DEF New
<1> QED
  BY <1>1, <1>5, <1>6, <1>7, ReleasingFinite

\* A sem_post makes good for one of them.
LEMMA PostMade ==
  ASSUME NEW t \in Callers, toRelease \in [Callers -> 0..MaxMany], toRelease[t] > 0,
         toRelease' = [toRelease EXCEPT ![t] = @ - 1]
  PROVE  Cardinality(Releasing') = Cardinality(Releasing) - 1
<1> DEFINE d == <<t, toRelease[t]>>
<1>1. d \in Releasing /\ Releasing' = Releasing \ {d}
  BY LightBoundsAssumption DEF Releasing
<1> QED
  BY <1>1, ReleasingFinite, FS_RemoveElement

-----------------------------------------------------------------------------
(* The counters *)

\* The invariant holds before the first call.
LEMMA InvInit == LightInit => LightInv
<1> SUFFICES ASSUME LightInit PROVE LightInv
  OBVIOUS
<1>1. Releasing = {} /\ Sleepers = {}
  BY LightBoundsAssumption DEF LightInit, Releasing, Sleepers, At
<1>2. LightTypeOK /\ CallsInShape
  BY LightBoundsAssumption DEF LightInit, LightTypeOK, CallsInShape
<1> QED
  BY <1>1, <1>2, FS_EmptySet DEF LightInit, LightInv, CountersAgree, PostsOwed, Smaller

\* The facts that every case of the induction starts from.
LEMMA Facts ==
  ASSUME LightInv
  PROVE  /\ m_count \in Int /\ m_sema \in Nat
         /\ phase \in [Callers -> Phases]
         /\ max \in [Callers -> 0..MaxMany]
         /\ mode \in [Callers -> {"none", "try", "wait", "timed"}]
         /\ toRelease \in [Callers -> 0..MaxMany]
         /\ Cardinality(Releasing) \in Nat /\ Cardinality(Sleepers) \in Nat
         /\ m_sema + Cardinality(Releasing)
              = Cardinality(Sleepers) + (IF m_count < 0 THEN m_count ELSE 0)
<1>1. LightTypeOK /\ PostsOwed
  BY DEF LightInv, CountersAgree
<1>2. Cardinality(Releasing) \in Nat /\ Cardinality(Sleepers) \in Nat
  BY AtFinite, ReleasingFinite DEF Sleepers
<1> QED
  BY <1>1, <1>2 DEF LightTypeOK, Phases, PostsOwed, Smaller

\* A thread that goes to sleep, or stops sleeping, as Sleepers sees it.
LEMMA SleeperMoves ==
  ASSUME NEW t \in Callers, NEW from, NEW to,
         phase \in [Callers -> Phases], Enter(t, from, to)
  PROVE  LET P == {"sleep", "blocked", "adjust", "late"}
         IN  /\ (from \in P /\ to \in P) \/ (from \notin P /\ to \notin P)
                  => Cardinality(Sleepers') = Cardinality(Sleepers)
             /\ from \notin P /\ to \in P => Cardinality(Sleepers') = Cardinality(Sleepers) + 1
             /\ from \in P /\ to \notin P => Cardinality(Sleepers') = Cardinality(Sleepers) - 1
BY Moves DEF Sleepers

\* The type invariant and CallsInShape do not need the counters to agree.
LEMMA TypeStep ==
  ASSUME LightInv, [LightNext]_lightVars
  PROVE  LightTypeOK' /\ CallsInShape'
<1> USE LightBoundsAssumption, Facts DEF Enter, Return, Phases
<1> DEFINE Goal == LightTypeOK' /\ CallsInShape'
<1>0. CallsInShape
  BY DEF LightInv
<1>1. ASSUME NEW t \in Callers, NEW n \in 1..MaxMany, NEW how \in {"try", "wait", "timed"},
             Call(t, n, how)
      PROVE  Goal
  BY <1>0, <1>1 DEF Call, LightTypeOK, CallsInShape
<1>2. ASSUME NEW t \in Callers, NEW count \in 1..MaxMany, Signal(t, count) PROVE Goal
  BY <1>0, <1>2 DEF Signal, Release, Smaller, LightTypeOK, CallsInShape
<1>3. ASSUME NEW t \in Callers, Timeout(t) \/ Block(t) PROVE Goal
  BY <1>0, <1>3 DEF Timeout, Block, LightTypeOK, CallsInShape
<1>4. ASSUME NEW t \in Callers, TryTake(t) PROVE Goal
  BY <1>0, <1>4 DEF TryTake, Smaller, LightTypeOK, CallsInShape
<1>5. ASSUME NEW t \in Callers, TryFail(t) PROVE Goal
  BY <1>0, <1>5 DEF TryFail, LightTypeOK, CallsInShape
<1>6. ASSUME NEW t \in Callers, Subtract(t) PROVE Goal
  BY <1>0, <1>6 DEF Subtract, Granted, LightTypeOK, CallsInShape
<1>7. ASSUME NEW t \in Callers, Wake(t) PROVE Goal
  BY <1>0, <1>7 DEF Wake, Granted, LightTypeOK, CallsInShape
<1>8. ASSUME NEW t \in Callers, Adjust(t) PROVE Goal
  BY <1>0, <1>8 DEF Adjust, LightTypeOK, CallsInShape
<1>9. ASSUME NEW t \in Callers, TakeLate(t) PROVE Goal
  BY <1>0, <1>9 DEF TakeLate, Granted, LightTypeOK, CallsInShape
<1>10. ASSUME NEW t \in Callers, TakeMore(t) PROVE Goal
  BY <1>0, <1>10 DEF TakeMore, Smaller, LightTypeOK, CallsInShape
<1>11. ASSUME NEW t \in Callers, Post(t) PROVE Goal
  BY <1>0, <1>11 DEF Post, LightTypeOK, CallsInShape
<1>12. CASE UNCHANGED lightVars
  BY <1>0, <1>12 DEF lightVars, LightTypeOK, CallsInShape
<1> QED
  BY <1>1, <1>2, <1>3, <1>4, <1>5, <1>6, <1>7, <1>8, <1>9, <1>10, <1>11, <1>12 DEF LightNext, InCall

\* Every step keeps the posts that are made or promised equal to the sleepers
\* they are for.
LEMMA PostsStep ==
  ASSUME LightInv, [LightNext]_lightVars
  PROVE  PostsOwed'
<1> USE LightBoundsAssumption, Facts
<1> DEFINE S == Cardinality(Sleepers)
           R == Cardinality(Releasing)
           S1 == Cardinality(Sleepers')
           R1 == Cardinality(Releasing')
<1> SUFFICES m_sema' + R1 = S1 + (IF m_count' < 0 THEN m_count' ELSE 0)
  BY DEF PostsOwed, Smaller
<1> DEFINE Goal == m_sema' + R1 = S1 + (IF m_count' < 0 THEN m_count' ELSE 0)
<1>0. /\ toRelease' = toRelease => R1 = R
      /\ phase' = phase => S1 = S
  BY DEF Releasing, Sleepers, At
<1>1. ASSUME NEW t \in Callers, NEW n \in 1..MaxMany, NEW how \in {"try", "wait", "timed"},
             Call(t, n, how)
      PROVE  Goal
  <2>1. S1 = S
    BY <1>1, SleeperMoves DEF Call
  <2> QED
    BY <1>0, <1>1, <2>1 DEF Call
<1>2. ASSUME NEW t \in Callers, NEW count \in 1..MaxMany, Signal(t, count) PROVE Goal
  <2>1. S1 = S /\ m_sema' = m_sema /\ m_count' = m_count + count
    BY <1>2, SleeperMoves DEF Signal
  <2>2. CASE Release(m_count, count) > 0
    <3>1. Release(m_count, count) \in 1..MaxMany
      BY <2>2 DEF Release, Smaller
    <3>2. toRelease[t] = 0
      BY <1>2 DEF Signal, Enter, LightInv, CallsInShape
    <3>3. toRelease' = [toRelease EXCEPT ![t] = Release(m_count, count)]
      BY <1>2, <2>2 DEF Signal
    <3>4. R1 = R + Release(m_count, count)
      BY <3>1, <3>2, <3>3, PostsPromised
    <3> QED
      BY <2>1, <2>2, <3>4 DEF Release, Smaller
  <2>3. CASE ~(Release(m_count, count) > 0)
    <3>1. R1 = R
      BY <1>0, <1>2, <2>3 DEF Signal
    <3> QED
      BY <2>1, <2>3, <3>1 DEF Release, Smaller
  <2> QED
    BY <2>2, <2>3
<1>3. ASSUME NEW t \in Callers, Timeout(t) \/ Block(t) PROVE Goal
  <2>1. S1 = S
    BY <1>3, SleeperMoves DEF Timeout, Block
  <2> QED
    BY <1>0, <1>3, <2>1 DEF Timeout, Block
<1>4. ASSUME NEW t \in Callers, TryTake(t) PROVE Goal
  <2>1. S1 = S
    BY <1>4, SleeperMoves DEF TryTake, Return
  <2> QED
    BY <1>0, <1>4, <2>1 DEF TryTake, Smaller
<1>5. ASSUME NEW t \in Callers, TryFail(t) PROVE Goal
  <2>1. S1 = S
    BY <1>5, SleeperMoves DEF TryFail, Return
  <2> QED
    BY <1>0, <1>5, <2>1 DEF TryFail
<1>6. ASSUME NEW t \in Callers, Subtract(t) PROVE Goal
  <2>1. IF m_count > 0 THEN S1 = S ELSE S1 = S + 1
    BY <1>6, SleeperMoves DEF Subtract, Granted, Return
  <2> QED
    BY <1>0, <1>6, <2>1 DEF Subtract
<1>7. ASSUME NEW t \in Callers, Wake(t) PROVE Goal
  <2>1. S1 = S - 1
    BY <1>7, SleeperMoves DEF Wake, Granted, Return
  <2> QED
    BY <1>0, <1>7, <2>1 DEF Wake
<1>8. ASSUME NEW t \in Callers, Adjust(t) PROVE Goal
  <2>1. IF m_count >= 0 THEN S1 = S ELSE S1 = S - 1
    BY <1>8, SleeperMoves DEF Adjust, Return
  <2> QED
    BY <1>0, <1>8, <2>1 DEF Adjust
<1>9. ASSUME NEW t \in Callers, TakeLate(t) PROVE Goal
  <2>1. IF m_sema > 0 THEN S1 = S - 1 ELSE S1 = S
    BY <1>9, SleeperMoves DEF TakeLate, Granted, Return
  <2> QED
    BY <1>0, <1>9, <2>1 DEF TakeLate
<1>10. ASSUME NEW t \in Callers, TakeMore(t) PROVE Goal
  <2>1. S1 = S
    BY <1>10, SleeperMoves DEF TakeMore, Return
  <2> QED
    BY <1>0, <1>10, <2>1 DEF TakeMore, Smaller
<1>11. ASSUME NEW t \in Callers, Post(t) PROVE Goal
  <2>1. S1 = S
    BY <1>11, SleeperMoves DEF Post
  <2>2. toRelease[t] > 0
    BY <1>11 DEF Post, Enter, LightInv, CallsInShape
  <2>3. R1 = R - 1
    BY <1>11, <2>2, PostMade DEF Post
  <2> QED
    BY <1>11, <2>1, <2>3 DEF Post
<1>12. CASE UNCHANGED lightVars
  BY <1>0, <1>12 DEF lightVars
<1> QED
  BY <1>1, <1>2, <1>3, <1>4, <1>5, <1>6, <1>7, <1>8, <1>9, <1>10, <1>11, <1>12 DEF LightNext, InCall

\* The atomic count and the kernel semaphore agree at every step, whatever way
\* the waits end: no thread is left asleep beside a token by a timed wait that
\* gave up while the signal for it was on its way, and none is let through
\* without one.
THEOREM CountersAgreeInvariant == LightSpec => []CountersAgree
<1>1. LightInv /\ [LightNext]_lightVars => LightInv'
  BY TypeStep, PostsStep DEF LightInv, CountersAgree
<1>2. LightInv => CountersAgree
  BY DEF LightInv
<1> QED
  BY InvInit, <1>1, <1>2, PTL DEF LightSpec

-----------------------------------------------------------------------------
(* The refinement *)

\* The tokens of the counting semaphore, and the threads that wait for one, as
\* the refinement maps them.
Tokens == m_count + Cardinality(Sleepers) + Cardinality(At({"more"}))
Asking == At({"try", "spin", "more"}) \cup Sleepers

\* The step of a thread to one that has nothing to do with waiting, and back.
LEMMA AskingMoves ==
  ASSUME NEW t \in Callers, NEW from, NEW to,
         phase \in [Callers -> Phases], Enter(t, from, to)
  PROVE  LET P == {"try", "spin", "more", "sleep", "blocked", "adjust", "late"}
         IN  /\ (from \in P /\ to \in P) \/ (from \notin P /\ to \notin P) => Asking' = Asking
             /\ from \notin P /\ to \in P => t \notin Asking /\ Asking' = Asking \cup {t}
             /\ from \in P /\ to \notin P => t \in Asking /\ Asking' = Asking \ {t}
<1>1. Asking = At({"try", "spin", "more", "sleep", "blocked", "adjust", "late"})
  BY DEF Asking, Sleepers, At
<1>2. Asking' = At({"try", "spin", "more", "sleep", "blocked", "adjust", "late"})'
  BY DEF Asking, Sleepers, At
<1> QED
  BY <1>1, <1>2, Moves

\* Every step of a thread, as its callers see it.
LEMMA CountingStep ==
  ASSUME LightInv, [LightNext]_lightVars
  PROVE  \/ \E n \in 1..(Tokens' - Tokens) : Tokens' = Tokens + n /\ Asking' = Asking
         \/ \E t \in Callers :
              \/ t \notin Asking /\ Asking' = Asking \cup {t} /\ Tokens' = Tokens
              \/ t \in Asking /\ Asking' = Asking \ {t} /\ Tokens' = Tokens
              \/ \E n \in 1..Tokens :
                    t \in Asking /\ Asking' = Asking \ {t} /\ Tokens' = Tokens - n
         \/ Tokens' = Tokens /\ Asking' = Asking
<1> USE LightBoundsAssumption, Facts
<1> DEFINE S == Cardinality(Sleepers)
           S1 == Cardinality(Sleepers')
           M == Cardinality(At({"more"}))
           M1 == Cardinality(At({"more"})')
           Sleeping == {"sleep", "blocked", "adjust", "late"}
           Inside == {"try", "spin", "more", "sleep", "blocked", "adjust", "late"}
           Stays == Tokens' = Tokens /\ Asking' = Asking
           Leaves(t) == t \in Asking /\ Asking' = Asking \ {t}
           Gives(t) == \E n \in 1..Tokens : Leaves(t) /\ Tokens' = Tokens - n
<1>0. /\ S \in Nat /\ M \in Nat /\ Tokens \in Int
      /\ Tokens = m_count + S + M /\ Tokens' = m_count' + S1 + M1
      /\ S + (IF m_count < 0 THEN m_count ELSE 0) >= 0
      /\ m_sema > 0 => S + (IF m_count < 0 THEN m_count ELSE 0) >= 1
      /\ phase' = phase => S1 = S /\ M1 = M /\ Asking' = Asking
  <2>1. S \in Nat /\ M \in Nat
    BY AtFinite DEF Sleepers
  <2>2. Tokens = m_count + S + M /\ Tokens' = m_count' + S1 + M1
    BY DEF Tokens
  <2>3. phase' = phase => S1 = S /\ M1 = M /\ Asking' = Asking
    BY DEF Asking, Sleepers, At
  <2> QED
    BY <2>1, <2>2, <2>3
<1>m. ASSUME NEW t \in Callers, NEW from \in Phases, NEW to \in Phases, Enter(t, from, to)
      PROVE  /\ (from \in Sleeping <=> to \in Sleeping) => S1 = S
             /\ from \notin Sleeping /\ to \in Sleeping => S1 = S + 1
             /\ from \in Sleeping /\ to \notin Sleeping => S1 = S - 1
             /\ from # "more" /\ to # "more" => M1 = M
             /\ from # "more" /\ to = "more" => M1 = M + 1
             /\ from = "more" /\ to # "more" => M >= 1 /\ M1 = M - 1
             /\ (from \in Inside <=> to \in Inside) => Asking' = Asking
             /\ from \notin Inside /\ to \in Inside => t \notin Asking /\ Asking' = Asking \cup {t}
             /\ from \in Inside /\ to \notin Inside => Leaves(t)
  <2>1. /\ (from \in Sleeping <=> to \in Sleeping) => S1 = S
        /\ from \notin Sleeping /\ to \in Sleeping => S1 = S + 1
        /\ from \in Sleeping /\ to \notin Sleeping => S1 = S - 1
    BY <1>m, SleeperMoves
  <2>2. /\ (from \in Inside <=> to \in Inside) => Asking' = Asking
        /\ from \notin Inside /\ to \in Inside => t \notin Asking /\ Asking' = Asking \cup {t}
        /\ from \in Inside /\ to \notin Inside => Leaves(t)
    BY <1>m, AskingMoves
  <2>3. /\ from \notin {"more"} /\ to \notin {"more"} => M1 = M
        /\ from \notin {"more"} /\ to \in {"more"} => M1 = M + 1
        /\ from \in {"more"} /\ to \notin {"more"} => M1 = M - 1 /\ t \in At({"more"})
    BY <1>m, Moves
  <2>4. t \in At({"more"}) => M # 0
    BY AtFinite, FS_EmptySet
  <2> QED
    BY <1>0, <2>1, <2>2, <2>3, <2>4
<1> HIDE DEF S, S1, M, M1
<1> USE DEF Phases
<1>1. ASSUME NEW t \in Callers, NEW n \in 1..MaxMany, NEW how \in {"try", "wait", "timed"},
             Call(t, n, how)
      PROVE  t \notin Asking /\ Asking' = Asking \cup {t} /\ Tokens' = Tokens
  <2>1. S1 = S /\ M1 = M /\ t \notin Asking /\ Asking' = Asking \cup {t}
    BY <1>1, <1>m DEF Call
  <2> QED
    BY <1>0, <1>1, <2>1 DEF Call
<1>2. ASSUME NEW t \in Callers, NEW count \in 1..MaxMany, Signal(t, count)
      PROVE  \E n \in 1..(Tokens' - Tokens) : Tokens' = Tokens + n /\ Asking' = Asking
  <2>1. S1 = S /\ M1 = M /\ Asking' = Asking
    BY <1>2, <1>m DEF Signal
  <2> QED
    BY <1>0, <1>2, <2>1 DEF Signal
<1>3. ASSUME NEW t \in Callers, Timeout(t) \/ Block(t) PROVE Stays
  <2>1. S1 = S /\ M1 = M /\ Asking' = Asking
    BY <1>3, <1>m DEF Timeout, Block
  <2> QED
    BY <1>0, <1>3, <2>1 DEF Timeout, Block
<1>4. ASSUME NEW t \in Callers, TryTake(t) PROVE Gives(t)
  <2>1. S1 = S /\ M1 = M /\ Leaves(t)
    BY <1>4, <1>m DEF TryTake, Return
  <2>2. max[t] \in 1..MaxMany
    BY <1>4 DEF TryTake, Return, Enter, LightInv, CallsInShape
  <2>3. Smaller(m_count, max[t]) \in 1..Tokens
    BY <1>0, <1>4, <2>2 DEF TryTake, Smaller
  <2>4. Tokens' = Tokens - Smaller(m_count, max[t])
    BY <1>0, <1>4, <2>1, <2>3 DEF TryTake
  <2> QED
    BY <2>1, <2>3, <2>4
<1>5. ASSUME NEW t \in Callers, TryFail(t) PROVE Stays \/ (Leaves(t) /\ Tokens' = Tokens)
  <2>1. S1 = S /\ M1 = M /\ (Asking' = Asking \/ Leaves(t))
    BY <1>5, <1>m DEF TryFail, Return
  <2> QED
    BY <1>0, <1>5, <2>1 DEF TryFail
<1>6. ASSUME NEW t \in Callers, Subtract(t) PROVE Stays \/ Gives(t)
  <2>1. CASE m_count <= 0
    <3>1. S1 = S + 1 /\ M1 = M /\ Asking' = Asking
      BY <1>6, <2>1, <1>m DEF Subtract
    <3> QED
      BY <1>0, <1>6, <3>1 DEF Subtract
  <2>2. CASE m_count > 0 /\ max[t] > 1
    <3>1. S1 = S /\ M1 = M + 1 /\ Asking' = Asking
      BY <1>6, <2>2, <1>m DEF Subtract, Granted
    <3>2. m_count' = m_count - 1
      BY <1>6 DEF Subtract
    <3> QED
      BY <1>0, <3>1, <3>2
  <2>3. CASE m_count > 0 /\ ~(max[t] > 1)
    <3>1. S1 = S /\ M1 = M /\ Leaves(t)
      BY <1>6, <2>3, <1>m DEF Subtract, Granted, Return
    <3>2. 1 \in 1..Tokens /\ Tokens' = Tokens - 1
      BY <1>0, <1>6, <2>3, <3>1 DEF Subtract
    <3> QED
      BY <3>1, <3>2
  <2> QED
    BY <2>1, <2>2, <2>3
<1>7. ASSUME NEW t \in Callers, Wake(t) \/ (TakeLate(t) /\ m_sema > 0) PROVE Stays \/ Gives(t)
  <2>1. CASE max[t] > 1
    <3>1. S1 = S - 1 /\ M1 = M + 1 /\ Asking' = Asking
      BY <1>7, <2>1, <1>m DEF Wake, TakeLate, Granted
    <3> QED
      BY <1>0, <1>7, <3>1 DEF Wake, TakeLate
  <2>2. CASE ~(max[t] > 1)
    <3>1. S1 = S - 1 /\ M1 = M /\ Leaves(t)
      BY <1>7, <2>2, <1>m DEF Wake, TakeLate, Granted, Return
    <3>2. 1 \in 1..Tokens /\ Tokens' = Tokens - 1
      BY <1>0, <1>7, <3>1 DEF Wake, TakeLate
    <3> QED
      BY <3>1, <3>2
  <2> QED
    BY <2>1, <2>2
<1>8. ASSUME NEW t \in Callers, Adjust(t) PROVE Stays \/ (Leaves(t) /\ Tokens' = Tokens)
  <2>1. CASE m_count >= 0
    <3>1. S1 = S /\ M1 = M /\ Asking' = Asking
      BY <1>8, <2>1, <1>m DEF Adjust
    <3> QED
      BY <1>0, <1>8, <2>1, <3>1 DEF Adjust
  <2>2. CASE ~(m_count >= 0)
    <3>1. S1 = S - 1 /\ M1 = M /\ Leaves(t)
      BY <1>8, <2>2, <1>m DEF Adjust, Return
    <3> QED
      BY <1>0, <1>8, <2>2, <3>1 DEF Adjust
  <2> QED
    BY <2>1, <2>2
<1>9. ASSUME NEW t \in Callers, TakeLate(t), ~(m_sema > 0) PROVE Stays
  <2>1. S1 = S /\ M1 = M /\ Asking' = Asking
    BY <1>9, <1>m DEF TakeLate
  <2> QED
    BY <1>0, <1>9, <2>1 DEF TakeLate
<1>10. ASSUME NEW t \in Callers, TakeMore(t) PROVE Gives(t)
  <2> DEFINE k == IF m_count > 0 THEN Smaller(m_count, max[t] - 1) ELSE 0
  <2>1. S1 = S /\ M1 = M - 1 /\ Leaves(t) /\ M >= 1
    BY <1>10, <1>m DEF TakeMore, Return
  <2>2. max[t] \in 2..MaxMany
    BY <1>10 DEF TakeMore, Return, Enter, LightInv, CallsInShape
  <2>3. k \in Nat /\ k + 1 \in 1..Tokens
    BY <1>0, <2>1, <2>2 DEF Smaller
  <2>4. m_count' = m_count - k
    BY <1>10, <2>2 DEF TakeMore, Smaller
  <2> HIDE DEF k
  <2>5. Tokens' = Tokens - (k + 1)
    BY <1>0, <2>1, <2>3, <2>4
  <2> QED
    BY <2>1, <2>3, <2>5
<1>11. ASSUME NEW t \in Callers, Post(t) PROVE Stays
  <2>1. S1 = S /\ M1 = M /\ Asking' = Asking
    BY <1>11, <1>m DEF Post
  <2> QED
    BY <1>0, <1>11, <2>1 DEF Post
<1>12. CASE UNCHANGED lightVars
  BY <1>0, <1>12 DEF lightVars
<1> QED
  BY <1>1, <1>2, <1>3, <1>4, <1>5, <1>6, <1>7, <1>8, <1>9, <1>10, <1>11, <1>12 DEF LightNext, InCall

\* Seen from its callers the light semaphore is a counting semaphore: every
\* step is one of its steps or leaves it alone.  (That tokens are handed over
\* is liveness and stays with TLC.)
THEOREM LightSemaphoreRefinement == LightSpec => Counting!SafeSpec
<1>1. LightInit => Counting!Init
  <2> SUFFICES ASSUME LightInit PROVE Counting!Init
    OBVIOUS
  <2>1. Sleepers = {} /\ At({"more"}) = {} /\ At({"try", "spin", "more"}) = {}
    BY DEF LightInit, Sleepers, At
  <2> QED
    BY <2>1, FS_EmptySet DEF LightInit, Counting!Init
<1>2. LightInv /\ [LightNext]_lightVars => [Counting!Next]_(Counting!svars)
  BY CountingStep
     DEF Tokens, Asking, Counting!Next, Counting!svars, Counting!PostMany, Counting!Ask,
         Counting!GiveUp, Counting!TakeMany
<1>3. LightInv /\ [LightNext]_lightVars => LightInv'
  BY TypeStep, PostsStep DEF LightInv, CountersAgree
<1> QED
  BY InvInit, <1>1, <1>2, <1>3, PTL DEF LightSpec, Counting!SafeSpec
==============================================================================
