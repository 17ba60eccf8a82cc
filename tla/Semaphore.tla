------------------------------ MODULE Semaphore ------------------------------
(***************************************************************************)
(* fes::semaphore (include/sem.h): a counter guarded by a std::mutex and a *)
(* std::condition_variable.  Any thread may call notify() or wait() at any *)
(* time; every action below is one step of one thread between two points   *)
(* at which another thread can interleave.                                 *)
(***************************************************************************)
EXTENDS Integers, FiniteSets

CONSTANTS
    Threads,    \* the threads that share the semaphore
    MaxLen,     \* bound: tokens in stock plus tokens being posted
    NoThread    \* the owner of a free mutex

ASSUME ThreadsAssumption == IsFiniteSet(Threads) /\ NoThread \notin Threads
ASSUME MaxLenAssumption == MaxLen \in Nat \ {0}

VARIABLES
    len,        \* _len
    mutex,      \* the thread that owns _mutex, or NoThread
    cond,       \* the threads blocked inside _cond.wait
    pc          \* where each thread is

vars == <<len, mutex, cond, pc>>

PcValues == {"idle", "notify_lock", "notify_inc", "notify_one",
             "wait_lock", "wait_check", "asleep", "relock", "unlock"}

\* Threads that have called notify() and have not counted their token yet.
Notifying == {t \in Threads : pc[t] \in {"notify_lock", "notify_inc"}}

\* Threads inside wait() that have not been granted a token.
Waiting == {t \in Threads : pc[t] \in {"wait_lock", "wait_check", "asleep", "relock"}}

Goto(t, from, to) ==
    /\ pc[t] = from
    /\ pc' = [pc EXCEPT ![t] = to]

Init ==
    /\ len = 0
    /\ mutex = NoThread
    /\ cond = {}
    /\ pc = [t \in Threads |-> "idle"]

-----------------------------------------------------------------------------
(* notify() *)

\* A client calls notify().  The guard is the bound on outstanding tokens.
CallNotify(t) ==
    /\ len + Cardinality(Notifying) < MaxLen
    /\ Goto(t, "idle", "notify_lock")
    /\ UNCHANGED <<len, mutex, cond>>

\* Mutant: the increment is done before the mutex is taken.
NotifyLockNoMutex(t) ==
    /\ Goto(t, "notify_lock", "notify_inc")
    /\ UNCHANGED <<len, mutex, cond>>

NotifyLock(t) ==
    /\ mutex = NoThread
    /\ Goto(t, "notify_lock", "notify_inc")
    /\ mutex' = t
    /\ UNCHANGED <<len, cond>>

NotifyInc(t) ==
    /\ Goto(t, "notify_inc", "notify_one")
    /\ len' = len + 1
    /\ UNCHANGED <<mutex, cond>>

\* Mutant: the condition is only signalled when the stock was empty, the
\* classic way to lose a wakeup when two tokens arrive for two sleepers.
NotifyOneOnFirstToken(t) ==
    /\ pc[t] = "notify_one"
    /\ \/ /\ cond # {} /\ len = 1
          /\ \E s \in cond :
                /\ cond' = cond \ {s}
                /\ pc' = [pc EXCEPT ![t] = "unlock", ![s] = "relock"]
       \/ /\ cond = {} \/ len # 1
          /\ pc' = [pc EXCEPT ![t] = "unlock"]
          /\ UNCHANGED cond
    /\ UNCHANGED <<len, mutex>>

\* _cond.notify_one(): one blocked thread, if there is any, leaves the
\* condition variable and goes for the mutex.
NotifyOne(t) ==
    /\ pc[t] = "notify_one"
    /\ \/ \E s \in cond :
             /\ cond' = cond \ {s}
             /\ pc' = [pc EXCEPT ![t] = "unlock", ![s] = "relock"]
       \/ /\ cond = {}
          /\ pc' = [pc EXCEPT ![t] = "unlock"]
          /\ UNCHANGED cond
    /\ UNCHANGED <<len, mutex>>

\* The destructor of the unique_lock, at the end of notify() and of wait().
Unlock(t) ==
    /\ Goto(t, "unlock", "idle")
    /\ mutex' = NoThread
    /\ UNCHANGED <<len, cond>>

-----------------------------------------------------------------------------
(* wait() *)

CallWait(t) ==
    /\ Goto(t, "idle", "wait_lock")
    /\ UNCHANGED <<len, mutex, cond>>

WaitLock(t) ==
    /\ mutex = NoThread
    /\ Goto(t, "wait_lock", "wait_check")
    /\ mutex' = t
    /\ UNCHANGED <<len, cond>>

\* The predicate holds: --_len.
WaitTake(t) ==
    /\ len > 0
    /\ Goto(t, "wait_check", "unlock")
    /\ len' = len - 1
    /\ UNCHANGED <<mutex, cond>>

\* The predicate fails: the mutex is released and the thread joins the
\* condition variable in one step.
WaitSleep(t) ==
    /\ len = 0
    /\ Goto(t, "wait_check", "asleep")
    /\ mutex' = NoThread
    /\ cond' = cond \cup {t}
    /\ UNCHANGED len

\* std::condition_variable may return without a notification.
SpuriousWakeup(t) ==
    /\ t \in cond
    /\ cond' = cond \ {t}
    /\ pc' = [pc EXCEPT ![t] = "relock"]
    /\ UNCHANGED <<len, mutex>>

\* Mutant: wait() written with "if" instead of the predicate loop, so that a
\* woken thread takes a token without looking again.
RelockNoRecheck(t) ==
    /\ mutex = NoThread
    /\ Goto(t, "relock", "unlock")
    /\ mutex' = t
    /\ len' = len - 1
    /\ UNCHANGED cond

\* A woken thread gets the mutex back and evaluates the predicate again.
Relock(t) ==
    /\ mutex = NoThread
    /\ Goto(t, "relock", "wait_check")
    /\ mutex' = t
    /\ UNCHANGED <<len, cond>>

-----------------------------------------------------------------------------
Step(t) ==
    \/ NotifyLock(t) \/ NotifyInc(t) \/ NotifyOne(t) \/ Unlock(t)
    \/ WaitLock(t) \/ WaitTake(t) \/ WaitSleep(t) \/ Relock(t)

Next == \E t \in Threads :
    \/ CallNotify(t) \/ CallWait(t) \/ SpuriousWakeup(t)
    \/ NotifyLock(t) \/ NotifyInc(t) \/ NotifyOne(t) \/ Unlock(t)
    \/ WaitLock(t) \/ WaitTake(t) \/ WaitSleep(t) \/ Relock(t)

SafeSpec == Init /\ [][Next]_vars

\* A thread inside notify() or wait() keeps running, and a thread that keeps
\* asking for the mutex is not refused it forever.  Nothing is assumed of the
\* clients (CallNotify, CallWait) or of spurious wakeups.
Fairness == \A t \in Threads :
    /\ WF_vars(Step(t))
    /\ SF_vars(NotifyLock(t)) /\ SF_vars(WaitLock(t)) /\ SF_vars(Relock(t))

Spec == SafeSpec /\ Fairness

-----------------------------------------------------------------------------
(* Properties *)

\* The range of every variable.  _len is unsigned, and --_len on zero would
\* wrap around to the largest value: here it would show as a negative number.
TypeOK ==
    /\ len \in Nat
    /\ mutex \in Threads \cup {NoThread}
    /\ cond \subseteq Threads
    /\ pc \in [Threads -> PcValues]

\* The mutex is held by exactly the thread that is between lock and unlock,
\* and the threads inside the condition variable are the sleeping ones.
MutexOwner ==
    /\ \A t \in Threads :
         (mutex = t) <=> pc[t] \in {"notify_inc", "notify_one", "wait_check", "unlock"}
    /\ cond = {t \in Threads : pc[t] = "asleep"}

\* Threads on their way to a token: woken from the condition variable and not
\* back in it, or about to wake somebody.
Due == {t \in Threads : pc[t] \in {"relock", "wait_check", "notify_one"}}

\* No wakeup is lost (notify(), wait() of sem.h): while some thread sleeps in
\* the condition variable, every token in stock is matched by a thread that is
\* awake and will look at the counter, or that is about to wake a sleeper.
\* Hence no thread sleeps forever next to a token.
NoLostWakeup == cond # {} => len <= Cardinality(Due)

\* sem.h implements the counting semaphore: a token is in stock from ++_len to
\* --_len, is granted once, only to a thread inside wait(), and is granted as
\* long as there is one and somebody waits.
Abstract == INSTANCE CountingSemaphore WITH value <- len, waiting <- Waiting

ImplementsCountingSemaphore == Abstract!Spec
==============================================================================
