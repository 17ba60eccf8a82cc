---------------------------- MODULE LightSemaphore ----------------------------
(***************************************************************************)
(* moodycamel::LightweightSemaphore (lightweightsemaphore.h), the semaphore*)
(* inside the vendored blocking queue: an atomic count that goes below     *)
(* zero by one for each thread that has gone to sleep on a kernel          *)
(* semaphore, which signal() posts only for threads that sleep.            *)
(*                                                                         *)
(* One action per atomic operation.  The load of m_count and the exchange  *)
(* that succeeds on the loaded value are one action; the number of spins   *)
(* before a thread goes to sleep is left open.  wait is waitMany(1) and    *)
(* tryWait is tryWaitMany(1): they take the same steps.                    *)
(***************************************************************************)
EXTENDS Integers, FiniteSets

CONSTANTS
    Callers,    \* the threads that share the semaphore
    MaxMany,    \* the most tokens asked for or signalled in one call
    MaxCount    \* bound: signal() is only called below this count

ASSUME CallersAssumption == IsFiniteSet(Callers)
ASSUME LightBoundsAssumption == MaxMany \in Nat \ {0} /\ MaxCount \in Nat

VARIABLES
    m_count,
    m_sema,     \* the value of the kernel semaphore
    phase,
    max,        \* how many tokens the thread's call asks for
    mode,       \* whether that call polls, waits, or waits for a limited time
    toRelease   \* posts the thread's signal() still has to make

lightVars == <<m_count, m_sema, phase, max, mode, toRelease>>

LightInit ==
    /\ m_count = 0
    /\ m_sema = 0
    /\ phase = [t \in Callers |-> "idle"]
    /\ max = [t \in Callers |-> 0]
    /\ mode = [t \in Callers |-> "none"]
    /\ toRelease = [t \in Callers |-> 0]

Enter(t, from, to) == phase[t] = from /\ phase' = [phase EXCEPT ![t] = to]

\* The call of t, at step from, returns.
Return(t, from) ==
    /\ Enter(t, from, "idle")
    /\ max' = [max EXCEPT ![t] = 0]
    /\ mode' = [mode EXCEPT ![t] = "none"]

Smaller(a, b) == IF a < b THEN a ELSE b

-----------------------------------------------------------------------------
(* tryWait, tryWaitMany, wait and waitMany *)

Call(t, n, how) ==
    /\ Enter(t, "idle", "try")
    /\ max' = [max EXCEPT ![t] = n]
    /\ mode' = [mode EXCEPT ![t] = how]
    /\ UNCHANGED <<m_count, m_sema, toRelease>>

\* The exchange that takes between one and max tokens, from tryWaitMany or
\* from the spinning loop.
TryTake(t) ==
    /\ m_count > 0
    /\ m_count' = m_count - Smaller(m_count, max[t])
    /\ Return(t, "try") \/ Return(t, "spin")
    /\ UNCHANGED <<m_sema, toRelease>>

TryFail(t) ==
    /\ m_count <= 0
    /\ IF mode[t] = "try"
       THEN Return(t, "try")
       ELSE Enter(t, "try", "spin") /\ UNCHANGED <<max, mode>>
    /\ UNCHANGED <<m_count, m_sema, toRelease>>

\* The caller owns one token; waitMany looks for more.
Granted(t, from) ==
    IF max[t] > 1
    THEN Enter(t, from, "more") /\ UNCHANGED <<max, mode>>
    ELSE Return(t, from)

\* fetch_sub(1) after the last spin.
Subtract(t) ==
    /\ m_count' = m_count - 1
    /\ IF m_count > 0
       THEN Granted(t, "spin")
       ELSE Enter(t, "spin", "sleep") /\ UNCHANGED <<max, mode>>
    /\ UNCHANGED <<m_sema, toRelease>>

\* m_sema.wait() or m_sema.timed_wait() gets a post, at once or later.
Wake(t) ==
    /\ m_sema > 0
    /\ m_sema' = m_sema - 1
    /\ Granted(t, "sleep") \/ Granted(t, "blocked")
    /\ UNCHANGED <<m_count, toRelease>>

\* There is no post: the kernel puts the thread to sleep.
Block(t) ==
    /\ m_sema = 0
    /\ Enter(t, "sleep", "blocked")
    /\ UNCHANGED <<m_count, m_sema, max, mode, toRelease>>

\* m_sema.timed_wait() returns false.  A post may have come in the meantime,
\* but one that was there when it was called would have been taken.
Timeout(t) ==
    /\ mode[t] = "timed"
    /\ Enter(t, "blocked", "adjust")
    /\ UNCHANGED <<m_count, m_sema, max, mode, toRelease>>

\* Mutant: the count is left as it is when the wait is given up.
AdjustForgets(t) ==
    /\ IF m_count >= 0
       THEN Enter(t, "adjust", "late") /\ UNCHANGED <<m_count, max, mode>>
       ELSE UNCHANGED m_count /\ Return(t, "adjust")
    /\ UNCHANGED <<m_sema, toRelease>>

\* The count says whether somebody signalled for this thread since.  If not,
\* the exchange takes back its share of the count and the wait has failed.
Adjust(t) ==
    /\ IF m_count >= 0
       THEN Enter(t, "adjust", "late") /\ UNCHANGED <<m_count, max, mode>>
       ELSE m_count' = m_count + 1 /\ Return(t, "adjust")
    /\ UNCHANGED <<m_sema, toRelease>>

\* Mutant: the post is taken for granted.
TakeLateBlindly(t) ==
    /\ m_sema' = m_sema - 1
    /\ Granted(t, "late")
    /\ UNCHANGED <<m_count, toRelease>>

\* If so, the post is on its way or there: m_sema.try_wait(), and again.
TakeLate(t) ==
    /\ IF m_sema > 0
       THEN m_sema' = m_sema - 1 /\ Granted(t, "late")
       ELSE Enter(t, "late", "adjust") /\ UNCHANGED <<m_sema, max, mode>>
    /\ UNCHANGED <<m_count, toRelease>>

\* tryWaitMany(max - 1) on behalf of a waitMany that has its first token.
TakeMore(t) ==
    /\ m_count' = IF m_count > 0 THEN m_count - Smaller(m_count, max[t] - 1) ELSE m_count
    /\ Return(t, "more")
    /\ UNCHANGED <<m_sema, toRelease>>

-----------------------------------------------------------------------------
(* signal *)

\* Mutant: every token signalled is also posted to the kernel semaphore.
ReleaseAll(oldCount, count) == count

\* How many sleeping threads the signal is for.
Release(oldCount, count) == Smaller(-oldCount, count)

Signal(t, count) ==
    LET release == Release(m_count, count)
    IN  /\ m_count < MaxCount
        /\ m_count' = m_count + count
        /\ IF release > 0
           THEN Enter(t, "idle", "post") /\ toRelease' = [toRelease EXCEPT ![t] = release]
           ELSE Enter(t, "idle", "idle") /\ UNCHANGED toRelease
        /\ UNCHANGED <<m_sema, max, mode>>

\* One sem_post of m_sema.signal(toRelease).
Post(t) ==
    /\ Enter(t, "post", IF toRelease[t] = 1 THEN "idle" ELSE "post")
    /\ m_sema' = m_sema + 1
    /\ toRelease' = [toRelease EXCEPT ![t] = @ - 1]
    /\ UNCHANGED <<m_count, max, mode>>

-----------------------------------------------------------------------------
\* What a thread inside a call does.
InCall(t) ==
    \/ TryTake(t) \/ TryFail(t) \/ Subtract(t) \/ Wake(t) \/ Block(t)
    \/ Adjust(t) \/ TakeLate(t) \/ TakeMore(t) \/ Post(t)

LightNext == \E t \in Callers :
    \/ \E n \in 1..MaxMany, how \in {"try", "wait", "timed"} : Call(t, n, how)
    \/ \E count \in 1..MaxMany : Signal(t, count)
    \/ Timeout(t)
    \/ InCall(t)

\* Threads inside a call keep running; nobody has to call, and no wait has to
\* time out.
LightSpec == LightInit /\ [][LightNext]_lightVars /\ \A t \in Callers : WF_lightVars(InCall(t))

-----------------------------------------------------------------------------
(* Properties *)

\* The range of every variable; in particular nobody takes a post that is not
\* there.
LightTypeOK ==
    /\ m_count \in Int
    /\ m_sema \in Nat
    /\ phase \in [Callers -> {"idle", "try", "spin", "sleep", "blocked", "adjust",
                           "late", "more", "post"}]
    /\ max \in [Callers -> 0..MaxMany]
    /\ mode \in [Callers -> {"none", "try", "wait", "timed"}]
    /\ toRelease \in [Callers -> 0..MaxMany]

At(phases) == {t \in Callers : phase[t] \in phases}

\* Threads that are counted in a negative m_count.
Sleepers == At({"sleep", "blocked", "adjust", "late"})

Releasing == {d \in Callers \X (1..MaxMany) : d[2] <= toRelease[d[1]]}

\* The posts made and still to be made are exactly those the sleeping threads
\* are owed: all of them if the count is not negative, otherwise all but
\* -m_count.  A post too few leaves a thread asleep beside a token (the race of
\* a timed wait that gives up with the signal meant for it); a post too many
\* lets a later sleeper through without a token.
PostsOwed ==
    m_sema + Cardinality(Releasing) = Cardinality(Sleepers) + Smaller(m_count, 0)

\* The counters of the light semaphore and of the one it sleeps on agree at
\* every step of wait, waitMany and signal.
CountersAgree == LightTypeOK /\ PostsOwed

Counting == INSTANCE CountingSemaphore WITH
    Threads <- Callers,
    value <- m_count + Cardinality(Sleepers) + Cardinality(At({"more"})),
    waiting <- At({"try", "spin", "more"}) \cup Sleepers

\* Seen from its callers it is a counting semaphore: tokens are neither lost
\* nor invented, whatever way a wait ends, and while there is a token and
\* somebody waits, somebody is served.
LightImplementsCountingSemaphore == Counting!Spec
==============================================================================
