-------------------------- MODULE CountingSemaphore --------------------------
(***************************************************************************)
(* What a counting semaphore promises to its callers, whatever it is built *)
(* from: a stock of tokens, a set of threads that have asked for one, and  *)
(* the obligation to hand a token over when there is both a token and      *)
(* somebody asking.  fes::semaphore (module Semaphore) and the vendored    *)
(* LightweightSemaphore (module LightSemaphore) are shown to implement it; *)
(* AsyncFast and BlockingQueue use it in place of the implementations.     *)
(***************************************************************************)
EXTENDS Naturals

CONSTANT Threads

VARIABLES
    value,      \* tokens that have been posted and not taken
    waiting     \* threads inside wait() that have not got their token yet

svars == <<value, waiting>>

Init ==
    /\ value = 0
    /\ waiting = {}

\* notify(): one more token.
Post ==
    /\ value' = value + 1
    /\ UNCHANGED waiting

\* wait() is called.
Ask(t) ==
    /\ t \notin waiting
    /\ waiting' = waiting \cup {t}
    /\ UNCHANGED value

\* wait() is granted a token: a token is never created and never granted to
\* a thread that did not ask.
Take(t) ==
    /\ t \in waiting
    /\ value > 0
    /\ value' = value - 1
    /\ waiting' = waiting \ {t}

\* signal(n): n tokens at once.
PostMany(n) ==
    /\ value' = value + n
    /\ UNCHANGED waiting

\* waitMany() is granted n tokens.
TakeMany(t, n) ==
    /\ t \in waiting
    /\ n <= value
    /\ value' = value - n
    /\ waiting' = waiting \ {t}

\* A caller that does not want to wait, or not any longer, leaves empty-handed.
GiveUp(t) ==
    /\ t \in waiting
    /\ waiting' = waiting \ {t}
    /\ UNCHANGED value

Next ==
    \/ Post
    \/ \E n \in 1..(value' - value) : PostMany(n)
    \/ \E t \in Threads : Ask(t) \/ Take(t) \/ GiveUp(t)
    \/ \E t \in Threads, n \in 1..value : TakeMany(t, n)

SafeSpec == Init /\ [][Next]_svars

\* The obligation to hand tokens over.  It says that some asking thread is
\* served, not which one: a newcomer may overtake a thread that waited longer.
Spec == SafeSpec /\ WF_svars(\E t \in Threads, n \in 1..value : TakeMany(t, n))
==============================================================================
