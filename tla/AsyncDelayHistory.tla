-------------------------- MODULE AsyncDelayHistory --------------------------
(***************************************************************************)
(* AsyncDelay with a history of what the subscribers do, and what the      *)
(* channel delivers as long as none of them calls it or throws.            *)
(***************************************************************************)
EXTENDS AsyncDelay

VARIABLE disturbed      \* history: a subscriber has called the channel or has thrown

HistoryVars == <<vars, disturbed>>

HistoryInit == Init /\ disturbed = FALSE

\* While a subscriber runs, anything but its return or the clock disturbs.
Disturbance ==
    \E c \in Coroutines :
        /\ cur = c /\ InPhase(c, "call")
        /\ posted' # posted \/ thrown' # thrown \/ Len(stack'[c]) > Len(stack[c])

HistoryNext ==
    /\ Next
    /\ disturbed' = IF Disturbance THEN TRUE ELSE disturbed

HistorySafeSpec == HistoryInit /\ [][HistoryNext]_HistoryVars
HistorySpec == HistorySafeSpec /\ Fairness

\* As long as no subscriber calls the channel or throws, a posted message is
\* never lost and never given twice to the subscribers, however many coroutines
\* are inside _get.
UndisturbedExactlyOnce == ~disturbed => ExactlyOnce

\* The thread sleeps in _sem.wait(), and with it the coroutines that have a
\* token and have yielded.
Asleep == InPhase(cur, "sem") /\ sem = 0

\* Every posted message is eventually given to the subscribers, unless one of
\* them calls the channel or throws, or the thread goes to sleep in _get.
UndisturbedDelivered == \A id \in Ids :
    (id <= posted) ~> (disturbed \/ Asleep \/ \E i \in DOMAIN log : log[i] = id)
=============================================================================
