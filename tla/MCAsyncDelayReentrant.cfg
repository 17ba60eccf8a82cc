CONSTANTS
    Coroutines = {c1, c2}
    Apis = {"get"}
    Priorities = {0, 1}
    HandlerDelays = {0}
    HandlerActs = {}
    MaxTime = 2
    MaxPosts = 2
    MaxDepth = 1
    MaxThrown = 0
SPECIFICATION HistorySafeSpec
INVARIANTS ExactlyOnce
CHECK_DEADLOCK FALSE
