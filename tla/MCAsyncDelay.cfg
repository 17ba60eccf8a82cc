CONSTANTS
    Coroutines = {c1, c2}
    Apis = {"get", "update", "wait_yield"}
    Priorities = {0, 1}
    HandlerDelays = {0, 1}
    HandlerActs = {"get", "throw"}
    MaxTime = 2
    MaxPosts = 3
    MaxDepth = 2
    MaxThrown = 1
SPECIFICATION HistorySpec
INVARIANTS TypeOK EntriesMatch  UndisturbedExactlyOnce
PROPERTIES MostUrgentWhenDue 
CHECK_DEADLOCK FALSE
