CONSTANTS
    c1 = c1
    c2 = c2
    c3 = c3
    Enqueuers = {e1, e2}
    Consumers = {c1, c2, c3}
    TokenUsers = {c1}
    InitialOffset <- MCOffset
    Counts = {1, 2}
    Requests <- MCRequests
    QUOTA = 2
    MaxElements = 2
SPECIFICATION Spec
INVARIANTS CountsAgree RoundIsComplete
PROPERTY LockFree
