CONSTANTS
    Callers = {t1, t2, t3}
    MaxMany = 2
    MaxCount = 2
SPECIFICATION LightSpec
INVARIANTS CountersAgree
PROPERTY LightImplementsCountingSemaphore
CHECK_DEADLOCK FALSE
