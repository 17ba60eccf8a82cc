CONSTANTS
    Threads = {t1, t2, t3, t4}
    NoThread = NoThread
    MaxLen = 3
SPECIFICATION Spec
INVARIANTS TypeOK MutexOwner NoLostWakeup
PROPERTIES ImplementsCountingSemaphore
