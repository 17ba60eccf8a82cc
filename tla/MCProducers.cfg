CONSTANTS
    Threads = {t1, t2}
    HashOf <- MCHashOf
    Tokens = {k1, k2}
    NoToken = NoToken
    NoThread = NoThread
    INITIAL_IMPLICIT_PRODUCER_HASH_SIZE = 2
    MaxProducers = 3
    MaxFailures = 1
SPECIFICATION Spec
INVARIANTS  CountExact Ownership OnTheList
PROPERTIES SameProducer CallsReturn
