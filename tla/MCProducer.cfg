CONSTANTS
    Consumers = {c1, c2}
    Blocks = {b1, b2, b3}
    NoBlock = NoBlock
    BLOCK_SIZE = 2
    IndexSize = 16
    MAX_SUBQUEUE_SIZE = 4
    MaxDemand = 2
    MaxLag = 3
    MaxSpan = 6
    Counts = {3}
    EXPLICIT_INITIAL_INDEX_SIZE = 2
    IMPLICIT_INITIAL_INDEX_SIZE = 2
VIEW View
SYMMETRY Symmetry
SPECIFICATION Spec
INVARIANTS PromisesKept DistinctElements ReadsOwnElements WritesFreeCells DestructorExact WithinLimit
CHECK_DEADLOCK FALSE
