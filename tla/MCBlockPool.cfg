CONSTANTS
    Threads = {t1, t2, t3}
    initialBlockPoolSize = 2
    MaxBlocks = 3
    MaxHeld = 1
SYMMETRY Symmetry
SPECIFICATION Spec
INVARIANTS EveryBlockOnce ReferencesSound
