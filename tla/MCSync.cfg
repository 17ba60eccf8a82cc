CONSTANTS
    Guards = {g1, g2}
    Reassign = FALSE
    MaxHandlers = 4
    MaxDepth = 2
SYMMETRY GuardSymmetry
SPECIFICATION SafeSpec
INVARIANTS FlagTellsMembership OneWayToUndefined CallsInOrder AutoDisconnect
PROPERTIES EverybodyCalled
CHECK_DEADLOCK FALSE
