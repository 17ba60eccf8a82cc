CONSTANTS
    Publishers = {p1, x1}
    Consumers = {c1, x1}
    Calls = {"get", "get_yield", "update", "wait", "wait_yield"}
    MaxPublish = 2
    MaxDrops = 1
    NoMsg = NoMsg
SPECIFICATION Spec
INVARIANTS TypeOK TokensMatch GrantedNeverBlocks ExactlyOnce InOrder
PROPERTIES DeliveredUnlessWithheld
CHECK_DEADLOCK FALSE
