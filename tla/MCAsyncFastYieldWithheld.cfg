CONSTANTS
    Publishers = {p1}
    Consumers = {c1}
    Calls = {"get_yield"}
    MaxPublish = 2
    MaxDrops = 0
    NoMsg = NoMsg
SPECIFICATION Spec
PROPERTIES EventuallyDelivered
CHECK_DEADLOCK FALSE
