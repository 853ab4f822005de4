SPECIFICATION Spec
CONSTANTS
    Msgs = {m1, m2}
    Consumers = {c1, c2}
    NoMsg = NoMsg
    MaxReceiveCount = 0
    MaxNum = 1
    MaxReceives = 2
CHECK_DEADLOCK FALSE
INVARIANT
    OnlyExpiredDropped
