SPECIFICATION FairSpec
CONSTANTS
    Msgs = {m1}
    Consumers = {c1, c2}
    NoMsg = NoMsg
    MaxReceiveCount = 2
    MaxNum = 1
    MaxReceives = 3
CHECK_DEADLOCK FALSE
INVARIANT
    InflightHasReceipt
PROPERTIES
    WorkerRequeues
    ReceiveReturns
