SPECIFICATION Spec
CONSTANTS
    Msgs = {m1, m2}
    Consumers = {c1, c2}
    NoMsg = NoMsg
    MaxReceiveCount = 1
    MaxNum = 2
    MaxReceives = 2
SYMMETRY Perms
CHECK_DEADLOCK FALSE
PROPERTY
    Implements
INVARIANTS
    TypeOK
    OnePlace
    NoLoss
    VisibleNotLeased
    DeadLettersLeave
