SPECIFICATION Spec
CONSTANTS
    m1 = m1
    m2 = m2
    m3 = m3
    g1 = g1
    g2 = g2
    Msgs = {m1, m2}
    Groups = {g1}
    GroupOf <- OneGroup
    Consumers = {c1, c2}
    NoGroup = NoGroup
    Delayed = TRUE
    MaxReceiveCount = 1
    MaxNum = 2
    MaxReceives = 2
    Events = {"purge", "retention", "expired_delete", "delete_dlq", "change_visibility"}
SYMMETRY Perms
VIEW CallView
CHECK_DEADLOCK FALSE
INVARIANTS
    TypeOK
    OnePlace
    NoLoss
    
