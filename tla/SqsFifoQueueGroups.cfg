SPECIFICATION Spec
CONSTANTS
    m1 = m1
    m2 = m2
    m3 = m3
    g1 = g1
    g2 = g2
    Msgs = {m1, m2, m3}
    Groups = {g1, g2}
    GroupOf <- TwoGroups
    Consumers = {c1, c2}
    NoGroup = NoGroup
    Delayed = FALSE
    MaxReceiveCount = 1
    MaxNum = 1
    MaxReceives = 3
    Events = {"change_visibility", "zero_timeout"}
SYMMETRY ConsumerPerms
CHECK_DEADLOCK FALSE
INVARIANT
    NotStranded
PROPERTY
    ExclusiveReceive
