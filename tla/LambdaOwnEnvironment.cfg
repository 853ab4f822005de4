CONSTANTS
    Invocations = {i1, i2}
    Updates = {}
    NewEnvs <- NoEnvs
    None = None
    MaxStarting = 1
    Events = {"on_demand"}
    p1 = p1
    p2 = p2
    u1 = u1
    u2 = u2
SPECIFICATION Spec
INVARIANTS OwnEnvironment
CHECK_DEADLOCK FALSE
