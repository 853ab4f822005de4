CONSTANTS
    Invocations = {i1, i2}
    Updates = {}
    NewEnvs <- NoEnvs
    None = None
    MaxStarting = 1
    Events = {"on_demand", "start_failure", "startup_timeout", "invocation_failure", "shutdown"}
    p1 = p1
    p2 = p2
    u1 = u1
    u2 = u2
SPECIFICATION FairSpec
INVARIANTS TypeOK ExclusiveUse KeepaliveSparesInvocations IdleHasTimer
PROPERTIES  IdleReclaimed
CHECK_DEADLOCK FALSE
