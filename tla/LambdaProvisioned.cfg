CONSTANTS
    Invocations = {i1, i2, i3}
    Updates = {u1, u2}
    NewEnvs <- PutAndDelete
    None = None
    MaxStarting = 1
    Events = {"start_failure", "invocation_failure", "shutdown"}
    p1 = p1
    p2 = p2
    u1 = u1
    u2 = u2
SPECIFICATION Spec
INVARIANTS LeaseServed
SYMMETRY Perms
CHECK_DEADLOCK FALSE
