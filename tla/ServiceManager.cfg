SPECIFICATION FairSpec
CONSTANTS
    Services = {s1, s2}
    Requests = {r1, r2}
    Internal = {r2}
    Fallible = {s1}
    None = None
CHECK_DEADLOCK FALSE
INVARIANTS
    TypeOK
    OneContainer
    StartsExclusive
    StopsAll
PROPERTIES
    RequestsEnd
    ShutdownEnds
