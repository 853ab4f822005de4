SPECIFICATION FairSpec
CONSTANTS
    Events = {e1}
    MaxMsgs = 2
    Revisions = 2
    MaxRetries = 1
    MaxReceives = 4
    MaxLate = 1
    LateDelete = FALSE
    None = None
CHECK_DEADLOCK FALSE
INVARIANTS
    TypeOK
    EventKept
    OneResult
    RetriesBounded
PROPERTIES
    EventsEnd
    PollersEnd
