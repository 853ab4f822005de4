SPECIFICATION FairSpec
CONSTANTS
    MaxAttempts = 2
    MaxSignals = 2
    None = None
CHECK_DEADLOCK FALSE
INVARIANT
    TypeOK
PROPERTIES
    HeartbeatsCount
    AnswerEndsAttempt
    WorkersEnd
