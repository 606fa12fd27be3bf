SPECIFICATION Spec
CONSTANTS
    m1 = m1
    m2 = m2
    d1 = d1
    d2 = d2
    NoMessage = NoMessage
    Message <- OneMessage
    Dispatcher <- TwoDispatchers
    EventCount = 2
    MaxAttempts = 3
    BatchSize = 2
    MaxAborts = 1
CHECK_DEADLOCK FALSE
INVARIANT MaxAttemptsDeadLetters
