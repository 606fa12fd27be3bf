SPECIFICATION FairSpec
CONSTANTS
    m1 = m1
    m2 = m2
    d1 = d1
    d2 = d2
    NoMessage = NoMessage
    Message <- TwoMessages
    Dispatcher <- OneDispatcher
    EventCount = 2
    MaxAttempts = 2
    BatchSize = 1
    MaxAborts = 2
CHECK_DEADLOCK FALSE
INVARIANTS
    TypeOK
PROPERTIES
    SettledIsFinal
    ImplementsDelivery
