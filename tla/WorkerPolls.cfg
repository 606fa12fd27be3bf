SPECIFICATION FairWorkerSpec
CONSTANTS
    t1 = t1
    t2 = t2
    m1 = m1
    m2 = m2
    NoMessage = NoMessage
    NoTrigger = NoTrigger
    poller = poller
    worker = worker
    Message = {m1, m2}
    EventCount = 1
    MaxAttempts = 2
    BatchSize = 2
    MaxAborts = 1
    OccurredAt = {0, 2}
    BadTime <- BadTimeValue
    Command <- Commands
    DefaultCommand <- Default
    GivenCommand <- Given
    Trigger <- Triggers
    GivenId <- OwnIds
CHECK_DEADLOCK FALSE
INVARIANTS
    WorkerTypeOK
    RetriesAreSpaced
    NothingLeftWithinHorizon
    SettledWhenProcessed
PROPERTIES
    ImplementsQueue
