SPECIFICATION FairSpec
CONSTANTS
    e1 = e1
    projector = projector
    notifier = notifier
    analytics = analytics
    p1 = p1
    p2 = p2
    Delivery = {e1}
    Subscriber = {projector, notifier, analytics}
    FanOut <- InOrder
    Known = {projector}
    Replayer = {p1, p2}
    MaxAttempts <- PolicyOf
    BatchSize = 2
    MaxFaults = 1
CHECK_DEADLOCK FALSE
INVARIANTS
    TypeOK
    NothingForgotten
    DeadLetteredWhenExhausted
    DeadLettersAreAudited
PROPERTIES
    SettledIsLeftAlone
    EventuallyHandledOrGivenUp
