SPECIFICATION FairSpec
CONSTANTS
    t1 = t1
    t2 = t2
    t3 = t3
    t4 = t4
    w1 = w1
    w2 = w2
    NoTrigger = NoTrigger
    Trigger <- Triggers
    GivenId <- OwnIds
    Worker = {w1, w2}
    Poison = {t1}
    MaxFailures = 1
CHECK_DEADLOCK FALSE
INVARIANTS
    TypeOK
    NothingLost
    OnePlace
PROPERTIES
    PoisonDoesNotStarve
