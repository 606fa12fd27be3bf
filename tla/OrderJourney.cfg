SPECIFICATION FairSpec
CONSTANTS
    r1 = r1
    r2 = r2
    k1 = k1
    c1 = c1
    c2 = c2
    projector = projector
    Request = {r1, r2}
    NoOrder = NoOrder
    Key = {k1}
    KeyOf <- SameKey
    Customer = {c1, c2}
    Owner <- OwnedByC1
    Admin = Admin
    NoActor = NoActor
    OddRole = OddRole
    d1 = d1
    d2 = d2
    Dispatcher = {d1, d2}
    Busy <- BothOrOne
    MaxAttempts = 2
    BatchSize = 1
    Subscriber = {projector}
    FanOut <- JustIt
    Projector = projector
    Policy <- TwoTries
    Replayer = {p1}
    MaxFaults = 1
CHECK_DEADLOCK FALSE
INVARIANTS
    ShownIsOrdered
    OthersLearnNothing
    OrdersAccountedFor
PROPERTIES
    PlacedIsShown
