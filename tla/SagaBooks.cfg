SPECIFICATION Spec
CONSTANTS
    s1 = s1
    s2 = s2
    s3 = s3
    Saga <- Sagas
    RequestId <- Sagas
    RequestIdOf <- KeyIsShared
CHECK_DEADLOCK FALSE
INVARIANTS
    TypeOK
    StatusIsTrue
    OrdersArePaidFor
    ShippedIsPaid
