SPECIFICATION Spec
CONSTANTS
    s1 = s1
    s2 = s2
    s3 = s3
    Saga <- OneSaga
    RequestId <- OneSaga
    RequestIdOf <- OwnRequestId
CHECK_DEADLOCK FALSE
INVARIANTS
    FailureIsCompensated
