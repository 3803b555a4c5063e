CONSTANT MaxLines = 6
SPECIFICATION Spec
INVARIANTS
    TypeOK
    RequestsDependOnBytesOnly
    ClosesAfterResponse
PROPERTIES
    OnRecvDataReturns
CHECK_DEADLOCK FALSE
