CONSTANT MaxLines = 6
SPECIFICATION Spec
INVARIANTS
    TypeOK
    ResponsesAreTheBytes
    RequestsCarryNoOldBody
PROPERTIES
    OnRecvDataReturns
CHECK_DEADLOCK FALSE
