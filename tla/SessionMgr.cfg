\* Safety: 3 descriptors, 2 heap addresses, 3 ids, no wrap of the key.
CONSTANTS
    Fds = {3, 4, 5}
    Addrs = {1, 2}
    UIntMod = 5
    ULongMod = 5
    MaxId = 3
    WillEndMayEnd = FALSE
SPECIFICATION SafeSpec
INVARIANTS
    TypeOK
    TableSound
    CallbacksSound
    HandlerObjectAlive
    GCSound
    NoOrphan
    DescriptorsOwned
CHECK_DEADLOCK FALSE
