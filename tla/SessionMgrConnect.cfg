CONSTANTS
    Fds = {3, 4}
    Addrs = {1, 2}
    UIntMod = 4
    ULongMod = 4
    MaxId = 2
    WillEndMayEnd = FALSE
SPECIFICATION SafeSpec
INVARIANT BegunConnectionsWereEstablished
CHECK_DEADLOCK FALSE
