\* Ids past the 32-bit range: unsigned int has 2 values, unsigned long 8.
CONSTANTS
    Fds = {3, 4}
    Addrs = {1, 2}
    UIntMod = 2
    ULongMod = 8
    MaxId = 3
    WillEndMayEnd = FALSE
SPECIFICATION SafeSpec
INVARIANT KeyIsSessionId
CHECK_DEADLOCK FALSE
