\* OnSessionWillEnd of one session ends another one.
CONSTANTS
    Fds = {3, 4}
    Addrs = {1, 2}
    UIntMod = 4
    ULongMod = 4
    MaxId = 2
    WillEndMayEnd = TRUE
SPECIFICATION SafeSpec
INVARIANT EveryEndedSessionIsDeleted
CHECK_DEADLOCK FALSE
