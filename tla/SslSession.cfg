CONSTANTS
    MaxLen = 2
    MaxBytes = 4
    WatchMayFail = TRUE
SPECIFICATION SslSpec
INVARIANTS
    SslTypeOK
    WatchedWhilePending
    NoDataBeforeHandshake
    StateSound
PROPERTIES
    ImplementsByteStream
    EveryByteSent
CHECK_DEADLOCK FALSE
