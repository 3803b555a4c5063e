CONSTANTS
    MaxLen = 2
    MaxBytes = 4
    WatchMayFail = FALSE
SPECIFICATION SslSafeSpec
INVARIANT SentCloseWaitsForData
CHECK_DEADLOCK FALSE
