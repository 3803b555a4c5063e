CONSTANTS
    MaxLen = 4
    MaxBytes = 6
    WatchMayFail = TRUE
    HeadLen = 2
    m_nMaxMsgLen = 3
SPECIFICATION ChannelSpec
INVARIANTS
    ChannelTypeOK
    NothingDropped
    WatchedWhilePending
    SentCloseWaitsForData
    MessagesAreThoseSent
    NoneHeldBack
PROPERTIES
    ImplementsByteStream
    SentCloseEnds
    EveryMessageArrives
CHECK_DEADLOCK FALSE
