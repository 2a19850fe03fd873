SPECIFICATION LinuxSpec
CONSTANTS
    Byte <- MCByte
    RXBUF_CAPACITY = 6
    TXBUF_CAPACITY = 4
    CalcCrc <- MCCalcCrc
    Replies <- MCReplies
    Frames <- MCFrameSet
    READ_CAPACITY = 3
INVARIANTS
    LinuxTypeOK
    PduCbSeesTheFrame
    EventsKeepUp
    WaitsOnlyInIdle
    LossOnlyAfterBadFrame
PROPERTIES
    FrameEndsInTtyRead
CHECK_DEADLOCK FALSE
