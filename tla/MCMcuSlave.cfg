SPECIFICATION McuSpec
CONSTANTS
    Byte <- MCByte
    RXBUF_CAPACITY = 6
    TXBUF_CAPACITY = 4
    CalcCrc <- MCCalcCrc
    Replies <- MCReplies
    Frames <- MCFrameSet
INVARIANTS
    McuTypeOK
    WakeupComes
    LatchedOnlyAfterError
    PduCbSeesTheFrame
    LossOnlyAfterBadFrame
    SuspendedOnlyAfterBadFrame
PROPERTIES
    FrameEndsInIdle
