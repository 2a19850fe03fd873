SPECIFICATION Spec
CONSTANTS
    Byte <- MCByte
    RXBUF_CAPACITY = 5
    TXBUF_CAPACITY = 4
    CalcCrc <- MCCalcCrc
    Replies <- MCReplies
INVARIANTS
    NoFrameWhileSending
