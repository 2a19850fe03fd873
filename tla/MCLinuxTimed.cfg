SPECIFICATION LinuxTimedSpec
CONSTANTS
    Byte <- MCByte
    RXBUF_CAPACITY = 8
    TXBUF_CAPACITY = 10
    CalcCrc <- MCCalcCrc
    Replies <- MCLongReplies
    Frames <- MCGoodFrames
    READ_CAPACITY = 3
    Setups <- MCSetups
    Gaps <- MCGaps
    Space <- MCSpace
    Latencies <- MCLatencies
    TIMEOUT_EXEC_MS = 43
INVARIANTS
    ProcessedInTime
    ReplyComesInTime
    NoErrorOnGoodLine
