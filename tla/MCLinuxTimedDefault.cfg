SPECIFICATION LinuxTimedSpec
CONSTANTS
    Byte <- MCByte
    RXBUF_CAPACITY = 8
    TXBUF_CAPACITY = 10
    CalcCrc <- MCCalcCrc
    Replies <- MCLongReplies
    Frames <- MCGoodFrames
    READ_CAPACITY = 3
    Setups <- MCDefault
    Gaps <- MCNoGaps
    Space <- MCSilence
    Latencies <- MCNoLatency
    TIMEOUT_EXEC_MS = 43
INVARIANTS
    NoErrorOnGoodLine
