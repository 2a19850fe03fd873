SPECIFICATION TimedSpec
CONSTANTS
    Byte <- MCByte
    RXBUF_CAPACITY = 6
    TXBUF_CAPACITY = 10
    CalcCrc <- MCCalcCrc
    Replies <- MCLongReplies
    Frames <- MCGoodFrames
    Setups <- MCSetups
    Gaps <- MCGaps
    Space <- MCSpace
    Latencies <- MCLatencies
    TIMEOUT_EXEC_MS = 0
INVARIANTS
    ProcessedInTime
    ReplyKeepsSilence
    ReplyComesInTime
    NoErrorOnGoodLine
    SuspendedForFrame
