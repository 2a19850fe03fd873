SPECIFICATION LinkSpec
CONSTANTS
    WORD = 16
    BYTE = 4
    RTU_MEMORY_ADDR = 2
    RTU_MEMORY_SIZE = 2
    INT_BITS_16 = FALSE
    MAX_RD_REGISTERS = 4
    MAX_WR_REGISTERS = 2
    MAX_BYTES = 6
    ADU_CAPACITY = 13
    Requests <- MCRequests
    SelfAddr = 1
    Calls <- MCCalls
    LATE = FALSE
    BACKLOG = 0
INVARIANTS
    LinkTypeOK
    ReadsFitBuffer
    SuccessIsReal
    NothingLeftBehind
    LegalCallsAreServed
    WholeRepliesAreUnderstood
PROPERTIES
    CallReturns
