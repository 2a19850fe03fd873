SPECIFICATION MemSpec
CONSTANTS
    WORD = 8
    BYTE = 2
    RTU_MEMORY_ADDR = 3
    RTU_MEMORY_SIZE = 3
    INT_BITS_16 = TRUE
    MAX_RD_REGISTERS = 3
    MAX_WR_REGISTERS = 2
    MAX_BYTES = 4
    ADU_CAPACITY = 11
    Requests <- MCRequests
    SelfAddr = 1
INVARIANTS
    MemTypeOK
    ReadsStayInside
    ReplyFitsAdu

    
CHECK_DEADLOCK FALSE
