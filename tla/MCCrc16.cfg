SPECIFICATION CrcSpec
CONSTANTS
    MAX_FREE = 2
    MAX_PAYLOAD = 254
    MAX_FLIPS = 2
    NoisyBytes <- MCNoisyBytes
INVARIANTS
    PortsAgree
    FourBitsApart
CHECK_DEADLOCK FALSE
