SPECIFICATION Spec
CONSTANTS
    NDEBUG = TRUE
    Requests <- FewRequests
    NbRegs = 2
    ByteWise = FALSE
    NoiseMasks <- NoMask
    IoErrors = FALSE
    MaxCalls = 3
    MaxNoise = 0
INVARIANTS GetReturnsHeldValue
CHECK_DEADLOCK FALSE
