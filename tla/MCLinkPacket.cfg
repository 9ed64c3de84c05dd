SPECIFICATION Spec
CONSTANTS
    NDEBUG = TRUE
    Requests <- MCRequests
    NbRegs = 2
    ByteWise = FALSE
    NoiseMasks <- MCMasks
    IoErrors = TRUE
    MaxCalls = 3
    MaxNoise = 1
INVARIANTS TypeOK AppliedWritesRequested NoFalseSuccess InvalidArgMeansNoRegister
CHECK_DEADLOCK FALSE
