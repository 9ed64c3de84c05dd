SPECIFICATION FairSpec
CONSTANTS
    NDEBUG = TRUE
    Requests <- FewRequests
    NbRegs = 2
    ByteWise = TRUE
    NoiseMasks <- NoMask
    IoErrors = FALSE
    MaxCalls = 3
    MaxNoise = 0
INVARIANTS AppliedWritesRequested InvalidArgMeansNoRegister RefusalMeansNoise
PROPERTY SlaveServesEveryRequest
CHECK_DEADLOCK FALSE
