SPECIFICATION Spec
CONSTANTS
    NDEBUG = TRUE
    Requests <- OneRequest
    NbRegs = 5
    FifoSize = 40
    PacketSize = 64
    MaxCalls = 10
    MaxUnanswered = 10
INVARIANT BytesReadable
