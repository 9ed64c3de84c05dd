SPECIFICATION FairSpec
CONSTANTS
    NDEBUG = TRUE
    Requests <- MCRequests
    NbRegs = 2
    FifoSize = 11
    PacketSize = 64
    MaxCalls = 3
    MaxUnanswered = 2
INVARIANTS TypeOK AnswersAreExpected
PROPERTIES FifoIsStream EveryRequestAnswered
