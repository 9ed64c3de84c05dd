SPECIFICATION Spec
CONSTANTS
    NDEBUG = TRUE
    Requests <- MCRequests
    NbRegs = 2
    FlagValues <- MCFlags
    Values <- MCValues
INVARIANT TypeOK
PROPERTIES ImplementsRegisterFile BadCrcHasNoEffect
