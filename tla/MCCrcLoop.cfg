SPECIFICATION Spec
CONSTANT Payloads <- MCPayloads
INVARIANTS LoopComputesRemainder TableAgreesWithLoop SingleByteErrorsDetected
PROPERTY LoopTerminates
CHECK_DEADLOCK FALSE
