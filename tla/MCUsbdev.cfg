SPECIFICATION DirectSpec
CONSTANTS
    Devices = {"usbdev"}
    MaxLen = 2
    MaxCalls = 2
    MaxAnswers = 2
CHECK_DEADLOCK FALSE
INVARIANT ReadReturnsWhatMoved
