SPECIFICATION FairSpec
CONSTANTS
    Devices = {"libusb", "usbdev", "proxy"}
    MaxLen = 2
    MaxCalls = 3
    MaxAnswers = 2
    MaxCuts = 2
\* The page may stop calling, or end.
CHECK_DEADLOCK FALSE
INVARIANTS TypeOK LockStep TakenIsAsked ReadsAreTrue WritesAreTrue UsbOpenWhenUsed
PROPERTIES CallsReturn StopEndsTask
