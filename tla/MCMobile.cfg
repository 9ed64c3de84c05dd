SPECIFICATION Spec
CONSTANTS
    Devices = {d1, d2}
    NoDevice = NoDevice
    Types <- IoTypes
    MaxFd = 3
    MaxBroadcasts = 2
INVARIANTS TypeOK PageMatchesLibrary ConnectedIsLive TransfersAgree
PROPERTY ConnectedToChosenUnlessFailed
SYMMETRY DeviceSymmetry
CHECK_DEADLOCK FALSE
