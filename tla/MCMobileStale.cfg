SPECIFICATION Spec
CONSTANTS
    Devices = {d1, d2}
    NoDevice = NoDevice
    Types <- UsbTypes
    MaxFd = 3
    MaxBroadcasts = 2
PROPERTY ConnectedToChosen
CHECK_DEADLOCK FALSE
