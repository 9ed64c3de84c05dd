------------------------- MODULE MCMobileConnection -------------------------
EXTENDS MobileConnection, TLC

DeviceSymmetry == Permutations(Devices)
UsbTypes == {"USBDEV", "LIBUSB"}
=============================================================================
