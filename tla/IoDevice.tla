------------------------------ MODULE IoDevice ------------------------------
(***************************************************************************)
(* The life cycle of a device of the library as its users see it through   *)
(* proto_iodevice.h: created by type, given a descriptor by the setter of  *)
(* its type, opened, closed.  A device is the descriptor it uses and, for  *)
(* libusb, whether libusb accepted it.  Only the empty path is opened: the *)
(* descriptor comes from the caller.                                       *)
(***************************************************************************)
EXTENDS Integers

IoTypes == {"EMULSLAVE", "SERIAL", "USBDEV", "LIBUSB", "PROXY"}
FdTypes == {"SERIAL", "USBDEV", "LIBUSB"}

NoFd == -1
Device(Fds) == [type : IoTypes, fd : Fds \cup {NoFd}, wrapped : BOOLEAN]

device_create(type) == [type |-> type, fd |-> NoFd, wrapped |-> FALSE]

\* devserial_setFD takes what it is given; the two others refuse a negative
\* descriptor.  All refuse when the device already has one.
SetFdRefused(dev, fd) ==
    dev.fd # NoFd \/ dev.wrapped \/ (dev.type # "SERIAL" /\ fd = NoFd)
SetFd(dev, fd) == [dev EXCEPT !.fd = fd]

\* devserial_open closes first, which forgets the descriptor it was given.
\* Mutant: marked closed with a descriptor the system also uses.
devserial_openZero(dev) == [dev EXCEPT !.fd = 0]
devserial_open(dev) == [dev EXCEPT !.fd = NoFd]

\* A device and whether the call on it succeeded.
Opened(dev, ok) == [dev |-> dev, ok |-> ok]

Wrapped(dev) == [dev EXCEPT !.wrapped = TRUE]

\* What open may do: libusb may refuse to wrap the descriptor, and the socket
\* of the proxy may fail to connect.
OpenResults(dev) ==
    CASE dev.type = "EMULSLAVE" -> {Opened(dev, TRUE)}
      [] dev.type = "SERIAL"    -> {Opened(devserial_open(dev), TRUE)}
      [] dev.type = "USBDEV"    -> {Opened(dev, TRUE)}
      [] dev.type = "LIBUSB"    ->
            {Opened(dev, FALSE), Opened(Wrapped(dev), TRUE)}
      [] dev.type = "PROXY"     -> {Opened(dev, TRUE), Opened(dev, FALSE)}
=============================================================================
