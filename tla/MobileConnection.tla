-------------------------- MODULE MobileConnection --------------------------
(***************************************************************************)
(* How the mobile application connects: the page (MainPage.xaml.cs), the   *)
(* Android USB manager (DroidPandaVcom.cs), the binding (dll_if.cs) and    *)
(* the devices of the library.  Everything runs in the main thread; what   *)
(* interleaves are the user's taps and Android's permission broadcasts,    *)
(* which arrive when the user has moved on.  A broadcast says whether the  *)
(* permission was granted; the handler never asks for which device.        *)
(***************************************************************************)
EXTENDS IoDevice, Sequences

CONSTANTS
    Devices,      \* USB devices plugged in; each has both bulk endpoints on
                  \* one interface
    NoDevice,
    Types,        \* device types the user picks
    MaxFd,        \* bound: descriptors of USB connections
    MaxBroadcasts \* bound: answers not delivered yet

ASSUME MobileAssumption ==
    /\ NoDevice \notin Devices
    /\ Types \subseteq IoTypes
    /\ MaxFd \in Nat
    /\ MaxBroadcasts \in Nat

Fds == 1 .. MaxFd
NoHandle == [type |-> "NONE", fd |-> NoFd, wrapped |-> FALSE]

VARIABLES
    app,        \* "running", or "stopped" by an exception nobody catches
    (* the page *)
    conf,       \* _eConfDllDevice
    popup,      \* popupView.IsVisible; it covers the page
    online,     \* the buttons: TRUE when receive, send and disconnect are
                \* enabled, FALSE when connect and the device picker are
    connected,  \* _IsConnected
    proxy,      \* _iusbProxy: "none", "serving", "stopped"
    (* the library *)
    handle,     \* the device under m_handle
    (* the USB manager *)
    usbdev, connection, fd,
    endpoints,  \* ep_in and ep_out are set
    (* Android *)
    permitted,  \* devices the application may open
    asked,      \* devices a permission is asked for
    broadcasts, \* answers not delivered yet
    system,     \* which device is open under each descriptor
    (* history *)
    chosen,     \* the last device selected and not turned down by the alert,
                \* NoDevice for the emulated slave
    openFailed  \* some OpenDevice got no connection or no interface

page == <<conf, popup>>
link == <<online, connected, proxy, handle>>
manager == <<connection, fd, endpoints, system, openFailed>>
android == <<permitted, asked, broadcasts>>
vars == <<app, conf, popup, online, connected, proxy, handle, usbdev,
          connection, fd, endpoints, permitted, asked, broadcasts, system,
          chosen, openFailed>>

Init ==
    /\ app = "running"
    /\ conf = "LIBUSB" /\ popup = FALSE
    /\ online = FALSE /\ connected = FALSE /\ proxy = "none"
    /\ handle = NoHandle
    /\ usbdev = NoDevice /\ connection = NoFd /\ fd = NoFd
    /\ endpoints = FALSE
    /\ permitted \in SUBSET Devices
    /\ asked = {} /\ broadcasts = << >>
    /\ system = [f \in Fds |-> NoDevice]
    /\ chosen = NoDevice /\ openFailed = FALSE

-----------------------------------------------------------------------------
(* The USB manager.                                                        *)

\* The system gives the lowest free descriptor.
Free == { f \in Fds : system[f] = NoDevice }
NextFree == { f \in Free : \A g \in Free : f <= g }

\* OpenDevice: Android may refuse the connection, or the interface; the
\* fields set by an earlier attempt stay, and so does its connection.
OpenRefused ==
    /\ connection' = NoFd
    /\ openFailed' = TRUE
    /\ UNCHANGED <<fd, endpoints, system>>
InterfaceRefused(dev) ==
    \E f \in NextFree :
        /\ connection' = f
        /\ system' = [system EXCEPT ![f] = dev]
        /\ openFailed' = TRUE
        /\ UNCHANGED <<fd, endpoints>>
\* Mutant: the descriptor is only stored the first time.
InterfaceOpenedOnce(dev) ==
    \E f \in NextFree :
        /\ connection' = f
        /\ system' = [system EXCEPT ![f] = dev]
        /\ fd' = IF fd = NoFd THEN f ELSE fd
        /\ endpoints' = TRUE
        /\ UNCHANGED openFailed
InterfaceOpened(dev) ==
    \E f \in NextFree :
        /\ connection' = f
        /\ system' = [system EXCEPT ![f] = dev]
        /\ fd' = f
        /\ endpoints' = TRUE
        /\ UNCHANGED openFailed
OpenDevice(dev) == OpenRefused \/ InterfaceRefused(dev) \/ InterfaceOpened(dev)

-----------------------------------------------------------------------------
(* Backend_OnPermReqCompleted with the permission granted.                 *)

Throws == app' = "stopped" /\ UNCHANGED link

\* Open, and the buttons: enabled by a success, never disabled by a failure.
Connects(result) ==
    /\ handle' = result.dev
    /\ connected' = result.ok
    /\ online' = (online \/ result.ok)
    /\ UNCHANGED app

\* A refused setFD leaves the binding and _IsConnected as they were.
FdResults(dev) ==
    IF SetFdRefused(dev, fd') THEN {Opened(handle, connected)}
    ELSE OpenResults(SetFd(dev, fd'))

\* GetDeviceConnection reads the addresses of endpoints that may be null.
ConnectFd ==
    /\ conf \in FdTypes
    /\ \/ ~endpoints' /\ Throws
       \/ /\ endpoints'
          /\ \E r \in FdResults(device_create(conf)) : Connects(r)
          /\ UNCHANGED proxy

\* A new server each time; its port may still be held by the one before,
\* whose listener nobody stops.
ConnectProxy ==
    /\ conf = "PROXY"
    /\ \/ proxy # "none" /\ Throws
       \/ \E r \in OpenResults(device_create("PROXY")) :
             Connects(r) /\ proxy' = IF r.ok THEN "serving" ELSE "stopped"

\* The device is created, and never opened.
ConnectNothing ==
    /\ conf = "EMULSLAVE"
    /\ online' = (online \/ connected)
    /\ UNCHANGED <<app, connected, proxy, handle>>

Backend_OnPermReqCompleted == ConnectFd \/ ConnectProxy \/ ConnectNothing

-----------------------------------------------------------------------------
(* The user.                                                               *)
Picker_SelectedIndexChanged(type) ==
    /\ app = "running" /\ ~popup /\ ~online
    /\ conf' = type
    /\ UNCHANGED <<app, popup, link, usbdev, manager, android, chosen>>

OnButtonConnectClicked ==
    /\ app = "running" /\ ~popup /\ ~online
    /\ popup' = TRUE
    /\ UNCHANGED <<app, conf, link, usbdev, manager, android, chosen>>

OnButtonCancelClicked ==
    /\ app = "running" /\ popup
    /\ popup' = FALSE
    /\ UNCHANGED <<app, conf, link, usbdev, manager, android, chosen>>

\* OnButtonValidateClicked with the emulated slave selected.
\* Mutant: the type is not forced.
ConnectEmulatedKeepsType ==
    /\ app = "running" /\ popup
    /\ popup' = FALSE
    /\ chosen' = NoDevice
    /\ \E r \in OpenResults(device_create("EMULSLAVE")) : Connects(r)
    /\ UNCHANGED <<conf, proxy, usbdev, manager, android>>
ConnectEmulated ==
    /\ app = "running" /\ popup
    /\ popup' = FALSE
    /\ chosen' = NoDevice
    /\ conf' = "EMULSLAVE"
    /\ \E r \in OpenResults(device_create("EMULSLAVE")) : Connects(r)
    /\ UNCHANGED <<proxy, usbdev, manager, android>>

\* The same with a USB device.
Validate(dev) ==
    /\ app = "running" /\ popup
    /\ popup' = FALSE
    /\ UNCHANGED conf
TypeIncorrect(dev) ==
    /\ Validate(dev)
    /\ conf = "EMULSLAVE"
    /\ UNCHANGED <<app, link, usbdev, manager, android, chosen>>
RequestPermission(dev) ==
    /\ Validate(dev)
    /\ conf # "EMULSLAVE"
    /\ dev \notin permitted
    /\ usbdev' = dev /\ chosen' = dev
    /\ asked' = asked \cup {dev}
    /\ UNCHANGED <<app, link, manager, permitted, broadcasts>>
ConnectPermitted(dev) ==
    /\ Validate(dev)
    /\ conf # "EMULSLAVE"
    /\ dev \in permitted
    /\ usbdev' = dev /\ chosen' = dev
    /\ OpenDevice(dev)
    /\ Backend_OnPermReqCompleted
    /\ UNCHANGED android

\* Backend_Disconnect: the library, the proxy, then the USB connection.
\* Mutant: the library's handle is kept.
DisconnectKeepsHandle ==
    /\ app = "running" /\ ~popup /\ online
    /\ proxy' = IF conf = "PROXY" THEN "stopped" ELSE proxy
    /\ system' = [f \in Fds |-> IF f = connection THEN NoDevice ELSE system[f]]
    /\ usbdev' = NoDevice /\ connection' = NoFd /\ fd' = NoFd
    /\ endpoints' = FALSE
    /\ connected' = FALSE /\ online' = FALSE
    /\ UNCHANGED <<app, handle, page, android, chosen, openFailed>>
OnButtonDisconnectClicked ==
    /\ app = "running" /\ ~popup /\ online
    /\ handle' = NoHandle
    /\ proxy' = IF conf = "PROXY" THEN "stopped" ELSE proxy
    /\ system' = [f \in Fds |-> IF f = connection THEN NoDevice ELSE system[f]]
    /\ usbdev' = NoDevice /\ connection' = NoFd /\ fd' = NoFd
    /\ endpoints' = FALSE
    /\ connected' = FALSE /\ online' = FALSE
    /\ UNCHANGED <<app, page, android, chosen, openFailed>>

\* Closing the library cuts the client off; when that has already ended the
\* proxy's task with an exception, waiting for the task throws it again.
DisconnectThrows ==
    /\ app = "running" /\ ~popup /\ online
    /\ conf = "PROXY"
    /\ Throws
    /\ UNCHANGED <<page, usbdev, manager, android, chosen>>

\* OnButtonReceiveClicked with the switch for transfers by Android on, which
\* uses the manager's connection whatever the library is connected to.  Other
\* transfers leave all this alone; OnButtonSendClicked catches the exception.
ReceiveThrows ==
    /\ app = "running" /\ ~popup /\ online
    /\ connection = NoFd \/ ~endpoints
    /\ Throws
    /\ UNCHANGED <<page, usbdev, manager, android, chosen>>

-----------------------------------------------------------------------------
(* Android.                                                                *)
Answer(dev, granted) ==
    /\ dev \in asked
    /\ Len(broadcasts) < MaxBroadcasts
    /\ asked' = asked \ {dev}
    /\ permitted' = IF granted THEN permitted \cup {dev} ELSE permitted
    /\ broadcasts' = Append(broadcasts, granted)
    /\ UNCHANGED <<app, page, link, usbdev, manager, chosen>>

Receive(granted) ==
    /\ app = "running"
    /\ broadcasts # << >> /\ Head(broadcasts) = granted
    /\ broadcasts' = Tail(broadcasts)
    /\ UNCHANGED <<page, usbdev, permitted, asked, chosen>>

OnReceiveGranted ==
    /\ Receive(TRUE)
    /\ usbdev \in permitted
    /\ OpenDevice(usbdev)
    /\ Backend_OnPermReqCompleted

\* Closed in between, or replaced by a device without permission: OpenDevice
\* throws.
OnReceiveGrantedTooLate ==
    /\ Receive(TRUE)
    /\ usbdev \notin permitted
    /\ Throws
    /\ UNCHANGED manager

\* The page is not told; the log wants the name of a device.
OnReceiveRefused ==
    /\ Receive(FALSE)
    /\ app' = IF usbdev = NoDevice THEN "stopped" ELSE app
    /\ UNCHANGED <<link, manager>>

Next ==
    \/ \E type \in Types : Picker_SelectedIndexChanged(type)
    \/ OnButtonConnectClicked \/ OnButtonCancelClicked
    \/ ConnectEmulated
    \/ \E dev \in Devices :
          TypeIncorrect(dev) \/ RequestPermission(dev) \/ ConnectPermitted(dev)
    \/ OnButtonDisconnectClicked \/ DisconnectThrows \/ ReceiveThrows
    \/ \E dev \in Devices, granted \in BOOLEAN : Answer(dev, granted)
    \/ OnReceiveGranted \/ OnReceiveGrantedTooLate \/ OnReceiveRefused

Spec == Init /\ [][Next]_vars

-----------------------------------------------------------------------------
\* Every field holds what its C# or C type allows.
TypeOK ==
    /\ app \in {"running", "stopped"}
    /\ conf \in IoTypes /\ popup \in BOOLEAN
    /\ chosen \in Devices \cup {NoDevice}
    /\ online \in BOOLEAN /\ connected \in BOOLEAN
    /\ proxy \in {"none", "serving", "stopped"}
    /\ handle \in Device(Fds) \cup {NoHandle}
    /\ usbdev \in Devices \cup {NoDevice}
    /\ connection \in Fds \cup {NoFd} /\ fd \in Fds \cup {NoFd}
    /\ endpoints \in BOOLEAN
    /\ permitted \subseteq Devices /\ asked \subseteq Devices
    /\ broadcasts \in Seq(BOOLEAN)
    /\ system \in [Fds -> Devices \cup {NoDevice}]
    /\ openFailed \in BOOLEAN

\* Whatever order the taps and the broadcasts come in, a page whose transfer
\* and disconnect buttons are enabled has a library handle to use and to
\* close, of the device type the picker shows, which decides whether
\* disconnecting stops the proxy; and _IsConnected never outlives them.
PageMatchesLibrary ==
    /\ connected => online
    /\ online => /\ handle # NoHandle
                 /\ handle.type = conf
                 /\ conf = "PROXY" => proxy # "none"

\* The library never holds a descriptor Android has closed, which the system
\* could give to another connection; and a connection reported as made over
\* usbdev, libusb or the proxy is made over an open one.
ConnectedIsLive ==
    /\ handle.fd # NoFd => system[handle.fd] # NoDevice
    /\ connected =>
         /\ conf \in {"USBDEV", "LIBUSB"} => handle.fd # NoFd
         /\ conf = "LIBUSB" => handle.wrapped
         /\ conf = "PROXY" => proxy = "serving"

\* The page's two ways to transfer reach the same target: while the buttons
\* are enabled over USB, and unless Android refused an open, Android's own
\* transfers find a connection with endpoints, and it is to the device whose
\* descriptor the library has, whatever was asked for or granted meanwhile.
TransfersAgree ==
    online /\ conf # "EMULSLAVE" /\ ~openFailed
        => /\ endpoints /\ connection # NoFd
           /\ handle.fd # NoFd => system[connection] = system[handle.fd]

\* OpenDevice was called and the page says the connection is made.
Connected == connected' /\ connection' # connection

\* A connection made over usbdev or libusb is made to the device the user
\* chose last: GetDeviceConnection returns "a system File descriptor & more
\* USB info for the opened connection".
ConnectedToChosen ==
    [][Connected /\ conf \in {"USBDEV", "LIBUSB"} =>
         system'[handle'.fd] = chosen']_vars

\* The same, as long as Android opened every device it was asked to open,
\* however late the permissions are granted and whatever was asked meanwhile.
ConnectedToChosenUnlessFailed ==
    [][Connected /\ conf \in {"USBDEV", "LIBUSB"} /\ ~openFailed' =>
         system'[handle'.fd] = chosen']_vars
=============================================================================
