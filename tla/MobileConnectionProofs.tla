----------------------- MODULE MobileConnectionProofs -----------------------
(***************************************************************************)
(* What the connection life cycle guarantees for any set of devices, any   *)
(* choice of types and any number of descriptors: the invariants of the    *)
(* page and of the descriptors, and that a connection is made to the       *)
(* device chosen.                                                          *)
(***************************************************************************)
EXTENDS MobileConnection, TLAPS

IsOpen(f) == system[f] # NoDevice

\* The manager's fields: endpoints and descriptor are set together, and its
\* descriptor is never one it closed.
ManagerInv ==
    /\ connection \in Fds \cup {NoFd} /\ fd \in Fds \cup {NoFd}
    /\ endpoints \in BOOLEAN
    /\ system \in [Fds -> Devices \cup {NoDevice}]
    /\ openFailed \in BOOLEAN
    /\ endpoints => fd # NoFd
    /\ fd # NoFd => IsOpen(fd)

\* The page's state and the library's handle.
LinkInv ==
    /\ app \in {"running", "stopped"}
    /\ online \in BOOLEAN /\ connected \in BOOLEAN
    /\ proxy \in {"none", "serving", "stopped"}
    /\ handle \in Device(Fds) \cup {NoHandle}
    /\ PageMatchesLibrary
    /\ ConnectedIsLive

\* The rest; a device selected stays the one asked for until the page is
\* connected to the emulated slave.
UserInv ==
    /\ conf \in IoTypes /\ popup \in BOOLEAN
    /\ chosen \in Devices \cup {NoDevice}
    /\ usbdev \in Devices \cup {NoDevice}
    /\ permitted \subseteq Devices /\ asked \subseteq Devices
    /\ broadcasts \in Seq(BOOLEAN)
    /\ usbdev # NoDevice =>
         chosen = usbdev \/ (online /\ conf = "EMULSLAVE")

Inv == ManagerInv /\ LinkInv /\ UserInv

\* What an attempt to open leaves: no descriptor in use was closed.
StillOpen == \A g \in Fds : IsOpen(g) => system'[g] # NoDevice

-----------------------------------------------------------------------------
LEMMA FdFacts == Fds \subseteq Int /\ NoFd \notin Fds /\ NoFd \in Int
  BY SMT DEF Fds, NoFd

LEMMA DeviceType ==
  ASSUME NEW x \in Device(Fds)
  PROVE  x.type \in IoTypes /\ x.fd \in Fds \cup {NoFd} /\ x.wrapped \in BOOLEAN
  BY SMT DEF Device

LEMMA HandleType ==
  ASSUME handle \in Device(Fds) \cup {NoHandle}
  PROVE  handle.fd \in Fds \cup {NoFd}
  BY DeviceType, SMT DEF NoHandle

LEMMA InitInv == Init => Inv
<1> SUFFICES ASSUME Init PROVE Inv
  OBVIOUS
<1>1. ManagerInv
  <2>1. /\ connection \in Fds \cup {NoFd} /\ fd \in Fds \cup {NoFd}
        /\ endpoints \in BOOLEAN /\ openFailed \in BOOLEAN
        /\ ~endpoints /\ fd = NoFd
    BY DEF Init
  <2>2. system \in [Fds -> Devices \cup {NoDevice}]
    BY SMT DEF Init
  <2> QED
    BY <2>1, <2>2 DEF ManagerInv
<1>2. LinkInv
  <2>1. /\ app = "running" /\ proxy = "none"
        /\ online \in BOOLEAN /\ connected \in BOOLEAN
        /\ ~online /\ ~connected
        /\ handle = NoHandle /\ handle.fd = NoFd
    BY DEF Init, NoHandle
  <2> QED
    BY <2>1 DEF LinkInv, PageMatchesLibrary, ConnectedIsLive
<1>3. broadcasts \in Seq(BOOLEAN)
  BY SMT DEF Init
<1>4. UserInv
  BY <1>3 DEF Init, UserInv, IoTypes
<1> QED
  BY <1>1, <1>2, <1>4 DEF Inv

\* OpenDevice, whatever Android answers, keeps the manager's fields
\* consistent and closes nothing.
LEMMA OpenKeeps ==
  ASSUME ManagerInv, NEW dev \in Devices, OpenDevice(dev)
  PROVE  ManagerInv' /\ StillOpen
<1>1. CASE OpenRefused
  BY <1>1, SMT DEF OpenRefused, ManagerInv, StillOpen, IsOpen
<1>2. CASE InterfaceRefused(dev)
  <2>1. PICK f \in NextFree :
            /\ connection' = f
            /\ system' = [system EXCEPT ![f] = dev]
            /\ openFailed' = TRUE
            /\ UNCHANGED <<fd, endpoints>>
    BY <1>2 DEF InterfaceRefused
  <2>2. f \in Fds /\ dev # NoDevice
    BY MobileAssumption, SMT DEF NextFree, Free
  <2> QED
    BY <2>1, <2>2, SMT DEF ManagerInv, StillOpen, IsOpen
<1>3. CASE InterfaceOpened(dev)
  <2>1. PICK f \in NextFree :
            /\ connection' = f
            /\ system' = [system EXCEPT ![f] = dev]
            /\ fd' = f
            /\ endpoints' = TRUE
            /\ UNCHANGED openFailed
    BY <1>3 DEF InterfaceOpened
  <2>2. f \in Fds /\ dev # NoDevice /\ f # NoFd
    BY MobileAssumption, FdFacts, SMT DEF NextFree, Free
  <2> QED
    BY <2>1, <2>2, SMT DEF ManagerInv, StillOpen, IsOpen
<1> QED
  BY <1>1, <1>2, <1>3 DEF OpenDevice

\* A step that leaves page and library alone and closes no descriptor in use.
LEMMA LinkKept ==
  ASSUME LinkInv, UNCHANGED link, app' \in {"running", "stopped"}, StillOpen,
         conf' = conf \/ (~online /\ conf' \in IoTypes)
  PROVE  LinkInv'
  BY HandleType, SMT
  DEF LinkInv, link, StillOpen, IsOpen, PageMatchesLibrary, ConnectedIsLive

LEMMA DeviceUpdates ==
  ASSUME NEW d \in Device(Fds), NEW f \in Fds \cup {NoFd}
  PROVE  /\ SetFd(d, f) \in Device(Fds)
         /\ SetFd(d, f).type = d.type /\ SetFd(d, f).fd = f
         /\ devserial_open(d) \in Device(Fds)
         /\ devserial_open(d).type = d.type /\ devserial_open(d).fd = NoFd
         /\ Wrapped(d) \in Device(Fds) /\ Wrapped(d).wrapped
         /\ Wrapped(d).type = d.type /\ Wrapped(d).fd = d.fd
<1>1. /\ SetFd(d, f) \in Device(Fds)
      /\ SetFd(d, f).type = d.type /\ SetFd(d, f).fd = f
  BY DEF SetFd, Device
<1>2. /\ devserial_open(d) \in Device(Fds)
      /\ devserial_open(d).type = d.type /\ devserial_open(d).fd = NoFd
  BY DEF devserial_open, Device
<1>3. /\ Wrapped(d) \in Device(Fds) /\ Wrapped(d).wrapped
      /\ Wrapped(d).type = d.type /\ Wrapped(d).fd = d.fd
  BY DEF Wrapped, Device
<1> QED
  BY <1>1, <1>2, <1>3

\* A device the library opened: of the type asked for, on the descriptor it
\* was given, and live when the open succeeded.
Attempt(type, r) ==
    /\ r.dev \in Device(Fds) /\ r.ok \in BOOLEAN
    /\ r.dev.type = type
    /\ r.dev.fd \in {NoFd, fd'}
    /\ r.ok /\ type \in {"USBDEV", "LIBUSB"} => r.dev.fd = fd'
    /\ r.ok /\ type = "LIBUSB" => r.dev.wrapped

LEMMA Attempts ==
  ASSUME fd' \in Fds, conf \in FdTypes,
         NEW r \in FdResults(device_create(conf))
  PROVE  Attempt(conf, r)
<1> DEFINE new == device_create(conf)
           dev == SetFd(new, fd')
<1>1. conf \in IoTypes
  BY DEF FdTypes, IoTypes
<1>2. /\ new.type = conf /\ new.fd = NoFd /\ ~new.wrapped
      /\ new \in Device(Fds)
  BY <1>1 DEF device_create, Device
<1>3. ~SetFdRefused(new, fd')
  BY <1>2, FdFacts DEF SetFdRefused
<1>4. r \in OpenResults(dev)
  BY <1>3 DEF FdResults
<1> HIDE DEF new
<1>5. dev \in Device(Fds) /\ dev.type = conf /\ dev.fd = fd'
  BY <1>2, DeviceUpdates
<1> HIDE DEF dev
<1> DEFINE closed == devserial_open(dev)
           wrapped == Wrapped(dev)
<1>6. /\ closed \in Device(Fds) /\ closed.type = conf /\ closed.fd = NoFd
      /\ wrapped \in Device(Fds) /\ wrapped.wrapped
      /\ wrapped.type = conf /\ wrapped.fd = fd'
  BY <1>5, DeviceUpdates
<1>7. CASE conf = "SERIAL"
  <2>1. r = Opened(closed, TRUE)
    BY <1>4, <1>5, <1>7, SMT DEF OpenResults
  <2> HIDE DEF closed, wrapped
  <2> QED
    BY <1>6, <1>7, <2>1 DEF Opened, Attempt
<1>8. CASE conf = "USBDEV"
  <2>1. r = Opened(dev, TRUE)
    BY <1>4, <1>5, <1>8, SMT DEF OpenResults
  <2> QED
    BY <1>5, <1>8, <2>1 DEF Opened, Attempt
<1>9. CASE conf = "LIBUSB"
  <2>0. OpenResults(dev) = {Opened(dev, FALSE), Opened(wrapped, TRUE)}
    BY <1>5, <1>9 DEF OpenResults
  <2>1. r = Opened(dev, FALSE) \/ r = Opened(wrapped, TRUE)
    BY <1>4, <2>0
  <2> HIDE DEF closed, wrapped
  <2>2. CASE r = Opened(dev, FALSE)
    BY <1>5, <1>9, <2>2 DEF Opened, Attempt
  <2>3. CASE r = Opened(wrapped, TRUE)
    BY <1>6, <1>9, <2>3 DEF Opened, Attempt
  <2> QED
    BY <2>1, <2>2, <2>3
<1> QED
  BY <1>7, <1>8, <1>9 DEF FdTypes

-----------------------------------------------------------------------------
\* Backend_OnPermReqCompleted, after the manager's attempt to open.
LEMMA ConnectFdKeeps ==
  ASSUME LinkInv, ManagerInv', StillOpen, ConnectFd, conf' = conf
  PROVE  LinkInv'
<1>1. CASE Throws
  BY <1>1, LinkKept DEF Throws, link
<1>2. CASE /\ endpoints'
           /\ \E r \in FdResults(device_create(conf)) : Connects(r)
           /\ UNCHANGED proxy
  <2>1. PICK r \in FdResults(device_create(conf)) : Connects(r)
    BY <1>2
  <2>2. fd' \in Fds /\ system'[fd'] # NoDevice
    BY <1>2 DEF ManagerInv, IsOpen
  <2>3. conf \in FdTypes
    BY DEF ConnectFd
  <2>4. Attempt(conf, r)
    BY <2>2, <2>3, Attempts
  <2>5. /\ r.dev \in Device(Fds) /\ r.ok \in BOOLEAN /\ r.dev.type = conf
        /\ r.dev.fd # NoFd => r.dev.fd = fd'
        /\ r.ok /\ conf \in {"USBDEV", "LIBUSB"} => r.dev.fd = fd'
        /\ r.ok /\ conf = "LIBUSB" => r.dev.wrapped
    BY <2>4 DEF Attempt
  <2>6. /\ handle' = r.dev /\ connected' = r.ok /\ app' = app
        /\ online' = (online \/ r.ok)
    BY <2>1 DEF Connects
  <2>7. conf # "PROXY" /\ conf # "NONE"
    BY <2>3 DEF FdTypes
  <2>8. handle' # NoHandle
    BY <2>5, <2>6, <2>7 DEF NoHandle
  <2>9. PageMatchesLibrary'
    BY <2>5, <2>6, <2>7, <2>8 DEF PageMatchesLibrary
  <2>10. ConnectedIsLive'
    BY <2>2, <2>5, <2>6, <2>7, FdFacts DEF ConnectedIsLive
  <2>11. online' \in BOOLEAN /\ connected' \in BOOLEAN
    BY <2>5, <2>6
  <2> QED
    BY <1>2, <2>5, <2>6, <2>9, <2>10, <2>11 DEF LinkInv
<1> QED
  BY <1>1, <1>2 DEF ConnectFd

LEMMA ConnectProxyKeeps ==
  ASSUME LinkInv, StillOpen, ConnectProxy, conf' = conf
  PROVE  LinkInv'
<1>1. CASE Throws
  BY <1>1, LinkKept DEF Throws, link
<1>2. ASSUME NEW r \in OpenResults(device_create("PROXY")), Connects(r),
             proxy' = IF r.ok THEN "serving" ELSE "stopped"
      PROVE  LinkInv'
  <2> DEFINE dev == device_create("PROXY")
  <2>1. /\ dev \in Device(Fds) /\ dev.type = "PROXY" /\ dev.fd = NoFd
        /\ dev # NoHandle
    BY DEF device_create, Device, IoTypes, NoHandle
  <2> HIDE DEF dev
  <2>2. r \in OpenResults(dev)
    BY <1>2 DEF dev
  <2>3. OpenResults(dev) = {Opened(dev, TRUE), Opened(dev, FALSE)}
    BY <2>1 DEF OpenResults
  <2>4. r.dev = dev /\ r.ok \in BOOLEAN
    <3>1. CASE r = Opened(dev, TRUE)
      BY <3>1 DEF Opened
    <3>2. CASE r = Opened(dev, FALSE)
      BY <3>2 DEF Opened
    <3> QED
      BY <2>2, <2>3, <3>1, <3>2
  <2>5. /\ handle' = dev /\ connected' = r.ok /\ app' = app
        /\ online' = (online \/ r.ok)
    BY <1>2, <2>4 DEF Connects
  <2>6. /\ proxy' \in {"none", "serving", "stopped"} /\ proxy' # "none"
        /\ connected' => proxy' = "serving"
    BY <1>2, <2>4, <2>5
  <2>7. conf = "PROXY"
    BY DEF ConnectProxy
  <2>8. PageMatchesLibrary'
    BY <2>1, <2>5, <2>6, <2>7 DEF PageMatchesLibrary
  <2>9. ConnectedIsLive'
    BY <2>1, <2>5, <2>6, <2>7 DEF ConnectedIsLive
  <2>10. online' \in BOOLEAN /\ connected' \in BOOLEAN
    BY <2>4, <2>5
  <2> QED
    BY <2>1, <2>5, <2>6, <2>8, <2>9, <2>10 DEF LinkInv
<1> QED
  BY <1>1, <1>2 DEF ConnectProxy

LEMMA ConnectNothingKeeps ==
  ASSUME LinkInv, StillOpen, ConnectNothing, conf' = conf
  PROVE  LinkInv'
<1>1. online' = online
  BY DEF ConnectNothing, LinkInv, PageMatchesLibrary
<1> QED
  BY <1>1, LinkKept DEF ConnectNothing, link, LinkInv

LEMMA CompletedKeeps ==
  ASSUME LinkInv, ManagerInv', StillOpen, Backend_OnPermReqCompleted,
         conf' = conf
  PROVE  LinkInv'
  BY ConnectFdKeeps, ConnectProxyKeeps, ConnectNothingKeeps
  DEF Backend_OnPermReqCompleted

-----------------------------------------------------------------------------
\* A step that leaves the manager and Android's descriptors alone.
LEMMA ManagerKept ==
  ASSUME ManagerInv, UNCHANGED manager
  PROVE  ManagerInv' /\ StillOpen
  BY DEF ManagerInv, manager, StillOpen, IsOpen

\* The parts of the invariant that no action but the user's and Android's own
\* touch.
LEMMA UserKept ==
  ASSUME UserInv, UNCHANGED <<page, usbdev, permitted, asked, chosen>>,
         broadcasts' \in Seq(BOOLEAN), online => online'
  PROVE  UserInv'
  BY DEF UserInv, page

LEMMA OnlineStays ==
  ASSUME LinkInv, LinkInv',
         (app' = "stopped" /\ UNCHANGED link) \/ Backend_OnPermReqCompleted
  PROVE  online => online'
  BY DEF Backend_OnPermReqCompleted, ConnectFd, ConnectProxy, ConnectNothing,
         Connects, Throws, link, LinkInv

LEMMA UserStep ==
  ASSUME Inv,
         \/ \E type \in Types : Picker_SelectedIndexChanged(type)
         \/ OnButtonConnectClicked \/ OnButtonCancelClicked
         \/ ConnectEmulated \/ DisconnectThrows \/ ReceiveThrows
         \/ \E dev \in Devices : TypeIncorrect(dev) \/ RequestPermission(dev)
  PROVE  Inv'
<1> USE DEF Inv
<1>1. ASSUME NEW type \in Types, Picker_SelectedIndexChanged(type)
      PROVE  Inv'
  <2>1. UNCHANGED <<app, popup, link, usbdev, manager, android, chosen>>
        /\ conf' = type /\ ~online
    BY <1>1 DEF Picker_SelectedIndexChanged
  <2>2. conf' \in IoTypes
    BY <2>1, MobileAssumption
  <2>3. ManagerInv' /\ StillOpen
    BY <2>1, ManagerKept
  <2>4. LinkInv'
    BY <2>1, <2>2, <2>3, LinkKept DEF LinkInv
  <2>5. UserInv'
    BY <2>1, <2>2 DEF UserInv, android
  <2> QED
    BY <2>3, <2>4, <2>5
<1>2. CASE OnButtonConnectClicked \/ OnButtonCancelClicked
  <2>1. UNCHANGED <<app, conf, link, usbdev, manager, android, chosen>>
        /\ popup' \in BOOLEAN
    BY <1>2 DEF OnButtonConnectClicked, OnButtonCancelClicked
  <2>2. ManagerInv' /\ StillOpen
    BY <2>1, ManagerKept
  <2>3. LinkInv'
    BY <2>1, <2>2, LinkKept DEF LinkInv
  <2>4. UserInv'
    BY <2>1 DEF UserInv, android, link
  <2> QED
    BY <2>2, <2>3, <2>4
<1>3. CASE ConnectEmulated
  <2> DEFINE dev == device_create("EMULSLAVE")
  <2>1. /\ dev \in Device(Fds) /\ dev.type = "EMULSLAVE" /\ dev.fd = NoFd
        /\ dev # NoHandle
    BY DEF device_create, Device, IoTypes, NoHandle
  <2> HIDE DEF dev
  <2>2. OpenResults(dev) = {Opened(dev, TRUE)}
    BY <2>1 DEF OpenResults
  <2>3. Opened(dev, TRUE).dev = dev /\ Opened(dev, TRUE).ok = TRUE
    BY DEF Opened
  <2>4. PICK r \in OpenResults(dev) : Connects(r)
    BY <1>3 DEF ConnectEmulated, dev
  <2>5. /\ handle' = dev /\ connected' = TRUE /\ app' = app /\ online'
        /\ online' \in BOOLEAN
    BY <2>2, <2>3, <2>4 DEF Connects
  <2>6. /\ conf' = "EMULSLAVE" /\ chosen' = NoDevice /\ popup' = FALSE
        /\ UNCHANGED <<proxy, usbdev, manager, android>>
    BY <1>3 DEF ConnectEmulated
  <2>7. ManagerInv' /\ StillOpen
    BY <2>6, ManagerKept
  <2>8. PageMatchesLibrary' /\ ConnectedIsLive'
    BY <2>1, <2>5, <2>6 DEF PageMatchesLibrary, ConnectedIsLive
  <2>9. LinkInv'
    BY <2>1, <2>5, <2>6, <2>8 DEF LinkInv
  <2>10. UserInv'
    BY <2>5, <2>6 DEF UserInv, android, IoTypes
  <2> QED
    BY <2>7, <2>9, <2>10
<1>4. ASSUME NEW dev \in Devices, TypeIncorrect(dev)
      PROVE  Inv'
  <2>1. UNCHANGED <<app, conf, link, usbdev, manager, android, chosen>>
        /\ popup' = FALSE
    BY <1>4 DEF TypeIncorrect, Validate
  <2>2. ManagerInv' /\ StillOpen
    BY <2>1, ManagerKept
  <2>3. LinkInv'
    BY <2>1, <2>2, LinkKept DEF LinkInv
  <2>4. UserInv'
    BY <2>1 DEF UserInv, android, link
  <2> QED
    BY <2>2, <2>3, <2>4
<1>5. ASSUME NEW dev \in Devices, RequestPermission(dev)
      PROVE  Inv'
  <2>1. /\ UNCHANGED <<app, conf, link, manager, permitted, broadcasts>>
        /\ popup' = FALSE /\ usbdev' = dev /\ chosen' = dev
        /\ asked' = asked \cup {dev}
    BY <1>5 DEF RequestPermission, Validate
  <2>2. ManagerInv' /\ StillOpen
    BY <2>1, ManagerKept
  <2>3. LinkInv'
    BY <2>1, <2>2, LinkKept DEF LinkInv
  <2>4. UserInv'
    BY <2>1 DEF UserInv
  <2> QED
    BY <2>2, <2>3, <2>4
<1>6. CASE DisconnectThrows \/ ReceiveThrows
  <2>1. UNCHANGED <<link, page, usbdev, manager, android, chosen>>
        /\ app' = "stopped"
    BY <1>6 DEF DisconnectThrows, ReceiveThrows, Throws
  <2>2. ManagerInv' /\ StillOpen
    BY <2>1, ManagerKept
  <2>3. LinkInv'
    BY <2>1, <2>2, LinkKept DEF LinkInv, page
  <2>4. UserInv'
    BY <2>1 DEF UserInv, page, android, link
  <2> QED
    BY <2>2, <2>3, <2>4
<1> QED
  BY <1>1, <1>2, <1>3, <1>4, <1>5, <1>6

LEMMA ConnectPermittedStep ==
  ASSUME Inv, NEW dev \in Devices, ConnectPermitted(dev)
  PROVE  Inv'
<1> USE DEF Inv
<1>1. /\ popup' = FALSE /\ conf' = conf /\ usbdev' = dev /\ chosen' = dev
      /\ UNCHANGED android
      /\ OpenDevice(dev) /\ Backend_OnPermReqCompleted
  BY DEF ConnectPermitted, Validate
<1>2. ManagerInv' /\ StillOpen
  BY <1>1, OpenKeeps
<1>3. LinkInv'
  BY <1>1, <1>2, CompletedKeeps
<1>4. UserInv'
  BY <1>1 DEF UserInv, android
<1> QED
  BY <1>2, <1>3, <1>4

LEMMA DisconnectStep ==
  ASSUME Inv, OnButtonDisconnectClicked
  PROVE  Inv'
<1> USE DEF Inv
<1>1. /\ handle' = NoHandle /\ usbdev' = NoDevice /\ connection' = NoFd
      /\ fd' = NoFd /\ ~endpoints' /\ endpoints' \in BOOLEAN
      /\ ~connected' /\ ~online' /\ connected' \in BOOLEAN /\ online' \in BOOLEAN
      /\ proxy' = IF conf = "PROXY" THEN "stopped" ELSE proxy
      /\ UNCHANGED <<app, page, android, chosen, openFailed>>
  BY DEF OnButtonDisconnectClicked
<1>2. system' \in [Fds -> Devices \cup {NoDevice}]
  BY DEF OnButtonDisconnectClicked, ManagerInv
<1>3. ManagerInv'
  BY <1>1, <1>2 DEF ManagerInv
<1>4. handle'.fd = NoFd
  BY <1>1 DEF NoHandle
<1>5. LinkInv'
  BY <1>1, <1>4 DEF LinkInv, PageMatchesLibrary, ConnectedIsLive
<1>6. UserInv'
  BY <1>1 DEF UserInv, page, android
<1> QED
  BY <1>3, <1>5, <1>6

LEMMA AnswerStep ==
  ASSUME Inv, NEW dev \in Devices, NEW granted \in BOOLEAN,
         Answer(dev, granted)
  PROVE  Inv'
<1> USE DEF Inv
<1>1. /\ UNCHANGED <<app, page, link, usbdev, manager, chosen>>
      /\ asked' \subseteq Devices /\ permitted' \subseteq Devices
  BY DEF Answer, UserInv
<1>2. broadcasts' \in Seq(BOOLEAN)
  BY SMT DEF Answer, UserInv
<1>3. ManagerInv' /\ StillOpen
  BY <1>1, ManagerKept
<1>4. LinkInv'
  BY <1>1, <1>3, LinkKept DEF LinkInv, page
<1>5. UserInv'
  BY <1>1, <1>2 DEF UserInv, page, link
<1> QED
  BY <1>3, <1>4, <1>5

LEMMA ReceiveStep ==
  ASSUME Inv, OnReceiveGranted \/ OnReceiveGrantedTooLate \/ OnReceiveRefused
  PROVE  Inv'
<1> USE DEF Inv
<1>1. /\ UNCHANGED <<page, usbdev, permitted, asked, chosen>>
      /\ broadcasts # << >> /\ broadcasts' = Tail(broadcasts)
  BY DEF OnReceiveGranted, OnReceiveGrantedTooLate, OnReceiveRefused, Receive
<1>2. broadcasts' \in Seq(BOOLEAN)
  BY <1>1, SMT DEF UserInv
<1>3. ManagerInv' /\ LinkInv' /\ (online => online')
  <2>1. CASE OnReceiveGranted
    <3>1. usbdev \in Devices /\ OpenDevice(usbdev)
          /\ Backend_OnPermReqCompleted
      BY <2>1 DEF OnReceiveGranted, UserInv
    <3>2. ManagerInv' /\ StillOpen
      BY <3>1, OpenKeeps
    <3>3. LinkInv'
      BY <1>1, <3>1, <3>2, CompletedKeeps DEF page
    <3> QED
      BY <3>1, <3>2, <3>3, OnlineStays
  <2>2. CASE OnReceiveGrantedTooLate \/ OnReceiveRefused
    <3>1. UNCHANGED <<link, manager>> /\ app' \in {"running", "stopped"}
      BY <2>2 DEF OnReceiveGrantedTooLate, OnReceiveRefused, Throws, LinkInv
    <3>2. ManagerInv' /\ StillOpen
      BY <3>1, ManagerKept
    <3>3. LinkInv'
      BY <1>1, <3>1, <3>2, LinkKept DEF page
    <3> QED
      BY <3>1, <3>2, <3>3 DEF link
  <2> QED
    BY <2>1, <2>2
<1>4. UserInv'
  BY <1>1, <1>2, <1>3, UserKept
<1> QED
  BY <1>3, <1>4

LEMMA StepInv == Inv /\ [Next]_vars => Inv'
<1> SUFFICES ASSUME Inv, [Next]_vars PROVE Inv'
  OBVIOUS
<1>1. CASE UNCHANGED vars
  <2>1. /\ UNCHANGED <<app, page, link, usbdev, manager, android, chosen>>
    BY <1>1 DEF vars, page, link, manager, android
  <2>2. ManagerInv' /\ StillOpen
    BY <2>1, ManagerKept DEF Inv
  <2>3. LinkInv'
    BY <2>1, <2>2, LinkKept DEF Inv, LinkInv, page
  <2>4. UserInv'
    BY <2>1 DEF Inv, UserInv, page, android, link
  <2> QED
    BY <2>2, <2>3, <2>4 DEF Inv
<1>2. CASE Next
  BY <1>2, UserStep, ConnectPermittedStep, DisconnectStep, AnswerStep,
     ReceiveStep
  DEF Next
<1> QED
  BY <1>1, <1>2

-----------------------------------------------------------------------------
THEOREM AlwaysInv == Spec => []Inv
<1>1. Init => Inv
  BY InitInv
<1>2. Inv /\ [Next]_vars => Inv'
  BY StepInv
<1> QED
  BY <1>1, <1>2, PTL DEF Spec

\* Every field of the page, the binding, the manager and the devices
\* (MainPage.xaml.cs, dll_if.cs, DroidPandaVcom.cs) keeps its type.
THEOREM MobileTypeCorrect == Spec => []TypeOK
<1>1. Inv => TypeOK
  BY DEF Inv, ManagerInv, LinkInv, UserInv, TypeOK
<1> QED
  BY <1>1, AlwaysInv, PTL

\* Whatever order taps and broadcasts come in, enabled transfer and disconnect
\* buttons mean a library handle, of the type the picker shows.
THEOREM PageIsTrue == Spec => []PageMatchesLibrary
<1>1. Inv => PageMatchesLibrary
  BY DEF Inv, LinkInv
<1> QED
  BY <1>1, AlwaysInv, PTL

\* The library never holds a descriptor Android closed, and a connection over
\* usbdev, libusb or the proxy is over an open one.
THEOREM ConnectionIsLive == Spec => []ConnectedIsLive
<1>1. Inv => ConnectedIsLive
  BY DEF Inv, LinkInv
<1> QED
  BY <1>1, AlwaysInv, PTL

-----------------------------------------------------------------------------
\* A completed attempt over usbdev or libusb, when Android opened the device.
LEMMA AttemptReachesDevice ==
  ASSUME Inv, Inv', NEW dev \in Devices, OpenDevice(dev),
         Backend_OnPermReqCompleted, connected', ~openFailed',
         connection' # connection, conf \in {"USBDEV", "LIBUSB"}
  PROVE  system'[handle'.fd] = dev
<1>1. InterfaceOpened(dev)
  BY DEF OpenDevice, OpenRefused, InterfaceRefused
<1>2. PICK f \in NextFree : /\ system' = [system EXCEPT ![f] = dev]
                             /\ fd' = f /\ endpoints'
  BY <1>1 DEF InterfaceOpened
<1>3. f \in Fds
  BY <1>2 DEF NextFree, Free
<1>4. system'[f] = dev
  BY <1>2, <1>3 DEF Inv, ManagerInv
<1>5. ConnectFd /\ conf \in FdTypes
  BY DEF Backend_OnPermReqCompleted, ConnectProxy, ConnectNothing, ConnectFd
<1>6. PICK r \in FdResults(device_create(conf)) : Connects(r)
  BY <1>2, <1>5 DEF ConnectFd
<1>7. Attempt(conf, r)
  BY <1>2, <1>3, <1>5, Attempts
<1>8. handle' = r.dev /\ r.ok
  BY <1>6 DEF Connects
<1>9. handle'.fd = f
  BY <1>2, <1>7, <1>8 DEF Attempt
<1> QED
  BY <1>4, <1>9

ConnectsToChosen ==
    Connected /\ conf \in {"USBDEV", "LIBUSB"} /\ ~openFailed' =>
        system'[handle'.fd] = chosen'

\* As long as Android opens what it is asked to open, a connection over usbdev
\* or libusb is to the device chosen last, for permissions granted in any
\* order and however late.
THEOREM ConnectsToChosenDevice == Spec => ConnectedToChosenUnlessFailed
<1>1. Inv /\ Inv' /\ [Next]_vars => [ConnectsToChosen]_vars
  <2> SUFFICES ASSUME Inv, Inv', Next, Connected,
                      conf \in {"USBDEV", "LIBUSB"}, ~openFailed'
               PROVE  system'[handle'.fd] = chosen'
    BY DEF ConnectsToChosen
  <2>1. CASE \E dev \in Devices : ConnectPermitted(dev)
    <3>1. PICK dev \in Devices : ConnectPermitted(dev)
      BY <2>1
    <3>2. /\ OpenDevice(dev) /\ Backend_OnPermReqCompleted /\ chosen' = dev
      BY <3>1 DEF ConnectPermitted, Validate
    <3> QED
      BY <3>2, AttemptReachesDevice DEF Connected
  <2>2. CASE OnReceiveGranted
    <3>1. /\ usbdev \in Devices /\ OpenDevice(usbdev)
          /\ Backend_OnPermReqCompleted /\ chosen' = chosen
      BY <2>2 DEF OnReceiveGranted, Receive, Inv, UserInv
    <3>2. usbdev # NoDevice /\ conf # "EMULSLAVE"
      BY <3>1, MobileAssumption
    <3>3. chosen = usbdev
      BY <3>2 DEF Inv, UserInv
    <3> QED
      BY <3>1, <3>3, AttemptReachesDevice DEF Connected
  <2>3. CASE OnButtonDisconnectClicked
    BY <2>3 DEF OnButtonDisconnectClicked, Connected
  <2>4. CASE UNCHANGED manager
    BY <2>4 DEF manager, Connected
  <2> QED
    BY <2>1, <2>2, <2>3, <2>4
    DEF Next, Picker_SelectedIndexChanged, OnButtonConnectClicked,
        OnButtonCancelClicked, ConnectEmulated, TypeIncorrect,
        RequestPermission, Answer, OnReceiveGrantedTooLate, OnReceiveRefused,
        DisconnectThrows, ReceiveThrows
<1> QED
  BY <1>1, AlwaysInv, PTL
  DEF Spec, ConnectedToChosenUnlessFailed, ConnectsToChosen

-----------------------------------------------------------------------------
\* The library's descriptor is the manager's, unless an open was refused.
SameDevice ==
    /\ online /\ conf # "EMULSLAVE" /\ ~openFailed
         => endpoints /\ connection # NoFd /\ handle.fd \in {NoFd, connection}
    /\ handle.type = "PROXY" => handle.fd = NoFd

LEMMA AttemptAgrees ==
  ASSUME Inv, SameDevice, NEW dev \in Devices, OpenDevice(dev),
         Backend_OnPermReqCompleted, conf' = conf
  PROVE  SameDevice'
<1>1. openFailed' \/ (endpoints' /\ connection' = fd' /\ fd' \in Fds)
  BY DEF OpenDevice, OpenRefused, InterfaceRefused, InterfaceOpened, NextFree,
         Free
<1>2. CASE Throws /\ conf \in FdTypes /\ ~endpoints'
  BY <1>1, <1>2 DEF Throws, link, SameDevice
<1>3. CASE Throws /\ conf = "PROXY"
  <2>1. online' = online /\ handle' = handle
    BY <1>3 DEF Throws, link
  <2>2. online => handle.fd = NoFd
    BY <1>3 DEF SameDevice, Inv, LinkInv, PageMatchesLibrary
  <2> QED
    BY <1>1, <2>1, <2>2, FdFacts DEF SameDevice
<1>4. CASE conf \in FdTypes /\ endpoints'
           /\ \E r \in FdResults(device_create(conf)) : Connects(r)
  <2>1. PICK r \in FdResults(device_create(conf)) : Connects(r)
    BY <1>4
  <2>2. handle' = r.dev
    BY <2>1 DEF Connects
  <2>3. fd' \in Fds
    <3>1. ManagerInv'
      BY OpenKeeps DEF Inv
    <3> QED
      BY <1>4, <3>1 DEF ManagerInv
  <2>4. Attempt(conf, r)
    BY <1>4, <2>1, <2>3, Attempts
  <2>5. handle'.fd \in {NoFd, fd'} /\ handle'.type # "PROXY"
    BY <1>4, <2>2, <2>4 DEF Attempt, FdTypes
  <2> QED
    BY <1>1, <2>5, FdFacts DEF SameDevice
<1>5. CASE \E r \in OpenResults(device_create("PROXY")) : Connects(r)
  <2>1. PICK r \in OpenResults(device_create("PROXY")) : Connects(r)
    BY <1>5
  <2> DEFINE new == device_create("PROXY")
  <2>2. new.type = "PROXY" /\ new.fd = NoFd
    BY DEF device_create
  <2> HIDE DEF new
  <2>3. r \in OpenResults(new)
    BY <2>1 DEF new
  <2>4. OpenResults(new) = {Opened(new, TRUE), Opened(new, FALSE)}
    BY <2>2 DEF OpenResults
  <2>5. r.dev = new
    BY <2>3, <2>4 DEF Opened
  <2>6. handle'.fd = NoFd
    BY <2>1, <2>2, <2>5 DEF Connects
  <2> QED
    BY <1>1, <2>6, FdFacts DEF SameDevice
<1>6. CASE ConnectNothing
  BY <1>6 DEF ConnectNothing, SameDevice
<1> QED
  BY <1>2, <1>3, <1>4, <1>5, <1>6
  DEF Backend_OnPermReqCompleted, ConnectFd, ConnectProxy

LEMMA SameDeviceNext == Inv /\ SameDevice /\ [Next]_vars => SameDevice'
<1> SUFFICES ASSUME Inv, SameDevice, [Next]_vars PROVE SameDevice'
  OBVIOUS
<1>1. ASSUME UNCHANGED <<link, manager>>, conf' = conf \/ ~online
      PROVE  SameDevice'
  BY <1>1 DEF link, manager, SameDevice
<1>2. CASE ConnectEmulated
  <2>1. PICK r \in OpenResults(device_create("EMULSLAVE")) : Connects(r)
    BY <1>2 DEF ConnectEmulated
  <2> DEFINE new == device_create("EMULSLAVE")
  <2>2. new.type = "EMULSLAVE"
    BY DEF device_create
  <2> HIDE DEF new
  <2>3. r \in OpenResults(new)
    BY <2>1 DEF new
  <2>4. r = Opened(new, TRUE)
    BY <2>2, <2>3 DEF OpenResults
  <2>5. handle'.type = "EMULSLAVE"
    BY <2>1, <2>2, <2>4 DEF Connects, Opened
  <2> QED
    BY <1>2, <2>5 DEF ConnectEmulated, SameDevice
<1>3. CASE \E dev \in Devices : ConnectPermitted(dev)
  BY <1>3, AttemptAgrees DEF ConnectPermitted, Validate
<1>4. CASE OnReceiveGranted
  <2>1. usbdev \in Devices
    BY <1>4 DEF OnReceiveGranted, Inv, UserInv
  <2> QED
    BY <1>4, <2>1, AttemptAgrees DEF OnReceiveGranted, Receive, page
<1>5. CASE OnButtonDisconnectClicked
  <2>1. ~online' /\ handle'.type = "NONE"
    BY <1>5 DEF OnButtonDisconnectClicked, NoHandle
  <2> QED
    BY <2>1 DEF SameDevice
<1>6. CASE UNCHANGED vars
  BY <1>1, <1>6 DEF vars, link, manager
<1> QED
  BY <1>1, <1>2, <1>3, <1>4, <1>5, <1>6
  DEF Next, Picker_SelectedIndexChanged, OnButtonConnectClicked,
      OnButtonCancelClicked, Validate, TypeIncorrect, RequestPermission,
      Answer, Receive, OnReceiveGrantedTooLate, OnReceiveRefused,
      DisconnectThrows, ReceiveThrows, Throws, page

\* Unless Android refused an open, transfers by the library and by Android
\* reach the same device (MainPage.xaml.cs, DroidPandaVcom.cs).
THEOREM BothReachOneDevice == Spec => []TransfersAgree
<1>1. Init => SameDevice
  BY DEF Init, SameDevice, NoHandle
<1>2. SameDevice => TransfersAgree
  BY DEF SameDevice, TransfersAgree
<1> QED
  BY <1>1, <1>2, SameDeviceNext, AlwaysInv, PTL DEF Spec
=============================================================================
