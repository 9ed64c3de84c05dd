# Verification of the USB host link

The repository lets an Android application, a desktop client or a test program
read and write the registers of an STM32 target over a USB virtual serial port.
Everything goes through one small C library, `src/dllCom/libcomm`: a master that
asks, a slave that answers, and "devices" that carry the bytes. This directory
holds TLA+ modules of that library and its users, the TLC configurations that
check them, and proofs checked by TLAPS.

## 1. Inventory

### The register protocol (`libcomm/protocomm_*.c`)

| Part | State it keeps | Operations | What makes it correct |
|---|---|---|---|
| Frame layer, `protocomm_ll.c` | `proto_hdle_t`: one frame of 5 bytes used for sending *and* receiving, the cursor `priv_nbBytes`, the device | `proto_init`, `proto_writeFrame`/`proto_makeFrame`, `proto_readFrame`/`proto_pushToFrame`, `proto_decodeFrame`, `getCRC` | the cursor stays in the frame; a frame is decoded only when whole and only when its CRC matches; a stream is resynchronised on the start of frame |
| Master, `protocomm_master.c` | the handle | `proto_master_get`, `proto_master_set`, `proto_master_readFrame` | a call that returns success did what it says; an error names its true cause |
| Slave, `protocomm_slave.c` | the handle, the user callback | `proto_slave_main` | performs only what was asked, once, in order; answers every request it completes |

One master and one slave talk over a device pair. The master writes a request
and reads the answer in the same call; the slave is a loop that reads, decodes,
calls back into the application's register table and writes the answer. There
is no sequence number: an answer is matched to a request only by arriving next.

### Devices (`libcomm/devices`, interface `proto_iodevice.h`)

| Device | State | Operations | Hard part |
|---|---|---|---|
| `device_emulslave.c` | two stacks of 5 bytes, registers, error flags, a slave handle of its own | read, write (runs the slave at once), setFlags, getRegisters | the stacks must be empty again after each call |
| `device_stm32.c` | ring of 40 bytes, begin/end indices, status | push from the USB interrupt, pop from the main loop, write to the CDC endpoint | interrupt against loop, full ring, busy endpoint |
| `device_serial.c` | file descriptor, flags | open, close, setFD, read, write | who owns the descriptor, failed opens |
| `device_usbdev.c`, `device_libusb.c` | descriptor, libusb handle, interface claimed | open, close, read, write with timeouts | partial transfers and retries |
| `device_proxy.c` | socket | every operation as a request to a server | framing over a stream, half-failed exchanges |

### Around the library

* Target firmware, `TestUSBTerminal/tst/tst_protocomm.c` (register table, loop)
  and `TestUSBTerminal/Src/usbd_cdc_if.c` (reception interrupt, transmission).
* `libcomm/log.c`: a ring of log messages, pushed by the library, popped by the
  application after each operation.
* Mobile application, C#: `MainPage.xaml.cs` (state of the connection, driven by
  buttons and by notifications), `DroidPandaVcom.cs` (Android USB manager,
  permission broadcasts), `dll_if.cs` (binding of the library), `usbProxy.cs`
  (server of `device_proxy.c`: a task that serves one TCP connection with the
  USB calls of Android).
* PC client, a form over the two master calls.

The hard behaviours are: bytes that arrive late, cut or disturbed; a call that
gave up while its answer was on the way; a handle left half full; an interrupt
against a loop; a ring or a stack at its limit; partial transfers retried;
broadcasts that arrive after the user has moved on. `PROJECT.json` lists each
as a hazard, at its line, with the properties that would catch it.

## 2. Modules

```
ProtoCrc <- ProtoFrame <- ProtoPeers <-+- ProtoLink   <- MCProtoLink
   ^                                   +- EmulSlave   <- MCEmulSlave
CrcLoop <- MCCrcLoop                   |     implements RegisterFile
                                       +- Stm32Target <- MCStm32Target
                                             implements ByteStream
UsbTransport <- ProxyLink
IoDevice <- MobileConnection <- MCMobileConnection
LogFifo <- MCLogFifo
   implements MessageQueue

proofs   ProtoPeersProofs <-+- ProtoLinkProofs
                            +- EmulSlaveProofs
                            +- Stm32TargetProofs
                            +- CrcLoopProofs
         MobileConnectionProofs   ProxyLinkProofs   LogFifoProofs
```

The modules meet at the contract of a device: `ProtoLink` assumes of its host
device what `UsbTransport` and `ProxyLink` check of the real ones, that a read
returns bytes that came and a write that succeeds sent all. Of a write that
fails it assumes more, that it sent nothing; a write of `device_libusb.c` or
`device_serial.c` may fail after a part, which section 6 lists as not modelled.

### `ProtoCrc`, `CrcLoop`: the check sum

`ProtoCrc` has `getCRC` in the three lengths a frame can have, as look-ups in a
table built from the eight shifts of the C loop; all other modules use it.
`CrcLoop` is the C loop itself, one action per byte (`TakeByte`) and per shift
(`ShiftBit`), with the accumulator kept at 16 of its 32 bits: the loop tests
bit 7 and exclusive-ors below bit 8, so higher bits never come back.

### `ProtoFrame`: `protocomm_ll.c`

The handle is a record `[frame, nb]`: the five bytes and the cursor
`priv_nbBytes`. One operator per C function, from `proto_makeFrame` to
`proto_decodeFrame`, each a function from a handle and the bytes a read
returned to the new handle and a result. `proto_pushToFrame` keeps the loop's
structure: skip to the start of frame (`FirstSOF`), then fill up to the length
the command gives (`Fill`). Two details matter and are kept: the C function
returns `len` when the command byte is not there yet, and a refused frame keeps
its cursor.

### `ProtoPeers`: `protocomm_master.c`, `protocomm_slave.c`

`proto_master_readFrame` is one attempt to read and one to decode (the code's
retry condition is always true, so the loop never turns); `proto_slave_main` is
one iteration; `slave_receive` is the register table behind the callback. They
are functions of the bytes a device returned, and the next three modules supply
the device and decide when bytes arrive. `NDEBUG` says whether `assert` aborts.

### `ProtoLink`: master and slave over an asynchronous link

The host's call is two steps, because the link works between its write
(`Call`) and its read (`Return`); the target's loop is `SlaveMain`; the link
delivers packets, whole writes (`ByteWise = FALSE`, USB bulk) or single bytes
(UART), and may disturb a byte (`noise` counts them, `before` is the count when
the call in progress began). With `IoErrors` the host's write or read fails; a
failed write is one that sent nothing. Histories: the requests `issued`, the
writes `applied`, the frames `served` and `refused`, and `inStep`, true while
every call was ended by a decoded reply.

### `EmulSlave` and `RegisterFile`: the emulated slave

One call of the master API is one action: the device runs the slave inside
`write`, in the caller's thread. The two stacks, the `memmove` between them
(`MoveDown`), the error flags and the direct access to the table are modelled.
`RegisterFile` is what the API promises: a call takes effect at once, or is
refused because the register does not exist, or, once errors have been injected
(`faulted`), fails without any effect. The history `faulted` is set by the
action that writes a flag and never cleared.

### `Stm32Target` and `ByteStream`: the firmware

The USB interrupt (`Receive`) pushes a packet into the ring of
`device_stm32.c`; the main loop is cut exactly where it reads what the
interrupt writes, between the test of a turn (`Test`), the pop of a byte
(`Pop`) and the rest of the iteration (`Process`). `Transmit` drops an answer
while another waits in the endpoint, as `CDC_Transmit_FS` does when `TxState`
is set, and `DataIn` is the host collecting it. `ByteStream` is what a FIFO
promises; the unread part of the ring is mapped to its queue.

### `UsbTransport` and `ProxyLink`: below the contract of a device

`UsbTransport` has the calls of `device_libusb.c` and `device_usbdev.c` on a
pipe whose transfers are external: each ends well, times out part way or fails
(`BulkIn`, `BulkOut`), and a control transfer moves nothing. One turn of the
retry loop of `devlibusb_write` is one action. `moved` is the history of what
this call moved over the pipe, and the contract of `proto_iodevice.h` is stated
of it (`ReadReturnsWhatMoved`, `WriteDelivers`).

`ProxyLink` adds the third device: the client of `device_proxy.c` on the
caller's thread (one action per `recv`), the task of `usbProxy.cs` (one action
per `Read`, one per transfer with its reply) and the page that opens, closes
and stops. Messages are sequences of units, two for a header and one for a
byte of data: what is between two cuts does not matter. A `Read` of a TCP
stream may return less than is there, which the model counts in `cuts`; the
code takes that for a refusal (server) or starts its buffer again (client).
A call through libusb or usbdev needs none of this, so that `Direct` leaves the
proxy's variables alone.

### `LogFifo` and `MessageQueue`: the log

One action per function of the global log, pointers as slot numbers. An
allocation that fails stops the program, because `log_create` writes to the
handle it has just forgotten; so do four functions on a log that was never
created (`CalledOnNull`), which only push and pop test for. `MessageQueue` is
what `log.h` describes: a queue of a capacity, empty after creation and
clearing, that refuses a message when it is full and ignores a second creation.
The code does not ignore it, so that what holds is
`QueueUnlessReplaced`: every step is one of the queue, but for a second
creation and a call that stops the program.

### `IoDevice` and `MobileConnection`: connecting from the application

`IoDevice` is the life cycle of a device of the library: created by type, given
a descriptor by the setter of its type, opened. `MobileConnection` is the page,
the Android USB manager and the binding: one action per tap, one per permission
broadcast, and every call they make down to the device. Everything runs in the
main thread; what interleaves are the taps and the broadcasts. The kernel gives
the lowest free descriptor (`NextFree`), Android may refuse a connection or an
interface (`OpenRefused`, `InterfaceRefused`), libusb may refuse to wrap a
descriptor, and an exception stops the application (`app`).

Abstracted: the connect dialog's list is the set of devices plugged in;
unplugging and validating with nothing selected are left out; so is the log.
Register transfers are those of `ProtoLink`; of the page's own, by Android's
interface, there is what reaches this state: `ReceiveThrows`, without a
connection to transfer on.

## 3. Runs

| Run | What it asks | Bounds |
|---|---|---|
| `crc_loop` | the loop computes the remainder over GF(2), agrees with the table, sees every single-byte change, ends | 122 payloads, every frame length and unknown commands |
| `link_packet` | type invariant; writes applied were asked for, once, in order; success and INVALID_ARG are true in lock step; with failing reads and writes and disturbed bytes | 3 calls, 5 requests on 2 registers and one that does not exist, one value equal to the start of frame, a disturbed byte; the requests satisfy `CrcTellsLength` |
| `link_bytes` | the same on single bytes; no frame refused; liveness | 3 calls, 2 requests |
| `link_stale` | finding: a late answer is taken for the next one | 3 calls |
| `emul` | implements `RegisterFile`; a call whose CRC was spoiled has no effect | any number of calls, 7 requests, flags 0 and 1 (the other flag is read nowhere) |
| `stm32` | the ring is a byte stream; answers are right; liveness | 3 calls of 4 requests, one for a register that does not exist, 2 unanswered, ring of 11 |
| `stm32_full` | finding: forty unread bytes are lost | the real ring of 40, 10 requests |
| `mobile` | buttons, picker and library agree; no closed descriptor is used; connections are made to the device chosen; the library's and Android's transfers reach one device | 2 devices, 3 descriptors, 2 undelivered broadcasts |
| `mobile_stale` | finding: connected to another device than the one chosen | the same |
| `log` | but for a second creation, the ring is the queue of `MessageQueue`; nothing unwritten is read | capacities 0, 1 and 3, three messages, any number of calls |
| `transport` | the contract of reads and writes through libusb and the proxy; what the target takes was asked for; USB is open when used; every call returns, a stopped server ends | 3 calls of up to 2 units, 2 units answered, 2 cuts |
| `usbdev` | finding: a read reports bytes that no transfer moved | 2 calls of up to 2 bytes |

Why the bounds are enough. Three calls are what it takes for an answer to come
one call late and for a third call to meet its leftovers; two registers and one
that does not exist are every case of the table; the value 18 is the start of
frame, the only value the receiver treats apart. Noise clears or sets the low
bit of a byte, in any of the calls: it turns one command into another and a
start of frame into none. `FifoSize` 11 is chosen because two unanswered
requests (up to ten bytes) fit and their bytes wrap at every offset as requests
follow one another; the violation uses the real 40. Two devices and three
descriptors let a descriptor be closed, given to the other device, and leaked;
two broadcasts let one arrive after the connection the other asked for. Two
units are the least a transfer, a header or a payload can be cut in, a cut lets
the rest of one message meet the next, a second one cuts what the first has
shifted, and three calls let a late reply be taken for the next one and the call
after that begin. The emulated slave and the log need no bound: their state
spaces are finite.

Deadlock is not checked where the system may stop: an application that made its
`MaxCalls` calls, `getCRC` at its end, a program stopped by an exception or by a
failed allocation. Symmetry is used for the two USB devices, in `mobile` only,
which checks no liveness.

### Fairness

`ProtoLink!FairSpec`: the target's `main` loops for ever and never waits, so it
takes infinitely many effective iterations unless there is infinitely often
nothing to read; the link delivers what was written. Nothing obliges the
application to call. `SlaveLoops` is weak fairness of `SlaveMain` with its
ENABLED written out. `Stm32Target!FairSpec`: each step of the loop changes its
program counter, so that the loop running for ever is `[]<><<MainLoop>>_vars`,
and a USB host sends what was written to it and polls for answers. `CrcLoop` is
a sequential function, weakly fair. `ProxyLink!FairSpec`: the caller's thread
(`Device`, `Client`) and the server's task are threads that run, and every
transfer ends, if only by its timeout; neither the page nor the target has to
do anything. The safety properties use none of this.

## 4. What the code does not do

Each of these is a run whose property TLC violates, with a finding in
`PROJECT.json`:

* `link_stale`: the condition that should make the master wait for its answer,
  `(ret == proto_NO_ERROR) || (proto_ERR_SYS)` (`protocomm_master.c:75`), is
  always true. The master reads once, gives up, and takes the late answer for
  the answer to its next call: a get succeeds with another register's value.
* `stm32_full`: the ring never tests whether it is full.
* `mobile_stale`: when Android refuses the second device after libusb refused
  the first, the descriptor of the first is used and the page reports a
  connection to the second.
* `usbdev`: the structure of a bulk transfer is given to the `ioctl` of control
  transfers, which reads the length as an interface number. When the target
  acknowledges, read returns its length with nothing in the buffer.

Others show in the models and have no run of their own:

* When a read ends before the command byte, `proto_pushToFrame` returns the
  number of bytes (`protocomm_ll.c:141`), which passes for a whole frame. The
  master decodes an unfinished one (`WAITING`), the case that
  `protocomm_master.c:111` calls "impossible ici" and asserts. With assertions
  the host aborts; with `NDEBUG = TRUE`, as in the runs, the call reports
  success, and get returns the register number as the value. No answer was
  decoded, so `inStep` ends and `NoFalseSuccess` does not speak of it; the
  violated `GetReturnsHeldValue` would, on single bytes, with one get.
* A refused get has no value to send back, so the second byte of its `ERR_ARG`
  is the fifth byte of whatever frame was in the handle before
  (`protocomm_ll.c:180`), where `protocomm_ll.h:42` has the arguments that were
  sent: after a refused set of 7, a refused get of the register brings back 7.
  `AnswersAreExpected` allows any byte there, and `protocomm_ll.h:54` tells
  receivers to read none.
* `log.h:156` says that a second `log_global_create` is ignored; it replaces the
  log and leaks the first (`log.c:130`). `QueueUnlessReplaced` sets that call
  aside.
* With the switch for transfers by Android on and the emulated slave connected,
  receive uses a connection that is null, and nothing catches the exception
  (`MainPage.xaml.cs:176`); send catches its own.
* After a GET (four bytes) the read of five bytes may take the start of frame
  of the next request along, and that byte is lost (`protocomm_ll.c:96`). With
  overlapping requests and a value of 18 the slave refuses an intact frame,
  even without noise. It may even find an intact frame that nobody sent: when
  a get of register 0, a set of register 1 to 18 and a set of register 123 to
  18 have queued up, what follows the lost byte is a set of register 0 to 123,
  and the slave performs it. `link_bytes` checks `RefusalMeansNoise`, and the
  theorems of section 5 prove it and `AppliedWritesRequested`, for requests
  that hold the start of frame only at their start.
* A refused frame keeps its cursor (`protocomm_ll.c:175`). After one spoiled
  SET the emulated slave's handle stays full: calls fail for good even when the
  error flag is cleared. They fail honestly: that is what `RegisterFile`'s
  `faulted` allows and no more.
* Over the link they do not. The slave builds its refusal in the handle whose
  cursor it keeps, so the next byte to come, the start of the next request,
  makes it decode its own `ERR_CRC` and answer a second time. Answers are then
  one call late: a later call may report the success of another, or of a set
  whose start was lost. Hence `NoFalseSuccess` promises nothing for the calls
  after the one in which a byte was disturbed.
* The CRC does not cover the length of a frame, which its command decides. In
  "set register 1 to 1", one flipped bit turns the command into GET, and the
  CRC of a get of register 1 is the same byte: the slave takes four of the five
  bytes for an intact frame and answers it, and the set that was never
  performed reports success (each register has one such value). In the same way
  a disturbed `ERR_ARG` may become an intact `REPLY`. `NoFalseSuccess` therefore
  asks `CrcTellsLength` of the requests for the call with the disturbed byte.
* The table of argument sizes (`protocomm_ll.c:207`) gives `ERR_CRC` one byte and
  `ERR_ARG` two, by comments that name another enumeration; the header
  documents two CRCs for the first, of which only one is sent.
* `devserial_open` closes first and so forgets the descriptor given to
  `devserial_setFD`; open succeeds and the page says connected, which
  `ConnectedIsLive` therefore does not promise for this type.
* A permission that is refused is never reported to the page; repeated
  attempts leak the connections of the earlier ones, although
  `interfaces.cs:77` says Close closes all.
* The proxy does not survive a `Read` that returns less than asked. The server
  refuses the part it has with a NACK and takes the rest for the next header,
  with the comment "We Expect there is no risk to lose sync here"
  (`usbProxy.cs:141`); the client loops to "complete all data"
  (`device_proxy.c:57`) but receives each part at the start of its buffer
  (`device_proxy.c:304`). From then on a late reply may be taken for that of
  the next call, which is why `ReadsAreTrue` and `WritesAreTrue` stop at the
  first cut. `TakenIsAsked`, `TypeOK` and `CallsReturn` hold all the same:
  nothing but asked data ever reaches the target, the caller's buffer is never
  overrun, and nobody waits for ever.
* A read through the proxy or libusb that times out returns an error, and
  Android's loses the bytes it had taken, although a delay is not an error
  (`proto_iodevice.h:70`). A libusb write that times out part way is sent again
  from its first byte, so that the target may get a prefix twice.
* `Stop` waits a second for the server's task; when the task has ended with an
  exception, `Wait` throws it and nothing on the page catches it, which leaves
  USB open (`usbProxy.cs:72`). When the library cannot connect, the task stays
  in its `accept`, its listener and USB stay open (`GiveUp`).
* `log_create` writes to the handle it has just freed when the buffer cannot be
  allocated (`log.c:39`). Destroying, clearing or measuring a log that was
  never created stops the program, where `log.h:162` has a -1 for the first.

## 5. Proofs

Assumptions are those on the constants, each stated and evaluated by TLC where
it is declared: `PayloadsAssumption`, `NDEBUGAssumption`,
`LinkAssumption`, `EmulAssumption`, `TargetAssumption`, `MobileAssumption`,
`TransportAssumption`, `LogAssumption`.
Further hypotheses stand in the theorems.

* `CrcLoopProofs`: `LoopIsTable` and `ChangedByteIsSeen`, for every payload of
  up to three bytes, a frame's lengths. The invariant is that the accumulator's
  low byte, after the shifts still to come for the byte taken last, is the
  table's CRC of the bytes taken so far. A changed byte is seen because
  exclusive or, the shift and the look-up are injective on bytes.
  `LoopIsRemainder`: the table's CRC is the remainder of the polynomial
  division that `LoopComputesRemainder` writes out. Dividing one byte more is
  dividing the bytes before eight exponents higher, which leaves their
  remainder as leading bits, and then eight cancellations of the leading bit,
  which are the eight shifts. The recursive function of the division is shown
  to be defined, and the induction over its exponents is by a least
  counterexample among the naturals, since the library's induction theorems
  take an operator.
* `ProtoPeersProofs`: the lemmas that the other proofs of the protocol share. On
  the frame layer, for every byte and handle: cursors stay in the frame,
  everything returned has its C type. On an exchange: a frame made by
  `proto_makeFrame`, once it is in the handle, is decoded to what it was made
  from, for every command, argument and CRC (`RoundTrip`). `ReadMore` says what
  a handle with the start of a frame holds after it was given more of it, whole,
  in part or with other bytes behind. `SlaveServes` and `MasterReports` follow
  for frames that come whole, `WayRead` for one frame that comes in parts,
  `SlaveReads` for a stream of frames read in parts, and `SlaveAnswers` for the
  bytes of an answer. Last, a frame with one byte changed: since the CRC keeps
  bytes apart, it has neither at its start nor behind a spoiled start of frame a
  frame with the CRC of its bytes (`SetDisturbed`, `ShortDisturbed`,
  `RefusalDisturbed`), whatever part of it was read before; so the slave
  declines it (`SlaveDeclines`) and the master reports no success
  (`MasterDoubts`).
* `ProtoLinkProofs`: `TypeCorrect` (`TypeOK` is inductive), and, over single
  bytes and packets alike, `SuccessIsTrue` and `InvalidArgIsTrue`.
  `NoFalseSuccess` speaks of idle states only, so the invariant must say where
  the exchange in progress is. `LockInv`, until a byte is disturbed: while calls
  are in lock step, exactly one frame is on its way, the request or a true
  answer. Its start is in the handle of the end it goes to, its next bytes in
  that end's buffer and the rest on the wire; the other handle, buffer and wire
  are empty. A call that gives up, with nothing or a part of its answer read,
  clears `inStep` and with it the promise, so calls that time out and reads and
  writes that fail need no more. `SpoiltInv`, from the first disturbed byte to
  the end of its call: what is left for the slave makes it perform nothing, be
  it a spoiled request, of which it may hold the start, or what follows its own
  refusal in a full handle; and what comes to the master is a refusal, or a
  spoiled answer with no reply in it. This stage needs `CrcTellsLength`, and of
  `LockInv` that the fifth byte of the slave's handle, which a refusal may
  send, is that of a request or none.
  `WritesRequested` and `RefusalIsNoise` hold over both kinds of link too, for
  calls that time out, fail and queue up, while no byte is
  disturbed; `StartsFrameOnce` is their hypothesis on the requests (section 4
  says why; the requests of `link_bytes` satisfy it). Their invariant
  `StreamInv` tags each byte on the way to the slave with the call it was sent
  for and its place in the frame: what handle, buffer and wire hold, in this
  order, are the frames of later and later calls, of which only the first may
  have lost its start, and every call applied is earlier than all of them. A
  read that drops the end of a frame leaves such a stream again, and the only
  start of frame that the slave can find in it is that of a request.
* `EmulSlaveProofs`: `Implements`, for every set of requests, table size and
  injection of errors, and `BadCrcIsHarmless`. Between calls the master's
  handle and the stack of answers are empty; the invariant `IInv` says where
  the slave is. It is `Ready`, its handle and the stack of requests empty, which
  makes the round-trip lemma apply to the call, or it has met a spoiled request
  and is `Full` (five bytes in the handle, no room to read), `Refusing` (the
  handle holds its own refusal, all but the last byte) or `Blocked` (what is
  left of a request leaves no room for the next). In these three nothing is
  performed any more. That a spoiled request is refused needs that the CRC plus
  one is never the CRC. `RegisterFile` allows a call to fail only once errors
  were injected, so `Implements` also says that none fails before.
* `Stm32TargetProofs!RingIsStream`: as long as no more bytes are unread than
  the ring has room for (`[]HasRoom`), the ring implements `ByteStream`, for
  every ring size and cut of packets. The invariant is that `end` is
  `begin + backlog` modulo the size, and that the loop pops only when the
  backlog is positive, although the interrupt comes between its test and its
  pop.
* `Stm32TargetProofs!AnswersExpected`: for every ring larger than a frame (the
  code's has 40 bytes), register table, cut of packets and interleaving of the
  interrupt with the loop. `StepInv` says that, while the host waits for each
  answer, nothing is on the way, or one request, or its answer in the endpoint;
  the request starts in the slave's handle and goes on in the bytes popped,
  the ring and the wire (`Path`); and the registers hold the last sets
  (`Held`). One frame at most is unread, so `WaitingHostKeepsStream` follows:
  the hypothesis of `RingIsStream` is the host's discipline alone.
* `MobileConnectionProofs`: `AlwaysInv` strengthens the three invariants of
  `mobile`: endpoints are set only together with a descriptor, a descriptor
  in use is open in the system, and while the manager has a device it is the
  one chosen last, unless the page is connected to the emulated slave.
  `PageIsTrue`, `ConnectionIsLive`, `ConnectsToChosenDevice` and
  `BothReachOneDevice` follow, for any number of devices, descriptors and
  undelivered answers.
* `ProxyLinkProofs`: `NothingLeft`, `ReadsTrue`, `WritesTrue` and `UsbOpen`, for
  messages of any length, any number of calls and any failing transfer, as
  long as no `Read` was cut. The invariant `IInv` follows the one exchange in
  progress: between calls both streams are empty; in a call exactly one of the
  request, its data, the transfer, the reply and its data is there, and the
  server stands where that one needs it. `UsbOpenWhenUsed` needs it: the page
  closes only between calls, where the task is not about to use USB. For libusb
  the invariant says that a retried write has counted nothing. `Typed` holds
  whatever was cut and gives `TransportTypeCorrect`; it needs that what the
  client sends never contains the header of a reply. `TakenAsked` holds
  whatever was cut and failed: a header's data are all on the stream behind
  it, and calls only get later on the way from what the target has taken, over
  the task's hands, to what is left on the stream.
* `LogFifoProofs!LogIsQueue`: for every capacity each call that neither replaces
  the log nor stops the program is a call of `MessageQueue`. The unread slots
  from `begin` up to `end`, modulo the number of slots, are the queue; one
  sacrificed slot keeps full apart from empty.

Every invariant and every safety property of an action that a passing run checks
is stated by one of these theorems, some under the hypotheses given there. Only
model-checked: liveness, which the provers do not reach; in `ProtoLink`, writes
and refusals once a byte was disturbed (`AppliedWritesRequested`), and requests
that hold the start of frame in another place and overlap.

## 6. Not modelled, and what could come next

Not modelled: the PC client and the views (no state of their own), the log file,
`DroidUsbManager.cs` and `protocomm-gnulinux.c` (dead code), the ST middleware
but for the endpoint's busy flag, and the alternative firmware main loops. Nor,
in what is modelled, a write of the host that fails after it sent a part of a
frame, the opening of a serial path and its terminal mode, exceptions of
Android's transfers inside the proxy's task, a second `Start` of the proxy after
one that gave up, and unplugging.

Most of the repository's lines are vendored: the ST HAL, CMSIS and USB
middleware under `TestUSBTerminal`, and `libusb-android`. They are external
here, modelled by what the project's own code relies on.

What the models could be extended with:

1. The frames of register transfers by Android's own interface
   (`DroidPandaVcom.cs:340`), which reads one answer of any length without
   waiting and tells an error of any kind by one code.
2. A second connection of the proxy, with the port the first may still hold.
3. Proofs about what follows a disturbed byte: `SpoiltInv` ends with its call,
   and the writes the slave performs after it are left to TLC.
