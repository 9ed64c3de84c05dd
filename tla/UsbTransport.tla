---------------------------- MODULE UsbTransport ----------------------------
(***************************************************************************)
(* The devices that reach the target over USB, below the contract of       *)
(* proto_iodevice.h: a read returns the number of bytes read or an error,  *)
(* a write returns 0 when the bytes are sent.  The pipe's transfers, of    *)
(* the kernel and the target, are external: any of them may time out or    *)
(* fail part way.  device_libusb.c and device_usbdev.c drive the pipe from *)
(* the caller's thread; ProxyLink adds device_proxy.c.                     *)
(*                                                                         *)
(* Data are units, parts of a message that nothing cuts (for usbdev, whose *)
(* lengths matter, bytes); each is labelled with the call or the answer it *)
(* belongs to and its place there.                                         *)
(***************************************************************************)
EXTENDS Integers, Sequences

CONSTANTS
    Devices,    \* the devices the page may choose
    MaxLen,     \* bound: units of a call
    MaxCalls,   \* bound: calls
    MaxAnswers  \* bound: units the target sends

ASSUME TransportAssumption ==
    /\ Devices \subseteq {"libusb", "usbdev", "proxy"}
    /\ MaxLen \in Nat /\ MaxCalls \in Nat /\ MaxAnswers \in Nat

VARIABLES
    dev,            \* the device in use
    ready, answers, \* units the target offers, and how many it ever did
    taken,          \* units the target took
    pc,             \* where the caller is; "idle" between calls
    op, len, calls, \* the call: "read" or "write", its length, its number
    sent, nbretry,  \* devlibusb_write
    buf, ret,       \* the caller's buffer, and what the last call returned
    moved           \* history: units this call moved over the pipe

pipe == <<ready, answers, taken, moved>>
call == <<dev, op, len, calls>>
work == <<sent, nbretry, buf>>
transport == <<dev, ready, answers, taken, pc, op, len, calls, sent, nbretry,
               buf, ret, moved>>

Init ==
    /\ dev \in Devices
    /\ ready = << >> /\ answers = 0 /\ taken = << >>
    /\ pc = "idle" /\ op = "read" /\ len = 0 /\ calls = 0
    /\ sent = 0 /\ nbretry = 2
    /\ buf = << >> /\ ret = 0
    /\ moved = << >>

First(s, n) == SubSeq(s, 1, n)
After(s, n) == SubSeq(s, n + 1, Len(s))
AtMost(n, m) == IF n <= m THEN n ELSE m

\* What a write is given.
Data == [i \in 1 .. len |-> <<"data", calls, i>>]

-----------------------------------------------------------------------------
(* The pipe and the target.                                                *)
TargetSends ==
    /\ answers < MaxAnswers
    /\ answers' = answers + 1
    /\ ready' = Append(ready, <<"answer", answers + 1, 1>>)
    /\ UNCHANGED <<taken, pc, ret, moved, call, work>>

\* How a bulk transfer may end, and the units it moved until then; the packet
\* that ends a read well may be empty.
BulkOut(data) ==
    { [res |-> "ok", n |-> Len(data)] }
        \cup [res : {"timeout"}, n : 0 .. Len(data) - 1]
        \cup [res : {"error"}, n : 0 .. Len(data)]
BulkIn(wanted) ==
    [res : {"ok"}, n : 0 .. AtMost(wanted, Len(ready))]
        \cup [res : {"timeout"}, n : 0 .. AtMost(wanted - 1, Len(ready))]
        \cup { [res |-> "error", n |-> 0] }

Pushed(data) ==
    /\ taken' = taken \o data
    /\ moved' = moved \o data
    /\ UNCHANGED <<ready, answers>>
Pulled(n) ==
    /\ ready' = After(ready, n)
    /\ moved' = moved \o First(ready, n)
    /\ UNCHANGED <<answers, taken>>

\* A control transfer to interface n: nothing moves, and only the two
\* interfaces of the target can acknowledge it.
ControlTransfer(n) == IF n \in {0, 1} THEN {"ok", "error"} ELSE {"error"}

-----------------------------------------------------------------------------
(* The caller.                                                             *)
Call(o, n) ==
    /\ pc = "idle" /\ calls < MaxCalls
    /\ pc' = "called" /\ op' = o /\ len' = n /\ calls' = calls + 1
    /\ sent' = 0 /\ nbretry' = 2 /\ buf' = << >> /\ moved' = << >>
    /\ UNCHANGED <<dev, ready, answers, taken, ret>>

Calling(d, o) == dev = d /\ pc = "called" /\ op = o
Return(r) == pc' = "idle" /\ ret' = r
Continue == UNCHANGED <<pc, ret>>

-----------------------------------------------------------------------------
(* device_libusb.c.                                                        *)
NoLength(o) ==
    /\ Calling("libusb", o) /\ len = 0
    /\ Return(-1)
    /\ UNCHANGED <<pipe, call, work>>

\* Mutant: as devusbdev_read, it returns what it was asked for.
libusb_read_all ==
    /\ Calling("libusb", "read") /\ len > 0
    /\ \E x \in BulkIn(len) :
         /\ Pulled(x.n)
         /\ buf' = First(ready, x.n)
         /\ IF x.res = "ok" \/ (x.res = "timeout" /\ x.n > 0)
            THEN Return(len) ELSE Return(-1)
    /\ UNCHANGED <<call, sent, nbretry>>
devlibusb_read ==
    /\ Calling("libusb", "read") /\ len > 0
    /\ \E x \in BulkIn(len) :
         /\ Pulled(x.n)
         /\ buf' = First(ready, x.n)
         /\ IF x.res = "ok" \/ (x.res = "timeout" /\ x.n > 0)
            THEN Return(x.n) ELSE Return(-1)
    /\ UNCHANGED <<call, sent, nbretry>>

\* One turn of the loop.  A transfer that times out is not counted in "sent",
\* whatever it moved; clear_halt only logs.
Unsent == After(Data, sent)
devlibusb_write ==
    /\ Calling("libusb", "write") /\ len > 0
    /\ \E x \in BulkOut(Unsent) :
         /\ Pushed(First(Unsent, x.n))
         /\ \/ /\ x.res = "ok"
               /\ sent' = sent + x.n /\ UNCHANGED nbretry
               /\ IF sent + x.n < len THEN Continue ELSE Return(0)
            \/ /\ x.res = "timeout"
               /\ nbretry' = nbretry - 1 /\ UNCHANGED sent
               /\ IF nbretry = 1 THEN Return(-1) ELSE Continue
            \/ /\ x.res = "error"
               /\ Return(-1)
               /\ UNCHANGED <<sent, nbretry>>
    /\ UNCHANGED <<call, buf>>

-----------------------------------------------------------------------------
(* device_usbdev.c.  The structure of a bulk transfer is given to the      *)
(* ioctl of control transfers, which reads the length as an interface.     *)
devusbdev_read ==
    /\ Calling("usbdev", "read")
    /\ \E res \in ControlTransfer(len) : Return(IF res = "ok" THEN len ELSE -1)
    /\ UNCHANGED <<pipe, call, work>>

devusbdev_write ==
    /\ Calling("usbdev", "write")
    /\ \E res \in ControlTransfer(len) : Return(IF res = "ok" THEN 0 ELSE -1)
    /\ UNCHANGED <<pipe, call, work>>

-----------------------------------------------------------------------------
Device ==
    \/ NoLength("read") \/ NoLength("write")
    \/ devlibusb_read \/ devlibusb_write
    \/ devusbdev_read \/ devusbdev_write

Caller == \E o \in {"read", "write"}, n \in 0 .. MaxLen : Call(o, n)

DirectSpec == Init /\ [][TargetSends \/ Caller \/ Device]_transport

-----------------------------------------------------------------------------
\* ">=0 nombre d'octets lus", and no error "si des données ont été lues": a
\* read that returns a number has put that many units in the buffer, those
\* that left the pipe for it; if libusb's fails, none did.
ReadReturnsWhatMoved ==
    pc = "idle" /\ op = "read" /\ calls > 0
        => IF ret >= 0 THEN Len(moved) = ret /\ First(buf, ret) = moved
           ELSE dev = "libusb" => moved = << >>

\* "0 OK, sinon erreur": a write that returns 0 has given the target all its
\* data, after at most a part that a transfer that timed out had sent.
WriteDelivers ==
    pc = "idle" /\ op = "write" /\ ret = 0
        => \E k \in 0 .. len - 1 : moved = First(Data, k) \o Data
=============================================================================
