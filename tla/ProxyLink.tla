----------------------------- MODULE ProxyLink ------------------------------
(***************************************************************************)
(* device_proxy.c and usbProxy.cs: on Android the library reaches USB over *)
(* a TCP connection to a server in the application, which performs each    *)
(* read and write with the calls of the platform.  A request is a header,  *)
(* followed by the data of a write; a reply is a header, followed by the   *)
(* data of a successful read.  Every Read of a stream may return less than *)
(* what was asked for (a "cut"); the server takes that for a refusal, the  *)
(* client starts its buffer again, and both go on.                         *)
(*                                                                         *)
(* What is sent in two calls (header and data, with MSG_MORE) is appended  *)
(* at once: its reader would only wait between them.  Sends of a few bytes *)
(* on a blocking loopback socket are not partial.  device_proxy.c compiles *)
(* without assertions only (one of them names an unknown variable).        *)
(***************************************************************************)
EXTENDS UsbTransport

CONSTANT MaxCuts  \* bound: reads that return less than what is there

ASSUME MaxCuts \in Nat

VARIABLES
    page,        \* the life of the connection, seen from the page
    up, down,    \* units on the way to the server and to the client
    header, got, \* the client's header, and the count of devproxy_recv
    srv,         \* where the server's task is
    req, data,   \* the server's request and its data
    run,         \* _bRunTask
    usb,         \* _devHandle.connection is open
    cuts         \* history: cuts

client == <<header, got>>
server == <<srv, req, data>>
life == <<page, run, usb>>
proxy == <<page, up, down, header, got, srv, req, data, run, usb, cuts>>
vars == <<dev, ready, answers, taken, pc, op, len, calls, sent, nbretry, buf,
          ret, moved, page, up, down, header, got, srv, req, data, run, usb,
          cuts>>

Sof == <<"SOF", 0, 0>>
Header(code, n) == <<Sof, <<"header", code, n>>>>
HeaderLen == 2
Nothing == <<"zero", 0, 0>>
NoHeader == <<Nothing, Nothing>>

ProxyInit ==
    /\ Init
    /\ page = "listening"
    /\ up = << >> /\ down = << >>
    /\ header = NoHeader /\ got = 0
    /\ srv = "accept" /\ req = [code |-> "READ", n |-> 0] /\ data = << >>
    /\ run = TRUE /\ usb = TRUE
    /\ cuts = 0

\* A Read of n units at most returns some of those that are there.
Takes(stream, n) == 1 .. AtMost(n, Len(stream))
Cut(stream, n, k) ==
    IF k < AtMost(n, Len(stream)) THEN cuts < MaxCuts /\ cuts' = cuts + 1
    ELSE UNCHANGED cuts

-----------------------------------------------------------------------------
(* The client: device_proxy.c, on the caller's thread.                     *)

\* The socket is invalid, or was never connected.
NotOpen ==
    /\ dev = "proxy" /\ pc = "called" /\ page # "connected"
    /\ Return(-1)
    /\ UNCHANGED <<pipe, call, work, proxy>>

Request ==
    IF op = "write" THEN Header("WRITE", len) \o Data ELSE Header("READ", len)

\* Mutant: a write does not wait for its reply.
SendWithoutWaiting ==
    /\ dev = "proxy" /\ pc = "called" /\ page = "connected"
    /\ up' = up \o Request
    /\ IF op = "write" THEN Return(0) ELSE pc' = "header" /\ UNCHANGED ret
    /\ header' = NoHeader /\ got' = 0
    /\ buf' = [i \in 1 .. len |-> Nothing]
    /\ UNCHANGED <<pipe, call, sent, nbretry, down, server, life, cuts>>
SendRequest ==
    /\ dev = "proxy" /\ pc = "called" /\ page = "connected"
    /\ up' = up \o Request
    /\ pc' = "header" /\ header' = NoHeader /\ got' = 0
    /\ buf' = [i \in 1 .. len |-> Nothing]
    /\ UNCHANGED <<ret, pipe, call, sent, nbretry, down, server, life, cuts>>

\* The n units received go to the start of the buffer, whatever it holds.
Received(buffer, n) ==
    [i \in 1 .. Len(buffer) |-> IF i <= n THEN down[i] ELSE buffer[i]]

\* devproxy_headerValidate.
\* Mutant: a reply may announce more data than the buffer holds.
ReplyUnbounded(h, maxlen) ==
    h[1] = Sof /\ h[2][1] = "header" /\ h[2][2] = "DONE"
ReplyValid(h, maxlen) ==
    h[1] = Sof /\ h[2][1] = "header" /\ h[2][3] <= maxlen /\ h[2][2] = "DONE"

\* One recv of the loop of devproxy_recv: want is always the whole length.
Recv(want, n) ==
    /\ n \in Takes(down, want)
    /\ Cut(down, want, n)
    /\ down' = After(down, n)

RecvHeader ==
    /\ pc = "header"
    /\ \E n \in 1 .. HeaderLen :
         /\ Recv(HeaderLen, n)
         /\ \E h \in {Received(header, n)} :
              /\ header' = h
              /\ \/ /\ got + n < HeaderLen
                    /\ got' = got + n
                    /\ Continue
                 \/ /\ got + n > HeaderLen
                    /\ got' = 0
                    /\ Return(-1)
                 \/ /\ got + n = HeaderLen
                    /\ got' = 0
                    /\ \/ /\ ~ReplyValid(h, IF op = "read" THEN len ELSE 0)
                          /\ Return(-1)
                       \/ /\ ReplyValid(h, IF op = "read" THEN len ELSE 0)
                          /\ IF h[2][3] > 0 THEN pc' = "payload" /\ UNCHANGED ret
                             ELSE Return(0)
    /\ UNCHANGED <<pipe, call, work, up, server, life>>

RecvData ==
    /\ pc = "payload"
    /\ \E want \in {header[2][3]}, n \in 1 .. MaxLen :
         /\ Recv(want, n)
         /\ buf' = Received(buf, n)
         /\ got' = got + n
         /\ IF got + n < want THEN Continue
            ELSE Return(IF got + n = want THEN want ELSE -1)
    /\ UNCHANGED <<pipe, call, sent, nbretry, up, header, server, life>>

Client == NotOpen \/ SendRequest \/ RecvHeader \/ RecvData

-----------------------------------------------------------------------------
(* The server: the task of usbProxy.cs.                                    *)
Accept ==
    /\ srv = "accept" /\ page \in {"connected", "closed", "stopping", "stopped"}
    /\ srv' = "loop"
    /\ UNCHANGED <<transport, up, down, client, req, data, life, cuts>>

\* Mutant: the flag is not read again.
LoopForEver ==
    /\ srv = "loop"
    /\ srv' = "request"
    /\ UNCHANGED <<transport, up, down, client, req, data, life, cuts>>
Loop ==
    /\ srv = "loop"
    /\ srv' = IF run THEN "request" ELSE "ended"
    /\ UNCHANGED <<transport, up, down, client, req, data, life, cuts>>

\* A Write to a connection that the client has closed may throw.
Reply(units) ==
    \/ /\ page = "connected"
       /\ down' = down \o units /\ srv' = "loop"
    \/ /\ page # "connected"
       /\ UNCHANGED down /\ srv' \in {"loop", "faulted"}

\* Mutant: a request that is not understood is ignored.
NackSilently == srv' = "loop" /\ UNCHANGED down
Nack == Reply(Header("NACK", 0))

\* IsHeaderValid; its test of the code is overwritten.
RequestValid(h) ==
    Len(h) = HeaderLen /\ h[1] = Sof /\ h[2][1] = "header" /\ h[2][3] > 0

ReadRequest ==
    /\ srv = "request" /\ up # << >>
    /\ \E n \in Takes(up, HeaderLen) :
         /\ Cut(up, HeaderLen, n)
         /\ up' = After(up, n)
         /\ \/ /\ ~RequestValid(First(up, n))
               /\ Nack
               /\ UNCHANGED <<req, data>>
            \/ /\ RequestValid(First(up, n))
               /\ req' = [code |-> up[2][2], n |-> up[2][3]]
               /\ data' = << >>
               /\ srv' = IF up[2][2] = "READ" THEN "usb" ELSE "data"
               /\ UNCHANGED down
    /\ UNCHANGED <<transport, client, life>>

\* Mutant: it takes all that has arrived, in any number of reads.
ReadAllData ==
    /\ srv = "data" /\ up # << >>
    /\ up' = << >>
    /\ data' = up /\ srv' = "usb"
    /\ UNCHANGED <<transport, client, req, life, down, cuts>>
ReadData ==
    /\ srv = "data" /\ up # << >>
    /\ \E n \in Takes(up, req.n) :
         /\ Cut(up, req.n, n)
         /\ up' = After(up, n)
         /\ \/ n < req.n /\ Nack /\ UNCHANGED data
            \/ n = req.n /\ data' = First(up, n) /\ srv' = "usb" /\ UNCHANGED down
    /\ UNCHANGED <<transport, client, req, life>>

\* The client has closed the connection: Read returns 0, or throws.
EndOfStream ==
    /\ srv \in {"request", "data"} /\ up = << >>
    /\ page \in {"closed", "stopping", "stopped"}
    /\ \/ Nack
       \/ srv' = "faulted" /\ UNCHANGED down
    /\ UNCHANGED <<transport, up, client, req, data, life, cuts>>

\* WriteToDevice and ReadFromDevice of DroidPandaVcom.cs: a transfer that
\* does not end well is -1, whatever it moved.
WriteToDevice ==
    /\ srv = "usb" /\ usb /\ req.code = "WRITE"
    /\ \E x \in BulkOut(data) :
         /\ Pushed(First(data, x.n))
         /\ Reply(Header(IF x.res = "ok" THEN "DONE" ELSE "ERR", 0))
    /\ UNCHANGED <<pc, ret, call, work, up, client, req, data, life, cuts>>

ReadFromDevice ==
    /\ srv = "usb" /\ usb /\ req.code = "READ"
    /\ \E x \in BulkIn(req.n) :
         /\ Pulled(x.n)
         /\ Reply(IF x.res = "ok" /\ x.n > 0
                  THEN Header("DONE", x.n) \o First(ready, x.n)
                  ELSE Header("ERR", 0))
    /\ UNCHANGED <<pc, ret, call, work, up, client, req, data, life, cuts>>

\* The connection is null.
NoConnection ==
    /\ srv = "usb" /\ ~usb
    /\ srv' = "faulted"
    /\ UNCHANGED <<transport, up, down, client, req, data, life, cuts>>

Server ==
    \/ Accept \/ Loop \/ ReadRequest \/ ReadData \/ EndOfStream
    \/ WriteToDevice \/ ReadFromDevice \/ NoConnection

-----------------------------------------------------------------------------
(* The page, between calls.  When connect fails it stops the proxy at once *)
(* and leaves USB open.                                                    *)
Open ==
    /\ page = "listening" /\ dev = "proxy"
    /\ page' = "connected" \/ page' = "failed"
    /\ UNCHANGED <<transport, up, down, client, server, run, usb, cuts>>

\* Backend_Disconnect: the device, the proxy, then USB.
Close ==
    /\ page = "connected" /\ pc = "idle"
    /\ page' = "closed"
    /\ UNCHANGED <<transport, up, down, client, server, run, usb, cuts>>

\* Stop clears the flag, then waits for the task at most a second.
Stop ==
    /\ page = "closed"
    /\ run' = FALSE /\ page' = "stopping"
    /\ UNCHANGED <<transport, up, down, client, server, usb, cuts>>

\* Wait throws what the task threw, and nothing catches it.
Stopped ==
    /\ page = "stopping"
    /\ \/ srv # "faulted" /\ page' = "stopped" /\ usb' = FALSE
       \/ srv = "faulted" /\ page' = "threw" /\ UNCHANGED usb
    /\ UNCHANGED <<transport, up, down, client, server, run, cuts>>

\* The task stays in its accept, whose listener is never stopped.
GiveUp ==
    /\ page = "failed"
    /\ run' = FALSE /\ page' = "gave up"
    /\ UNCHANGED <<transport, up, down, client, server, usb, cuts>>

Page == Open \/ Close \/ Stop \/ Stopped \/ GiveUp

-----------------------------------------------------------------------------
Direct == (TargetSends \/ Caller \/ Device) /\ UNCHANGED proxy

Next == Direct \/ Client \/ Server \/ Page

Spec == ProxyInit /\ [][Next]_vars

\* The caller's thread and the task run, every transfer ends by its timeout,
\* and a disconnection goes through; the page need not call or disconnect.
FairSpec ==
    /\ Spec
    /\ WF_vars(Device /\ UNCHANGED proxy)
    /\ WF_vars(Client)
    /\ WF_vars(Server)

-----------------------------------------------------------------------------
\* The streams carry units, what a call returns is a length, 0 or -1, and no
\* recv is given more room than the caller's buffer has.
Units ==
    {Sof} \cup ({"header"} \X {"READ", "WRITE", "DONE", "NACK", "ERR"} \X Nat)
          \cup ({"data", "answer"} \X Nat \X Nat)
TypeOK ==
    /\ pc \in {"idle", "called", "header", "payload"}
    /\ ready \in Seq(Units) /\ taken \in Seq(Units) /\ moved \in Seq(Units)
    /\ up \in Seq(Units) /\ down \in Seq(Units) /\ data \in Seq(Units)
    /\ buf \in Seq(Units \cup {Nothing})
    /\ header \in [1 .. HeaderLen -> Units \cup {Nothing}] /\ got \in Nat
    /\ ret \in -1 .. MaxLen
    /\ pc = "payload" => header[2][3] <= Len(buf)
    /\ srv \in {"accept", "loop", "request", "data", "usb", "ended", "faulted"}
    /\ req \in [code : {"READ", "WRITE"}, n : Nat]

\* As long as no Read was cut, each call of the client is one request, one
\* transfer and one reply: between calls nothing is on the way, and the task
\* waits for a request.
LockStep ==
    cuts = 0 /\ dev = "proxy" /\ page = "connected" /\ pc \in {"idle", "called"}
        => /\ up = << >> /\ down = << >>
           /\ srv \in {"accept", "loop", "request"}

\* Whatever was cut, a header, the rest of a message or a reply never goes to
\* the target as data: it takes the data of the calls, in their order, from
\* the first unit on, and through the proxy each at most once.
TakenIsAsked ==
    \A i \in DOMAIN taken :
        /\ taken[i][1] = "data"
        /\ \/ taken[i][3] = 1
           \/ i > 1 /\ taken[i - 1] = <<"data", taken[i][2], taken[i][3] - 1>>
        /\ \A j \in 1 .. i - 1 :
               /\ taken[j][2] <= taken[i][2]
               /\ dev = "proxy" => taken[j] # taken[i]

\* The contract of a read and of a write, through libusb and, as long as no
\* Read was cut, through the proxy.
ReadsAreTrue == cuts = 0 /\ dev # "usbdev" => ReadReturnsWhatMoved
WritesAreTrue == cuts = 0 /\ dev # "usbdev" => WriteDelivers

\* The page closes USB after a task that may still be running, but, unless a
\* Read was cut, never under one that is about to use it.
UsbOpenWhenUsed == cuts = 0 /\ srv = "usb" => usb

\* Whatever was cut or failed, a call returns: client and server never wait
\* for each other.
CallsReturn == pc # "idle" ~> pc = "idle"

\* Once the page has stopped the proxy, its task leaves its loop.
StopEndsTask == page = "stopping" ~> srv \in {"ended", "faulted"}
=============================================================================
