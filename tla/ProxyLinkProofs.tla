--------------------------- MODULE ProxyLinkProofs ----------------------------
(***************************************************************************)
(* As long as no read of a socket was cut, the client of the proxy and its *)
(* server are in lock step and every call is truthful, for messages of any *)
(* length and any number of calls; a call through libusb is truthful with  *)
(* any transfer failing.  The invariant follows the one exchange in        *)
(* progress: a request, its data, the transfer, the reply and its data     *)
(* take turns, and nothing else is on the two streams.  Typed and, on what *)
(* the target takes, TakenInv hold whatever is cut.                        *)
(***************************************************************************)
EXTENDS ProxyLink, SequenceTheorems, TLAPS

Waiting == srv \in {"accept", "loop", "request"}

\* Between calls.
Quiet ==
    /\ pc \in {"idle", "called"}
    /\ up = << >> /\ down = << >>
    /\ srv \in {"accept", "loop", "request", "ended", "faulted"}

\* In a call: the request is on the way, its data are, or it is carried out.
Asked == up = Request /\ down = << >> /\ Waiting /\ moved = << >>
Sent ==
    /\ op = "write" /\ up = Data /\ down = << >>
    /\ srv = "data" /\ req = [code |-> "WRITE", n |-> len] /\ len > 0
    /\ moved = << >>
Doing ==
    /\ up = << >> /\ down = << >>
    /\ srv = "usb" /\ req.n = len /\ len > 0
    /\ \/ op = "write" /\ req.code = "WRITE" /\ data = Data
       \/ op = "read" /\ req.code = "READ"
    /\ moved = << >>

\* The reply is on the way, with the data it announces.
Announced(code, d) ==
    /\ code \in {"DONE", "NACK", "ERR"} /\ d \in Seq(Units)
    /\ down = Header(code, Len(d)) \o d
    /\ code # "DONE" => d = << >>
    /\ code = "DONE" /\ op = "write" => d = << >> /\ moved = Data /\ len > 0
    /\ code = "DONE" /\ op = "read" => moved = d /\ Len(d) <= len
Replied == up = << >> /\ Waiting /\ \E code, d : Announced(code, d)
Paying ==
    /\ op = "read" /\ up = << >> /\ Waiting
    /\ down \in Seq(Units) /\ moved = down
    /\ Len(down) = header[2][3] /\ Len(down) \in 1 .. len

InCall ==
    \/ /\ pc = "header" /\ got = 0 /\ header = NoHeader
       /\ (Asked \/ Sent \/ Doing \/ Replied)
    \/ pc = "payload" /\ got = 0 /\ Paying

\* What the page's part of the connection allows.
PageInv ==
    /\ page \in {"listening", "failed", "gave up"} => srv = "accept"
    /\ page \in {"listening", "connected"} => usb /\ run
    /\ page = "connected" => srv \notin {"ended", "faulted"}
    /\ page # "connected" => Quiet
    /\ ~usb => page = "stopped"

Fresh == pc = "called" => moved = << >>
Buffer == pc \in {"header", "payload"} => buf = [i \in 1 .. len |-> Nothing]
Told == ReadReturnsWhatMoved /\ WriteDelivers
ProxySync == (Quiet \/ InCall) /\ PageInv /\ Fresh /\ Buffer /\ Told

\* libusb: a write has sent nothing it counts until it returns.
UsbSync ==
    /\ srv = "accept" /\ page = "listening"
    /\ pc = "called" =>
          /\ sent = 0
          /\ \/ nbretry = 2 /\ moved = << >>
             \/ /\ nbretry = 1 /\ op = "write"
                /\ \E k \in 0 .. len - 1 : moved = First(Data, k)
    /\ pc \in {"idle", "called"}
    /\ dev = "libusb" => Told

\* What the values are, in every state.
Base ==
    /\ cuts \in Nat /\ calls \in Nat /\ answers \in Nat /\ len \in Nat
    /\ op \in {"read", "write"}
    /\ dev \in {"libusb", "usbdev", "proxy"}
    /\ ready \in Seq(Units) /\ up \in Seq(Units)
    /\ req.n \in Nat

IInv ==
    /\ Base
    /\ dev # "proxy" => UsbSync
    /\ dev = "proxy" /\ cuts = 0 => ProxySync
-----------------------------------------------------------------------------
(* Sequences of units.                                                     *)

LEMMA Whole ==
    ASSUME NEW S, NEW s \in Seq(S)
    PROVE  /\ First(s, Len(s)) = s /\ After(s, Len(s)) = << >>
           /\ First(s, 0) = << >> /\ Len(s) \in Nat
<1> DEFINE n == Len(s)
<1>1. n \in Nat
  OBVIOUS
<1>2. SubSeq(s, 1, n) = s
  BY SubSeqFull
<1> HIDE DEF n
<1>3. SubSeq(s, n + 1, n) = << >> /\ SubSeq(s, 1, 0) = << >>
  BY <1>1, SubSeqEmpty
<1> QED
  BY <1>1, <1>2, <1>3 DEF First, After, n

LEMMA Parts ==
    ASSUME NEW S, NEW s \in Seq(S), NEW n \in 0 .. Len(s)
    PROVE  /\ First(s, n) \in Seq(S) /\ Len(First(s, n)) = n
           /\ After(s, n) \in Seq(S)
<1> DEFINE len1 == Len(s)
<1>1. len1 \in Nat /\ \A i \in 1 .. len1 : s[i] \in S
  BY ElementOfSeq
<1>2. n \in 0 .. len1
  OBVIOUS
<1> HIDE DEF len1
<1>3. SubSeq(s, 1, n) \in Seq(S) /\ Len(SubSeq(s, 1, n)) = n
  <2>1. \A i \in 1 .. n : s[i] \in S
    BY <1>1, <1>2
  <2> QED
    BY <1>1, <1>2, <2>1, SubSeqProperties
<1>4. SubSeq(s, n + 1, len1) \in Seq(S)
  <2>1. n + 1 \in Int /\ len1 \in Int /\ \A i \in n + 1 .. len1 : s[i] \in S
    BY <1>1, <1>2
  <2> QED
    BY <2>1, SubSeqProperties
<1> QED
  BY <1>3, <1>4 DEF First, After, len1

LEMMA FunctionIsSeq ==
    ASSUME NEW S, NEW n \in Nat, NEW f \in [1 .. n -> S]
    PROVE  f \in Seq(S) /\ Len(f) = n
<1>1. [1 .. n -> S] \in { [1 .. k -> S] : k \in Nat }
  OBVIOUS
<1>2. f \in UNION { [1 .. k -> S] : k \in Nat }
  BY <1>1
<1>3. f \in Seq(S)
  BY <1>2, SeqDef, Zenon
<1> QED
  BY <1>3, LenProperties

\* A header in front of data is read as it was written, and leaves the data.
StartsWith(s, code, n, d) ==
    /\ s \in Seq(Units) /\ Len(s) = 2 + Len(d)
    /\ s[1] = Sof /\ s[2] = <<"header", code, n>>
    /\ First(s, 2) = Header(code, n) /\ After(s, 2) = d

Codes == {"READ", "WRITE", "DONE", "NACK", "ERR"}

LEMMA HeaderFirst ==
    ASSUME NEW code \in Codes, NEW n \in Nat, NEW d \in Seq(Units)
    PROVE  StartsWith(Header(code, n) \o d, code, n, d)
<1> DEFINE h == Header(code, n)
           s == h \o d
           k == Len(d)
<1>1. Sof \in Units /\ <<"header", code, n>> \in Units
  BY DEF Units, Sof, Codes
<1>2. /\ h \in Seq(Units) /\ Len(h) = 2
      /\ h[1] = Sof /\ h[2] = <<"header", code, n>>
  BY <1>1 DEF Header
<1> HIDE DEF h
<1>3. k \in Nat /\ \A i \in 1 .. k : d[i] \in Units
  BY ElementOfSeq
<1>4. /\ s \in Seq(Units) /\ Len(s) = 2 + k
      /\ \A i \in 1 .. 2 + k : s[i] = IF i <= 2 THEN h[i] ELSE d[i - 2]
  <2>1. /\ h \o d \in Seq(Units) /\ Len(h \o d) = Len(h) + Len(d)
        /\ \A i \in 1 .. Len(h) + Len(d) :
              (h \o d)[i] = IF i <= Len(h) THEN h[i] ELSE d[i - Len(h)]
    BY <1>2, ConcatProperties, Zenon
  <2> QED
    BY <1>2, <2>1
<1> HIDE DEF s, k
<1>5. s[1] = Sof /\ s[2] = <<"header", code, n>>
  BY <1>2, <1>3, <1>4
<1>6. SubSeq(s, 1, 2) = h
  <2>1. \A i \in 1 .. 2 : s[i] \in Units /\ s[i] = h[i]
    BY <1>1, <1>2, <1>3, <1>4
  <2>2. /\ SubSeq(s, 1, 2) \in Seq(Units) /\ Len(SubSeq(s, 1, 2)) = 2
        /\ \A i \in 1 .. 2 : SubSeq(s, 1, 2)[i] = s[i]
    BY <2>1, SubSeqProperties
  <2> DEFINE x == SubSeq(s, 1, 2)
  <2>3. /\ x \in Seq(Units) /\ h \in Seq(Units) /\ Len(x) = Len(h)
        /\ \A i \in 1 .. Len(x) : x[i] = h[i]
    BY <1>2, <2>1, <2>2
  <2> HIDE DEF x
  <2>4. x = h
    BY <2>3, SeqEqual
  <2> QED
    BY <2>4 DEF x
<1>7. SubSeq(s, 3, 2 + k) = d
  <2>1. \A i \in 3 .. 2 + k : s[i] \in Units
    BY <1>2, <1>3, <1>4
  <2>2. 3 \in Int /\ 2 + k \in Int
    BY <1>3
  <2> DEFINE x == SubSeq(s, 3, 2 + k)
  <2>3. /\ x \in Seq(Units)
        /\ Len(x) = IF 3 <= 2 + k THEN (2 + k) - 3 + 1 ELSE 0
        /\ \A i \in 1 .. (2 + k) - 3 + 1 : x[i] = s[3 + i - 1]
    BY <2>1, <2>2, SubSeqProperties
  <2> HIDE DEF x
  <2>4. Len(x) = k
    BY <1>3, <2>3
  <2>5. ASSUME NEW i \in 1 .. k PROVE x[i] = d[i]
    <3>1. x[i] = s[3 + i - 1] /\ 3 + i - 1 = i + 2 /\ i + 2 \in 1 .. 2 + k
      BY <1>3, <2>3
    <3>2. s[i + 2] = d[(i + 2) - 2] /\ (i + 2) - 2 = i
      BY <1>3, <1>4, <3>1
    <3> QED
      BY <3>1, <3>2
  <2>6. /\ x \in Seq(Units) /\ d \in Seq(Units) /\ Len(x) = Len(d)
        /\ \A i \in 1 .. Len(x) : x[i] = d[i]
    BY <2>3, <2>4, <2>5 DEF k
  <2>7. x = d
    BY <2>6, SeqEqual
  <2> QED
    BY <2>7 DEF x
<1> QED
  BY <1>4, <1>5, <1>6, <1>7 DEF StartsWith, First, After, h, s, k

LEMMA DataType ==
    Base => Data \in Seq(Units) /\ Len(Data) = len
<1> SUFFICES ASSUME Base PROVE Data \in Seq(Units) /\ Len(Data) = len
  OBVIOUS
<1>1. len \in Nat /\ Data \in [1 .. len -> Units]
  BY DEF Base, Data, Units
<1> QED
  BY <1>1, FunctionIsSeq

LEMMA RequestType ==
    Base => StartsWith(Request, IF op = "write" THEN "WRITE" ELSE "READ", len,
                       IF op = "write" THEN Data ELSE << >>)
<1> SUFFICES ASSUME Base
             PROVE  StartsWith(Request,
                               IF op = "write" THEN "WRITE" ELSE "READ", len,
                               IF op = "write" THEN Data ELSE << >>)
  OBVIOUS
<1>1. len \in Nat /\ Data \in Seq(Units) /\ << >> \in Seq(Units)
  BY DataType DEF Base
<1>2. StartsWith(Header("WRITE", len) \o Data, "WRITE", len, Data)
  BY <1>1, HeaderFirst DEF Codes
<1>3. StartsWith(Header("READ", len) \o << >>, "READ", len, << >>)
  BY <1>1, HeaderFirst DEF Codes
<1>4. Header("READ", len) \o << >> = Header("READ", len)
  <2>1. Header("READ", len) \in Seq(Units)
    BY <1>1 DEF Header, Units, Sof
  <2> QED
    BY <2>1, ConcatEmptySeq
<1> QED
  BY <1>2, <1>3, <1>4 DEF Request

\* A Read that is not cut takes what it asked for, or all there is.
LEMMA Uncut ==
    ASSUME NEW stream \in Seq(Units), NEW n \in Nat, NEW k \in Takes(stream, n),
           cuts = 0, cuts' = 0, Cut(stream, n, k)
    PROVE  k = AtMost(n, Len(stream)) /\ k \in Nat \ {0}
<1>1. Len(stream) \in Nat
  OBVIOUS
<1> QED
  BY <1>1 DEF Takes, Cut, AtMost

-----------------------------------------------------------------------------
(* The parts of ProxySync that a step leaves alone.                        *)

LEMMA InCallKept ==
    ASSUME UNCHANGED <<pc, op, len, calls, moved, up, down, header, got, req,
                       data>>,
           srv' = srv \/ (Waiting /\ Waiting'),
           InCall
    PROVE  InCall'
<1>1. Data' = Data /\ Request' = Request
  BY DEF Data, Request
<1>2. Asked => Asked'
  BY <1>1 DEF Asked, Waiting
<1>3. Sent => Sent'
  BY <1>1 DEF Sent, Waiting
<1>4. Doing => Doing'
  BY <1>1 DEF Doing, Waiting
<1>5. \A code, d : Announced(code, d) => Announced(code, d)'
  BY <1>1 DEF Announced
<1>6. Replied => Replied'
  BY <1>5 DEF Replied, Waiting
<1>7. Paying => Paying'
  BY DEF Paying, Waiting
<1> QED
  BY <1>2, <1>3, <1>4, <1>6, <1>7 DEF InCall

LEMMA ToldKept ==
    ASSUME \/ pc' # "idle"
           \/ UNCHANGED <<dev, pc, op, len, calls, buf, ret, moved>>,
           Told
    PROVE  Told'
BY DEF Told, ReadReturnsWhatMoved, WriteDelivers, Data, First

LEMMA CallerKept ==
    ASSUME UNCHANGED <<dev, pc, op, len, calls, buf, ret, moved>>,
           Fresh, Buffer, Told
    PROVE  Fresh' /\ Buffer' /\ Told'
<1>1. Told'
  BY ToldKept
<1> QED
  BY <1>1 DEF Fresh, Buffer

LEMMA Idle ==
    ASSUME dev' = "proxy", pc' = "idle", ret' = -1
    PROVE  Fresh' /\ Buffer' /\ Told'
BY DEF Fresh, Buffer, Told, ReadReturnsWhatMoved, WriteDelivers

-----------------------------------------------------------------------------
(* One lemma per action of the proxy.                                      *)

Step == Base /\ ProxySync /\ dev = "proxy" /\ cuts = 0 /\ cuts' = 0

LEMMA OnlyReady ==
    ASSUME Step,
           UNCHANGED <<dev, pc, op, len, calls, buf, ret, moved, proxy>>
    PROVE  ProxySync'
<1>1. Fresh' /\ Buffer' /\ Told'
  BY CallerKept DEF Step, ProxySync
<1>2. InCall => InCall'
  BY InCallKept DEF proxy
<1> QED
  BY <1>1, <1>2 DEF Step, ProxySync, Quiet, PageInv, proxy

LEMMA PageStep ==
    ASSUME Step, Page
    PROVE  ProxySync'
<1>1. UNCHANGED <<dev, pc, op, len, calls, buf, ret, moved, up, down, header,
                  got, srv, req, data>>
  BY DEF Page, Open, Close, Stop, Stopped, GiveUp, transport, client, server
<1>2. Fresh' /\ Buffer' /\ Told'
  BY <1>1, CallerKept DEF Step, ProxySync
<1>3. InCall => InCall'
  BY <1>1, InCallKept
<1>4. Quiet <=> Quiet'
  BY <1>1 DEF Quiet
<1>5. InCall => pc # "idle"
  BY DEF InCall
<1>6. PageInv'
  <2>1. CASE Open
    BY <2>1, <1>1, <1>4 DEF Step, ProxySync, PageInv, Open
  <2>2. CASE Close
    BY <2>2, <1>1, <1>4, <1>5 DEF Step, ProxySync, PageInv, Close
  <2>3. CASE Stop
    BY <2>3, <1>1, <1>4 DEF Step, ProxySync, PageInv, Stop
  <2>4. CASE Stopped
    BY <2>4, <1>1, <1>4 DEF Step, ProxySync, PageInv, Stopped
  <2>5. CASE GiveUp
    BY <2>5, <1>1, <1>4 DEF Step, ProxySync, PageInv, GiveUp
  <2> QED
    BY <2>1, <2>2, <2>3, <2>4, <2>5 DEF Page
<1> QED
  BY <1>2, <1>3, <1>4, <1>6 DEF Step, ProxySync

LEMMA CallStep ==
    ASSUME Step, Caller, UNCHANGED proxy
    PROVE  ProxySync'
<1>1. /\ pc = "idle" /\ pc' = "called" /\ moved' = << >>
      /\ UNCHANGED <<up, down, srv, page, usb, run>>
  BY DEF Caller, Call, proxy
<1>2. Told' /\ Fresh' /\ Buffer'
  BY <1>1, ToldKept DEF Step, ProxySync, Fresh, Buffer
<1>3. Quiet /\ Quiet'
  BY <1>1 DEF Step, ProxySync, Quiet, InCall
<1> QED
  BY <1>1, <1>2, <1>3 DEF Step, ProxySync, PageInv

LEMMA NotOpenStep ==
    ASSUME Step, NotOpen
    PROVE  ProxySync'
<1>1. /\ pc = "called" /\ pc' = "idle" /\ ret' = -1 /\ dev' = "proxy"
      /\ UNCHANGED <<up, down, srv, page, usb, run>>
  BY DEF Step, NotOpen, proxy, Return, call
<1>2. Told' /\ Fresh' /\ Buffer'
  BY <1>1, Idle
<1>3. Quiet /\ Quiet'
  BY <1>1 DEF Step, ProxySync, Quiet, InCall
<1> QED
  BY <1>1, <1>2, <1>3 DEF Step, ProxySync, PageInv

LEMMA SendStep ==
    ASSUME Step, SendRequest
    PROVE  ProxySync'
<1>1. /\ pc = "called" /\ pc' = "header" /\ page = "connected"
      /\ got' = 0 /\ header' = NoHeader /\ up' = up \o Request
      /\ buf' = [i \in 1 .. len |-> Nothing]
      /\ UNCHANGED <<dev, op, len, calls, moved, down, srv, page, usb, run>>
  BY DEF SendRequest, call, pipe, server, life
<1>2. Told' /\ Fresh' /\ Buffer'
  BY <1>1, ToldKept DEF Step, ProxySync, Fresh, Buffer
<1>3. Quiet /\ PageInv /\ moved = << >>
  BY <1>1 DEF Step, ProxySync, InCall, Fresh
<1>4. up' = Request
  <2>1. Request \in Seq(Units)
    BY RequestType DEF Step, StartsWith
  <2> QED
    BY <1>1, <1>3, <2>1, ConcatEmptySeq DEF Quiet
<1>5. Request' = Request
  BY <1>1 DEF Request, Data
<1>6. Asked'
  BY <1>1, <1>3, <1>4, <1>5 DEF Asked, Quiet, Waiting, PageInv
<1>7. PageInv'
  BY <1>1, <1>3 DEF PageInv
<1> QED
  BY <1>1, <1>2, <1>6, <1>7 DEF ProxySync, InCall

LEMMA TaskStep ==
    ASSUME Step, Accept \/ Loop \/ EndOfStream \/ NoConnection
    PROVE  ProxySync'
<1>1. /\ UNCHANGED <<dev, pc, op, len, calls, buf, ret, moved, up, header, got,
                     req, data, page, usb, run>>
      /\ page # "connected" => UNCHANGED down
  BY DEF Accept, Loop, EndOfStream, NoConnection, Nack, Reply, transport,
         client, life
<1>2. Fresh' /\ Buffer' /\ Told'
  BY <1>1, CallerKept DEF Step, ProxySync
<1>3. page # "connected" => Quiet
  BY DEF Step, ProxySync, PageInv
<1>4. CASE Accept
  <2>1. Waiting /\ Waiting' /\ UNCHANGED down
    BY <1>4 DEF Accept, Waiting
  <2>2. InCall => InCall'
    BY <1>1, <2>1, InCallKept
  <2>3. Quiet => Quiet'
    BY <1>1, <1>4 DEF Quiet, Accept
  <2> QED
    BY <1>1, <1>2, <1>4, <2>2, <2>3 DEF Step, ProxySync, PageInv, Accept
<1>5. CASE Loop
  <2>1. UNCHANGED down /\ srv = "loop"
    BY <1>5 DEF Loop
  <2>2. page = "connected" => run
    BY DEF Step, ProxySync, PageInv
  <2>3. InCall => InCall' \/ Quiet
    <3>1. page = "connected" => Waiting /\ Waiting'
      BY <1>5, <2>2 DEF Loop, Waiting
    <3>2. page = "connected" /\ InCall => InCall'
      BY <1>1, <2>1, <3>1, InCallKept
    <3> QED
      BY <1>3, <3>2
  <2>4. Quiet => Quiet'
    BY <1>1, <1>5 DEF Quiet, Loop
  <2> QED
    BY <1>1, <1>2, <1>5, <2>2, <2>3, <2>4 DEF Step, ProxySync, PageInv, Loop
<1>6. CASE EndOfStream
  <2>1. page # "connected" /\ Quiet
    BY <1>3, <1>6 DEF EndOfStream
  <2>2. UNCHANGED down /\ srv' \in {"loop", "faulted"}
    BY <1>1, <1>6, <2>1 DEF EndOfStream, Nack, Reply
  <2>3. Quiet'
    BY <1>1, <2>1, <2>2 DEF Quiet
  <2> QED
    BY <1>1, <1>2, <1>6, <2>1, <2>3 DEF Step, ProxySync, PageInv, EndOfStream
<1>7. CASE NoConnection
  <2>1. ~usb /\ srv = "usb"
    BY <1>7 DEF NoConnection
  <2>2. Quiet
    BY <1>3, <2>1 DEF Step, ProxySync, PageInv
  <2> QED
    BY <2>1, <2>2 DEF Quiet
<1> QED
  BY <1>4, <1>5, <1>6, <1>7

LEMMA ReadRequestStep ==
    ASSUME Step, ReadRequest
    PROVE  ProxySync'
<1>1. /\ srv = "request" /\ up # << >>
      /\ UNCHANGED <<dev, pc, op, len, calls, buf, ret, moved, header, got,
                     page, usb, run>>
  BY DEF ReadRequest, transport, client, life
<1>2. Fresh' /\ Buffer' /\ Told'
  BY <1>1, CallerKept DEF Step, ProxySync
<1>3. /\ InCall /\ pc = "header" /\ got = 0 /\ header = NoHeader /\ Asked
      /\ page = "connected" /\ PageInv
  BY <1>1 DEF Step, ProxySync, PageInv, Quiet, InCall, Sent, Doing, Replied,
              Paying
<1> DEFINE d == IF op = "write" THEN Data ELSE << >>
           code == IF op = "write" THEN "WRITE" ELSE "READ"
<1>4. StartsWith(up, code, len, d)
  BY <1>3, RequestType DEF Step, Asked
<1>5. len \in Nat /\ Data \in Seq(Units) /\ Len(Data) = len
  BY DataType DEF Step, Base
<1>6. /\ d \in Seq(Units) /\ Len(d) \in Nat
      /\ code = (IF op = "write" THEN "WRITE" ELSE "READ")
      /\ op = "write" => d = Data
      /\ op # "write" => d = << >>
  BY <1>5
<1>7. Data' = Data
  BY <1>1 DEF Data
<1> HIDE DEF d, code
<1>8. PICK n \in Takes(up, HeaderLen) :
         /\ Cut(up, HeaderLen, n)
         /\ up' = After(up, n)
         /\ \/ /\ ~RequestValid(First(up, n))
               /\ Nack
               /\ UNCHANGED <<req, data>>
            \/ /\ RequestValid(First(up, n))
               /\ req' = [code |-> up[2][2], n |-> up[2][3]]
               /\ srv' = IF up[2][2] = "READ" THEN "usb" ELSE "data"
               /\ UNCHANGED down
  BY DEF ReadRequest
<1>9. n = 2
  <2>1. up \in Seq(Units) /\ HeaderLen \in Nat
    BY <1>4 DEF StartsWith, HeaderLen
  <2>2. n = AtMost(HeaderLen, Len(up))
    BY <1>8, <2>1, Uncut DEF Step
  <2> QED
    BY <1>4, <1>6, <2>2 DEF AtMost, HeaderLen, StartsWith
<1>10. /\ up' = d /\ First(up, n) = Header(code, len)
       /\ up[2] = <<"header", code, len>>
  BY <1>4, <1>8, <1>9 DEF StartsWith
<1>11. RequestValid(First(up, n)) <=> len > 0
  <2>1. RequestValid(Header(code, len)) <=> len > 0
    BY <1>5 DEF RequestValid, Header, HeaderLen
  <2> QED
    BY <1>10, <2>1
<1>12. down = << >> /\ moved = << >> /\ moved' = << >>
  BY <1>1, <1>3 DEF Asked
<1>13. CASE len = 0
  <2>1. Nack
    BY <1>8, <1>11, <1>13
  <2>2. srv' = "loop" /\ down' = << >> \o Header("NACK", 0)
    BY <1>3, <1>12, <2>1 DEF Nack, Reply
  <2>3. up' = << >>
    <3>1. d = << >>
      BY <1>5, <1>6, <1>13, EmptySeq
    <3> QED
      BY <1>10, <3>1
  <2>4. Header("NACK", 0) \in Seq(Units)
    BY DEF Header, Units, Sof
  <2>5. /\ down' = Header("NACK", 0) \o << >>
        /\ << >> \in Seq(Units) /\ Len(<< >>) = 0
    BY <2>2, <2>4, ConcatEmptySeq
  <2>6. Announced("NACK", << >>)'
    BY <2>5 DEF Announced
  <2>7. InCall'
    BY <1>1, <1>3, <2>2, <2>3, <2>6 DEF InCall, Replied, Waiting
  <2> QED
    BY <1>1, <1>2, <1>3, <2>2, <2>7 DEF ProxySync, PageInv
<1>14. CASE len > 0
  <2>1. /\ req' = [code |-> code, n |-> len] /\ UNCHANGED down
        /\ srv' = IF code = "READ" THEN "usb" ELSE "data"
    <3>1. RequestValid(First(up, n))
      BY <1>11, <1>14
    <3> QED
      BY <1>8, <1>10, <3>1
  <2>2. op = "write" => Sent'
    BY <1>1, <1>6, <1>7, <1>10, <1>12, <1>14, <2>1 DEF Sent
  <2>3. op = "read" => Doing'
    BY <1>1, <1>6, <1>10, <1>12, <1>14, <2>1 DEF Doing
  <2>4. InCall'
    BY <1>1, <1>3, <2>2, <2>3 DEF InCall, Step, Base
  <2> QED
    BY <1>1, <1>2, <1>3, <1>6, <2>1, <2>4 DEF ProxySync, PageInv
<1> QED
  BY <1>5, <1>13, <1>14

LEMMA ReadDataStep ==
    ASSUME Step, ReadData
    PROVE  ProxySync'
<1>1. /\ srv = "data"
      /\ UNCHANGED <<dev, pc, op, len, calls, buf, ret, moved, header, got,
                     page, usb, run, req>>
  BY DEF ReadData, transport, client, life
<1>2. Fresh' /\ Buffer' /\ Told'
  BY <1>1, CallerKept DEF Step, ProxySync
<1>3. /\ pc = "header" /\ got = 0 /\ header = NoHeader /\ Sent
      /\ page = "connected" /\ PageInv
  BY <1>1 DEF Step, ProxySync, PageInv, Quiet, InCall, Asked, Doing, Replied,
              Paying, Waiting
<1>4. /\ Data \in Seq(Units) /\ Len(Data) = len /\ len \in Nat
      /\ First(Data, len) = Data /\ After(Data, len) = << >> /\ Data' = Data
  BY <1>1, DataType, Whole DEF Step, Base, Data
<1>5. up = Data /\ req.n = len /\ req = [code |-> "WRITE", n |-> len]
  BY <1>3 DEF Sent
<1>6. PICK n \in Takes(up, req.n) :
         /\ Cut(up, req.n, n)
         /\ up' = After(up, n)
         /\ \/ n < req.n /\ Nack /\ UNCHANGED data
            \/ /\ n = req.n
               /\ data' = First(up, n) /\ srv' = "usb" /\ UNCHANGED down
  BY DEF ReadData
<1>7. n = len
  <2>1. n = AtMost(len, Len(Data))
    BY <1>4, <1>5, <1>6, Uncut DEF Step
  <2> QED
    BY <1>4, <2>1 DEF AtMost
<1>8. up' = << >> /\ data' = Data /\ srv' = "usb" /\ UNCHANGED down
  BY <1>4, <1>5, <1>6, <1>7
<1>9. Doing'
  BY <1>1, <1>3, <1>4, <1>5, <1>8 DEF Doing, Sent
<1>10. InCall'
  BY <1>1, <1>3, <1>9 DEF InCall
<1> QED
  BY <1>1, <1>2, <1>3, <1>8, <1>10 DEF ProxySync, PageInv

LEMMA WriteToDeviceStep ==
    ASSUME Step, WriteToDevice
    PROVE  ProxySync'
<1>1. /\ srv = "usb" /\ req.code = "WRITE"
      /\ UNCHANGED <<dev, pc, op, len, calls, buf, ret, header, got, page, usb,
                     run, req, up>>
  BY DEF WriteToDevice, call, work, client, life
<1>2. /\ pc = "header" /\ got = 0 /\ header = NoHeader /\ Doing
      /\ page = "connected" /\ PageInv
  BY <1>1 DEF Step, ProxySync, PageInv, Quiet, InCall, Asked, Sent, Replied,
              Paying, Waiting
<1>3. /\ op = "write" /\ data = Data /\ up = << >> /\ down = << >>
      /\ moved = << >> /\ len > 0
  BY <1>1, <1>2 DEF Doing
<1>4. /\ Data \in Seq(Units) /\ Len(Data) = len /\ len \in Nat
      /\ First(Data, len) = Data /\ Data' = Data
  BY <1>1, DataType, Whole DEF Step, Base, Data
<1>5. PICK x \in BulkOut(Data) :
         /\ moved' = moved \o First(Data, x.n)
         /\ Reply(Header(IF x.res = "ok" THEN "DONE" ELSE "ERR", 0))
  BY <1>3 DEF WriteToDevice, Pushed
<1> DEFINE code == IF x.res = "ok" THEN "DONE" ELSE "ERR"
<1>6. code \in {"DONE", "ERR"}
  OBVIOUS
<1>7. code = "DONE" => moved' = Data
  <2>1. ASSUME code = "DONE" PROVE x = [res |-> "ok", n |-> Len(Data)]
    BY <1>5, <2>1 DEF BulkOut
  <2>2. << >> \o Data = Data
    BY <1>4, ConcatEmptySeq
  <2> QED
    BY <1>3, <1>4, <1>5, <2>1, <2>2
<1>8. srv' = "loop" /\ down' = << >> \o Header(code, 0)
  BY <1>2, <1>3, <1>5 DEF Reply
<1> HIDE DEF code
<1>9. Header(code, 0) \in Seq(Units)
  BY <1>6 DEF Header, Units, Sof
<1>10. /\ down' = Header(code, 0) \o << >>
       /\ << >> \in Seq(Units) /\ Len(<< >>) = 0
  BY <1>8, <1>9, ConcatEmptySeq
<1>11. Announced(code, << >>)'
  <2>1. op' = "write" /\ len' = len
    BY <1>1, <1>3
  <2> QED
    BY <1>3, <1>4, <1>6, <1>7, <1>10, <2>1 DEF Announced
<1>12. Replied'
  <2>1. up' = << >> /\ Waiting'
    BY <1>1, <1>3, <1>8 DEF Waiting
  <2> QED
    BY <1>11, <2>1 DEF Replied
<1>13. Told' /\ Fresh' /\ Buffer'
  BY <1>1, <1>2, ToldKept DEF Step, ProxySync, Fresh, Buffer
<1> QED
  BY <1>1, <1>2, <1>8, <1>12, <1>13 DEF ProxySync, PageInv, InCall

\* What a read moves.
LEMMA Reading ==
    ASSUME ready \in Seq(Units), NEW n \in Nat, NEW x \in BulkIn(n)
    PROVE  /\ x.n \in 0 .. Len(ready)
           /\ x.res \in {"ok", "timeout", "error"}
           /\ x.res = "ok" => x.n <= n
           /\ x.res = "timeout" /\ x.n > 0 => x.n <= n
           /\ x.res = "error" => x.n = 0
           /\ First(ready, x.n) \in Seq(Units) /\ Len(First(ready, x.n)) = x.n
           /\ After(ready, x.n) \in Seq(Units)
<1>1. Len(ready) \in Nat
  OBVIOUS
<1>2. x \in [res : {"ok"}, n : 0 .. AtMost(n, Len(ready))] =>
         x.res = "ok" /\ x.n \in 0 .. Len(ready) /\ x.n <= n
  BY <1>1 DEF AtMost
<1>3. x \in [res : {"timeout"}, n : 0 .. AtMost(n - 1, Len(ready))] =>
         /\ x.res = "timeout" /\ x.n \in 0 .. Len(ready)
         /\ x.n > 0 => x.n <= n
  BY <1>1 DEF AtMost
<1>4. x \in { [res |-> "error", n |-> 0] } => x.res = "error" /\ x.n = 0
  OBVIOUS
<1>5. /\ x.n \in 0 .. Len(ready)
      /\ x.res \in {"ok", "timeout", "error"}
      /\ x.res = "ok" => x.n <= n
      /\ x.res = "timeout" /\ x.n > 0 => x.n <= n
      /\ x.res = "error" => x.n = 0
  BY <1>1, <1>2, <1>3, <1>4 DEF BulkIn
<1> DEFINE m == x.n
<1>6. m \in 0 .. Len(ready)
  BY <1>5
<1> HIDE DEF m
<1>7. /\ First(ready, m) \in Seq(Units) /\ Len(First(ready, m)) = m
      /\ After(ready, m) \in Seq(Units)
  BY <1>6, Parts
<1> QED
  BY <1>5, <1>7 DEF m

LEMMA ReadFromDeviceStep ==
    ASSUME Step, ReadFromDevice
    PROVE  ProxySync'
<1>1. /\ srv = "usb" /\ req.code = "READ"
      /\ UNCHANGED <<dev, pc, op, len, calls, buf, ret, header, got, page, usb,
                     run, req, up>>
  BY DEF ReadFromDevice, call, work, client, life
<1>2. /\ pc = "header" /\ got = 0 /\ header = NoHeader /\ Doing
      /\ page = "connected" /\ PageInv
  BY <1>1 DEF Step, ProxySync, PageInv, Quiet, InCall, Asked, Sent, Replied,
              Paying, Waiting
<1>3. /\ op = "read" /\ req.n = len /\ up = << >> /\ down = << >>
      /\ moved = << >> /\ len > 0 /\ len \in Nat /\ ready \in Seq(Units)
  BY <1>1, <1>2 DEF Doing, Step, Base
<1>4. PICK x \in BulkIn(len) :
         /\ moved' = moved \o First(ready, x.n)
         /\ Reply(IF x.res = "ok" /\ x.n > 0
                  THEN Header("DONE", x.n) \o First(ready, x.n)
                  ELSE Header("ERR", 0))
  BY <1>3 DEF ReadFromDevice, Pulled
<1> DEFINE m == x.n
           f == First(ready, m)
           ok == x.res = "ok" /\ m > 0
           code == IF ok THEN "DONE" ELSE "ERR"
           d == IF ok THEN f ELSE << >>
<1>5. /\ m \in Nat /\ f \in Seq(Units) /\ Len(f) = m
      /\ ok => m <= len
  BY <1>3, <1>4, Reading
<1>6. moved' = f
  BY <1>3, <1>4, <1>5, ConcatEmptySeq
<1>7. srv' = "loop" /\ down' = << >> \o (IF ok THEN Header("DONE", m) \o f
                                         ELSE Header("ERR", 0))
  BY <1>2, <1>3, <1>4 DEF Reply
<1>8. /\ code \in {"DONE", "ERR"} /\ d \in Seq(Units)
      /\ ok => code = "DONE" /\ d = f
      /\ ~ok => code = "ERR" /\ d = << >>
  BY <1>5
<1> HIDE DEF m, f, ok, code, d
<1>9. down' = Header(code, Len(d)) \o d
  <2>1. ASSUME NEW c \in {"DONE", "ERR"}, NEW k \in Nat
        PROVE  Header(c, k) \in Seq(Units)
    BY DEF Header, Units, Sof
  <2>2. CASE ok
    <3>1. Header("DONE", m) \o f \in Seq(Units)
      BY <1>5, <2>1, ConcatProperties
    <3>2. down' = Header("DONE", m) \o f
      BY <1>7, <2>2, <3>1, ConcatEmptySeq
    <3> QED
      BY <1>5, <1>8, <2>2, <3>2
  <2>3. CASE ~ok
    <3>1. Header("ERR", 0) \in Seq(Units)
      BY <2>1
    <3>2. /\ down' = Header("ERR", 0)
          /\ Header("ERR", 0) = Header("ERR", 0) \o << >>
      BY <1>7, <2>3, <3>1, ConcatEmptySeq
    <3> QED
      BY <1>8, <2>3, <3>2
  <2> QED
    BY <2>2, <2>3
<1>10. PICK c, e : c = code /\ e = d
  OBVIOUS
<1>11. Announced(c, e)'
  <2>1. op' = "read" /\ len' = len
    BY <1>1, <1>3
  <2>2. c = "DONE" => moved' = e /\ Len(e) <= len
    BY <1>5, <1>6, <1>8, <1>10
  <2>3. c # "DONE" => e = << >>
    BY <1>8, <1>10
  <2>4. c \in {"DONE", "NACK", "ERR"} /\ e \in Seq(Units)
    BY <1>8, <1>10
  <2>5. down' = Header(c, Len(e)) \o e
    BY <1>9, <1>10
  <2> QED
    BY <2>1, <2>2, <2>3, <2>4, <2>5 DEF Announced
<1>12. Replied'
  <2>1. up' = << >> /\ Waiting'
    BY <1>1, <1>3, <1>7 DEF Waiting
  <2> QED
    BY <1>11, <2>1 DEF Replied
<1>13. Told' /\ Fresh' /\ Buffer'
  BY <1>1, <1>2, ToldKept DEF Step, ProxySync, Fresh, Buffer
<1> QED
  BY <1>1, <1>2, <1>7, <1>12, <1>13 DEF ProxySync, PageInv, InCall

LEMMA RecvHeaderStep ==
    ASSUME Step, RecvHeader
    PROVE  ProxySync'
<1>1. /\ pc = "header"
      /\ UNCHANGED <<dev, op, len, calls, buf, moved, up, srv, page, usb, run>>
  BY DEF RecvHeader, call, work, pipe, server, life
<1>2. PICK n \in 1 .. HeaderLen :
         /\ Recv(HeaderLen, n)
         /\ header' = Received(header, n)
         /\ \/ got + n < HeaderLen
            \/ got + n > HeaderLen
            \/ /\ got + n = HeaderLen
               /\ got' = 0
               /\ \/ /\ ~ReplyValid(header', IF op = "read" THEN len ELSE 0)
                     /\ Return(-1)
                  \/ /\ ReplyValid(header', IF op = "read" THEN len ELSE 0)
                     /\ IF header'[2][3] > 0
                        THEN pc' = "payload" /\ UNCHANGED ret
                        ELSE Return(0)
  BY DEF RecvHeader
<1>3. /\ got = 0 /\ header = NoHeader /\ Replied
      /\ page = "connected" /\ PageInv /\ Buffer
  <2>1. InCall /\ page = "connected" /\ PageInv /\ Buffer
    BY <1>1 DEF Step, ProxySync, PageInv, Quiet
  <2>2. down # << >>
    <3>1. n \in Takes(down, HeaderLen)
      BY <1>2 DEF Recv
    <3>2. Takes(<< >>, HeaderLen) = {}
      BY EmptySeq DEF Takes, AtMost, HeaderLen
    <3> QED
      BY <3>1, <3>2
  <2> QED
    BY <1>1, <2>1, <2>2 DEF InCall, Asked, Sent, Doing
<1>4. PICK code, d : Announced(code, d)
  BY <1>3 DEF Replied
<1>5. /\ d \in Seq(Units) /\ Len(d) \in Nat /\ len \in Nat
      /\ code \in {"DONE", "NACK", "ERR"}
      /\ StartsWith(down, code, Len(d), d)
  BY <1>4, HeaderFirst DEF Announced, Codes, Step, Base
<1>6. n = 2 /\ down' = d
  <2>1. n = AtMost(HeaderLen, Len(down))
    BY <1>2, <1>5, Uncut DEF Recv, HeaderLen, Step, StartsWith
  <2>2. n = 2
    BY <1>5, <2>1 DEF AtMost, HeaderLen, StartsWith
  <2> QED
    BY <1>2, <1>5, <2>2 DEF Recv, StartsWith
<1>7. header'[1] = Sof /\ header'[2] = <<"header", code, Len(d)>>
  <2>1. Len(NoHeader) = 2
    BY DEF NoHeader
  <2>2. header' = [i \in 1 .. 2 |-> IF i <= 2 THEN down[i] ELSE NoHeader[i]]
    BY <1>2, <1>3, <1>6, <2>1 DEF Received
  <2> QED
    BY <1>5, <2>2 DEF StartsWith
<1>8. /\ got' = 0
      /\ \/ /\ ~ReplyValid(header', IF op = "read" THEN len ELSE 0)
            /\ Return(-1)
         \/ /\ ReplyValid(header', IF op = "read" THEN len ELSE 0)
            /\ IF header'[2][3] > 0 THEN pc' = "payload" /\ UNCHANGED ret
               ELSE Return(0)
  BY <1>2, <1>3, <1>6 DEF HeaderLen
<1>9. header'[2][3] = Len(d) /\ header'[2][2] = code /\ header'[2][1] = "header"
  BY <1>7
<1>10. ReplyValid(header', IF op = "read" THEN len ELSE 0) <=> code = "DONE"
  <2>1. code = "DONE" => Len(d) <= IF op = "read" THEN len ELSE 0
    BY <1>4, <1>5, EmptySeq DEF Announced, Step, Base
  <2> QED
    BY <1>7, <1>9, <2>1 DEF ReplyValid
<1>11. up = << >> /\ Waiting
  BY <1>3 DEF Replied
<1>12. dev' = "proxy" /\ op \in {"read", "write"}
  BY <1>1 DEF Step, Base
<1>13. CASE code # "DONE"
  <2>1. pc' = "idle" /\ ret' = -1
    BY <1>8, <1>10, <1>13 DEF Return
  <2>2. down' = << >>
    BY <1>4, <1>6, <1>13 DEF Announced
  <2>3. Told' /\ Fresh' /\ Buffer'
    BY <1>12, <2>1, Idle
  <2>4. Quiet'
    BY <1>1, <1>11, <2>1, <2>2 DEF Quiet, Waiting
  <2> QED
    BY <1>1, <1>3, <2>3, <2>4 DEF ProxySync, PageInv
<1>14. CASE code = "DONE" /\ Len(d) = 0
  <2>1. pc' = "idle" /\ ret' = 0
    BY <1>8, <1>9, <1>10, <1>14 DEF Return
  <2>2. d = << >> /\ down' = << >>
    BY <1>5, <1>6, <1>14, EmptySeq
  <2>3. Quiet'
    BY <1>1, <1>11, <2>1, <2>2 DEF Quiet, Waiting
  <2>4. Fresh' /\ Buffer'
    BY <2>1 DEF Fresh, Buffer
  <2>5. op = "write" => WriteDelivers'
    <3>1. SUFFICES ASSUME op = "write" PROVE WriteDelivers'
      OBVIOUS
    <3>2. moved' = Data /\ len > 0
      BY <1>1, <1>4, <1>14, <3>1 DEF Announced
    <3>3. Data \in Seq(Units) /\ First(Data, 0) = << >>
      BY DataType, Whole DEF Step
    <3>4. First(Data, 0) \o Data = Data
      BY <3>3, ConcatEmptySeq
    <3>5. Data' = Data /\ len' = len
      BY <1>1 DEF Data
    <3>6. 0 \in 0 .. len' - 1
      BY <1>5, <3>2, <3>5
    <3>7. First(Data, 0)' = First(Data, 0)
      BY <3>5 DEF First
    <3>8. \E k \in 0 .. len' - 1 : moved' = First(Data', k) \o Data'
      BY <3>2, <3>4, <3>5, <3>6
    <3> QED
      BY <3>8 DEF WriteDelivers
  <2>6. op = "read" => ReadReturnsWhatMoved'
    <3>1. SUFFICES ASSUME op = "read" PROVE ReadReturnsWhatMoved'
      OBVIOUS
    <3>2. moved' = << >>
      BY <1>1, <1>4, <1>14, <2>2, <3>1 DEF Announced
    <3>3. First(buf', 0) = << >> /\ Len(<< >>) = 0
      BY SubSeqEmpty, EmptySeq DEF First
    <3> QED
      BY <2>1, <3>2, <3>3 DEF ReadReturnsWhatMoved
  <2>7. Told'
    BY <1>1, <1>12, <2>5, <2>6 DEF Told, ReadReturnsWhatMoved, WriteDelivers
  <2> QED
    BY <1>1, <1>3, <2>3, <2>4, <2>7 DEF ProxySync, PageInv
<1>15. CASE code = "DONE" /\ Len(d) > 0
  <2>1. pc' = "payload" /\ ret' = ret
    BY <1>8, <1>9, <1>10, <1>15
  <2>2. op = "read" /\ moved = d /\ Len(d) <= len
    BY <1>4, <1>12, <1>15, EmptySeq DEF Announced
  <2>3. Paying'
    <3>1. down' = d /\ moved' = d /\ header'[2][3] = Len(d) /\ op' = "read"
          /\ up' = << >> /\ len' = len /\ Waiting'
      BY <1>1, <1>6, <1>9, <1>11, <2>2 DEF Waiting
    <3> QED
      BY <1>5, <1>15, <2>2, <3>1 DEF Paying
  <2>4. Told' /\ Fresh' /\ Buffer'
    <3>1. Told
      BY DEF Step, ProxySync
    <3>2. Told'
      BY <2>1, <3>1, ToldKept
    <3> QED
      BY <1>1, <1>3, <2>1, <3>2 DEF Fresh, Buffer
  <2> QED
    BY <1>1, <1>3, <1>8, <2>1, <2>3, <2>4 DEF ProxySync, PageInv, InCall
<1> QED
  BY <1>5, <1>13, <1>14, <1>15

LEMMA RecvDataStep ==
    ASSUME Step, RecvData
    PROVE  ProxySync'
<1>1. /\ pc = "payload"
      /\ UNCHANGED <<dev, op, len, calls, moved, up, srv, page, usb, run>>
  BY DEF RecvData, call, pipe, server, life
<1>2. /\ Paying /\ got = 0 /\ page = "connected" /\ PageInv
      /\ buf = [i \in 1 .. len |-> Nothing]
  BY <1>1 DEF Step, ProxySync, PageInv, Quiet, InCall, Buffer
<1> DEFINE want == header[2][3]
<1>3. /\ op = "read" /\ up = << >> /\ Waiting /\ down \in Seq(Units)
      /\ moved = down /\ Len(down) = want /\ want \in 1 .. len /\ len \in Nat
  BY <1>2 DEF Paying, Step, Base
<1>4. PICK n \in 1 .. MaxLen :
         /\ Recv(want, n)
         /\ buf' = Received(buf, n)
         /\ IF got + n < want THEN Continue
            ELSE Return(IF got + n = want THEN want ELSE -1)
  BY DEF RecvData
<1> HIDE DEF want
<1>5. n = want
  <2>1. n = AtMost(want, Len(down)) /\ n \in Nat
    BY <1>3, <1>4, Uncut DEF Recv, Step
  <2> QED
    BY <1>3, <2>1 DEF AtMost
<1>6. down' = << >>
  <2>1. down' = After(down, Len(down))
    BY <1>3, <1>4, <1>5 DEF Recv
  <2> QED
    BY <1>3, <2>1, Whole
<1>7. pc' = "idle" /\ ret' = want
  BY <1>2, <1>3, <1>4, <1>5 DEF Return
<1>8. First(buf', want) = down
  <2>1. buf \in Seq(Units \cup {Nothing}) /\ Len(buf) = len
    <3>1. buf \in [1 .. len -> Units \cup {Nothing}]
      BY <1>2
    <3> QED
      BY <1>3, <3>1, FunctionIsSeq
  <2>2. \A i \in 1 .. want : buf'[i] = down[i] /\ down[i] \in Units
    BY <1>3, <1>4, <1>5, <2>1, ElementOfSeq DEF Received
  <2> DEFINE x == SubSeq(buf', 1, want)
  <2>3. want \in Int /\ 1 \in Int /\ \A i \in 1 .. want : buf'[i] \in Units
    BY <1>3, <2>2
  <2>4. /\ x \in Seq(Units) /\ Len(x) = IF 1 <= want THEN want - 1 + 1 ELSE 0
        /\ \A i \in 1 .. want - 1 + 1 : x[i] = buf'[1 + i - 1]
    BY <2>3, SubSeqProperties
  <2> HIDE DEF x
  <2>5. Len(x) = want /\ \A i \in 1 .. want : x[i] = down[i]
    <3>1. ASSUME NEW i \in 1 .. want PROVE x[i] = down[i]
      <4>1. x[i] = buf'[1 + i - 1] /\ 1 + i - 1 = i
        BY <1>3, <2>4
      <4> QED
        BY <2>2, <4>1
    <3> QED
      BY <1>3, <2>4, <3>1
  <2>6. x = down
    BY <1>3, <2>4, <2>5, SeqEqual
  <2> QED
    BY <2>6 DEF First, x
<1>9. Told' /\ Fresh' /\ Buffer'
  <2>1. ReadReturnsWhatMoved'
    BY <1>1, <1>3, <1>7, <1>8 DEF ReadReturnsWhatMoved
  <2>2. WriteDelivers'
    BY <1>1, <1>3 DEF WriteDelivers
  <2> QED
    BY <1>7, <2>1, <2>2 DEF Told, Fresh, Buffer
<1>10. Quiet'
  BY <1>1, <1>3, <1>6, <1>7 DEF Quiet, Waiting
<1> QED
  BY <1>1, <1>2, <1>9, <1>10 DEF ProxySync, PageInv

LEMMA ProxyNext ==
    Step /\ [Next]_vars => ProxySync'
<1> SUFFICES ASSUME Step, [Next]_vars PROVE ProxySync'
  OBVIOUS
<1>1. ~Device
  BY DEF Step, Device, NoLength, devlibusb_read, devlibusb_write,
         devusbdev_read, devusbdev_write, Calling
<1>2. CASE TargetSends /\ UNCHANGED proxy
  BY <1>2, OnlyReady DEF TargetSends, call, work
<1>3. CASE Caller /\ UNCHANGED proxy
  BY <1>3, CallStep
<1>4. CASE Client
  BY <1>4, NotOpenStep, SendStep, RecvHeaderStep, RecvDataStep DEF Client
<1>5. CASE Server
  BY <1>5, TaskStep, ReadRequestStep, ReadDataStep, WriteToDeviceStep,
     ReadFromDeviceStep DEF Server
<1>6. CASE Page
  BY <1>6, PageStep
<1>7. CASE UNCHANGED vars
  BY <1>7, OnlyReady DEF vars, proxy
<1> QED
  BY <1>1, <1>2, <1>3, <1>4, <1>5, <1>6, <1>7 DEF Next, Direct

-----------------------------------------------------------------------------
(* The calls of libusb, and the types.                                     *)

LEMMA LibusbRead ==
    ASSUME Base, UsbSync, devlibusb_read, UNCHANGED <<srv, page>>
    PROVE  UsbSync'
<1>1. /\ dev = "libusb" /\ dev' = dev /\ op = "read" /\ op' = op /\ len > 0
      /\ pc = "called" /\ moved = << >> /\ len \in Nat /\ ready \in Seq(Units)
  BY DEF devlibusb_read, Calling, call, UsbSync, Base
<1>2. PICK x \in BulkIn(len) :
         /\ moved' = moved \o First(ready, x.n)
         /\ buf' = First(ready, x.n)
         /\ IF x.res = "ok" \/ (x.res = "timeout" /\ x.n > 0)
            THEN Return(x.n) ELSE Return(-1)
  BY DEF devlibusb_read, Pulled
<1> DEFINE m == x.n
           f == First(ready, m)
<1>3. /\ m \in Nat /\ f \in Seq(Units) /\ Len(f) = m
      /\ x.res \in {"ok", "timeout", "error"}
      /\ x.res = "error" => m = 0
  BY <1>1, <1>2, Reading
<1>4. moved' = f /\ buf' = f
  BY <1>1, <1>2, <1>3, ConcatEmptySeq
<1>5. pc' = "idle" /\ (ret' = m \/ (ret' = -1 /\ m = 0))
  BY <1>2, <1>3 DEF Return
<1> HIDE DEF m, f
<1>6. First(f, m) = f /\ (m = 0 => f = << >>)
  BY <1>3, Whole, EmptySeq
<1>7. ReadReturnsWhatMoved'
  BY <1>1, <1>3, <1>4, <1>5, <1>6 DEF ReadReturnsWhatMoved
<1>8. WriteDelivers'
  BY <1>1 DEF WriteDelivers
<1> QED
  BY <1>5, <1>7, <1>8 DEF UsbSync, Told

LEMMA LibusbWrite ==
    ASSUME Base, UsbSync, devlibusb_write, UNCHANGED <<srv, page>>
    PROVE  UsbSync'
<1>1. /\ dev = "libusb" /\ dev' = dev /\ op = "write" /\ op' = op /\ len > 0
      /\ pc = "called" /\ sent = 0 /\ len \in Nat /\ len' = len
      /\ \/ nbretry = 2 /\ moved = << >>
         \/ nbretry = 1 /\ \E k \in 0 .. len - 1 : moved = First(Data, k)
  BY DEF devlibusb_write, Calling, call, UsbSync, Base
<1>2. /\ Data \in Seq(Units) /\ Len(Data) = len /\ First(Data, len) = Data
      /\ First(Data, 0) = << >> /\ Data' = Data
  BY DataType, Whole DEF devlibusb_write, call, Data
<1>3. Unsent = Data
  BY <1>1, <1>2, SubSeqFull DEF Unsent, After
<1>4. PICK x \in BulkOut(Data) :
         /\ moved' = moved \o First(Data, x.n)
         /\ \/ /\ x.res = "ok"
               /\ IF sent + x.n < len THEN Continue ELSE Return(0)
            \/ /\ x.res = "timeout"
               /\ nbretry' = nbretry - 1 /\ UNCHANGED sent
               /\ IF nbretry = 1 THEN Return(-1) ELSE Continue
            \/ /\ x.res = "error"
               /\ Return(-1)
  BY <1>3 DEF devlibusb_write, Pushed
<1>5. /\ x.res = "ok" => x.n = len
      /\ x.res = "timeout" => x.n \in 0 .. len - 1
  BY <1>2, <1>4 DEF BulkOut
<1>6. ReadReturnsWhatMoved'
  BY <1>1 DEF ReadReturnsWhatMoved
<1>7. CASE x.res = "ok"
  <2>1. pc' = "idle"
    BY <1>1, <1>4, <1>5, <1>7 DEF Return
  <2>2. PICK k \in 0 .. len - 1 : moved = First(Data, k)
    BY <1>1, <1>2
  <2>3. moved' = First(Data, k) \o Data
    BY <1>2, <1>4, <1>5, <1>7, <2>2
  <2>4. \E j \in 0 .. len' - 1 : moved' = First(Data', j) \o Data'
    BY <1>1, <1>2, <2>3
  <2>5. WriteDelivers'
    BY <2>4 DEF WriteDelivers
  <2> QED
    BY <1>6, <2>1, <2>5 DEF UsbSync, Told
<1>8. CASE x.res = "timeout" /\ nbretry = 2
  <2>1. pc' = "called" /\ nbretry' = 1 /\ sent' = 0
    BY <1>1, <1>4, <1>8 DEF Continue
  <2>2. First(Data, x.n) \in Seq(Units)
    BY <1>1, <1>2, <1>5, <1>8, Parts
  <2>3. moved' = First(Data, x.n)
    BY <1>1, <1>4, <1>8, <2>2, ConcatEmptySeq
  <2>4. \E k \in 0 .. len' - 1 : moved' = First(Data', k)
    BY <1>1, <1>2, <1>5, <1>8, <2>3
  <2>5. \E k \in 0 .. len' - 1 : moved' = First(Data, k)'
    BY <2>4 DEF First
  <2>6. Told'
    BY <2>1 DEF Told, ReadReturnsWhatMoved, WriteDelivers
  <2> QED
    BY <1>1, <2>1, <2>5, <2>6 DEF UsbSync
<1>9. CASE x.res = "error" \/ (x.res = "timeout" /\ nbretry # 2)
  <2>1. pc' = "idle" /\ ret' = -1
    BY <1>1, <1>4, <1>9 DEF Return
  <2>2. WriteDelivers'
    BY <2>1 DEF WriteDelivers
  <2> QED
    BY <1>6, <2>1, <2>2 DEF UsbSync, Told
<1> QED
  BY <1>4, <1>7, <1>8, <1>9

LEMMA UsbNext ==
    Base /\ UsbSync /\ dev # "proxy" /\ [Next]_vars => UsbSync'
<1> SUFFICES ASSUME Base, UsbSync, dev # "proxy", [Next]_vars PROVE UsbSync'
  OBVIOUS
<1>1. ~Server
  BY DEF Server, UsbSync, Accept, Loop, ReadRequest, ReadData, EndOfStream,
         WriteToDevice, ReadFromDevice, NoConnection
<1>2. ~Client
  BY DEF Client, UsbSync, NotOpen, SendRequest, RecvHeader, RecvData
<1>3. ~Page
  BY DEF Page, UsbSync, Open, Close, Stop, Stopped, GiveUp
<1>4. ASSUME UNCHANGED <<srv, page, pc, dev, op, len, calls, ret, buf, moved,
                         sent, nbretry>>
      PROVE  UsbSync'
  <2>1. dev = "libusb" => Told'
    BY <1>4, ToldKept DEF UsbSync
  <2>2. Data' = Data
    BY <1>4 DEF Data
  <2> QED
    BY <1>4, <2>1, <2>2 DEF UsbSync, First
<1>5. CASE TargetSends /\ UNCHANGED proxy
  BY <1>4, <1>5 DEF TargetSends, call, work, proxy
<1>6. CASE Caller /\ UNCHANGED proxy
  <2>1. /\ pc' = "called" /\ sent' = 0 /\ nbretry' = 2 /\ moved' = << >>
        /\ UNCHANGED <<srv, page>>
    BY <1>6 DEF Caller, Call, proxy
  <2>2. Told'
    BY <2>1 DEF Told, ReadReturnsWhatMoved, WriteDelivers
  <2> QED
    BY <2>1, <2>2 DEF UsbSync
<1>7. CASE Device /\ UNCHANGED proxy
  <2>1. UNCHANGED <<srv, page>>
    BY <1>7 DEF proxy
  <2>2. CASE devlibusb_read
    BY <2>1, <2>2, LibusbRead
  <2>3. CASE devlibusb_write
    BY <2>1, <2>3, LibusbWrite
  <2>4. CASE NoLength("read") \/ NoLength("write")
    <3>1. /\ pc' = "idle" /\ ret' = -1 /\ moved' = moved /\ op' = op
          /\ moved = << >>
      BY <2>4 DEF NoLength, Return, pipe, call, UsbSync, Calling
    <3>2. Told'
      BY <3>1 DEF Told, ReadReturnsWhatMoved, WriteDelivers
    <3> QED
      BY <2>1, <3>1, <3>2 DEF UsbSync
  <2>5. CASE devusbdev_read \/ devusbdev_write
    <3>1. pc' = "idle" /\ dev' = "usbdev"
      BY <2>5 DEF devusbdev_read, devusbdev_write, Return, call, Calling
    <3> QED
      BY <2>1, <3>1 DEF UsbSync
  <2> QED
    BY <1>7, <2>2, <2>3, <2>4, <2>5 DEF Device
<1>8. CASE UNCHANGED vars
  BY <1>4, <1>8 DEF vars
<1> QED
  BY <1>1, <1>2, <1>3, <1>5, <1>6, <1>7, <1>8 DEF Next, Direct

LEMMA TakesSome ==
    ASSUME NEW stream \in Seq(Units), NEW n \in Nat, NEW k \in Takes(stream, n)
    PROVE  k \in 1 .. Len(stream)
<1>1. Len(stream) \in Nat
  OBVIOUS
<1> QED
  BY <1>1 DEF Takes, AtMost

LEMMA BaseNext ==
    Base /\ [Next]_vars => Base'
<1> SUFFICES ASSUME Base, [Next]_vars PROVE Base'
  OBVIOUS
<1>1. ASSUME NEW n, Pulled(n), n \in 0 .. Len(ready)
      PROVE  ready' \in Seq(Units) /\ answers' = answers
  BY <1>1, Parts DEF Pulled, Base
<1>2. ASSUME NEW stream, NEW n, NEW k, Cut(stream, n, k) PROVE cuts' \in Nat
  BY <1>2 DEF Cut, Base
<1>3. CASE TargetSends /\ UNCHANGED proxy
  <2>1. <<"answer", answers + 1, 1>> \in Units
    BY DEF Base, Units
  <2>2. ready' \in Seq(Units)
    BY <1>3, <2>1 DEF TargetSends, Base
  <2> QED
    BY <1>3, <2>2 DEF TargetSends, Base, call, proxy
<1>4. CASE Caller /\ UNCHANGED proxy
  BY <1>4 DEF Caller, Call, Base, proxy
<1>5. CASE Device /\ UNCHANGED proxy
  <2>1. CASE devlibusb_read
    <3>1. PICK x \in BulkIn(len) : Pulled(x.n)
      BY <2>1 DEF devlibusb_read
    <3>2. x.n \in 0 .. Len(ready)
      BY <3>1, Reading DEF Base
    <3>3. ready' \in Seq(Units) /\ answers' = answers
      BY <1>1, <3>1, <3>2
    <3> QED
      BY <1>5, <2>1, <3>3 DEF devlibusb_read, Base, call, proxy
  <2>2. CASE devlibusb_write
    BY <1>5, <2>2 DEF devlibusb_write, Base, call, proxy, Pushed
  <2>3. CASE NoLength("read") \/ NoLength("write") \/ devusbdev_read
               \/ devusbdev_write
    BY <1>5, <2>3 DEF NoLength, devusbdev_read, devusbdev_write, Base, call,
                      pipe, proxy
  <2> QED
    BY <1>5, <2>1, <2>2, <2>3 DEF Device
<1>6. CASE Client
  <2>1. UNCHANGED <<ready, answers, dev, op, len, calls, req>>
    BY <1>6 DEF Client, NotOpen, SendRequest, RecvHeader, RecvData, pipe, call,
                proxy, server
  <2>2. cuts' \in Nat
    BY <1>2, <1>6 DEF Client, NotOpen, SendRequest, RecvHeader, RecvData, Recv,
                      proxy, Base
  <2>3. up' \in Seq(Units)
    <3>1. CASE SendRequest
      <4>1. Request \in Seq(Units)
        BY RequestType DEF StartsWith
      <4> QED
        BY <3>1, <4>1, ConcatProperties DEF SendRequest, Base
    <3>2. CASE NotOpen \/ RecvHeader \/ RecvData
      BY <3>2 DEF NotOpen, RecvHeader, RecvData, proxy, Base
    <3> QED
      BY <1>6, <3>1, <3>2 DEF Client
  <2> QED
    BY <2>1, <2>2, <2>3 DEF Base
<1>7. CASE Page
  BY <1>7 DEF Page, Open, Close, Stop, Stopped, GiveUp, transport, server, Base
<1>8. CASE UNCHANGED vars
  BY <1>8 DEF vars, Base
<1>9. CASE Accept \/ Loop \/ EndOfStream \/ NoConnection
  BY <1>9 DEF Accept, Loop, EndOfStream, NoConnection, transport, Base
<1>10. CASE ReadRequest \/ ReadData
  <2>1. UNCHANGED transport
    BY <1>10 DEF ReadRequest, ReadData
  <2>2. cuts' \in Nat
    BY <1>2, <1>10 DEF ReadRequest, ReadData
  <2>3. PICK n : n \in 1 .. Len(up) /\ up' = After(up, n)
    BY <1>10, TakesSome DEF ReadRequest, ReadData, Base, HeaderLen
  <2>4. up' \in Seq(Units)
    BY <2>3, Parts DEF Base
  <2>5. req'.n \in Nat
    <3>1. CASE UNCHANGED req
      BY <3>1 DEF Base
    <3>2. CASE ReadRequest /\ req' # req
      <4>1. PICK k \in Takes(up, HeaderLen) :
               /\ RequestValid(First(up, k))
               /\ req' = [code |-> up[2][2], n |-> up[2][3]]
        BY <3>2 DEF ReadRequest
      <4>2. k \in 1 .. Len(up)
        BY TakesSome DEF Base, HeaderLen
      <4>3. Len(First(up, k)) = k /\ Len(First(up, k)) = 2
        <5>1. up \in Seq(Units) /\ Len(up) \in Nat
          BY DEF Base
        <5>2. k \in 0 .. Len(up)
          BY <4>2, <5>1
        <5>3. Len(First(up, k)) = k
          BY <5>1, <5>2, Parts
        <5> QED
          BY <4>1, <5>3 DEF RequestValid, HeaderLen
      <4>4. up[2] \in Units
        BY <4>2, <4>3, ElementOfSeq DEF Base
      <4>5. up[2][3] \in Nat
        BY <4>4 DEF Units, Sof
      <4> QED
        BY <4>1, <4>5
    <3> QED
      BY <1>10, <3>1, <3>2 DEF ReadData
  <2> QED
    BY <2>1, <2>2, <2>4, <2>5 DEF Base, transport
<1>11. CASE WriteToDevice
  BY <1>11 DEF WriteToDevice, Pushed, Base, call
<1>12. CASE ReadFromDevice
  <2>1. req.code = "READ" /\ UNCHANGED <<dev, calls, op, len, cuts, up, req>>
    BY <1>12 DEF ReadFromDevice, call
  <2>2. PICK x \in BulkIn(req.n) : Pulled(x.n)
    BY <1>12 DEF ReadFromDevice
  <2>3. x.n \in 0 .. Len(ready)
    BY <2>2, Reading DEF Base
  <2>4. ready' \in Seq(Units) /\ answers' = answers
    BY <1>1, <2>2, <2>3
  <2> QED
    BY <2>1, <2>4 DEF Base
<1> QED
  BY <1>3, <1>4, <1>5, <1>6, <1>7, <1>8, <1>9, <1>10, <1>11, <1>12
  DEF Next, Direct, Server

-----------------------------------------------------------------------------
LEMMA Start == ProxyInit => IInv
<1> SUFFICES ASSUME ProxyInit PROVE IInv
  OBVIOUS
<1>1. Base
  BY TransportAssumption DEF ProxyInit, Init, Base
<1>2. Told
  BY DEF ProxyInit, Init, Told, ReadReturnsWhatMoved, WriteDelivers
<1>3. Quiet /\ PageInv /\ Fresh /\ Buffer
  BY DEF ProxyInit, Init, Quiet, PageInv, Fresh, Buffer
<1>4. UsbSync
  BY <1>2 DEF ProxyInit, Init, UsbSync
<1> QED
  BY <1>1, <1>2, <1>3, <1>4 DEF IInv, ProxySync

\* The history of cuts never forgets one, and the device is chosen once.
LEMMA CutsKept ==
    Base /\ [Next]_vars => dev' = dev /\ (cuts' = 0 => cuts = 0)
<1> SUFFICES ASSUME Base, [Next]_vars
             PROVE  dev' = dev /\ (cuts' = 0 => cuts = 0)
  OBVIOUS
<1>1. ASSUME NEW stream, NEW n, NEW k, Cut(stream, n, k)
      PROVE  cuts' = 0 => cuts = 0
  BY <1>1 DEF Cut, Base
<1>2. CASE Direct
  BY <1>2 DEF Direct, TargetSends, Caller, Call, Device, NoLength, proxy, call,
     devlibusb_read, devlibusb_write, devusbdev_read, devusbdev_write
<1>3. CASE Client
  BY <1>1, <1>3 DEF Client, NotOpen, SendRequest, RecvHeader, RecvData, Recv,
     proxy, call
<1>4. CASE Server
  BY <1>1, <1>4 DEF Server, Accept, Loop, ReadRequest, ReadData, EndOfStream,
     WriteToDevice, ReadFromDevice, NoConnection, transport, call
<1>5. CASE Page
  BY <1>5 DEF Page, Open, Close, Stop, Stopped, GiveUp, transport
<1>6. CASE UNCHANGED vars
  BY <1>6 DEF vars
<1> QED
  BY <1>2, <1>3, <1>4, <1>5, <1>6 DEF Next

LEMMA IInvNext == IInv /\ [Next]_vars => IInv'
BY BaseNext, UsbNext, ProxyNext, CutsKept DEF IInv, Step

LEMMA Inductive == Spec => []IInv
BY Start, IInvNext, PTL DEF Spec

\* As long as no Read was cut, nothing is left on the way between two calls
\* and the task waits for a request: a request never meets the reply or the
\* data of the call before (device_proxy.c, usbProxy.cs).
THEOREM NothingLeft == Spec => []LockStep
<1>1. IInv => LockStep
  BY DEF IInv, ProxySync, LockStep, PageInv, Quiet, InCall
<1> QED
  BY <1>1, Inductive, PTL

\* A read through libusb, or through the proxy while no Read was cut, returns
\* how many units it put in the buffer, those that left the pipe for it.
THEOREM ReadsTrue == Spec => []ReadsAreTrue
<1>1. IInv => ReadsAreTrue
  <2>1. IInv => dev \in {"libusb", "usbdev", "proxy"}
    BY DEF IInv, Base
  <2>2. IInv /\ cuts = 0 /\ dev = "proxy" => Told
    BY DEF IInv, ProxySync
  <2>3. IInv /\ dev = "libusb" => Told
    BY DEF IInv, UsbSync
  <2> QED
    BY <2>1, <2>2, <2>3 DEF Told, ReadsAreTrue
<1> QED
  BY <1>1, Inductive, PTL

\* A write that returns 0 gave the target all its data, whatever transfers
\* timed out or failed.
THEOREM WritesTrue == Spec => []WritesAreTrue
<1>1. IInv => WritesAreTrue
  <2>1. IInv => dev \in {"libusb", "usbdev", "proxy"}
    BY DEF IInv, Base
  <2>2. IInv /\ cuts = 0 /\ dev = "proxy" => Told
    BY DEF IInv, ProxySync
  <2>3. IInv /\ dev = "libusb" => Told
    BY DEF IInv, UsbSync
  <2> QED
    BY <2>1, <2>2, <2>3 DEF Told, WritesAreTrue
<1> QED
  BY <1>1, Inductive, PTL

\* The page closes USB after waiting a second for the task, which may not have
\* ended: it never does so under a task that is about to use USB.
THEOREM UsbOpen == Spec => []UsbOpenWhenUsed
<1>1. IInv => UsbOpenWhenUsed
  BY DEF IInv, ProxySync, UsbSync, PageInv, Quiet, UsbOpenWhenUsed
<1> QED
  BY <1>1, Inductive, PTL

-----------------------------------------------------------------------------
(* Types, whatever was cut.                                                *)

\* What the client sends.
Requests ==
    {Sof} \cup ({"header"} \X {"READ", "WRITE"} \X Nat)
          \cup ({"data"} \X Nat \X Nat)
Typed ==
    /\ TypeOK
    /\ up \in Seq(Requests)
    /\ len \in 0 .. MaxLen
    /\ pc \in {"header", "payload"} => Len(buf) = len

LEMMA Subseqs ==
    ASSUME NEW S, NEW s \in Seq(S)
    PROVE  /\ Len(s) \in Nat
           /\ \A n \in 0 .. Len(s) : First(s, n) \in Seq(S) /\ After(s, n) \in Seq(S)
           /\ \A t \in Seq(S) : s \o t \in Seq(S)
<1>1. \A n \in 0 .. Len(s) : First(s, n) \in Seq(S) /\ After(s, n) \in Seq(S)
  BY Parts
<1>2. \A t \in Seq(S) : s \o t \in Seq(S)
  BY ConcatProperties
<1>3. Len(s) \in Nat
  OBVIOUS
<1> QED
  BY <1>1, <1>2, <1>3

LEMMA Headers ==
    ASSUME NEW c \in Codes, NEW n \in Nat
    PROVE  Header(c, n) \in Seq(Units)
BY DEF Header, Codes, Units, Sof

\* No transfer sends more than it was given.
LEMMA Writing ==
    ASSUME NEW d \in Seq(Units), NEW x \in BulkOut(d)
    PROVE  First(d, x.n) \in Seq(Units)
<1>1. x.n \in 0 .. Len(d)
  <2>1. Len(d) \in Nat
    OBVIOUS
  <2> QED
    BY <2>1 DEF BulkOut
<1> DEFINE n == x.n
<1>2. n \in 0 .. Len(d)
  BY <1>1
<1> HIDE DEF n
<1>3. First(d, n) \in Seq(Units)
  BY <1>2, Parts
<1> QED
  BY <1>3 DEF n

LEMMA ReplyTyped ==
    ASSUME Typed, NEW units \in Seq(Units), Reply(units)
    PROVE  down' \in Seq(Units) /\ srv' \in {"loop", "faulted"}
<1>1. down \in Seq(Units)
  BY DEF Typed, TypeOK
<1>2. down \o units \in Seq(Units)
  BY <1>1, ConcatProperties
<1> QED
  BY <1>1, <1>2 DEF Reply

LEMMA NackTyped ==
    ASSUME Typed, Nack
    PROVE  down' \in Seq(Units) /\ srv' \in {"loop", "faulted"}
<1> DEFINE units == Header("NACK", 0)
<1>1. units \in Seq(Units)
  BY Headers DEF Codes
<1>2. Reply(units)
  BY DEF Nack
<1> HIDE DEF units
<1> QED
  BY <1>1, <1>2, ReplyTyped

TypedStep == Typed /\ IInv

LEMMA TypedDirect ==
    ASSUME TypedStep, Direct
    PROVE  Typed'
<1>1. Typed /\ Base /\ UNCHANGED <<proxy>>
  BY DEF TypedStep, IInv, Direct
<1>2. /\ up' \in Seq(Requests) /\ up' \in Seq(Units) /\ down' \in Seq(Units)
      /\ data' \in Seq(Units)
      /\ header' \in [1 .. HeaderLen -> Units \cup {Nothing}] /\ got' \in Nat
      /\ srv' \in {"accept", "loop", "request", "data", "usb", "ended", "faulted"}
      /\ req' \in [code : {"READ", "WRITE"}, n : Nat]
  BY <1>1 DEF Typed, TypeOK, proxy
<1> DEFINE Rest ==
      /\ pc' \in {"idle", "called", "header", "payload"}
      /\ ready' \in Seq(Units) /\ taken' \in Seq(Units) /\ moved' \in Seq(Units)
      /\ buf' \in Seq(Units \cup {Nothing})
      /\ ret' \in -1 .. MaxLen
      /\ len' \in 0 .. MaxLen
      /\ pc' = "payload" => header'[2][3] <= Len(buf')
      /\ pc' \in {"header", "payload"} => Len(buf') = len'
<1>3. SUFFICES Rest
  BY <1>2 DEF Typed, TypeOK
<1>4. CASE TargetSends
  <2>1. <<"answer", answers + 1, 1>> \in Units
    BY <1>1 DEF Base, Units
  <2>2. ready' \in Seq(Units)
    BY <1>1, <1>4, <2>1 DEF TargetSends, Typed, TypeOK
  <2> QED
    BY <1>1, <1>4, <2>2 DEF TargetSends, Typed, TypeOK, call, work, proxy
<1>5. CASE Caller
  <2>1. PICK o \in {"read", "write"}, n \in 0 .. MaxLen : Call(o, n)
    BY <1>5 DEF Caller
  <2>2. << >> \in Seq(Units) /\ << >> \in Seq(Units \cup {Nothing})
    BY EmptySeq
  <2> QED
    BY <1>1, <2>1, <2>2 DEF Call, Typed, TypeOK
<1>6. CASE devlibusb_read
  <2>1. PICK x \in BulkIn(len) :
           /\ Pulled(x.n)
           /\ buf' = First(ready, x.n)
           /\ IF x.res = "ok" \/ (x.res = "timeout" /\ x.n > 0)
              THEN Return(x.n) ELSE Return(-1)
    BY <1>6 DEF devlibusb_read
  <2> DEFINE m == x.n
             f == First(ready, m)
  <2>2. /\ m \in Nat /\ f \in Seq(Units) /\ After(ready, m) \in Seq(Units)
        /\ x.res \in {"ok", "timeout", "error"}
        /\ x.res = "ok" => m <= len
        /\ x.res = "timeout" /\ m > 0 => m <= len
    BY <1>1, Reading DEF Base
  <2>3. pc' = "idle" /\ ret' \in -1 .. MaxLen
    BY <1>1, <2>1, <2>2, TransportAssumption DEF Return, Typed
  <2>4. buf' = f /\ ready' = After(ready, m) /\ moved' = moved \o f
        /\ UNCHANGED <<taken, len>>
    BY <1>6, <2>1 DEF Pulled, devlibusb_read, call
  <2> HIDE DEF f, m
  <2>5. buf' \in Seq(Units \cup {Nothing})
    BY <2>2, <2>4, SeqMonotonic
  <2>6. moved' \in Seq(Units)
    BY <1>1, <2>2, <2>4, ConcatProperties DEF Typed, TypeOK
  <2> QED
    BY <1>1, <2>2, <2>3, <2>4, <2>5, <2>6 DEF Typed, TypeOK
<1>7. CASE devlibusb_write
  <2>1. /\ dev = "libusb" /\ pc = "called" /\ sent = 0
        /\ UNCHANGED <<ready, len, buf>>
    BY <1>1, <1>7 DEF devlibusb_write, Calling, TypedStep, IInv, UsbSync, call,
                      Pushed
  <2>2. Data \in Seq(Units) /\ Unsent = Data
    BY <1>1, <2>1, DataType, SubSeqFull DEF Unsent, After
  <2>3. PICK x \in BulkOut(Data) :
           /\ Pushed(First(Data, x.n))
           /\ Continue \/ Return(0) \/ Return(-1)
    BY <1>7, <2>2 DEF devlibusb_write
  <2>4. First(Data, x.n) \in Seq(Units)
    BY <2>2, <2>3, Writing
  <2>5. taken' \in Seq(Units) /\ moved' \in Seq(Units)
    BY <1>1, <2>3, <2>4, ConcatProperties DEF Pushed, Typed, TypeOK
  <2>6. pc' \in {"idle", "called"} /\ ret' \in -1 .. MaxLen
    BY <1>1, <2>1, <2>3, TransportAssumption DEF Continue, Return, Typed, TypeOK
  <2> QED
    BY <1>1, <2>1, <2>5, <2>6 DEF Typed, TypeOK
<1>8. CASE NoLength("read") \/ NoLength("write") \/ devusbdev_read
             \/ devusbdev_write
  <2>1. Return(len) \/ Return(0) \/ Return(-1)
    BY <1>8 DEF NoLength, devusbdev_read, devusbdev_write
  <2>2. pc' = "idle" /\ ret' \in -1 .. MaxLen
    <3>1. len \in -1 .. MaxLen /\ 0 \in -1 .. MaxLen /\ -1 \in -1 .. MaxLen
      BY <1>1, TransportAssumption DEF Typed
    <3> QED
      BY <2>1, <3>1 DEF Return
  <2>3. UNCHANGED <<pipe, call, work>>
    BY <1>8 DEF NoLength, devusbdev_read, devusbdev_write
  <2> QED
    BY <1>1, <2>2, <2>3 DEF Typed, TypeOK, pipe, call, work
<1> QED
  BY <1>4, <1>5, <1>6, <1>7, <1>8 DEF Direct, Device

LEMMA RequestTyped == Base => Request \in Seq(Requests)
<1> SUFFICES ASSUME Base PROVE Request \in Seq(Requests)
  OBVIOUS
<1>1. len \in Nat /\ calls \in Nat
  BY DEF Base
<1>2. /\ Header("WRITE", len) \in Seq(Requests)
      /\ Header("READ", len) \in Seq(Requests)
  BY <1>1 DEF Header, Requests, Sof
<1>3. Data \in Seq(Requests)
  <2>1. Data \in [1 .. len -> Requests]
    BY <1>1 DEF Data, Requests
  <2> QED
    BY <1>1, <2>1, FunctionIsSeq
<1> QED
  BY <1>2, <1>3, ConcatProperties DEF Request

LEMMA TypedClient ==
    ASSUME TypedStep, Client
    PROVE  Typed'
<1>1. Typed /\ Base
  BY DEF TypedStep, IInv
<1>2. CASE NotOpen
  BY <1>1, <1>2, TransportAssumption
  DEF NotOpen, Return, pipe, call, work, proxy, Typed, TypeOK
<1>3. CASE SendRequest
  <2>1. /\ pc' = "header" /\ header' = NoHeader /\ got' = 0
        /\ up' = up \o Request /\ buf' = [i \in 1 .. len |-> Nothing]
        /\ UNCHANGED <<ret, ready, taken, moved, len, down, srv, req, data>>
    BY <1>3 DEF SendRequest, pipe, call, server
  <2>2. up' \in Seq(Requests) /\ up' \in Seq(Units)
    <3>1. up' \in Seq(Requests)
      BY <1>1, <2>1, RequestTyped, ConcatProperties DEF Typed
    <3>2. Request \in Seq(Units)
      BY <1>1, RequestType DEF StartsWith
    <3> QED
      BY <1>1, <2>1, <3>1, <3>2, ConcatProperties DEF Base
  <2>3. buf' \in Seq(Units \cup {Nothing}) /\ Len(buf') = len
    <3>1. buf' \in [1 .. len -> Units \cup {Nothing}] /\ len \in Nat
      BY <1>1, <2>1 DEF Base
    <3> QED
      BY <3>1, FunctionIsSeq
  <2>4. header' \in [1 .. HeaderLen -> Units \cup {Nothing}]
    BY <2>1 DEF NoHeader, HeaderLen
  <2> QED
    BY <1>1, <2>1, <2>2, <2>3, <2>4 DEF Typed, TypeOK
<1>4. CASE RecvHeader
  <2>1. /\ pc = "header" /\ Len(buf) = len /\ len \in 0 .. MaxLen
        /\ UNCHANGED <<ready, taken, moved, op, len, buf, up, srv, req, data>>
    BY <1>1, <1>4 DEF RecvHeader, pipe, call, work, server, Typed
  <2>2. PICK n \in 1 .. HeaderLen :
           /\ Recv(HeaderLen, n)
           /\ header' = Received(header, n)
           /\ \/ got' = got + n /\ Continue
              \/ got' = 0 /\ Return(-1)
              \/ /\ got' = 0
                 /\ ReplyValid(header', IF op = "read" THEN len ELSE 0)
                 /\ (pc' = "payload" /\ UNCHANGED ret) \/ Return(0)
    BY <1>4 DEF RecvHeader
  <2>3. n \in 1 .. Len(down) /\ down' = After(down, n) /\ down \in Seq(Units)
    BY <1>1, <2>2, TakesSome DEF Recv, HeaderLen, Typed, TypeOK
  <2>4. down' \in Seq(Units)
    BY <2>3, Parts
  <2>5. header' \in [1 .. HeaderLen -> Units \cup {Nothing}]
    <3>1. header \in [1 .. HeaderLen -> Units \cup {Nothing}] /\ Len(header) = 2
      <4>1. header \in [1 .. 2 -> Units \cup {Nothing}]
        BY <1>1 DEF Typed, TypeOK, HeaderLen
      <4>2. Len(header) = 2
        BY <4>1, FunctionIsSeq
      <4> QED
        BY <4>1, <4>2 DEF HeaderLen
    <3>2. \A i \in 1 .. 2 : i <= n => down[i] \in Units
      BY <2>3, ElementOfSeq
    <3> QED
      BY <2>2, <3>1, <3>2 DEF Received, HeaderLen
  <2>6. got' \in Nat /\ ret' \in -1 .. MaxLen /\ pc' \in {"header", "idle", "payload"}
    BY <1>1, <2>1, <2>2, TransportAssumption
    DEF Typed, TypeOK, Continue, Return, HeaderLen
  <2>7. pc' = "payload" => header'[2][3] <= Len(buf')
    <3>1. pc' = "payload" => ReplyValid(header', IF op = "read" THEN len ELSE 0)
      BY <2>1, <2>2 DEF Continue, Return
    <3>2. header'[2] \in Units \cup {Nothing}
      BY <2>5 DEF HeaderLen
    <3>3. header'[2][3] \in Nat
      BY <3>2 DEF Units, Sof, Nothing
    <3> QED
      BY <2>1, <3>1, <3>3 DEF ReplyValid
  <2> QED
    BY <1>1, <2>1, <2>4, <2>5, <2>6, <2>7 DEF Typed, TypeOK
<1>5. CASE RecvData
  <2>1. /\ pc = "payload" /\ Len(buf) = len /\ len \in 0 .. MaxLen
        /\ UNCHANGED <<ready, taken, moved, len, up, srv, req, data, header>>
    BY <1>1, <1>5 DEF RecvData, pipe, call, server, Typed
  <2> DEFINE want == header[2][3]
  <2>2. want \in Nat /\ want <= len
    <3>1. header[2] \in Units \cup {Nothing}
      BY <1>1 DEF Typed, TypeOK, HeaderLen
    <3>2. header[2][3] \in Nat
      BY <3>1 DEF Units, Sof, Nothing
    <3> QED
      BY <1>1, <2>1, <3>2 DEF Typed, TypeOK
  <2>3. PICK n \in 1 .. MaxLen :
           /\ Recv(want, n)
           /\ buf' = Received(buf, n)
           /\ got' = got + n
           /\ Continue \/ Return(want) \/ Return(-1)
    BY <1>5 DEF RecvData
  <2>4. want = header'[2][3]
    BY <2>1
  <2> HIDE DEF want
  <2>5. n \in 1 .. Len(down) /\ down' = After(down, n) /\ down \in Seq(Units)
    BY <1>1, <2>2, <2>3, TakesSome DEF Recv, Typed, TypeOK
  <2>6. down' \in Seq(Units)
    BY <2>5, Parts
  <2>7. buf' \in Seq(Units \cup {Nothing}) /\ Len(buf') = len
    <3>1. \A i \in 1 .. n : down[i] \in Units
      BY <2>5, ElementOfSeq
    <3>2. buf \in Seq(Units \cup {Nothing})
      BY <1>1 DEF Typed, TypeOK
    <3>3. \A i \in 1 .. len : buf[i] \in Units \cup {Nothing}
      BY <2>1, <3>2, ElementOfSeq
    <3>4. buf' \in [1 .. len -> Units \cup {Nothing}]
      BY <2>1, <2>3, <3>1, <3>3 DEF Received
    <3> QED
      BY <2>1, <3>4, FunctionIsSeq
  <2>8. got' \in Nat /\ ret' \in -1 .. MaxLen /\ pc' \in {"idle", "payload"}
    BY <1>1, <2>1, <2>2, <2>3, TransportAssumption
    DEF Typed, TypeOK, Continue, Return
  <2> QED
    BY <1>1, <2>1, <2>2, <2>4, <2>6, <2>7, <2>8 DEF Typed, TypeOK
<1> QED
  BY <1>2, <1>3, <1>4, <1>5 DEF Client

LEMMA TypedServer ==
    ASSUME TypedStep, Server
    PROVE  Typed'
<1>1. Typed /\ Base
  BY DEF TypedStep, IInv
<1> DEFINE Task ==
      /\ up' \in Seq(Requests) /\ up' \in Seq(Units) /\ down' \in Seq(Units)
      /\ data' \in Seq(Units)
      /\ srv' \in {"accept", "loop", "request", "data", "usb", "ended", "faulted"}
      /\ req' \in [code : {"READ", "WRITE"}, n : Nat]
<1>2. ASSUME Task, UNCHANGED <<transport, client>> PROVE Typed'
  BY <1>1, <1>2 DEF Typed, TypeOK, transport, client
<1>3. CASE Accept \/ Loop \/ NoConnection
  BY <1>1, <1>2, <1>3 DEF Accept, Loop, NoConnection, Typed, TypeOK, client
<1>4. CASE EndOfStream
  <2>1. down' \in Seq(Units) /\ srv' \in {"loop", "faulted"}
    BY <1>1, <1>4, NackTyped DEF EndOfStream, Typed, TypeOK
  <2> QED
    BY <1>1, <1>2, <1>4, <2>1 DEF EndOfStream, Typed, TypeOK, client
<1>5. CASE ReadRequest
  <2>1. PICK n \in Takes(up, HeaderLen) :
           /\ up' = After(up, n)
           /\ \/ Nack /\ UNCHANGED <<req, data>>
              \/ /\ RequestValid(First(up, n))
                 /\ req' = [code |-> up[2][2], n |-> up[2][3]]
                 /\ data' = << >> /\ srv' \in {"usb", "data"}
                 /\ UNCHANGED down
    BY <1>5 DEF ReadRequest
  <2>2. /\ n \in 1 .. Len(up) /\ up \in Seq(Requests) /\ up \in Seq(Units)
        /\ Len(up) \in Nat
    BY <1>1, TakesSome DEF Typed, TypeOK, HeaderLen
  <2>3. n \in 0 .. Len(up)
    BY <2>2
  <2>4. up' \in Seq(Requests) /\ up' \in Seq(Units)
    BY <2>1, <2>2, <2>3, Parts
  <2>5. CASE Nack /\ UNCHANGED <<req, data>>
    <3>1. down' \in Seq(Units) /\ srv' \in {"loop", "faulted"}
      BY <1>1, <2>5, NackTyped
    <3> QED
      BY <1>1, <1>2, <1>5, <2>4, <2>5, <3>1 DEF ReadRequest, Typed, TypeOK
  <2>6. CASE /\ RequestValid(First(up, n))
             /\ req' = [code |-> up[2][2], n |-> up[2][3]]
             /\ data' = << >> /\ srv' \in {"usb", "data"}
             /\ UNCHANGED down
    <3>1. n = 2
      <4>1. Len(First(up, n)) = n
        BY <2>2, <2>3, Parts
      <4> QED
        BY <2>6, <4>1 DEF RequestValid, HeaderLen
    <3>2. First(up, 2)[2] = up[2] /\ up[2] \in Requests
      <4>1. \A i \in 1 .. 2 : up[i] \in Requests
        BY <2>2, <3>1, ElementOfSeq
      <4>2. \A i \in 1 .. 2 - 1 + 1 : SubSeq(up, 1, 2)[i] = up[1 + i - 1]
        BY <4>1, SubSeqProperties
      <4> QED
        BY <4>1, <4>2 DEF First
    <3>3. up[2][1] = "header"
      BY <2>6, <3>1, <3>2 DEF RequestValid
    <3>4. up[2][2] \in {"READ", "WRITE"} /\ up[2][3] \in Nat
      BY <3>2, <3>3 DEF Requests, Sof
    <3>5. << >> \in Seq(Units)
      BY EmptySeq
    <3> QED
      BY <1>1, <1>2, <1>5, <2>4, <2>6, <3>4, <3>5 DEF ReadRequest, Typed, TypeOK
  <2> QED
    BY <2>1, <2>5, <2>6
<1>6. CASE ReadData
  <2>1. PICK n \in Takes(up, req.n) :
           /\ up' = After(up, n)
           /\ \/ Nack /\ UNCHANGED data
              \/ data' = First(up, n) /\ srv' = "usb" /\ UNCHANGED down
    BY <1>6 DEF ReadData
  <2>2. /\ n \in 1 .. Len(up) /\ up \in Seq(Requests) /\ up \in Seq(Units)
        /\ Len(up) \in Nat
    BY <1>1, TakesSome DEF Typed, TypeOK, Base
  <2>3. n \in 0 .. Len(up)
    BY <2>2
  <2>4. up' \in Seq(Requests) /\ up' \in Seq(Units) /\ First(up, n) \in Seq(Units)
    BY <2>1, <2>2, <2>3, Parts
  <2>5. Nack => down' \in Seq(Units) /\ srv' \in {"loop", "faulted"}
    BY <1>1, NackTyped
  <2> QED
    BY <1>1, <1>2, <1>6, <2>1, <2>4, <2>5 DEF ReadData, Typed, TypeOK
<1>7. ASSUME down' \in Seq(Units), srv' \in {"loop", "faulted"},
             ready' \in Seq(Units), taken' \in Seq(Units), moved' \in Seq(Units),
             UNCHANGED <<pc, ret, call, work, up, client, req, data>>
      PROVE  Typed'
  BY <1>1, <1>7 DEF Typed, TypeOK, call, work, client
<1>8. CASE WriteToDevice
  <2>1. data \in Seq(Units)
    BY <1>1 DEF Typed, TypeOK
  <2>2. PICK x \in BulkOut(data) :
           /\ Pushed(First(data, x.n))
           /\ Reply(Header(IF x.res = "ok" THEN "DONE" ELSE "ERR", 0))
    BY <1>8 DEF WriteToDevice
  <2>3. First(data, x.n) \in Seq(Units)
    BY <2>1, <2>2, Writing
  <2>4. ready' \in Seq(Units) /\ taken' \in Seq(Units) /\ moved' \in Seq(Units)
    BY <1>1, <2>2, <2>3, ConcatProperties DEF Pushed, Typed, TypeOK
  <2>5. Header(IF x.res = "ok" THEN "DONE" ELSE "ERR", 0) \in Seq(Units)
    BY Headers DEF Codes
  <2>6. down' \in Seq(Units) /\ srv' \in {"loop", "faulted"}
    BY <1>1, <2>2, <2>5, ReplyTyped
  <2> QED
    BY <1>7, <1>8, <2>4, <2>6 DEF WriteToDevice
<1>9. CASE ReadFromDevice
  <2>1. ready \in Seq(Units) /\ req.n \in Nat
    BY <1>1 DEF Base
  <2>2. PICK x \in BulkIn(req.n) :
           /\ Pulled(x.n)
           /\ Reply(IF x.res = "ok" /\ x.n > 0
                    THEN Header("DONE", x.n) \o First(ready, x.n)
                    ELSE Header("ERR", 0))
    BY <1>9 DEF ReadFromDevice
  <2>3. /\ x.n \in Nat /\ First(ready, x.n) \in Seq(Units)
        /\ After(ready, x.n) \in Seq(Units)
    BY <2>1, Reading
  <2>4. ready' \in Seq(Units) /\ taken' \in Seq(Units) /\ moved' \in Seq(Units)
    BY <1>1, <2>2, <2>3, ConcatProperties DEF Pulled, Typed, TypeOK
  <2>5. (IF x.res = "ok" /\ x.n > 0 THEN Header("DONE", x.n) \o First(ready, x.n)
         ELSE Header("ERR", 0)) \in Seq(Units)
    <3>1. Header("DONE", x.n) \in Seq(Units) /\ Header("ERR", 0) \in Seq(Units)
      BY <2>3, Headers DEF Codes
    <3> QED
      BY <2>3, <3>1, ConcatProperties
  <2>6. down' \in Seq(Units) /\ srv' \in {"loop", "faulted"}
    BY <1>1, <2>2, <2>5, ReplyTyped
  <2> QED
    BY <1>7, <1>9, <2>4, <2>6 DEF ReadFromDevice
<1> QED
  BY <1>3, <1>4, <1>5, <1>6, <1>8, <1>9 DEF Server

LEMMA TypedNext == Typed /\ IInv /\ [Next]_vars => Typed'
<1> SUFFICES ASSUME Typed, IInv, [Next]_vars PROVE Typed'
  OBVIOUS
<1>1. CASE Page
  BY <1>1 DEF Page, Open, Close, Stop, Stopped, GiveUp, transport, client,
              server, Typed, TypeOK
<1>2. CASE UNCHANGED vars
  BY <1>2 DEF vars, Typed, TypeOK
<1> QED
  BY <1>1, <1>2, TypedDirect, TypedClient, TypedServer DEF Next, TypedStep

LEMMA TypedStart == ProxyInit => Typed
BY TransportAssumption, EmptySeq
DEF ProxyInit, Init, Typed, TypeOK, NoHeader, HeaderLen

\* Whatever was cut or failed, the streams carry units, a call returns a
\* length, 0 or -1, and no recv of the data is given more room than the
\* caller's buffer has (device_proxy.c).
THEOREM TransportTypeCorrect == Spec => []TypeOK
<1>1. Typed => TypeOK
  BY DEF Typed
<1> QED
  BY <1>1, TypedStart, TypedNext, Inductive, PTL DEF Spec
-----------------------------------------------------------------------------
(***************************************************************************)
(* What the target takes, whatever is cut.  A request is sent at once, so  *)
(* the data a header announces are all on the stream behind it, however    *)
(* much of it the task has read wrongly before; and calls only get later   *)
(* along the way: taken, in the task's hands, on the stream.               *)
(***************************************************************************)
IsData(u) == u[1] = "data"

\* The units of s after place i are the data of call c, n of them, and other
\* data further on belong to later calls.
Message(s, i, n, c) ==
    /\ i + n <= Len(s)
    /\ \A k \in 1 .. n : s[i + k] = <<"data", c, k>>
    /\ \A j \in i + n + 1 .. Len(s) : IsData(s[j]) => c < s[j][2]

Headed ==
    \A i \in 1 .. Len(up) :
        up[i][1] = "header" /\ up[i][2] = "WRITE" /\ up[i][3] > 0
            => \E c \in Nat : Message(up, i, up[i][3], c)

\* The call a unit belongs to has been made; a new one has not sent anything.
Made(c) == c <= calls /\ (pc = "called" => c < calls)

Later ==
    \A i \in 1 .. Len(up) : IsData(up[i]) =>
        /\ Made(up[i][2])
        /\ \A j \in 1 .. Len(taken) : taken[j][2] < up[i][2]

Coming ==
    srv = "data" => /\ req.n > 0 /\ req.code = "WRITE"
                    /\ \E c \in Nat : Message(up, 0, req.n, c)

HeldFor(c) ==
    /\ Made(c)
    /\ \A k \in 1 .. Len(data) : data[k] = <<"data", c, k>>
    /\ \A j \in 1 .. Len(taken) : taken[j][2] < c
    /\ \A i \in 1 .. Len(up) : IsData(up[i]) => c < up[i][2]
Held == srv = "usb" /\ req.code = "WRITE" => \E c \in Nat : HeldFor(c)

Past ==
    \A j \in 1 .. Len(taken) :
        taken[j][2] <= calls /\ (dev = "proxy" => Made(taken[j][2]))

TakenInv ==
    /\ TakenIsAsked /\ Past
    /\ dev = "proxy" => Headed /\ Later /\ Coming /\ Held

TakenStep == TakenInv /\ Typed /\ IInv

LEMMA Shifted ==
    ASSUME NEW S, NEW s \in Seq(S), NEW n \in 0 .. Len(s)
    PROVE  /\ Len(s) \in Nat /\ Len(After(s, n)) = Len(s) - n
           /\ \A i \in 1 .. Len(s) - n : After(s, n)[i] = s[n + i]
           /\ Len(First(s, n)) = n
           /\ \A i \in 1 .. n : First(s, n)[i] = s[i]
<1> DEFINE m == Len(s)
<1>1. m \in Nat /\ n \in 0 .. m /\ \A i \in 1 .. m : s[i] \in S
  BY ElementOfSeq
<1> DEFINE x == SubSeq(s, n + 1, m)
           y == SubSeq(s, 1, n)
<1> HIDE DEF m
<1>2. /\ Len(x) = IF n + 1 <= m THEN m - (n + 1) + 1 ELSE 0
      /\ \A i \in 1 .. m - (n + 1) + 1 : x[i] = s[n + 1 + i - 1]
  <2>1. n + 1 \in Int /\ m \in Int /\ \A i \in n + 1 .. m : s[i] \in S
    BY <1>1
  <2> QED
    BY <2>1, SubSeqProperties
<1>3. Len(y) = n /\ \A i \in 1 .. n - 1 + 1 : y[i] = s[1 + i - 1]
  <2>1. \A i \in 1 .. n : s[i] \in S
    BY <1>1
  <2>2. 1 \in Int /\ n \in Int
    BY <1>1
  <2>3. Len(y) = IF 1 <= n THEN n - 1 + 1 ELSE 0
    BY <2>1, <2>2, SubSeqProperties
  <2>4. \A i \in 1 .. n - 1 + 1 : y[i] = s[1 + i - 1]
    BY <2>1, <2>2, SubSeqProperties
  <2> HIDE DEF y
  <2> QED
    BY <1>1, <2>3, <2>4
<1> HIDE DEF x, y
<1>4. Len(x) = m - n
  BY <1>1, <1>2
<1>5. ASSUME NEW i \in 1 .. m - n PROVE x[i] = s[n + i]
  <2>1. i \in 1 .. m - (n + 1) + 1 /\ n + 1 + i - 1 = n + i
    BY <1>1
  <2> QED
    BY <1>2, <2>1
<1>6. ASSUME NEW i \in 1 .. n PROVE y[i] = s[i]
  <2>1. i \in 1 .. n - 1 + 1 /\ 1 + i - 1 = i
    BY <1>1
  <2> QED
    BY <1>3, <2>1
<1> QED
  BY <1>1, <1>3, <1>4, <1>5, <1>6 DEF First, After, m, x, y

LEMMA Joined ==
    ASSUME NEW S, NEW s \in Seq(S), NEW t \in Seq(S)
    PROVE  /\ s \o t \in Seq(S)
           /\ Len(s) \in Nat /\ Len(t) \in Nat
           /\ Len(s \o t) = Len(s) + Len(t)
           /\ \A i \in 1 .. Len(s) : (s \o t)[i] = s[i]
           /\ \A i \in 1 .. Len(t) : (s \o t)[Len(s) + i] = t[i]
           /\ \A j \in Len(s) + 1 .. Len(s) + Len(t) :
                 j - Len(s) \in 1 .. Len(t) /\ (s \o t)[j] = t[j - Len(s)]
<1> DEFINE m == Len(s)
           n == Len(t)
           u == s \o t
<1>1. m \in Nat /\ n \in Nat
  OBVIOUS
<1>2. /\ u \in Seq(S) /\ Len(u) = m + n
      /\ \A i \in 1 .. m + n : u[i] = IF i <= m THEN s[i] ELSE t[i - m]
  BY ConcatProperties
<1> HIDE DEF m, n, u
<1>3. \A i \in 1 .. m : u[i] = s[i]
  BY <1>1, <1>2
<1>4. ASSUME NEW i \in 1 .. n PROVE u[m + i] = t[i]
  <2>1. m + i \in 1 .. m + n /\ ~(m + i <= m) /\ (m + i) - m = i
    BY <1>1
  <2> QED
    BY <1>2, <2>1
<1>5. \A j \in m + 1 .. m + n : j - m \in 1 .. n /\ u[j] = t[j - m]
  BY <1>1, <1>2
<1> QED
  BY <1>1, <1>2, <1>3, <1>4, <1>5 DEF m, n, u

\* Dropping what precedes a message, and adding later calls, leaves it.
LEMMA MessageShifted ==
    ASSUME NEW s \in Seq(Units), NEW m \in 0 .. Len(s), NEW i \in Nat, m <= i,
           NEW n \in Nat, NEW c, Message(s, i, n, c)
    PROVE  Message(After(s, m), i - m, n, c)
<1> DEFINE t == After(s, m)
           l == Len(s)
<1>1. /\ l \in Nat /\ Len(t) = l - m
      /\ \A j \in 1 .. l - m : t[j] = s[m + j]
  BY Shifted
<1>2. /\ i + n <= l
      /\ \A k \in 1 .. n : s[i + k] = <<"data", c, k>>
      /\ \A j \in i + n + 1 .. l : IsData(s[j]) => c < s[j][2]
  BY DEF Message
<1>3. m \in 0 .. l
  OBVIOUS
<1> HIDE DEF t, l
<1>4. (i - m) + n <= Len(t)
  BY <1>1, <1>2, <1>3
<1>5. ASSUME NEW k \in 1 .. n PROVE t[(i - m) + k] = <<"data", c, k>>
  <2>1. (i - m) + k \in 1 .. l - m /\ m + ((i - m) + k) = i + k
    BY <1>1, <1>2, <1>3
  <2> QED
    BY <1>1, <1>2, <2>1
<1>6. ASSUME NEW j \in (i - m) + n + 1 .. Len(t), IsData(t[j])
      PROVE  c < t[j][2]
  <2>1. j \in 1 .. l - m /\ m + j \in i + n + 1 .. l
    BY <1>1, <1>2, <1>3
  <2>2. t[j] = s[m + j]
    BY <1>1, <2>1
  <2> QED
    BY <1>2, <1>6, <2>1, <2>2
<1>7. Message(t, i - m, n, c)
  BY <1>4, <1>5, <1>6 DEF Message
<1> QED
  BY <1>7 DEF t

LEMMA MessageJoined ==
    ASSUME NEW s \in Seq(Units), NEW t \in Seq(Units), NEW i \in Nat,
           NEW n \in Nat, NEW c, Message(s, i, n, c),
           \A j \in 1 .. Len(t) : IsData(t[j]) => c < t[j][2]
    PROVE  Message(s \o t, i, n, c)
<1> DEFINE u == s \o t
           l == Len(s)
           m == Len(t)
<1>1. /\ l \in Nat /\ m \in Nat /\ Len(u) = l + m
      /\ \A j \in 1 .. l : u[j] = s[j]
      /\ \A j \in l + 1 .. l + m : j - l \in 1 .. m /\ u[j] = t[j - l]
  BY Joined
<1>2. /\ i + n <= l
      /\ \A k \in 1 .. n : s[i + k] = <<"data", c, k>>
      /\ \A j \in i + n + 1 .. l : IsData(s[j]) => c < s[j][2]
      /\ \A j \in 1 .. m : IsData(t[j]) => c < t[j][2]
  BY DEF Message
<1> HIDE DEF u, l, m
<1>3. i + n <= Len(u)
  BY <1>1, <1>2
<1>4. ASSUME NEW k \in 1 .. n PROVE u[i + k] = <<"data", c, k>>
  <2>1. i + k \in 1 .. l
    BY <1>1, <1>2
  <2> QED
    BY <1>1, <1>2, <2>1
<1>5. ASSUME NEW j \in i + n + 1 .. Len(u), IsData(u[j]) PROVE c < u[j][2]
  <2>1. j \in i + n + 1 .. l \/ j \in l + 1 .. l + m
    BY <1>1, <1>2
  <2>2. CASE j \in i + n + 1 .. l
    <3>1. j \in 1 .. l
      BY <1>1, <2>2
    <3> QED
      BY <1>1, <1>2, <1>5, <2>2, <3>1
  <2>3. CASE j \in l + 1 .. l + m
    BY <1>1, <1>2, <1>5, <2>3
  <2> QED
    BY <2>1, <2>2, <2>3
<1>6. Message(u, i, n, c)
  BY <1>3, <1>4, <1>5 DEF Message
<1> QED
  BY <1>6 DEF u

\* The target takes more data of a call.
LEMMA TakesMore ==
    ASSUME TakenIsAsked, Past, taken \in Seq(Units), NEW d \in Seq(Units),
           NEW c \in Nat, c <= calls, Made(c) \/ dev # "proxy",
           \A k \in 1 .. Len(d) : d[k] = <<"data", c, k>>,
           dev = "proxy" => \A j \in 1 .. Len(taken) : taken[j][2] < c,
           ~(dev = "proxy") => c = calls,
           taken' = taken \o d, UNCHANGED <<dev, calls, pc>> \/
                                (UNCHANGED <<dev, calls>> /\ dev # "proxy")
    PROVE  TakenIsAsked' /\ Past'
<1> DEFINE u == taken \o d
           l == Len(taken)
           m == Len(d)
<1>1. /\ l \in Nat /\ m \in Nat /\ Len(u) = l + m
      /\ u \in Seq(Units)
      /\ \A j \in 1 .. l : u[j] = taken[j]
      /\ \A j \in l + 1 .. l + m : j - l \in 1 .. m /\ u[j] = d[j - l]
  BY Joined
<1>2. /\ taken' = u /\ dev' = dev /\ calls' = calls
      /\ \A k \in 1 .. m : d[k] = <<"data", c, k>>
      /\ \A j \in 1 .. l : taken[j][2] <= c
      /\ dev = "proxy" => \A j \in 1 .. l : taken[j][2] < c
  <2>1. \A j \in 1 .. l : taken[j][2] <= calls
    BY DEF Past
  <2>2. \A j \in 1 .. l : taken[j][2] <= c
    <3>1. CASE dev = "proxy"
      <4>1. ASSUME NEW j \in 1 .. l PROVE taken[j][2] <= c
        <5>1. taken[j][1] = "data" /\ taken[j] \in Units
          BY ElementOfSeq DEF TakenIsAsked
        <5>2. taken[j][2] \in Nat
          BY <5>1 DEF Units, Sof
        <5>3. taken[j][2] < c
          BY <3>1
        <5> QED
          BY <5>2, <5>3
      <4> QED
        BY <4>1
    <3>2. CASE dev # "proxy"
      BY <2>1, <3>2
    <3> QED
      BY <3>1, <3>2
  <2> QED
    BY <2>2
<1>3. /\ DOMAIN taken = 1 .. l /\ DOMAIN u = 1 .. l + m
  BY <1>1, LenProperties
<1>4. \A i \in 1 .. l :
        /\ taken[i][1] = "data"
        /\ \/ taken[i][3] = 1
           \/ i > 1 /\ taken[i - 1] = <<"data", taken[i][2], taken[i][3] - 1>>
        /\ \A j \in 1 .. i - 1 :
               /\ taken[j][2] <= taken[i][2]
               /\ dev = "proxy" => taken[j] # taken[i]
  BY <1>3 DEF TakenIsAsked
<1> HIDE DEF u, l, m
<1>5. ASSUME NEW i \in l + 1 .. l + m PROVE u[i] = <<"data", c, i - l>>
  BY <1>1, <1>2
<1>6. ASSUME NEW i \in 1 .. l + m
      PROVE  /\ u[i][1] = "data"
             /\ \/ u[i][3] = 1
                \/ i > 1 /\ u[i - 1] = <<"data", u[i][2], u[i][3] - 1>>
  <2>1. CASE i \in 1 .. l
    <3>1. i > 1 => i - 1 \in 1 .. l
      BY <1>1, <2>1
    <3> QED
      BY <1>1, <1>4, <2>1, <3>1
  <2>2. CASE i = l + 1
    <3>1. u[i] = <<"data", c, 1>>
      BY <1>1, <1>5, <2>2
    <3> QED
      BY <3>1
  <2>3. CASE i \in l + 2 .. l + m
    <3>1. i - 1 \in l + 1 .. l + m /\ i \in l + 1 .. l + m /\ i > 1
          /\ (i - 1) - l = (i - l) - 1
      BY <1>1, <2>3
    <3>2. u[i] = <<"data", c, i - l>> /\ u[i - 1] = <<"data", c, (i - l) - 1>>
      BY <1>5, <3>1
    <3> QED
      BY <3>1, <3>2
  <2> QED
    BY <1>1, <2>1, <2>2, <2>3
<1>7. ASSUME NEW i \in 1 .. l + m, NEW j \in 1 .. i - 1
      PROVE  u[j][2] <= u[i][2] /\ (dev = "proxy" => u[j] # u[i])
  <2>1. CASE i \in 1 .. l
    <3>1. j \in 1 .. l
      BY <1>1, <2>1
    <3> QED
      BY <1>1, <1>4, <2>1, <3>1
  <2>2. CASE i \in l + 1 .. l + m /\ j \in 1 .. l
    <3>1. u[i][2] = c /\ u[j] = taken[j]
      BY <1>1, <1>5, <2>2
    <3>2. dev = "proxy" => u[j][2] # u[i][2]
      BY <1>2, <2>2, <3>1
    <3> QED
      BY <1>2, <2>2, <3>1, <3>2
  <2>3. CASE i \in l + 1 .. l + m /\ j \in l + 1 .. l + m
    <3>1. u[i] = <<"data", c, i - l>> /\ u[j] = <<"data", c, j - l>>
      BY <1>5, <2>3
    <3>2. i - l # j - l
      BY <1>1
    <3>3. u[i][2] = c /\ u[j][2] = c /\ u[i][3] # u[j][3]
      BY <3>1, <3>2
    <3> QED
      BY <3>3
  <2> QED
    BY <1>1, <2>1, <2>2, <2>3
<1>8. TakenIsAsked'
  <2>1. DOMAIN taken' = 1 .. l + m
    BY <1>2, <1>3 DEF u
  <2> QED
    BY <1>2, <1>6, <1>7, <2>1 DEF TakenIsAsked
<1>9. ASSUME NEW j \in 1 .. l + m
      PROVE  /\ u[j][2] <= calls
             /\ dev = "proxy" /\ pc' = "called" => u[j][2] < calls
  <2>1. dev = "proxy" => pc' = pc
    OBVIOUS
  <2>2. CASE j \in 1 .. l
    BY <1>1, <2>1, <2>2 DEF Past, Made, l
  <2>3. CASE j \in l + 1 .. l + m
    <3>1. u[j][2] = c
      BY <1>5, <2>3
    <3> QED
      BY <2>1, <3>1 DEF Made
  <2> QED
    BY <1>1, <2>2, <2>3
<1>10. Past'
  <2>1. Len(taken') = l + m
    BY <1>1, <1>2
  <2> QED
    BY <1>2, <1>9, <2>1 DEF Past, Made
<1> QED
  BY <1>8, <1>10

-----------------------------------------------------------------------------
(* One lemma per action that touches what is on the way to the target.     *)

LEMMA TakenKept ==
    ASSUME TakenInv, UNCHANGED <<dev, taken, up, calls, req, data>>,
           pc' = "called" => pc = "called",
           srv' \in {"data", "usb"} => srv' = srv
    PROVE  TakenInv'
<1>1. TakenIsAsked' /\ Past'
  BY DEF TakenInv, TakenIsAsked, Past, Made
<1>2. ASSUME dev = "proxy" PROVE Headed' /\ Later' /\ Coming' /\ Held'
  <2>1. Headed /\ Later /\ Coming /\ Held
    BY <1>2 DEF TakenInv
  <2>2. Headed'
    BY <2>1 DEF Headed
  <2>3. Later'
    BY <2>1 DEF Later, Made
  <2>4. Coming'
    BY <2>1 DEF Coming
  <2>5. \A c : HeldFor(c) => HeldFor(c)'
    BY DEF HeldFor, Made
  <2>6. Held'
    BY <2>1, <2>5 DEF Held
  <2> QED
    BY <2>2, <2>3, <2>4, <2>6
<1> QED
  BY <1>1, <1>2 DEF TakenInv

\* A new call is later than all that was made.
LEMMA TakenCall ==
    ASSUME TakenStep, NEW o, NEW n, Call(o, n), UNCHANGED proxy
    PROVE  TakenInv'
<1>1. /\ pc = "idle" /\ pc' = "called" /\ calls' = calls + 1 /\ calls \in Nat
      /\ UNCHANGED <<dev, taken, up, req, data, srv>>
      /\ taken \in Seq(Units) /\ up \in Seq(Units)
  BY DEF Call, proxy, TakenStep, IInv, Base, Typed, TypeOK
<1>2. \A c \in Nat : Made(c) => Made(c)'
  BY <1>1 DEF Made
<1>3. \A i \in 1 .. Len(up) : IsData(up[i]) => up[i][2] \in Nat
  <2>1. \A i \in 1 .. Len(up) : up[i] \in Units
    BY <1>1, ElementOfSeq
  <2> QED
    BY <2>1 DEF IsData, Units, Sof
<1>4. \A j \in 1 .. Len(taken) : taken[j][2] \in Nat
  <2>1. \A j \in 1 .. Len(taken) : taken[j] \in Units /\ taken[j][1] = "data"
    BY <1>1, ElementOfSeq DEF TakenStep, TakenInv, TakenIsAsked
  <2> QED
    BY <2>1 DEF Units, Sof
<1>5. TakenIsAsked'
  BY <1>1 DEF TakenStep, TakenInv, TakenIsAsked
<1>6. Past'
  BY <1>1, <1>4 DEF TakenStep, TakenInv, Past, Made
<1>7. ASSUME dev = "proxy" PROVE Headed' /\ Later' /\ Coming' /\ Held'
  <2>1. Headed /\ Later /\ Coming /\ Held
    BY <1>7 DEF TakenStep, TakenInv
  <2>2. Headed' /\ Coming'
    BY <1>1, <2>1 DEF Headed, Coming
  <2>3. Later'
    BY <1>1, <1>3, <2>1 DEF Later, Made
  <2>4. \A c \in Nat : HeldFor(c) => HeldFor(c)'
    BY <1>1, <1>2 DEF HeldFor
  <2>5. Held'
    BY <1>1, <2>1, <2>4 DEF Held
  <2> QED
    BY <2>2, <2>3, <2>5
<1> QED
  BY <1>1, <1>5, <1>6, <1>7 DEF TakenInv

\* The whole request is on the stream at once, behind earlier calls.
LEMMA RequestUnits ==
    ASSUME Base
    PROVE  /\ Request \in Seq(Units)
           /\ Len(Request) = 2 + (IF op = "write" THEN len ELSE 0)
           /\ Request[1] = Sof
           /\ Request[2] = <<"header", IF op = "write" THEN "WRITE"
                                       ELSE "READ", len>>
           /\ \A j \in 3 .. Len(Request) :
                 Request[j] = <<"data", calls, j - 2>>
<1> DEFINE d == IF op = "write" THEN Data ELSE << >>
           code == IF op = "write" THEN "WRITE" ELSE "READ"
           h == Header(code, len)
<1>1. /\ len \in Nat /\ calls \in Nat /\ Data \in Seq(Units) /\ Len(Data) = len
      /\ code \in Codes
  BY DataType DEF Base, Codes
<1>2. StartsWith(Request, code, len, d)
  BY RequestType
<1>3. d \in Seq(Units) /\ Len(d) = (IF op = "write" THEN len ELSE 0)
      /\ \A i \in 1 .. Len(d) : d[i] = <<"data", calls, i>>
  <2>1. \A i \in 1 .. len : Data[i] = <<"data", calls, i>>
    BY DEF Data
  <2> QED
    BY <1>1, <2>1
<1>4. /\ Request \in Seq(Units) /\ Len(Request) = 2 + Len(d)
      /\ Request[1] = Sof /\ Request[2] = <<"header", code, len>>
      /\ After(Request, 2) = d
  BY <1>2 DEF StartsWith
<1> DEFINE r == Request
           n == Len(d)
<1>5. n \in Nat /\ n = (IF op = "write" THEN len ELSE 0)
  BY <1>1, <1>3
<1>6. \A i \in 1 .. Len(r) - 2 : After(r, 2)[i] = r[2 + i]
  <2> HIDE DEF n
  <2>1. 2 \in 0 .. Len(r)
    BY <1>4, <1>5 DEF n
  <2>2. r \in Seq(Units)
    BY <1>4
  <2> HIDE DEF r
  <2> QED
    BY <2>1, <2>2, Shifted
<1>7. r \in Seq(Units) /\ Len(r) = 2 + n /\ (\A i \in 1 .. Len(r) - 2 : d[i] = r[2 + i])
      /\ \A i \in 1 .. n : d[i] = <<"data", calls, i>>
  BY <1>3, <1>4, <1>6
<1> HIDE DEF n, d, r
<1>8. ASSUME NEW j \in 3 .. Len(r) PROVE r[j] = <<"data", calls, j - 2>>
  <2>1. j - 2 \in 1 .. n /\ j - 2 \in 1 .. Len(r) - 2 /\ 2 + (j - 2) = j
    BY <1>5, <1>7
  <2> QED
    BY <1>7, <2>1
<1> QED
  BY <1>4, <1>5, <1>7, <1>8 DEF r, n

LEMMA TakenSend ==
    ASSUME TakenStep, SendRequest
    PROVE  TakenInv'
<1>1. /\ dev = "proxy" /\ pc = "called" /\ pc' = "header" /\ calls \in Nat
      /\ up' = up \o Request
      /\ UNCHANGED <<dev, calls, taken, srv, req, data>>
      /\ up \in Seq(Units) /\ Base /\ len \in Nat
  BY DEF SendRequest, call, pipe, server, TakenStep, IInv, Base
<1> DEFINE r == Request
           u == up \o r
           l == Len(up)
           m == Len(r)
<1>2. /\ r \in Seq(Units) /\ m = 2 + (IF op = "write" THEN len ELSE 0)
      /\ r[1] = Sof
      /\ r[2] = <<"header", IF op = "write" THEN "WRITE" ELSE "READ", len>>
      /\ \A j \in 3 .. m : r[j] = <<"data", calls, j - 2>>
  BY <1>1, RequestUnits
<1> HIDE DEF r
<1>3. /\ l \in Nat /\ m \in Nat /\ Len(u) = l + m
      /\ \A j \in 1 .. l : u[j] = up[j]
      /\ \A j \in l + 1 .. l + m : j - l \in 1 .. m /\ u[j] = r[j - l]
  BY <1>1, <1>2, Joined
<1>4. up' = u
  BY <1>1 DEF r
<1>5. Headed /\ Later /\ Coming /\ Held /\ TakenIsAsked /\ Past
  BY <1>1 DEF TakenStep, TakenInv
<1>6. \A j \in 1 .. m : IsData(r[j]) => j >= 3 /\ r[j][2] = calls
  <2>1. ASSUME NEW j \in 1 .. m, IsData(r[j]) PROVE j >= 3 /\ r[j][2] = calls
    <3>1. j # 1 /\ j # 2
      BY <1>2, <2>1 DEF IsData, Sof
    <3>2. j \in 3 .. m
      BY <1>3, <3>1
    <3> QED
      BY <1>2, <3>2
  <2> QED
    BY <2>1
<1>7. \A j \in 1 .. l : up[j] \in Units /\ (IsData(up[j]) => up[j][2] < calls)
  BY <1>1, <1>5, ElementOfSeq DEF Later, Made
<1>8. ASSUME NEW i \in Nat, NEW n \in Nat \ {0}, NEW c \in Nat,
             Message(up, i, n, c)
      PROVE  c < calls /\ Message(u, i, n, c)
  <2>1. i + 1 \in 1 .. l /\ up[i + 1] = <<"data", c, 1>>
    BY <1>3, <1>8 DEF Message
  <2>2. c < calls
    BY <1>7, <2>1 DEF IsData
  <2>3. \A j \in 1 .. Len(r) : IsData(r[j]) => c < r[j][2]
    BY <1>6, <2>2
  <2>4. Message(up \o r, i, n, c)
    BY <1>1, <1>2, <1>8, <2>3, MessageJoined
  <2> QED
    BY <2>2, <2>4
<1> HIDE DEF u, l, m
<1>9. Headed'
  <2>1. ASSUME NEW i \in 1 .. Len(u), u[i][1] = "header", u[i][2] = "WRITE",
               u[i][3] > 0
        PROVE  \E c \in Nat : Message(u, i, u[i][3], c)
    <3>1. CASE i \in 1 .. l
      <4>1. u[i] = up[i] /\ up[i] \in Units
        BY <1>3, <1>7, <3>1
      <4>2. u[i][3] \in Nat \ {0}
        BY <2>1, <4>1 DEF Units, Sof
      <4>3. PICK c \in Nat : Message(up, i, u[i][3], c)
        BY <1>5, <2>1, <3>1, <4>1 DEF Headed, l
      <4>4. Message(u, i, u[i][3], c)
        BY <1>8, <4>2, <4>3
      <4> QED
        BY <4>4
    <3>2. CASE i \in l + 1 .. l + m
      <4> DEFINE k == i - l
      <4>1. k \in 1 .. m /\ u[i] = r[k]
        BY <1>3, <3>2
      <4>2. k = 2
        <5>1. k # 1
          BY <1>2, <2>1, <4>1 DEF Sof
        <5>2. ~(k \in 3 .. m)
          BY <1>2, <2>1, <4>1
        <5> HIDE DEF k
        <5> QED
          BY <1>3, <4>1, <5>1, <5>2
      <4>3. i = l + 2 /\ u[i] = r[2] /\ op = "write" /\ u[i][3] = len
            /\ m = 2 + len
        BY <1>2, <1>3, <2>1, <3>2, <4>1, <4>2
      <4>4. i + len <= Len(u)
        BY <1>1, <1>3, <4>3
      <4>5. ASSUME NEW j \in 1 .. len PROVE u[i + j] = <<"data", calls, j>>
        <5>1. i + j \in l + 1 .. l + m /\ (i + j) - l = j + 2 /\ j + 2 \in 3 .. m
              /\ (j + 2) - 2 = j
          BY <1>1, <1>3, <4>3
        <5>2. u[i + j] = r[j + 2] /\ r[j + 2] = <<"data", calls, (j + 2) - 2>>
          BY <1>2, <1>3, <5>1
        <5> QED
          BY <5>1, <5>2
      <4>6. ~\E j \in i + len + 1 .. Len(u) : TRUE
        BY <1>1, <1>3, <4>3
      <4>7. Message(u, i, len, calls)
        BY <4>4, <4>5, <4>6 DEF Message
      <4> QED
        BY <1>1, <4>3, <4>7
    <3> QED
      BY <1>3, <3>1, <3>2
  <2> QED
    BY <1>4, <2>1 DEF Headed
<1>10. Later'
  <2>1. ASSUME NEW i \in 1 .. l + m, IsData(u[i])
        PROVE  /\ u[i][2] <= calls
               /\ \A j \in 1 .. Len(taken) : taken[j][2] < u[i][2]
    <3>1. CASE i \in 1 .. l
      <4>1. u[i] = up[i]
        BY <1>3, <3>1
      <4> QED
        BY <1>5, <2>1, <3>1, <4>1 DEF Later, Made, l
    <3>2. CASE i \in l + 1 .. l + m
      <4>1. i - l \in 1 .. m /\ u[i] = r[i - l]
        BY <1>3, <3>2
      <4>2. u[i][2] = calls
        BY <1>6, <2>1, <4>1
      <4>3. \A j \in 1 .. Len(taken) : taken[j][2] < calls
        BY <1>1, <1>5 DEF Past, Made
      <4> QED
        BY <1>1, <4>2, <4>3
    <3> QED
      BY <1>3, <3>1, <3>2
  <2>2. Len(up') = l + m /\ calls' = calls /\ taken' = taken /\ pc' # "called"
    BY <1>1, <1>3, <1>4
  <2> QED
    BY <1>4, <2>1, <2>2 DEF Later, Made
<1>11. Coming'
  <2>1. ASSUME srv = "data" PROVE \E c \in Nat : Message(u, 0, req.n, c)
    <3>1. req.n \in Nat \ {0} /\ \E c \in Nat : Message(up, 0, req.n, c)
      BY <1>1, <1>5, <2>1 DEF Coming, Base
    <3> QED
      BY <1>8, <3>1
  <2> QED
    BY <1>1, <1>4, <1>5, <2>1 DEF Coming
<1>12. Held'
  <2>1. ASSUME NEW c \in Nat, HeldFor(c) PROVE HeldFor(c)'
    <3>1. c < calls
      BY <1>1, <2>1 DEF HeldFor, Made
    <3>2. ASSUME NEW i \in 1 .. l + m, IsData(u[i]) PROVE c < u[i][2]
      <4>1. CASE i \in 1 .. l
        BY <1>3, <2>1, <3>2, <4>1 DEF HeldFor, l
      <4>2. CASE i \in l + 1 .. l + m
        BY <1>3, <1>6, <3>1, <3>2, <4>2
      <4> QED
        BY <1>3, <4>1, <4>2
    <3>3. Len(up') = l + m /\ calls' = calls /\ pc' # "called" /\ up' = u
      BY <1>1, <1>3, <1>4
    <3>4. Made(c)'
      BY <1>1, <3>1, <3>3 DEF Made
    <3> QED
      BY <1>1, <2>1, <3>2, <3>3, <3>4 DEF HeldFor
  <2> QED
    BY <1>1, <1>5, <2>1 DEF Held
<1>13. TakenIsAsked' /\ Past'
  BY <1>1, <1>5 DEF TakenIsAsked, Past, Made
<1> QED
  BY <1>9, <1>10, <1>11, <1>12, <1>13 DEF TakenInv

\* What the task has read is gone from the stream, understood or not.
LEMMA Dropped ==
    ASSUME TakenStep, dev = "proxy", NEW n \in 0 .. Len(up),
           up' = After(up, n), UNCHANGED <<calls, taken, pc>>
    PROVE  Headed' /\ Later'
<1> DEFINE l == Len(up)
           t == After(up, n)
<1>1. up \in Seq(Units) /\ Headed /\ Later
  BY DEF TakenStep, TakenInv, IInv, Base
<1>2. /\ l \in Nat /\ n \in 0 .. l /\ Len(t) = l - n
      /\ \A i \in 1 .. l - n : t[i] = up[n + i]
  BY <1>1, Shifted
<1>3. \A i \in 1 .. l : up[i] \in Units
  BY <1>1, ElementOfSeq
<1>4. up' = t
  OBVIOUS
<1> HIDE DEF t
<1>5. ASSUME NEW i \in 1 .. Len(t), t[i][1] = "header", t[i][2] = "WRITE",
             t[i][3] > 0
      PROVE  \E c \in Nat : Message(t, i, t[i][3], c)
  <2>1. n + i \in 1 .. l /\ t[i] = up[n + i] /\ (n + i) - n = i /\ n <= n + i
        /\ n + i \in Nat
    BY <1>2
  <2>2. t[i][3] \in Nat
    <3>1. t[i] \in Units
      BY <1>3, <2>1
    <3> QED
      BY <1>5, <3>1 DEF Units, Sof
  <2>3. PICK c \in Nat : Message(up, n + i, t[i][3], c)
    BY <1>1, <1>5, <2>1 DEF Headed
  <2>4. Message(After(up, n), (n + i) - n, t[i][3], c)
    BY <1>1, <2>1, <2>2, <2>3, MessageShifted
  <2> QED
    BY <2>1, <2>4 DEF t
<1>6. Headed'
  BY <1>4, <1>5 DEF Headed
<1>7. ASSUME NEW i \in 1 .. Len(t), IsData(t[i])
      PROVE  /\ Made(t[i][2])
             /\ \A j \in 1 .. Len(taken) : taken[j][2] < t[i][2]
  <2>1. n + i \in 1 .. l /\ t[i] = up[n + i]
    BY <1>2
  <2> QED
    BY <1>1, <1>7, <2>1 DEF Later
<1>8. Later'
  BY <1>4, <1>7 DEF Later, Made
<1> QED
  BY <1>6, <1>8

LEMMA NackOrReply ==
    ASSUME NEW units, Reply(units)
    PROVE  srv' \in {"loop", "faulted"}
BY DEF Reply

LEMMA TakenReadRequest ==
    ASSUME TakenStep, dev = "proxy", ReadRequest
    PROVE  TakenInv'
<1>1. /\ up \in Seq(Units) /\ up \in Seq(Requests) /\ Len(up) \in Nat
      /\ UNCHANGED <<dev, calls, taken, pc>>
  BY DEF ReadRequest, transport, TakenStep, IInv, Base, Typed
<1>2. PICK n \in Takes(up, HeaderLen) :
         /\ up' = After(up, n)
         /\ \/ Nack
            \/ /\ RequestValid(First(up, n))
               /\ req' = [code |-> up[2][2], n |-> up[2][3]]
               /\ srv' = IF up[2][2] = "READ" THEN "usb" ELSE "data"
  BY DEF ReadRequest
<1>3. n \in 0 .. Len(up) /\ n \in 1 .. Len(up)
  BY <1>1, <1>2, TakesSome DEF HeaderLen
<1>4. Headed' /\ Later'
  BY <1>1, <1>2, <1>3, Dropped
<1>5. TakenIsAsked' /\ Past'
  BY <1>1 DEF TakenStep, TakenInv, TakenIsAsked, Past, Made
<1>6. CASE Nack
  <2>1. srv' \in {"loop", "faulted"}
    BY <1>6, NackOrReply DEF Nack
  <2> QED
    BY <1>1, <1>4, <1>5, <2>1 DEF TakenInv, Coming, Held
<1>7. CASE /\ RequestValid(First(up, n))
           /\ req' = [code |-> up[2][2], n |-> up[2][3]]
           /\ srv' = IF up[2][2] = "READ" THEN "usb" ELSE "data"
  <2>1. Len(First(up, n)) = n /\ \A i \in 1 .. n : First(up, n)[i] = up[i]
    BY <1>1, <1>3, Shifted
  <2>2. n = 2 /\ up[2][1] = "header" /\ up[2][3] > 0
    <3>1. n = 2
      BY <1>7, <2>1 DEF RequestValid, HeaderLen
    <3>2. First(up, n)[2] = up[2]
      BY <2>1, <3>1
    <3> QED
      BY <1>7, <3>1, <3>2 DEF RequestValid
  <2>3. 2 \in 1 .. Len(up) /\ up[2] \in Requests
    BY <1>1, <1>3, <2>2, ElementOfSeq
  <2>4. up[2][2] \in {"READ", "WRITE"} /\ up[2][3] \in Nat \ {0}
    BY <2>2, <2>3 DEF Requests, Sof
  <2>5. CASE up[2][2] = "READ"
    BY <1>1, <1>4, <1>5, <1>7, <2>5 DEF TakenInv, Coming, Held
  <2>6. CASE up[2][2] = "WRITE"
    <3>1. req'.n = up[2][3] /\ req'.code = "WRITE" /\ srv' = "data"
      BY <1>7, <2>6
    <3>2. PICK c \in Nat : Message(up, 2, up[2][3], c)
      BY <2>2, <2>3, <2>4, <2>6 DEF Headed, TakenStep, TakenInv
    <3>3. Message(After(up, 2), 2 - 2, up[2][3], c)
      BY <1>1, <1>3, <2>2, <2>4, <3>2, MessageShifted
    <3>4. Coming'
      <4>1. Message(up', 0, req'.n, c)
        BY <1>2, <2>2, <3>1, <3>3
      <4> QED
        BY <2>4, <3>1, <4>1 DEF Coming
    <3> QED
      BY <1>1, <1>4, <1>5, <3>1, <3>4 DEF TakenInv, Held
  <2> QED
    BY <2>4, <2>5, <2>6
<1> QED
  BY <1>2, <1>6, <1>7

LEMMA TakenReadData ==
    ASSUME TakenStep, dev = "proxy", ReadData
    PROVE  TakenInv'
<1>1. /\ up \in Seq(Units) /\ Len(up) \in Nat /\ req.n \in Nat
      /\ UNCHANGED <<dev, calls, taken, pc, req>>
      /\ srv = "data"
  BY DEF ReadData, transport, TakenStep, IInv, Base
<1>2. PICK n \in Takes(up, req.n) :
         /\ up' = After(up, n)
         /\ \/ Nack
            \/ n = req.n /\ data' = First(up, n) /\ srv' = "usb"
  BY DEF ReadData
<1>3. n \in 0 .. Len(up) /\ n \in 1 .. Len(up)
  BY <1>1, <1>2, TakesSome
<1>4. Headed' /\ Later'
  BY <1>1, <1>2, <1>3, Dropped
<1>5. TakenIsAsked' /\ Past'
  BY <1>1 DEF TakenStep, TakenInv, TakenIsAsked, Past, Made
<1>6. CASE Nack
  <2>1. srv' \in {"loop", "faulted"}
    BY <1>6, NackOrReply DEF Nack
  <2> QED
    BY <1>1, <1>4, <1>5, <2>1 DEF TakenInv, Coming, Held
<1>7. CASE n = req.n /\ data' = First(up, n) /\ srv' = "usb"
  <2>1. PICK c \in Nat : Message(up, 0, n, c)
    BY <1>1, <1>7 DEF TakenStep, TakenInv, Coming
  <2> DEFINE l == Len(up)
             t == After(up, n)
             f == First(up, n)
  <2>2. /\ l \in Nat /\ Len(t) = l - n
        /\ \A i \in 1 .. l - n : t[i] = up[n + i]
        /\ Len(f) = n /\ \A i \in 1 .. n : f[i] = up[i]
    BY <1>1, <1>3, Shifted
  <2>3. /\ \A k \in 1 .. n : up[0 + k] = <<"data", c, k>>
        /\ \A j \in 0 + n + 1 .. l : IsData(up[j]) => c < up[j][2]
    BY <2>1 DEF Message
  <2>4. n \in 1 .. l
    BY <1>3
  <2>5. up' = t /\ data' = f
    BY <1>2, <1>7
  <2> HIDE DEF l, t, f
  <2>6. \A k \in 1 .. n : f[k] = <<"data", c, k>>
    <3>1. ASSUME NEW k \in 1 .. n PROVE f[k] = <<"data", c, k>>
      <4>1. 0 + k = k
        BY <2>4
      <4> QED
        BY <2>2, <2>3, <4>1
    <3> QED
      BY <3>1
  <2>7. ASSUME NEW i \in 1 .. l - n, IsData(t[i]) PROVE c < t[i][2]
    <3>1. n + i \in 0 + n + 1 .. l
      BY <2>2, <2>4
    <3> QED
      BY <2>2, <2>3, <2>7, <3>1
  <2>8. Made(c) /\ \A j \in 1 .. Len(taken) : taken[j][2] < c
    <3>1. up[1] = <<"data", c, 1>> /\ 1 \in 1 .. Len(up)
      <4>1. 1 \in 1 .. n /\ 0 + 1 = 1 /\ 1 \in 1 .. l
        BY <2>2, <2>4
      <4>2. up[0 + 1] = <<"data", c, 1>>
        BY <2>3, <4>1
      <4> QED
        BY <4>1, <4>2 DEF l
    <3>2. IsData(up[1]) /\ up[1][2] = c
      BY <3>1 DEF IsData
    <3>3. Later
      BY DEF TakenStep, TakenInv
    <3> QED
      BY <3>1, <3>2, <3>3 DEF Later
  <2>9. HeldFor(c)'
    <3>1. Made(c)'
      BY <1>1, <2>8 DEF Made
    <3>2. Len(data') = n /\ Len(up') = l - n
      BY <2>2, <2>5
    <3> QED
      BY <1>1, <2>5, <2>6, <2>7, <2>8, <3>1, <3>2 DEF HeldFor
  <2> QED
    BY <1>1, <1>4, <1>5, <1>7, <2>9 DEF TakenInv, Coming, Held
<1> QED
  BY <1>2, <1>6, <1>7

LEMMA TakenWrite ==
    ASSUME TakenStep, dev = "proxy", WriteToDevice
    PROVE  TakenInv'
<1>1. /\ srv = "usb" /\ req.code = "WRITE"
      /\ UNCHANGED <<dev, calls, pc, up, req, data>>
      /\ taken \in Seq(Units) /\ data \in Seq(Units)
      /\ TakenIsAsked /\ Past /\ Held /\ Headed /\ Later
  BY DEF WriteToDevice, call, TakenStep, TakenInv, Typed, TypeOK
<1>2. PICK c \in Nat : HeldFor(c)
  BY <1>1 DEF Held
<1>3. PICK x \in BulkOut(data) :
         /\ taken' = taken \o First(data, x.n)
         /\ Reply(Header(IF x.res = "ok" THEN "DONE" ELSE "ERR", 0))
  BY DEF WriteToDevice, Pushed
<1> DEFINE n == x.n
           d == First(data, n)
<1>4. n \in 0 .. Len(data)
  <2>1. Len(data) \in Nat
    BY <1>1
  <2> QED
    BY <1>3, <2>1 DEF BulkOut
<1>5. srv' \in {"loop", "faulted"}
  BY <1>3, NackOrReply
<1>6. taken' = taken \o d
  BY <1>3
<1> HIDE DEF n
<1>7. /\ d \in Seq(Units) /\ Len(d) = n /\ Len(data) \in Nat
      /\ \A i \in 1 .. n : d[i] = data[i]
  BY <1>1, <1>4, Parts, Shifted
<1>8. \A k \in 1 .. Len(d) : d[k] = <<"data", c, k>>
  BY <1>2, <1>4, <1>7 DEF HeldFor
<1> HIDE DEF d
<1>9. TakenIsAsked' /\ Past'
  <2>1. /\ Made(c) /\ c <= calls
        /\ \A j \in 1 .. Len(taken) : taken[j][2] < c
    BY <1>2 DEF HeldFor, Made
  <2> QED
    BY <1>1, <1>6, <1>7, <1>8, <2>1, TakesMore
<1>10. Later'
  <2>1. ASSUME NEW i \in 1 .. Len(up), IsData(up[i]),
               NEW j \in 1 .. Len(taken')
        PROVE  taken'[j][2] < up[i][2]
    <3>1. /\ Len(taken) \in Nat /\ Len(d) \in Nat
          /\ Len(taken') = Len(taken) + Len(d)
          /\ \A k \in 1 .. Len(taken) : taken'[k] = taken[k]
          /\ \A k \in Len(taken) + 1 .. Len(taken) + Len(d) :
                k - Len(taken) \in 1 .. Len(d)
                /\ taken'[k] = d[k - Len(taken)]
      BY <1>1, <1>6, <1>7, Joined
    <3>2. c < up[i][2]
      BY <1>2, <2>1 DEF HeldFor
    <3>3. CASE j \in 1 .. Len(taken)
      BY <1>1, <2>1, <3>1, <3>3 DEF Later
    <3>4. CASE j \in Len(taken) + 1 .. Len(taken) + Len(d)
      <4>1. taken'[j][2] = c
        BY <1>8, <3>1, <3>4
      <4> QED
        BY <3>2, <4>1
    <3> QED
      BY <3>1, <3>3, <3>4
  <2> QED
    BY <1>1, <2>1 DEF Later, Made
<1>11. Headed'
  BY <1>1 DEF Headed
<1> QED
  BY <1>1, <1>5, <1>9, <1>10, <1>11 DEF TakenInv, Coming, Held

\* libusb: every attempt starts from the first unit of the call.
LEMMA TakenLibusb ==
    ASSUME TakenStep, devlibusb_write, UNCHANGED proxy
    PROVE  TakenInv'
<1>1. /\ dev = "libusb" /\ pc = "called" /\ sent = 0 /\ calls \in Nat
      /\ UNCHANGED <<dev, calls>>
      /\ taken \in Seq(Units) /\ Data \in Seq(Units)
      /\ TakenIsAsked /\ Past
  BY DataType DEF devlibusb_write, Calling, call, TakenStep, TakenInv, Typed, TypeOK,
     IInv, Base, UsbSync
<1>2. Unsent = Data
  BY <1>1, SubSeqFull DEF Unsent, After
<1>3. PICK x \in BulkOut(Data) : taken' = taken \o First(Data, x.n)
  BY <1>2 DEF devlibusb_write, Pushed
<1> DEFINE n == x.n
           d == First(Data, n)
<1>4. n \in 0 .. Len(Data)
  <2>1. Len(Data) \in Nat
    BY <1>1
  <2> QED
    BY <1>3, <2>1 DEF BulkOut
<1>5. taken' = taken \o d
  BY <1>3
<1> HIDE DEF n
<1>6. /\ d \in Seq(Units) /\ Len(d) = n /\ Len(Data) \in Nat
      /\ \A i \in 1 .. n : d[i] = Data[i]
  BY <1>1, <1>4, Parts, Shifted
<1>7. \A k \in 1 .. Len(d) : d[k] = <<"data", calls, k>>
  <2>1. Len(Data) = len /\ \A i \in 1 .. len : Data[i] = <<"data", calls, i>>
    <3>1. Base
      BY DEF TakenStep, IInv
    <3>2. Len(Data) = len
      BY <3>1, DataType
    <3> QED
      BY <3>2 DEF Data
  <2> QED
    BY <1>4, <1>6, <2>1
<1> HIDE DEF d
<1>8. TakenIsAsked' /\ Past'
  <2>1. /\ dev # "proxy" /\ calls <= calls
        /\ dev = "proxy" => \A j \in 1 .. Len(taken) : taken[j][2] < calls
        /\ ~(dev = "proxy") => calls = calls
    BY <1>1
  <2>2. UNCHANGED <<dev, calls, pc>>
        \/ (UNCHANGED <<dev, calls>> /\ dev # "proxy")
    BY <1>1, <2>1
  <2>3. Made(calls) \/ dev # "proxy"
    BY <2>1
  <2> QED
    BY <1>1, <1>5, <1>6, <1>7, <2>1, <2>2, <2>3, TakesMore
<1> QED
  BY <1>1, <1>8 DEF TakenInv

LEMMA TakenNext == TakenInv /\ Typed /\ IInv /\ [Next]_vars => TakenInv'
<1> SUFFICES ASSUME TakenStep, [Next]_vars PROVE TakenInv'
  BY DEF TakenStep
<1>1. dev # "proxy" => srv = "accept" /\ page = "listening"
  BY DEF TakenStep, IInv, UsbSync
<1>2. CASE TargetSends /\ UNCHANGED proxy
  BY <1>2, TakenKept DEF TargetSends, call, proxy, TakenStep
<1>3. CASE Caller /\ UNCHANGED proxy
  BY <1>3, TakenCall DEF Caller
<1>4. CASE Device /\ UNCHANGED proxy
  <2>1. CASE devlibusb_write
    BY <1>4, <2>1, TakenLibusb
  <2>2. CASE NoLength("read") \/ NoLength("write")
    BY <1>4, <2>2, TakenKept DEF NoLength, call, pipe, proxy, TakenStep, Return
  <2>3. CASE devlibusb_read
    <3>1. pc' = "idle" /\ UNCHANGED <<taken, call, proxy>>
      BY <1>4, <2>3 DEF devlibusb_read, Pulled, Return
    <3> QED
      BY <3>1, TakenKept DEF call, proxy, TakenStep
  <2>4. CASE devusbdev_read \/ devusbdev_write
    BY <1>4, <2>4, TakenKept
    DEF devusbdev_read, devusbdev_write, call, pipe, proxy, TakenStep, Return
  <2> QED
    BY <1>4, <2>1, <2>2, <2>3, <2>4 DEF Device
<1>5. CASE Client
  <2>1. CASE SendRequest
    BY <2>1, TakenSend
  <2>2. CASE NotOpen
    BY <2>2, TakenKept DEF NotOpen, call, pipe, proxy, TakenStep, Return
  <2>3. CASE RecvHeader
    <3>1. /\ UNCHANGED <<pipe, call, up, server>>
          /\ pc' \in {"header", "idle", "payload"}
      BY <2>3 DEF RecvHeader, Continue, Return
    <3> QED
      BY <3>1, TakenKept DEF call, pipe, server, TakenStep
  <2>4. CASE RecvData
    <3>1. UNCHANGED <<pipe, call, up, server>> /\ pc' \in {"idle", "payload"}
      BY <2>4 DEF RecvData, Continue, Return
    <3> QED
      BY <3>1, TakenKept DEF call, pipe, server, TakenStep
  <2> QED
    BY <1>5, <2>1, <2>2, <2>3, <2>4 DEF Client
<1>6. CASE Server
  <2>1. dev = "proxy"
    <3>1. CASE dev # "proxy"
      BY <1>1, <1>6, <3>1
      DEF Server, Accept, Loop, ReadRequest, ReadData, EndOfStream,
          WriteToDevice, ReadFromDevice, NoConnection
    <3> QED
      BY <3>1
  <2>2. CASE Accept \/ Loop \/ NoConnection
    BY <2>2, TakenKept DEF Accept, Loop, NoConnection, transport, TakenStep
  <2>3. CASE EndOfStream
    <3>1. srv' \in {"loop", "faulted"}
      BY <2>3, NackOrReply DEF EndOfStream, Nack
    <3> QED
      BY <2>3, <3>1, TakenKept DEF EndOfStream, transport, TakenStep
  <2>4. CASE ReadFromDevice
    <3>1. srv' \in {"loop", "faulted"}
      BY <2>4, NackOrReply DEF ReadFromDevice
    <3>2. UNCHANGED taken
      BY <2>4 DEF ReadFromDevice, Pulled
    <3> QED
      BY <2>4, <3>1, <3>2, TakenKept DEF ReadFromDevice, call, TakenStep
  <2> QED
    BY <1>6, <2>1, <2>2, <2>3, <2>4, TakenReadRequest, TakenReadData, TakenWrite
    DEF Server
<1>7. CASE Page
  BY <1>7, TakenKept
  DEF Page, Open, Close, Stop, Stopped, GiveUp, transport, server, TakenStep
<1>8. CASE UNCHANGED vars
  BY <1>8, TakenKept DEF vars, TakenStep
<1> QED
  BY <1>2, <1>3, <1>4, <1>5, <1>6, <1>7, <1>8 DEF Next, Direct

LEMMA TakenStart == ProxyInit => TakenInv
<1> SUFFICES ASSUME ProxyInit PROVE TakenInv
  OBVIOUS
<1>1. taken = << >> /\ up = << >> /\ srv = "accept"
  BY DEF ProxyInit, Init
<1>2. TakenIsAsked /\ Past
  BY <1>1 DEF TakenIsAsked, Past
<1> QED
  BY <1>1, <1>2 DEF TakenInv, Headed, Later, Coming, Held

LEMMA AlwaysTyped == Spec => []Typed
BY TypedStart, TypedNext, Inductive, PTL DEF Spec

\* Whatever Reads were cut and transfers failed, through libusb and the proxy
\* (device_libusb.c, device_proxy.c, usbProxy.cs) the target takes nothing but
\* the data of the calls, in order, through the proxy each unit at most once.
THEOREM TakenAsked == Spec => []TakenIsAsked
<1>1. TakenInv => TakenIsAsked
  BY DEF TakenInv
<1> QED
  BY <1>1, TakenStart, TakenNext, AlwaysTyped, Inductive, PTL DEF Spec
==============================================================================
