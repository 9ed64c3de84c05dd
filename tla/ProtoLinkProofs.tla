-------------------------- MODULE ProtoLinkProofs ---------------------------
(***************************************************************************)
(* The master and the slave over the link keep their C types, for every    *)
(* register table, request, noise and packet size; while their calls are   *)
(* in lock step, they are truthful until a byte is disturbed, and none     *)
(* reports success falsely in the call in which one is; and undisturbed,   *)
(* the slave writes only what was asked for, whatever the calls and the    *)
(* delays.                                                                 *)
(***************************************************************************)
EXTENDS ProtoLink, ProtoPeersProofs

-----------------------------------------------------------------------------
(* Queues of packets and buffers of bytes.                                 *)

LEMMA TakenType ==
    ASSUME NEW S, NEW rx \in Seq(S), NEW n \in Nat
    PROVE  Taken(rx, n) \in Seq(S) /\ Left(rx, n) \in Seq(S)
<1> DEFINE len == Len(rx)
           k == Least(n, len)
<1>1. len \in Nat /\ \A i \in 1 .. len : rx[i] \in S
  BY ElementOfSeq
<1>2. k \in 0 .. len
  <2> HIDE DEF len
  <2> QED
    BY <1>1 DEF Least
<1>3. /\ Taken(rx, n) = SubSeq(rx, 1, k)
      /\ Left(rx, n) = SubSeq(rx, k + 1, len)
  BY DEF Taken, Left
<1> HIDE DEF len, k
<1>4. SubSeq(rx, 1, k) \in Seq(S)
  BY <1>1, <1>2, SubSeqProperties
<1>5. SubSeq(rx, k + 1, len) \in Seq(S)
  <2>1. k + 1 \in Int /\ len \in Int /\ \A i \in k + 1 .. len : rx[i] \in S
    BY <1>1, <1>2
  <2> QED
    BY <2>1, SubSeqProperties
<1> QED
  BY <1>3, <1>4, <1>5

LEMMA PacketsType ==
    ASSUME NEW bytes \in Seq(Byte)
    PROVE  Packets(bytes) \in Seq(Seq(Byte))
<1>1. ASSUME NEW i \in 1 .. Len(bytes) PROVE <<bytes[i]>> \in Seq(Byte)
  <2>1. bytes[i] \in Byte
    BY ElementOfSeq
  <2> QED
    BY <2>1
<1>2. [i \in 1 .. Len(bytes) |-> <<bytes[i]>>] \in Seq(Seq(Byte))
  <2> DEFINE T == Seq(Byte)
             n == Len(bytes)
             p == [i \in 1 .. n |-> <<bytes[i]>>]
  <2>1. n \in Nat /\ p \in [1 .. n -> T]
    BY <1>1
  <2> HIDE DEF T, n, p
  <2>2. [1 .. n -> T] \in { [1 .. k -> T] : k \in Nat }
    BY <2>1
  <2>3. p \in UNION { [1 .. k -> T] : k \in Nat }
    BY <2>1, <2>2
  <2>4. p \in Seq(T)
    BY <2>3, SeqDef, Zenon
  <2> QED
    BY <2>4 DEF T, n, p
<1>3. <<bytes>> \in Seq(Seq(Byte))
  OBVIOUS
<1> QED
  BY <1>2, <1>3 DEF Packets

\* Packets cuts a frame into bytes, or leaves it whole.
LEMMA PacketsCut ==
    ASSUME NEW w \in Seq(Byte)
    PROVE  /\ Packets(w) \in Seq(Seq(Byte))
           /\ \E cp \in Cuts : CutOf(Packets(w), cp, w)
           /\ w # << >> =>
                 \A i \in 1 .. Len(Packets(w)) : Len(Packets(w)[i]) > 0
<1> DEFINE l == Len(w)
<1>1. l \in Nat
  OBVIOUS
<1>2. Packets(w) \in Seq(Seq(Byte))
  BY PacketsType
<1>3. CASE ByteWise
  <2> DEFINE P == [i \in 1 .. l |-> <<w[i]>>]
             cp == [i \in Nat |-> i]
  <2>1. Packets(w) = P
    BY <1>3 DEF Packets
  <2>2. Len(P) = l
    <3> HIDE DEF l
    <3>1. P \in Seq(Seq(Byte))
      BY <1>2, <2>1
    <3>2. DOMAIN P = 1 .. Len(P) /\ Len(P) \in Nat
      BY <3>1, LenProperties
    <3>3. DOMAIN P = 1 .. l
      OBVIOUS
    <3> DEFINE a == Len(P)
    <3>4. 1 .. a = 1 .. l /\ a \in Nat
      BY <3>2, <3>3
    <3> HIDE DEF a
    <3>5. a = l
      BY <1>1, <3>4
    <3> QED
      BY <3>5 DEF a
  <2>3. cp \in Cuts /\ \A i \in Nat : cp[i] = i
    BY DEF Cuts
  <2>4. \A i \in 1 .. l : P[i] = <<w[i]>> /\ Len(P[i]) = 1
    OBVIOUS
  <2> HIDE DEF P, cp, l
  <2>5. /\ cp[0] = 0 /\ cp[l] = l
        /\ \A i, j \in 0 .. l : i <= j => cp[i] <= cp[j]
    <3>1. 0 \in Nat /\ \A i \in 0 .. l : i \in Nat
      BY <1>1
    <3> QED
      BY <1>1, <2>3, <3>1
  <2>6. ASSUME NEW i \in 1 .. l
        PROVE  /\ cp[i] = cp[i - 1] + Len(P[i])
               /\ \A k \in 1 .. Len(P[i]) :
                     /\ cp[i - 1] + k \in 1 .. l
                     /\ P[i][k] = w[cp[i - 1] + k]
    <3>1. i \in Nat /\ i - 1 \in Nat /\ (i - 1) + 1 = i
      BY <1>1
    <3>2. cp[i] = i /\ cp[i - 1] = i - 1
      BY <2>3, <3>1
    <3>3. \A k \in 1 .. 1 : k = 1
      OBVIOUS
    <3>4. P[i][1] = w[i] /\ Len(P[i]) = 1
      BY <2>4
    <3> QED
      BY <3>1, <3>2, <3>3, <3>4
  <2>7. CutOf(P, cp, w)
    BY <2>2, <2>5, <2>6 DEF CutOf, l
  <2>8. \A i \in 1 .. Len(P) : Len(P[i]) > 0
    BY <2>2, <2>4 DEF l
  <2> QED
    BY <1>2, <2>1, <2>3, <2>7, <2>8
<1>4. CASE ~ByteWise
  <2> DEFINE P == <<w>>
             cp == [i \in Nat |-> IF i = 0 THEN 0 ELSE l]
  <2>1. Packets(w) = P
    BY <1>4 DEF Packets
  <2>2. Len(P) = 1 /\ P[1] = w
    OBVIOUS
  <2>3. cp \in Cuts /\ cp[0] = 0 /\ cp[1] = l
    <3>1. cp \in [Nat -> Int] /\ cp[0] = 0 /\ cp[1] = l
      BY <1>1
    <3> QED
      BY <3>1 DEF Cuts
  <2> HIDE DEF P, cp
  <2>4. \A i, j \in 0 .. 1 : i <= j => cp[i] <= cp[j]
    <3>1. \A i \in 0 .. 1 : i = 0 \/ i = 1
      OBVIOUS
    <3> HIDE DEF l
    <3>2. \A i \in 0 .. 1, j \in 0 .. 1 : i <= j => cp[i] <= cp[j]
      BY <1>1, <2>3, <3>1
    <3> QED
      BY <3>2
  <2>5. ASSUME NEW i \in 1 .. 1
        PROVE  /\ cp[i] = cp[i - 1] + Len(P[i])
               /\ \A k \in 1 .. Len(P[i]) :
                     /\ cp[i - 1] + k \in 1 .. Len(w)
                     /\ P[i][k] = w[cp[i - 1] + k]
    <3>1. i = 1 /\ i - 1 = 0
      OBVIOUS
    <3>2. l = 0 + l /\ \A k \in 1 .. l : 0 + k \in 1 .. l /\ 0 + k = k
      <4> HIDE DEF l
      <4> QED
        BY <1>1
    <3> QED
      BY <2>2, <2>3, <3>1, <3>2
  <2>6. CutOf(P, cp, w)
    BY <2>2, <2>3, <2>4, <2>5 DEF CutOf
  <2>7. w # << >> => \A i \in 1 .. Len(P) : Len(P[i]) > 0
    <3>1. w # << >> => l > 0
      <4>1. l = 0 => w = << >>
        BY EmptySeq
      <4> HIDE DEF l
      <4> QED
        BY <1>1, <4>1
    <3>2. \A i \in 1 .. 1 : i = 1
      OBVIOUS
    <3> QED
      BY <2>2, <3>1, <3>2 DEF l
  <2> QED
    BY <1>2, <2>1, <2>3, <2>6, <2>7
<1> QED
  BY <1>3, <1>4

LEMMA DisturbType ==
    ASSUME NEW wire \in Seq(Seq(Byte)), wire # << >>,
           NEW i \in 1 .. Len(wire[1]), NEW mask
    PROVE  Disturb(wire, i, mask) \in Seq(Seq(Byte))
<1> DEFINE T == Seq(Byte)
           packet == [wire[1] EXCEPT ![i] = Xor(wire[1][i], mask)]
<1>1. Len(wire) \in Nat /\ 1 \in 1 .. Len(wire) /\ wire[1] \in T
  BY ElementOfSeq
<1>2. packet \in T
  BY <1>1, XorType, ExceptSeq
<1>3. Disturb(wire, i, mask) = [wire EXCEPT ![1] = packet]
  BY <1>1 DEF Disturb
<1> HIDE DEF T, packet
<1>4. wire \in Seq(T)
  BY DEF T
<1>5. [wire EXCEPT ![1] = packet] \in Seq(T)
  BY <1>1, <1>2, <1>4, ExceptSeq
<1> QED
  BY <1>3, <1>5 DEF T

LEMMA RequestType ==
    ASSUME NEW r \in Request
    PROVE  r.cmd \in Byte /\ RequestArgs(r) \in Args
BY DEF Request, RequestArgs, Args, Byte, SET, GET

LEMMA OutcomeType ==
    ASSUME NEW r \in Request, NEW status, NEW arg \in Args
    PROVE  /\ Outcome(r, status, arg).req = r
           /\ Outcome(r, status, arg).value \in Byte
           /\ Outcome(r, status, arg).status = status
BY DEF Outcome, Args, Byte

-----------------------------------------------------------------------------
(* Type correctness: one lemma per side of the link.                       *)

LEMMA InitTypeOK == Init => TypeOK
<1> SUFFICES ASSUME Init PROVE TypeOK
  OBVIOUS
<1>1. mh \in Handle /\ sh \in Handle
  BY InitType DEF Init
<1>2. NoRequest \in Request /\ <<0, 0>> \in Args /\ 0 \in Byte
  BY DEF NoRequest, Request, Args, Byte, GET
<1>3. outcome.req \in Request /\ outcome.value \in Byte
  BY <1>2, OutcomeType DEF Init
<1>4. regs \in [0 .. NbRegs - 1 -> Byte]
  BY <1>2 DEF Init
<1>5. /\ toSlave \in Seq(Seq(Byte)) /\ toMaster \in Seq(Seq(Byte))
      /\ srx \in Seq(Byte) /\ mrx \in Seq(Byte)
      /\ issued \in Seq(Request) /\ applied \in Seq(Byte \X Byte)
  BY DEF Init
<1> QED
  BY <1>1, <1>2, <1>3, <1>4, <1>5 DEF Init, TypeOK

\* What the host's steps leave well typed: sending a request.
LEMMA CallTypeOK ==
    ASSUME TypeOK, NEW r \in Requests, Call(r) \/ CallFails(r)
    PROVE  TypeOK'
<1>1. r \in Request
  BY LinkAssumption
<1>2. r.cmd \in Byte /\ RequestArgs(r) \in Args
  BY <1>1, RequestType
<1>3. CallWrites(r)
  BY DEF Call, CallFails
<1>4. mh' \in Handle
  BY <1>2, <1>3, WriteFrameType DEF CallWrites, TypeOK
<1>5. issued' \in Seq(Request)
  <2>1. issued' = Append(issued, r)
    BY DEF Call, CallFails
  <2> QED
    BY <1>1, <2>1, AppendProperties DEF TypeOK
<1>6. toSlave' \in Seq(Seq(Byte))
  <2>1. CASE Call(r)
    <3> DEFINE w == WireBytes(r.cmd, RequestArgs(r))
               pk == Packets(w)
    <3>1. w \in Seq(Byte)
      BY <1>2, WireLen
    <3> HIDE DEF w
    <3>2. pk \in Seq(Seq(Byte))
      BY <3>1, PacketsType
    <3>3. toSlave' = toSlave \o pk
      BY <2>1 DEF Call, w
    <3> HIDE DEF pk
    <3> QED
      BY <3>2, <3>3, ConcatProperties DEF TypeOK
  <2>2. CASE CallFails(r)
    BY <2>2 DEF CallFails, TypeOK
  <2> QED
    BY <2>1, <2>2
<1>7. outcome'.req \in Request /\ outcome'.value \in Byte
  <2>1. CASE Call(r)
    BY <2>1 DEF Call, TypeOK
  <2>2. CASE CallFails(r)
    <3>1. <<0, 0>> \in Args
      BY DEF Args, Byte
    <3> QED
      BY <1>1, <2>2, <3>1, OutcomeType DEF CallFails
  <2> QED
    BY <2>1, <2>2
<1>8. mpc' \in {"idle", "reading", "aborted"} /\ inStep' \in BOOLEAN
  BY DEF Call, CallFails, TypeOK
<1>9. /\ req' = r
      /\ before' = noise
      /\ UNCHANGED <<sh, regs, applied, served, refused, srx, toMaster, mrx,
                     noise>>
  BY <1>3 DEF CallWrites, slaveVars
<1> QED
  BY <1>1, <1>4, <1>5, <1>6, <1>7, <1>8, <1>9 DEF TypeOK

\* The host's steps that end a call.
LEMMA ReturnTypeOK ==
    ASSUME TypeOK, Return \/ ReturnFails
    PROVE  TypeOK'
<1>1. CASE Return
  <2> DEFINE n == ReadLen(mh)
             arg == RequestArgs(req)
             t == Taken(mrx, n)
             m == proto_master_readFrame(mh, t, arg)
  <2>1. n \in Nat /\ arg \in Args
    BY ReadLenType, RequestType DEF TypeOK
  <2>2. /\ mrx' = Left(mrx, n)
        /\ mh' = m.hdle
        /\ outcome' = Outcome(req, m.status, m.arg)
        /\ inStep' = (inStep /\ m.decoded)
        /\ mpc' = IF m.status = "ABORT" THEN "aborted" ELSE "idle"
        /\ UNCHANGED <<req, issued, sh, regs, applied, served, refused,
                       toSlave, srx, toMaster, noise, before>>
    BY <1>1 DEF Return, slaveVars
  <2> HIDE DEF n, arg
  <2>3. t \in Seq(Byte) /\ Left(mrx, n) \in Seq(Byte)
    BY <2>1, TakenType DEF TypeOK
  <2> HIDE DEF t
  <2>4. m.hdle \in Handle /\ m.arg \in Args /\ m.decoded \in BOOLEAN
    BY <2>1, <2>3, MasterType DEF TypeOK
  <2> HIDE DEF m
  <2>5. outcome'.req \in Request /\ outcome'.value \in Byte
    BY <2>2, <2>4, OutcomeType DEF TypeOK
  <2>6. inStep' \in BOOLEAN /\ mpc' \in {"idle", "reading", "aborted"}
    BY <2>2, <2>4 DEF TypeOK
  <2> QED
    BY <2>2, <2>3, <2>4, <2>5, <2>6 DEF TypeOK
<1>2. CASE ReturnFails
  <2>1. <<0, 0>> \in Args
    BY DEF Args, Byte
  <2>2. outcome'.req \in Request /\ outcome'.value \in Byte
    BY <1>2, <2>1, OutcomeType DEF ReturnFails, TypeOK
  <2> QED
    BY <1>2, <2>2 DEF ReturnFails, TypeOK, slaveVars
<1> QED
  BY <1>1, <1>2

\* One iteration of the target's loop.
LEMMA SlaveTypeOK ==
    ASSUME TypeOK, SlaveMain
    PROVE  TypeOK'
<1> DEFINE n == ReadLen(sh)
           t == Taken(srx, n)
           s == proto_slave_main(sh, regs, t)
           pk == Packets(s.reply)
<1>1. n \in Nat
  BY ReadLenType DEF TypeOK
<1>2. /\ srx' = Left(srx, n)
      /\ sh' = s.hdle /\ regs' = s.regs
      /\ toMaster' = IF s.reply = << >> THEN toMaster ELSE toMaster \o pk
      /\ applied' = applied \o s.writes
      /\ served' = served + (IF s.result = "SERVED" THEN 1 ELSE 0)
      /\ refused' = refused + (IF s.result = "REFUSED" THEN 1 ELSE 0)
      /\ UNCHANGED <<mh, mpc, req, issued, before, outcome, inStep, toSlave,
                     mrx, noise>>
  BY DEF SlaveMain, hostVars
<1> HIDE DEF n
<1>3. t \in Seq(Byte) /\ Left(srx, n) \in Seq(Byte)
  BY <1>1, TakenType DEF TypeOK
<1> HIDE DEF t
<1>4. /\ s.hdle \in Handle /\ s.regs \in [0 .. NbRegs - 1 -> Byte]
      /\ s.reply \in Seq(Byte) /\ s.writes \in Seq(Args)
  <2>1. NbRegs \in Nat
    BY LinkAssumption
  <2> QED
    BY <1>3, <2>1, SlaveMainType DEF TypeOK
<1> HIDE DEF s
<1>5. pk \in Seq(Seq(Byte))
  BY <1>4, PacketsType
<1> HIDE DEF pk
<1>6. toMaster' \in Seq(Seq(Byte))
  BY <1>2, <1>5, ConcatProperties DEF TypeOK
<1>7. applied' \in Seq(Byte \X Byte)
  BY <1>2, <1>4, ConcatProperties DEF TypeOK, Args
<1>8. served' \in Nat /\ refused' \in Nat
  BY <1>2 DEF TypeOK
<1> QED
  BY <1>2, <1>3, <1>4, <1>6, <1>7, <1>8 DEF TypeOK

\* The link's steps.
LEMMA DeliverTypeOK ==
    ASSUME TypeOK, DeliverToSlave \/ DeliverToMaster
    PROVE  TypeOK'
<1>1. CASE DeliverToSlave
  <2>1. Head(toSlave) \in Seq(Byte) /\ Tail(toSlave) \in Seq(Seq(Byte))
    BY <1>1, HeadTailProperties DEF DeliverToSlave, TypeOK
  <2>2. srx' \in Seq(Byte) /\ toSlave' \in Seq(Seq(Byte))
    BY <1>1, <2>1, ConcatProperties DEF DeliverToSlave, TypeOK
  <2> QED
    BY <1>1, <2>2 DEF DeliverToSlave, TypeOK, hostVars, slaveVars
<1>2. CASE DeliverToMaster
  <2>1. Head(toMaster) \in Seq(Byte) /\ Tail(toMaster) \in Seq(Seq(Byte))
    BY <1>2, HeadTailProperties DEF DeliverToMaster, TypeOK
  <2>2. mrx' \in Seq(Byte) /\ toMaster' \in Seq(Seq(Byte))
    BY <1>2, <2>1, ConcatProperties DEF DeliverToMaster, TypeOK
  <2> QED
    BY <1>2, <2>2 DEF DeliverToMaster, TypeOK, hostVars, slaveVars
<1> QED
  BY <1>1, <1>2

LEMMA NoiseTypeOK ==
    ASSUME TypeOK, NEW mask \in NoiseMasks,
           NoiseToSlave(mask) \/ NoiseToMaster(mask)
    PROVE  TypeOK'
<1>1. CASE NoiseToSlave(mask)
  <2>1. toSlave' \in Seq(Seq(Byte))
    BY <1>1, DisturbType DEF NoiseToSlave, TypeOK
  <2> QED
    BY <1>1, <2>1 DEF NoiseToSlave, TypeOK, hostVars, slaveVars
<1>2. CASE NoiseToMaster(mask)
  <2>1. toMaster' \in Seq(Seq(Byte))
    BY <1>2, DisturbType DEF NoiseToMaster, TypeOK
  <2> QED
    BY <1>2, <2>1 DEF NoiseToMaster, TypeOK, hostVars, slaveVars
<1> QED
  BY <1>1, <1>2

(***************************************************************************)
(* TypeOK: whatever the calls, the link and the noise, the handles'        *)
(* cursors stay within the frame and every byte is a byte.                 *)
(***************************************************************************)
THEOREM TypeCorrect == Spec => []TypeOK
<1>1. Init => TypeOK
  BY InitTypeOK
<1>2. TypeOK /\ [Next]_vars => TypeOK'
  <2> SUFFICES ASSUME TypeOK, [Next]_vars PROVE TypeOK'
    OBVIOUS
  <2>1. CASE \E r \in Requests : Call(r) \/ CallFails(r)
    BY <2>1, CallTypeOK
  <2>2. CASE Return \/ ReturnFails
    BY <2>2, ReturnTypeOK
  <2>3. CASE SlaveMain
    BY <2>3, SlaveTypeOK
  <2>4. CASE DeliverToSlave \/ DeliverToMaster
    BY <2>4, DeliverTypeOK
  <2>5. CASE \E mask \in NoiseMasks : NoiseToSlave(mask) \/ NoiseToMaster(mask)
    BY <2>5, NoiseTypeOK
  <2>6. CASE UNCHANGED vars
    BY <2>6 DEF vars, TypeOK
  <2> QED
    BY <2>1, <2>2, <2>3, <2>4, <2>5, <2>6 DEF Next
<1> QED
  BY <1>1, <1>2, PTL DEF Spec

-----------------------------------------------------------------------------
(***************************************************************************)
(* Until a byte is disturbed, an application whose calls all ended by      *)
(* decoding a reply was told the truth by each, over single bytes and over *)
(* packets.  The invariant follows the one exchange in progress along the  *)
(* link: while the calls are in lock step, there is nothing anywhere but   *)
(* one frame, the request or its answer, the start of it in the handle of  *)
(* the end it goes to, the rest arrived there or on the wire.  A call that *)
(* gives up, having read no answer or a part of it, leaves the lock step   *)
(* for good, and with it the promise.                                      *)
(***************************************************************************)
RequestBytes(r) == WireBytes(r.cmd, RequestArgs(r))
Owned(r) == r.reg \in 0 .. NbRegs - 1
AnswerBytes(r, a) == WireBytes(IF Owned(r) THEN REPLY ELSE ERR_ARG, a)

\* The slave did what r asks, and a is what it answers.
Done(r, a) ==
    /\ a \in Args
    /\ Owned(r) => regs[r.reg] = IF r.cmd = SET THEN r.val ELSE a[1]
    /\ ~Owned(r) => a[1] = r.reg /\ a[2] \in FifthBytes

NoRequestLeft == sh.nb = 0 /\ srx = << >> /\ toSlave = << >>
NoAnswerLeft == mh.nb = 0 /\ mrx = << >> /\ toMaster = << >>

Asked == Way(sh, srx, toSlave, RequestBytes(req)) /\ NoAnswerLeft
Answered ==
    /\ mh.nb = 0 /\ NoRequestLeft
    /\ \E a \in Args :
          Done(req, a) /\ Way(mh, mrx, toMaster, AnswerBytes(req, a))

Truthful ==
    /\ outcome.status = "NO_ERROR" =>
          /\ Owned(outcome.req)
          /\ regs[outcome.req.reg] = IF outcome.req.cmd = SET
                                     THEN outcome.req.val ELSE outcome.value
    /\ outcome.status = "INVALID_ARG" => ~Owned(outcome.req)

LockStep ==
    /\ sh.frame[5] \in FifthBytes
    /\ \/ mpc = "idle" /\ NoRequestLeft /\ NoAnswerLeft /\ Truthful
       \/ mpc = "reading" /\ req \in Requests /\ (Asked \/ Answered)

LockInv == noise = 0 /\ inStep => LockStep

-----------------------------------------------------------------------------
(* A read takes all that arrived of one frame, and nothing of nothing.     *)
LEMMA TakeAll ==
    ASSUME NEW rx \in Seq(Byte), NEW n \in Nat, Len(rx) <= n
    PROVE  Taken(rx, n) = rx /\ Left(rx, n) = << >>
<1> DEFINE len == Len(rx)
<1>1. len \in Nat /\ len <= n
  OBVIOUS
<1>2. Least(n, len) = len
  <2> HIDE DEF len
  <2> QED
    BY <1>1 DEF Least
<1>3. Taken(rx, n) = SubSeq(rx, 1, len) /\ Left(rx, n) = SubSeq(rx, len + 1, len)
  BY <1>2 DEF Taken, Left
<1>4. SubSeq(rx, 1, len) = rx
  BY SubSeqFull
<1>5. SubSeq(rx, len + 1, len) = << >>
  <2>1. len + 1 > len
    <3> HIDE DEF len
    <3> QED
      BY <1>1
  <2>2. len + 1 \in Int /\ len \in Int
    <3> HIDE DEF len
    <3> QED
      BY <1>1
  <2> QED
    BY <2>1, <2>2, SubSeqEmpty
<1> QED
  BY <1>3, <1>4, <1>5

LEMMA TakeNone ==
    ASSUME NEW n \in Nat
    PROVE  Taken(<< >>, n) = << >>
<1>1. Least(n, 0) = 0
  BY DEF Least
<1> QED
  BY <1>1 DEF Taken

LEMMA NothingDecoded ==
    ASSUME NEW h, NEW arg
    PROVE  proto_master_readFrame(h, << >>, arg).decoded = FALSE
<1> DEFINE r == proto_readFrame(h, << >>)
<1>1. r.status # "NO_ERROR"
  BY DEF proto_readFrame
<1> QED
  BY <1>1 DEF proto_master_readFrame

\* The frames of an exchange are such as WayRead reads.
LEMMA FrameBytes ==
    ASSUME NEW cmd \in 0 .. 4, NEW a \in Args
    PROVE  LET w == WireBytes(cmd, a)
           IN  /\ w \in Seq(Byte) /\ w # << >>
               /\ Len(w) \in 4 .. 5 /\ Len(w) = FrameLen(cmd)
               /\ w[1] = proto_START_OF_FRAME /\ FrameLen(w[3]) = Len(w)
BY Wire

\* A frame is sent on an empty link.
LEMMA FrameSent ==
    ASSUME NEW w \in Seq(Byte), w # << >>, NEW h \in Handle, h.nb = 0
    PROVE  Way(h, << >>, << >> \o Packets(w), w)
<1> DEFINE P == Packets(w)
<1>1. /\ P \in Seq(Seq(Byte)) /\ \E cp \in Cuts : CutOf(P, cp, w)
      /\ \A i \in 1 .. Len(P) : Len(P[i]) > 0
  BY PacketsCut
<1> HIDE DEF P
<1>2. << >> \o P = P
  BY <1>1
<1>3. Way(h, << >>, P, w)
  BY <1>1, WaySent
<1> QED
  BY <1>2, <1>3 DEF P

-----------------------------------------------------------------------------
(* One step per action.  Steps that leave the lock step have nothing to    *)
(* show.                                                                   *)

LEMMA LockInit == Init => LockInv
<1>1. proto_init.frame[5] = 0 /\ proto_init.nb = 0
  <2>1. 5 \in 1 .. proto_FRAME_MAXSIZE
    BY DEF proto_FRAME_MAXSIZE
  <2> QED
    BY <2>1 DEF proto_init
<1>2. 0 \in FifthBytes
  BY DEF FifthBytes
<1> QED
  BY <1>1, <1>2 DEF Init, LockInv, LockStep, NoRequestLeft, NoAnswerLeft,
     Truthful, Outcome

LEMMA LockCall ==
    ASSUME TypeOK, LockInv, NEW r \in Requests, Call(r)
    PROVE  LockInv'
<1>1. /\ mpc = "idle" /\ req' = r /\ mpc' = "reading"
      /\ mh' = proto_writeFrame(mh, r.cmd, RequestArgs(r))
      /\ toSlave' = toSlave \o Packets(RequestBytes(r))
      /\ inStep' = inStep /\ noise' = noise /\ sh' = sh
      /\ srx' = srx /\ toMaster' = toMaster /\ mrx' = mrx
  BY DEF Call, CallWrites, RequestBytes, slaveVars
<1>2. ASSUME noise = 0, inStep PROVE LockStep'
  <2>1. /\ NoRequestLeft /\ NoAnswerLeft /\ mh \in Handle /\ sh \in Handle
        /\ sh.frame[5] \in FifthBytes
    BY <1>1, <1>2 DEF LockInv, LockStep, TypeOK
  <2>2. r.cmd \in 0 .. 4 /\ r.cmd \in Byte /\ RequestArgs(r) \in Args
    <3>1. r \in Request
      BY LinkAssumption
    <3> QED
      BY <3>1, RequestArgsType, KnownArgs
  <2>3. NoAnswerLeft'
    <3>1. mh'.nb = 0
      BY <1>1, <2>1, <2>2, WriteFrameType DEF NoAnswerLeft
    <3> QED
      BY <1>1, <2>1, <3>1 DEF NoAnswerLeft
  <2> DEFINE w == RequestBytes(r)
  <2>4. w \in Seq(Byte) /\ w # << >>
    BY <2>2, FrameBytes DEF RequestBytes
  <2>5. RequestBytes(req)' = w
    BY <1>1 DEF RequestBytes, RequestArgs
  <2> HIDE DEF w
  <2>6. Way(sh, << >>, << >> \o Packets(w), w)
    BY <2>1, <2>4, FrameSent DEF NoRequestLeft
  <2>7. Way(sh', srx', toSlave', RequestBytes(req)')
    BY <1>1, <2>1, <2>5, <2>6 DEF NoRequestLeft, w
  <2>8. Asked'
    BY <2>3, <2>7 DEF Asked
  <2> QED
    BY <1>1, <2>1, <2>8 DEF LockStep
<1> QED
  BY <1>1, <1>2 DEF LockInv

\* A call returns in lock step only with the whole answer.
LEMMA LockReturn ==
    ASSUME TypeOK, LockInv, Return
    PROVE  LockInv'
<1> DEFINE m == proto_master_readFrame(mh, Taken(mrx, ReadLen(mh)),
                                       RequestArgs(req))
<1>1. /\ mpc = "reading"
      /\ mrx' = Left(mrx, ReadLen(mh))
      /\ mh' = m.hdle
      /\ outcome' = Outcome(req, m.status, m.arg)
      /\ inStep' = (inStep /\ m.decoded)
      /\ mpc' = IF m.status = "ABORT" THEN "aborted" ELSE "idle"
      /\ req' = req /\ sh' = sh /\ regs' = regs /\ noise' = noise
      /\ toSlave' = toSlave /\ srx' = srx /\ toMaster' = toMaster
  BY DEF Return, slaveVars
<1>2. ReadLen(mh) \in Nat /\ mrx \in Seq(Byte)
  BY ReadLenType DEF TypeOK
<1>3. CASE noise # 0 \/ ~inStep
  BY <1>1, <1>3 DEF LockInv
<1>4. CASE mrx = << >>
  <2>1. m.decoded = FALSE
    BY <1>2, <1>4, TakeNone, NothingDecoded
  <2> HIDE DEF m
  <2> QED
    BY <1>1, <2>1 DEF LockInv
<1>5. CASE noise = 0 /\ inStep /\ mrx # << >>
  <2>1. /\ mh \in Handle /\ mh.nb = 0 /\ Answered /\ req \in Request
        /\ sh.frame[5] \in FifthBytes
    BY <1>1, <1>5 DEF LockInv, LockStep, Asked, Answered, NoAnswerLeft, TypeOK
  <2>2. PICK a \in Args :
            Done(req, a) /\ Way(mh, mrx, toMaster, AnswerBytes(req, a))
    BY <2>1 DEF Answered
  <2> DEFINE c == IF Owned(req) THEN REPLY ELSE ERR_ARG
             w == WireBytes(c, a)
             r == proto_readFrame(mh, mrx)
             ra == RequestArgs(req)
  <2>3. /\ c \in 0 .. 4 /\ ra \in Args /\ AnswerBytes(req, a) = w
        /\ toMaster \in Seq(Seq(Byte))
    BY <2>1, RequestArgsType DEF REPLY, ERR_ARG, AnswerBytes, TypeOK
  <2> HIDE DEF c, ra
  <2>4. /\ w \in Seq(Byte) /\ Len(w) \in 4 .. 5
        /\ w[1] = proto_START_OF_FRAME /\ FrameLen(w[3]) = Len(w)
    BY <2>3, FrameBytes
  <2> HIDE DEF w
  <2>5. Way(mh, mrx, toMaster, w)
    BY <2>2, <2>3
  <2>6. /\ Len(mrx) <= ReadLen(mh)
        /\ \/ toMaster = << >> /\ mrx = w
           \/ \E k \in 0 .. Len(w) - 1 : Holds(r.hdle, w, k)
    BY <1>2, <1>5, <2>1, <2>3, <2>4, <2>5, WayRead
  <2>7. m = proto_master_readFrame(mh, mrx, ra) /\ mrx' = << >>
    BY <1>1, <1>2, <2>6, TakeAll DEF ra
  <2> HIDE DEF m
  <2>8. CASE \E k \in 0 .. Len(w) - 1 : Holds(r.hdle, w, k)
    <3>1. PICK k \in 0 .. Len(w) - 1 : Holds(r.hdle, w, k)
      BY <2>8
    <3> DEFINE l == Len(w)
    <3>2. l \in 3 .. 5 /\ FrameLen(w[3]) = l /\ k \in 0 .. l - 1
      BY <2>4
    <3> HIDE DEF l
    <3>3. m.decoded = FALSE
      BY <2>7, <3>1, <3>2, MasterWaits
    <3> QED
      BY <1>1, <3>3 DEF LockInv
  <2>9. CASE toMaster = << >> /\ mrx = w
    <3> DEFINE x == proto_master_readFrame(mh, WireBytes(c, a), ra)
    <3>1. m = x
      BY <2>7, <2>9 DEF w
    <3>2. Reports(x, c, a)
      BY <2>1, <2>3, MasterReports
    <3> HIDE DEF x
    <3>3. Reports(m, c, a)
      BY <3>1, <3>2
    <3>4. /\ mh'.nb = 0
          /\ m.status = IF Owned(req) THEN "NO_ERROR" ELSE "INVALID_ARG"
          /\ m.arg[1] = a[1]
      BY <1>1, <3>3 DEF Reports, ReplyStatus, REPLY, ERR_ARG, ERR_CRC, c
    <3>5. mpc' = "idle"
      BY <1>1, <3>4
    <3>6. NoRequestLeft' /\ NoAnswerLeft'
      BY <1>1, <2>1, <2>7, <2>9, <3>4 DEF Answered, NoRequestLeft, NoAnswerLeft
    <3>7. Truthful'
      <4>1. /\ outcome'.req = req
            /\ outcome'.status = IF Owned(req) THEN "NO_ERROR"
                                 ELSE "INVALID_ARG"
            /\ Owned(req) /\ req.cmd = GET => outcome'.value = a[1]
        BY <1>1, <3>4 DEF Outcome
      <4>2. req.cmd \in {SET, GET}
        BY <2>1, RequestArgsType
      <4>3. Owned(req) => regs'[req.reg] = IF req.cmd = SET
                                           THEN req.val ELSE outcome'.value
        BY <1>1, <2>2, <4>1, <4>2 DEF Done
      <4> QED
        BY <4>1, <4>3 DEF Truthful, Owned
    <3> QED
      BY <1>1, <2>1, <3>5, <3>6, <3>7 DEF LockInv, LockStep
  <2> QED
    BY <2>6, <2>8, <2>9
<1> QED
  BY <1>3, <1>4, <1>5

\* An iteration of the slave reads more of the request, or its end: then the
\* answer is on the way.
LEMMA LockSlave ==
    ASSUME TypeOK, LockInv, SlaveMain
    PROVE  LockInv'
<1> DEFINE s == proto_slave_main(sh, regs, Taken(srx, ReadLen(sh)))
<1>1. /\ srx # << >>
      /\ srx' = Left(srx, ReadLen(sh))
      /\ sh' = s.hdle /\ regs' = s.regs
      /\ toMaster' = IF s.reply = << >> THEN toMaster
                     ELSE toMaster \o Packets(s.reply)
      /\ mh' = mh /\ mpc' = mpc /\ req' = req /\ inStep' = inStep
      /\ toSlave' = toSlave /\ mrx' = mrx /\ noise' = noise
  BY DEF SlaveMain, hostVars
<1>2. ASSUME noise = 0, inStep PROVE LockStep'
  <2>1. /\ mpc = "reading" /\ Asked
        /\ req \in Requests /\ sh.frame[5] \in FifthBytes
        /\ sh \in Handle /\ mh \in Handle /\ req \in Request
        /\ NbRegs \in Nat /\ regs \in [0 .. NbRegs - 1 -> Byte]
        /\ ReadLen(sh) \in Nat /\ srx \in Seq(Byte)
        /\ toSlave \in Seq(Seq(Byte))
    BY <1>1, <1>2, LinkAssumption, ReadLenType
       DEF LockInv, LockStep, Answered, NoRequestLeft, TypeOK
  <2> DEFINE w == RequestBytes(req)
             r == proto_readFrame(sh, srx)
  <2>2. /\ w \in Seq(Byte) /\ Len(w) \in 4 .. 5 /\ Len(w) = FrameLen(req.cmd)
        /\ w[1] = proto_START_OF_FRAME /\ FrameLen(w[3]) = Len(w)
    BY <2>1, RequestArgsType, FrameBytes DEF RequestBytes
  <2>3. RequestBytes(req)' = w
    BY <1>1 DEF RequestBytes, RequestArgs
  <2>4. w = WireBytes(req.cmd, RequestArgs(req))
    BY DEF RequestBytes
  <2>5. Way(sh, srx, toSlave, w) /\ NoAnswerLeft
    BY <2>1 DEF Asked
  <2> HIDE DEF w, r
  <2>6. /\ Len(srx) <= ReadLen(sh)
        /\ \/ /\ Holds(r.hdle, w, Len(w)) /\ r.status = "NO_ERROR"
              /\ toSlave = << >>
           \/ /\ \E m \in 0 .. Len(w) - 1 : Holds(r.hdle, w, m)
              /\ Way(r.hdle, << >>, toSlave, w)
    BY <1>1, <2>1, <2>2, <2>5, WayRead DEF r
  <2>7. s = proto_slave_main(sh, regs, srx) /\ srx' = << >>
    BY <1>1, <2>1, <2>6, TakeAll
  <2> HIDE DEF s
  <2>8. CASE /\ \E m \in 0 .. Len(w) - 1 : Holds(r.hdle, w, m)
             /\ Way(r.hdle, << >>, toSlave, w)
    <3>1. PICK m \in 0 .. Len(w) - 1 : Holds(r.hdle, w, m)
      BY <2>8
    <3> DEFINE l == Len(w)
    <3>2. l \in 3 .. 5 /\ FrameLen(w[3]) = l /\ m \in 0 .. l - 1
      BY <2>2
    <3> HIDE DEF l
    <3>3. NoAnswer(s, r.hdle, regs)
      BY <2>7, <3>1, <3>2, SlaveWaits DEF r
    <3>4. sh' = r.hdle /\ toMaster' = toMaster
      BY <1>1, <3>3 DEF NoAnswer
    <3>5. Asked'
      BY <1>1, <2>3, <2>5, <2>7, <2>8, <3>4 DEF Asked, NoAnswerLeft
    <3>6. sh'.frame[5] = sh.frame[5]
      <4>1. r.hdle.nb < 5
        BY <3>1, <3>2 DEF Holds
      <4>2. r.hdle.frame[5] = sh.frame[5]
        BY <2>1, <4>1, ReadKeeps DEF r
      <4> QED
        BY <3>4, <4>2
    <3> QED
      BY <1>1, <2>1, <3>5, <3>6 DEF LockStep
  <2>9. CASE /\ Holds(r.hdle, w, Len(w)) /\ r.status = "NO_ERROR"
             /\ toSlave = << >>
    <3>1. Serves(s, NbRegs, regs, req)
      <4>1. /\ Holds(proto_readFrame(sh, srx).hdle,
                     WireBytes(req.cmd, RequestArgs(req)), FrameLen(req.cmd))
            /\ proto_readFrame(sh, srx).status = "NO_ERROR"
        BY <2>2, <2>4, <2>9 DEF r
      <4> DEFINE x == proto_slave_main(sh, regs, srx)
      <4>2. Serves(x, NbRegs, regs, req)
        BY <2>1, <4>1, SlaveEnds
      <4> HIDE DEF x
      <4>3. s = x
        BY <2>7 DEF x
      <4> QED
        BY <4>2, <4>3
    <3>2. Answers(s, r.hdle, NbRegs, regs, req)
      <4>1. /\ Holds(proto_readFrame(sh, srx).hdle,
                     WireBytes(req.cmd, RequestArgs(req)), FrameLen(req.cmd))
            /\ proto_readFrame(sh, srx).status = "NO_ERROR"
        BY <2>2, <2>4, <2>9 DEF r
      <4> DEFINE x == proto_slave_main(sh, regs, srx)
      <4>2. Answers(x, proto_readFrame(sh, srx).hdle, NbRegs, regs, req)
        BY <2>1, <4>1, SlaveAnswers
      <4> HIDE DEF x
      <4>3. s = x
        BY <2>7 DEF x
      <4> QED
        BY <4>2, <4>3 DEF r
    <3>3. RefusedByte(req, r.hdle) \in FifthBytes
      <4>1. CASE req.cmd = SET
        <5>1. RequestArgs(req)[2] = req.val
          BY <4>1 DEF RequestArgs
        <5> QED
          BY <2>1, <4>1, <5>1 DEF RefusedByte, FifthBytes
      <4>2. CASE req.cmd # SET
        <5>1. FrameLen(req.cmd) = 4
          BY <2>1, <4>2, RequestArgsType, Lengths
        <5>2. r.hdle.nb < 5
          BY <2>2, <2>9, <5>1 DEF Holds
        <5>3. r.hdle.frame[5] = sh.frame[5]
          BY <2>1, <5>2, ReadKeeps DEF r
        <5> QED
          BY <2>1, <4>2, <5>3 DEF RefusedByte
      <4> QED
        BY <4>1, <4>2
    <3>4. sh'.frame[5] \in FifthBytes
      <4>1. 0 \in FifthBytes
        BY DEF FifthBytes
      <4> QED
        BY <1>1, <3>2, <3>3, <4>1 DEF Answers
    <3>5. PICK a \in Args :
              /\ s.reply = AnswerBytes(req, a)
              /\ req.cmd = GET /\ Owned(req) => a[1] = regs[req.reg]
              /\ ~Owned(req) => a[1] = req.reg /\ a[2] \in FifthBytes
      <4>1. CASE Owned(req)
        BY <3>1, <4>1 DEF Serves, Owned, AnswerBytes
      <4>2. CASE ~Owned(req)
        <5> DEFINE b == RefusedByte(req, r.hdle)
                   a == <<req.reg, b>>
        <5>1. s.reply = AnswerBytes(req, a)
          BY <3>2, <4>2 DEF Answers, AnswerTo, Owned, AnswerBytes
        <5>2. FifthBytes \subseteq Byte
          <6>1. \A q \in Requests : RequestArgs(q)[2] \in Byte
            BY LinkAssumption, RequestType DEF Args
          <6> QED
            BY <6>1 DEF FifthBytes, Byte
        <5>3. req.reg \in Byte
          BY <2>1 DEF Request
        <5> HIDE DEF b
        <5>4. a \in Args /\ a[1] = req.reg /\ a[2] = b /\ b \in FifthBytes
          BY <3>3, <5>2, <5>3 DEF Args, b
        <5> QED
          BY <4>2, <5>1, <5>4
      <4> QED
        BY <4>1, <4>2
    <3>6. /\ sh'.nb = 0
          /\ regs' = IF req.cmd = SET /\ Owned(req)
                     THEN [regs EXCEPT ![req.reg] = req.val] ELSE regs
      BY <1>1, <3>1 DEF Serves, Owned
    <3> DEFINE v == AnswerBytes(req, a)
    <3>7. v \in Seq(Byte) /\ v # << >>
      <4> DEFINE c == IF Owned(req) THEN REPLY ELSE ERR_ARG
      <4>1. c \in 0 .. 4 /\ v = WireBytes(c, a)
        BY DEF REPLY, ERR_ARG, AnswerBytes
      <4> HIDE DEF c
      <4> QED
        BY <4>1, FrameBytes
    <3> HIDE DEF v
    <3>8. toMaster' = << >> \o Packets(v)
      BY <1>1, <2>5, <3>5, <3>7 DEF NoAnswerLeft, v
    <3>9. Way(mh, << >>, << >> \o Packets(v), v)
      BY <2>1, <2>5, <3>7, FrameSent DEF NoAnswerLeft
    <3>10. Way(mh', mrx', toMaster', v)
      BY <1>1, <2>5, <3>8, <3>9 DEF NoAnswerLeft
    <3>11. Owned(req) => regs'[req.reg] = IF req.cmd = SET
                                         THEN req.val ELSE a[1]
      <4>1. req.cmd \in {SET, GET} /\ SET # GET
        BY <2>1, RequestArgsType DEF SET, GET
      <4> QED
        BY <2>1, <3>5, <3>6, <4>1 DEF Owned
    <3>12. \E b \in Args :
             Done(req, b)' /\ Way(mh', mrx', toMaster', AnswerBytes(req', b))
      BY <1>1, <3>5, <3>10, <3>11 DEF Done, Owned, v, AnswerBytes
    <3>13. Answered'
      BY <1>1, <2>5, <2>7, <2>9, <3>6, <3>12
         DEF Answered, NoRequestLeft, NoAnswerLeft, AnswerBytes, Owned
    <3> QED
      BY <1>1, <2>1, <3>13, <3>4 DEF LockStep
  <2> QED
    BY <2>6, <2>8, <2>9
<1> QED
  BY <1>1, <1>2 DEF LockInv

LEMMA LockDeliver ==
    ASSUME TypeOK, LockInv, DeliverToSlave \/ DeliverToMaster
    PROVE  LockInv'
<1>0. /\ sh \in Handle /\ mh \in Handle /\ req \in Request
      /\ srx \in Seq(Byte) /\ mrx \in Seq(Byte)
      /\ toSlave \in Seq(Seq(Byte)) /\ toMaster \in Seq(Seq(Byte))
  BY DEF TypeOK
<1>1. CASE DeliverToSlave
  <2>1. /\ toSlave # << >> /\ srx' = srx \o Head(toSlave)
        /\ toSlave' = Tail(toSlave)
        /\ mh' = mh /\ mpc' = mpc /\ req' = req /\ inStep' = inStep
        /\ sh' = sh /\ toMaster' = toMaster /\ mrx' = mrx /\ noise' = noise
    BY <1>1 DEF DeliverToSlave, hostVars, slaveVars
  <2>2. ASSUME noise = 0, inStep PROVE LockStep'
    <3>1. /\ mpc = "reading" /\ Asked
          /\ req \in Requests /\ sh.frame[5] \in FifthBytes
      BY <2>1, <2>2 DEF LockInv, LockStep, Answered, NoRequestLeft
    <3> DEFINE w == RequestBytes(req)
    <3>2. w \in Seq(Byte)
      BY <1>0, RequestArgsType, FrameBytes DEF RequestBytes
    <3>3. RequestBytes(req)' = w
      BY <2>1 DEF RequestBytes, RequestArgs
    <3>4. Way(sh, srx, toSlave, w) /\ NoAnswerLeft
      BY <3>1 DEF Asked
    <3> HIDE DEF w
    <3>5. Way(sh, srx \o Head(toSlave), Tail(toSlave), w)
      BY <1>0, <2>1, <3>2, <3>4, WayDelivered
    <3>6. Asked'
      BY <2>1, <3>3, <3>4, <3>5 DEF Asked, NoAnswerLeft
    <3> QED
      BY <2>1, <3>1, <3>6 DEF LockStep
  <2> QED
    BY <2>1, <2>2 DEF LockInv
<1>2. CASE DeliverToMaster
  <2>1. /\ toMaster # << >> /\ mrx' = mrx \o Head(toMaster)
        /\ toMaster' = Tail(toMaster)
        /\ mh' = mh /\ mpc' = mpc /\ req' = req /\ inStep' = inStep
        /\ sh' = sh /\ toSlave' = toSlave /\ srx' = srx /\ noise' = noise
        /\ regs' = regs
    BY <1>2 DEF DeliverToMaster, hostVars, slaveVars
  <2>2. ASSUME noise = 0, inStep PROVE LockStep'
    <3>1. /\ mpc = "reading" /\ Answered
          /\ req \in Requests /\ sh.frame[5] \in FifthBytes
      BY <2>1, <2>2 DEF LockInv, LockStep, Asked, NoAnswerLeft
    <3>2. PICK a \in Args :
              Done(req, a) /\ Way(mh, mrx, toMaster, AnswerBytes(req, a))
      BY <3>1 DEF Answered
    <3> DEFINE w == AnswerBytes(req, a)
               c == IF Owned(req) THEN REPLY ELSE ERR_ARG
    <3>3. w \in Seq(Byte)
      <4>1. c \in 0 .. 4 /\ w = WireBytes(c, a)
        BY DEF REPLY, ERR_ARG, AnswerBytes
      <4> HIDE DEF c, w
      <4> QED
        BY <4>1, FrameBytes
    <3>4. Way(mh, mrx, toMaster, w)
      BY <3>2
    <3> HIDE DEF w, c
    <3>5. Way(mh, mrx \o Head(toMaster), Tail(toMaster), w)
      BY <1>0, <2>1, <3>3, <3>4, WayDelivered
    <3>6. Done(req, a)' /\ Way(mh', mrx', toMaster', AnswerBytes(req', a))
      BY <2>1, <3>2, <3>5 DEF Done, Owned, w
    <3>7. Answered'
      BY <2>1, <3>1, <3>6 DEF Answered, NoRequestLeft, AnswerBytes, Owned
    <3> QED
      BY <2>1, <3>1, <3>7 DEF LockStep
  <2> QED
    BY <2>1, <2>2 DEF LockInv
<1> QED
  BY <1>1, <1>2

(* Calls that fail end the lock step, and so does noise.                   *)
LEMMA LockFails ==
    ASSUME LockInv, NEW r, CallFails(r) \/ ReturnFails
    PROVE  LockInv'
BY DEF LockInv, CallFails, CallWrites, ReturnFails

LEMMA LockNoise ==
    ASSUME TypeOK, NEW mask, NoiseToSlave(mask) \/ NoiseToMaster(mask)
    PROVE  LockInv'
<1>1. noise' # 0
  BY DEF TypeOK, NoiseToSlave, NoiseToMaster
<1> QED
  BY <1>1 DEF LockInv

LEMMA LockNext ==
    ASSUME TypeOK, LockInv, [Next]_vars
    PROVE  LockInv'
<1>1. ASSUME NEW r \in Requests, Call(r) PROVE LockInv'
  BY <1>1, LockCall
<1>2. ASSUME NEW r \in Requests, CallFails(r) PROVE LockInv'
  BY <1>2, LockFails
<1>3. CASE Return
  BY <1>3, LockReturn
<1>4. CASE ReturnFails
  BY <1>4, LockFails
<1>5. CASE SlaveMain
  BY <1>5, LockSlave
<1>6. CASE DeliverToSlave \/ DeliverToMaster
  BY <1>6, LockDeliver
<1>7. ASSUME NEW mask \in NoiseMasks,
             NoiseToSlave(mask) \/ NoiseToMaster(mask)
      PROVE  LockInv'
  BY <1>7, LockNoise
<1>8. CASE UNCHANGED vars
  BY <1>8 DEF vars, LockInv, LockStep, Truthful, Asked, Answered,
     NoRequestLeft, NoAnswerLeft, Done, Owned, AnswerBytes, RequestBytes,
     RequestArgs
<1> QED
  BY <1>1, <1>2, <1>3, <1>4, <1>5, <1>6, <1>7, <1>8 DEF Next

THEOREM AlwaysLockInv == Spec => []LockInv
<1>1. TypeOK /\ LockInv /\ [Next]_vars => LockInv'
  BY LockNext
<1> QED
  BY <1>1, LockInit, TypeCorrect, PTL DEF Spec

-----------------------------------------------------------------------------
(* Disturbed bytes on the wire.                                            *)

LEMMA XorChanges ==
    ASSUME NEW b \in Byte, NEW mask \in 1 .. 255
    PROVE  Xor(b, mask) # b
<1>1. 0 \in Byte /\ mask \in Byte /\ mask # 0
  BY DEF Byte
<1>2. Xor(b, 0) = b
  BY XorCommutes, XorZero
<1> QED
  BY <1>1, <1>2, XorRight

\* A byte disturbed on the wire is that byte of what the wire carries.
LEMMA DisturbFlows ==
    ASSUME NEW wire \in Seq(Seq(Byte)), wire # << >>,
           NEW i \in 1 .. Len(wire[1]), NEW mask,
           NEW z \in Seq(Byte), Flows(wire, z)
    PROVE  /\ i \in 1 .. Len(z)
           /\ Flows(Disturb(wire, i, mask), [z EXCEPT ![i] = Xor(z[i], mask)])
<1>1. PICK cut \in Cuts : CutOf(wire, cut, z)
  BY DEF Flows
<1> DEFINE n == Len(wire)
           p == wire[1]
           l == Len(p)
           m == Len(z)
           e == Xor(z[i], mask)
           q == [p EXCEPT ![i] = e]
           y == [z EXCEPT ![i] = e]
           new == [wire EXCEPT ![1] = q]
<1>2. /\ cut[1] = l /\ l <= m /\ \A k \in 1 .. l : p[k] = z[k]
      /\ n \in Nat /\ n >= 1 /\ p \in Seq(Byte) /\ l \in Nat /\ m \in Nat
  BY <1>1, FlowsFirst
<1>3. i \in 1 .. l /\ i \in 1 .. m /\ 1 \in 1 .. n
  <2> HIDE DEF m, n
  <2> QED
    BY <1>2
<1>4. e \in Byte
  BY XorType
<1>5. Disturb(wire, i, mask) = new
  <2>1. p[i] = z[i] /\ wire[1] = p
    BY <1>2
  <2> QED
    BY <1>3, <2>1 DEF Disturb
<1> HIDE DEF e
<1>6. /\ q \in Seq(Byte) /\ Len(q) = l
      /\ \A k \in 1 .. l : q[k] = IF k = i THEN e ELSE p[k]
  <2>1. p \in Seq(Byte) /\ i \in 1 .. Len(p) /\ e \in Byte
    BY <1>2, <1>3, <1>4
  <2> HIDE DEF p
  <2> QED
    BY ONLY <2>1, ExceptSeq DEF q, l
<1>7. /\ y \in Seq(Byte) /\ Len(y) = m
      /\ \A k \in 1 .. m : y[k] = IF k = i THEN e ELSE z[k]
  BY <1>3, <1>4, ExceptSeq
<1> HIDE DEF q, y
<1>8. /\ Len(new) = n
      /\ \A j \in 1 .. n : new[j] = IF j = 1 THEN q ELSE wire[j]
  <2> DEFINE T == Seq(Byte)
  <2>1. wire \in Seq(T) /\ q \in T
    BY <1>6
  <2> HIDE DEF T
  <2> QED
    BY <1>3, <2>1, ExceptSeq
<1>9. /\ cut[0] = 0 /\ cut[n] = m
      /\ \A a, b \in 0 .. n : a <= b => cut[a] <= cut[b]
      /\ \A j \in 1 .. n :
            /\ cut[j] = cut[j - 1] + Len(wire[j])
            /\ \A k \in 1 .. Len(wire[j]) :
                  /\ cut[j - 1] + k \in 1 .. m
                  /\ wire[j][k] = z[cut[j - 1] + k]
  BY <1>1 DEF CutOf
<1>10. \A j \in Nat : cut[j] \in Int
  BY DEF Cuts
<1> HIDE DEF n, l, m, new
<1>11. ASSUME NEW j \in 1 .. n
       PROVE  /\ cut[j] = cut[j - 1] + Len(new[j])
              /\ \A k \in 1 .. Len(new[j]) :
                    /\ cut[j - 1] + k \in 1 .. m
                    /\ new[j][k] = y[cut[j - 1] + k]
  <2>1. CASE j = 1
    <3>1. new[1] = q /\ Len(q) = l /\ cut[0] = 0 /\ 1 - 1 = 0 /\ l = Len(wire[1])
      BY <1>3, <1>6, <1>8, <1>9 DEF l
    <3>2. ASSUME NEW k \in 1 .. l
          PROVE  0 + k \in 1 .. m /\ q[k] = y[0 + k]
      <4>1. 0 + k = k /\ k \in 1 .. m
        BY <1>2
      <4> QED
        BY <1>2, <1>6, <1>7, <4>1
    <3> QED
      BY <1>3, <1>9, <2>1, <3>1, <3>2
  <2>2. CASE j # 1
    <3>1. new[j] = wire[j]
      BY <1>8, <2>2
    <3>2. 1 \in 0 .. n /\ j - 1 \in 0 .. n /\ 1 <= j - 1 /\ j - 1 \in Nat
      BY <1>2, <2>2
    <3>3. l <= cut[j - 1] /\ cut[j - 1] \in Int
      BY <1>2, <1>9, <1>10, <3>2
    <3>4. ASSUME NEW k \in 1 .. Len(wire[j])
          PROVE  /\ cut[j - 1] + k \in 1 .. m
                 /\ wire[j][k] = y[cut[j - 1] + k]
      <4>1. cut[j - 1] + k \in 1 .. m /\ wire[j][k] = z[cut[j - 1] + k]
        BY <1>9
      <4>2. cut[j - 1] + k # i
        BY <1>2, <1>3, <3>3
      <4> QED
        BY <1>7, <4>1, <4>2
    <3> QED
      BY <1>9, <3>1, <3>4
  <2> QED
    BY <2>1, <2>2
<1>12. CutOf(new, cut, y)
  BY <1>7, <1>8, <1>9, <1>11 DEF CutOf
<1>13. Flows(new, y)
  BY <1>12 DEF Flows
<1> QED
  BY <1>3, <1>5, <1>13 DEF m, y, e

\* A packet that is a frame, or its bytes, on the wire.
LEMMA PacketsFlow ==
    ASSUME NEW w \in Seq(Byte)
    PROVE  Packets(w) \in Seq(Seq(Byte)) /\ Flows(Packets(w), w)
BY PacketsCut DEF Flows

-----------------------------------------------------------------------------
(***************************************************************************)
(* The first call on whose way a byte is disturbed.  Until it returns, the *)
(* slave, with what comes to it, performs nothing, and what comes to the   *)
(* master is no reply; while there is still something to come to the slave *)
(* it has answered nothing but refusals.                                   *)
(***************************************************************************)
Spoilt ==
    /\ mh.nb = 0
    /\ \E z, v \in Seq(Byte) :
          /\ Flows(toSlave, z) /\ Harmless(sh, srx \o z)
          /\ Flows(toMaster, v) /\ NoReply(mrx \o v)
          /\ srx \o z # << >> => mrx \o v = << >> \/ Refusal(mrx \o v)

SpoiltInv ==
    noise = 1 /\ before = 0 /\ inStep /\ CrcTellsLength =>
        \/ mpc # "reading" /\ outcome.status # "NO_ERROR"
        \/ mpc = "reading" /\ Spoilt

LEMMA SpoiltInit == Init => SpoiltInv
BY DEF Init, SpoiltInv

\* A further call is not the first disturbed, and one that fails tells nothing.
LEMMA SpoiltCall ==
    ASSUME SpoiltInv, NEW r, Call(r) \/ CallFails(r)
    PROVE  SpoiltInv'
BY DEF SpoiltInv, Call, CallFails, CallWrites

\* Whatever the master reads of that, it does not report success.
LEMMA SpoiltReturn ==
    ASSUME TypeOK, SpoiltInv, Return
    PROVE  SpoiltInv'
<1> DEFINE n == ReadLen(mh)
           t == Taken(mrx, n)
           arg == RequestArgs(req)
           m == proto_master_readFrame(mh, t, arg)
<1>1. /\ mpc = "reading" /\ inStep' = (inStep /\ m.decoded)
      /\ outcome' = Outcome(req, m.status, m.arg)
      /\ mpc' = IF m.status = "ABORT" THEN "aborted" ELSE "idle"
      /\ noise' = noise /\ before' = before
  BY DEF Return
<1>2. outcome'.status = m.status /\ mpc' # "reading"
  BY <1>1 DEF Outcome
<1>3. ASSUME noise = 1, before = 0, inStep, CrcTellsLength, m.decoded
      PROVE  m.status # "NO_ERROR"
  <2>1. PICK v \in Seq(Byte) : mh.nb = 0 /\ NoReply(mrx \o v)
    BY <1>1, <1>3 DEF SpoiltInv, Spoilt
  <2> DEFINE y == mrx \o v
             a == Len(mrx)
  <2>2. n \in Nat /\ mrx \in Seq(Byte) /\ arg \in Args /\ mh \in Handle
    BY ReadLenType, RequestType DEF TypeOK
  <2>3. t \in Seq(Byte) /\ Len(t) <= a /\ \A i \in 1 .. Len(t) : t[i] = mrx[i]
    <3> DEFINE k == Least(n, a)
    <3>1. t = SubSeq(mrx, 1, k)
      BY DEF Taken
    <3>2. a \in Nat
      BY <2>2
    <3> HIDE DEF a, n, t
    <3>3. k \in 0 .. a
      BY <2>2, <3>2 DEF Least
    <3>4. \A i \in 1 .. a : mrx[i] \in Byte
      BY <2>2, ElementOfSeq DEF a
    <3> HIDE DEF k
    <3>5. /\ SubSeq(mrx, 1, k) \in Seq(Byte) /\ Len(SubSeq(mrx, 1, k)) = k
          /\ \A i \in 1 .. k : SubSeq(mrx, 1, k)[i] = mrx[i]
      <4>1. \A i \in 1 .. k : mrx[i] \in Byte
        BY <3>2, <3>3, <3>4
      <4>2. 1 \in Int /\ k \in Int /\ (IF 1 <= k THEN k - 1 + 1 ELSE 0) = k
        BY <3>3
      <4>3. \A i \in 1 .. k : 1 + i - 1 = i
        BY <3>3
      <4> QED
        BY <4>1, <4>2, <4>3, SubSeqProperties
    <3> QED
      BY <3>1, <3>2, <3>3, <3>5
  <2>4. /\ y \in Seq(Byte) /\ Len(y) = a + Len(v) /\ Len(v) \in Nat
        /\ \A i \in 1 .. a + Len(v) :
              y[i] = IF i <= a THEN mrx[i] ELSE v[i - a]
    BY <2>2, ConcatProperties
  <2>5. a \in Nat /\ Len(t) \in Nat
    BY <2>2, <2>3
  <2> HIDE DEF n, t, arg, y, a
  <2>6. Len(t) <= Len(y) /\ \A i \in 1 .. Len(t) : t[i] = y[i]
    BY <2>3, <2>4, <2>5
  <2>7. NoReply(y)
    BY <2>1 DEF y
  <2> HIDE DEF m
  <2>8. proto_master_readFrame(mh, t, arg).decoded =>
           proto_master_readFrame(mh, t, arg).status # "NO_ERROR"
    BY <2>1, <2>2, <2>3, <2>4, <2>6, <2>7, MasterDoubts
  <2> QED
    BY <1>3, <2>8 DEF m
<1> HIDE DEF m
<1> QED
  BY <1>1, <1>2, <1>3 DEF SpoiltInv

\* The slave refuses, or waits for more; what it sends is a refusal.
LEMMA SpoiltSlave ==
    ASSUME TypeOK, SpoiltInv, SlaveMain
    PROVE  SpoiltInv'
<1> DEFINE n == ReadLen(sh)
           s == proto_slave_main(sh, regs, Taken(srx, n))
<1>1. /\ srx # << >> /\ srx' = Left(srx, n) /\ sh' = s.hdle
      /\ toMaster' = IF s.reply = << >> THEN toMaster
                     ELSE toMaster \o Packets(s.reply)
      /\ mh' = mh /\ mpc' = mpc /\ outcome' = outcome /\ inStep' = inStep
      /\ noise' = noise /\ before' = before
      /\ toSlave' = toSlave /\ mrx' = mrx
  BY DEF SlaveMain, hostVars
<1>2. ASSUME Spoilt PROVE Spoilt'
  <2>1. PICK z \in Seq(Byte), v \in Seq(Byte) :
           /\ Flows(toSlave, z) /\ Harmless(sh, srx \o z)
           /\ Flows(toMaster, v) /\ NoReply(mrx \o v)
           /\ srx \o z # << >> => mrx \o v = << >> \/ Refusal(mrx \o v)
    BY <1>2 DEF Spoilt
  <2>2. /\ srx \in Seq(Byte) /\ mrx \in Seq(Byte) /\ n \in Nat
        /\ toMaster \in Seq(Seq(Byte)) /\ mh.nb = 0
    BY <1>2, ReadLenType DEF TypeOK, Spoilt
  <2> HIDE DEF n, s
  <2>3. /\ Len(srx) <= ReadLen(sh)
        /\ Declines(proto_slave_main(sh, regs, srx), z, regs)
    <3> DEFINE x == srx \o z
    <3>1. x = srx \o z /\ Harmless(sh, x)
      BY <2>1
    <3> HIDE DEF x
    <3> QED
      BY <1>1, <2>2, <3>1, SlaveDeclines
  <2>4. Taken(srx, n) = srx /\ Left(srx, n) = << >>
    BY <2>2, <2>3, TakeAll DEF n
  <2>5. Declines(s, z, regs) /\ srx' = << >>
    BY <1>1, <2>3, <2>4 DEF s
  <2>6. Harmless(sh', srx' \o z) /\ srx' \o z = z
    BY <1>1, <2>5, ConcatEmptySeq DEF Declines
  <2>7. srx \o z # << >>
    <3> DEFINE a == Len(srx)
               b == Len(z)
    <3>1. a \in Nat /\ b \in Nat /\ a # 0 /\ Len(srx \o z) = a + b
      BY <1>1, <2>2, ConcatProperties
    <3> HIDE DEF a, b
    <3>2. Len(srx \o z) # 0
      BY <3>1
    <3>3. Len(<< >>) = 0
      OBVIOUS
    <3> QED
      BY <3>2, <3>3
  <2>8. mrx \o v = << >> \/ Refusal(mrx \o v)
    BY <2>1, <2>7
  <2>9. CASE s.reply = << >>
    <3>1. toMaster' = toMaster
      BY <1>1, <2>9
    <3> QED
      BY <1>1, <2>1, <2>2, <2>6, <2>8, <3>1 DEF Spoilt
  <2>10. CASE s.reply # << >>
    <3>1. PICK c \in {ERR_CRC, ERR_ARG}, a \in Args : s.reply = WireBytes(c, a)
      BY <2>5, <2>10 DEF Declines
    <3> DEFINE r == s.reply
               y == mrx \o v
    <3>2. c \in 0 .. 4 /\ c # REPLY
      BY DEF ERR_CRC, ERR_ARG, REPLY
    <3>3. IsFrame(r, c, a) /\ r \in Seq(Byte)
      BY <3>1, <3>2, WireIs, FrameBytes
    <3> HIDE DEF r
    <3>4. /\ r[1] = proto_START_OF_FRAME /\ r[3] = c /\ Len(r) \in 4 .. 5
      BY <3>3 DEF IsFrame
    <3>5. /\ Flows(toMaster', v \o r) /\ v \o r \in Seq(Byte)
      <4> DEFINE P == Packets(r)
      <4>1. P \in Seq(Seq(Byte)) /\ Flows(P, r)
        BY <3>3, PacketsFlow
      <4>2. toMaster' = toMaster \o P
        BY <1>1, <2>10 DEF r
      <4> HIDE DEF P
      <4>3. Flows(toMaster \o P, v \o r)
        BY <2>1, <2>2, <3>3, <4>1, FlowsSent
      <4> QED
        BY <3>3, <4>2, <4>3, ConcatProperties
    <3>6. mrx \o (v \o r) = y \o r /\ y \in Seq(Byte)
      <4>1. mrx \in Seq(Byte) /\ v \in Seq(Byte) /\ r \in Seq(Byte)
        BY <2>2, <3>3
      <4> QED
        BY ONLY <4>1, ConcatAssociative, ConcatProperties DEF y
    <3>7. y = << >> \/ Refusal(y)
      BY <2>8
    <3> HIDE DEF y
    <3>8. Refusal(y \o r)
      <4>1. CASE y = << >>
        <5>1. y \o r = r
          BY <3>3, <4>1, ConcatEmptySeq
        <5>2. Len(r) >= 3
          BY <3>4
        <5> QED
          BY <3>2, <3>4, <5>1, <5>2 DEF Refusal
      <4>2. CASE Refusal(y)
        <5> DEFINE d == Len(y)
                   e == Len(r)
        <5>1. d \in Nat /\ e \in Nat /\ d >= 3
          BY <3>3, <3>6, <4>2 DEF Refusal
        <5>2. /\ Len(y \o r) = d + e
              /\ \A i \in 1 .. d + e :
                    (y \o r)[i] = IF i <= d THEN y[i] ELSE r[i - d]
          BY <3>3, <3>6, ConcatProperties
        <5> HIDE DEF d, e
        <5>3. /\ 1 \in 1 .. d + e /\ 3 \in 1 .. d + e /\ 1 <= d /\ 3 <= d
              /\ d + e >= 3
          BY <5>1
        <5>4. (y \o r)[1] = y[1] /\ (y \o r)[3] = y[3]
          BY <5>2, <5>3
        <5> QED
          BY <4>2, <5>2, <5>3, <5>4 DEF Refusal
      <4> QED
        BY <3>7, <4>1, <4>2
    <3>9. /\ Flows(toMaster', v \o r) /\ NoReply(mrx' \o (v \o r))
          /\ Refusal(mrx' \o (v \o r))
      BY <1>1, <3>5, <3>6, <3>8 DEF NoReply
    <3> QED
      BY <1>1, <2>1, <2>2, <2>6, <3>5, <3>9 DEF Spoilt
  <2> QED
    BY <2>9, <2>10
<1> HIDE DEF s
<1> QED
  BY <1>1, <1>2 DEF SpoiltInv

LEMMA SpoiltDeliver ==
    ASSUME TypeOK, SpoiltInv, DeliverToSlave \/ DeliverToMaster
    PROVE  SpoiltInv'
<1>0. /\ srx \in Seq(Byte) /\ mrx \in Seq(Byte)
      /\ toSlave \in Seq(Seq(Byte)) /\ toMaster \in Seq(Seq(Byte))
  BY DEF TypeOK
<1>1. /\ mh' = mh /\ mpc' = mpc /\ outcome' = outcome /\ inStep' = inStep
      /\ noise' = noise /\ before' = before /\ sh' = sh
  BY DEF DeliverToSlave, DeliverToMaster, hostVars, slaveVars
<1>2. ASSUME Spoilt PROVE Spoilt'
  <2>1. PICK z \in Seq(Byte), v \in Seq(Byte) :
           /\ Flows(toSlave, z) /\ Harmless(sh, srx \o z)
           /\ Flows(toMaster, v) /\ NoReply(mrx \o v)
           /\ srx \o z # << >> => mrx \o v = << >> \/ Refusal(mrx \o v)
    BY <1>2 DEF Spoilt
  <2>2. CASE DeliverToSlave
    <3>1. /\ toSlave # << >> /\ srx' = srx \o Head(toSlave)
          /\ toSlave' = Tail(toSlave) /\ toMaster' = toMaster /\ mrx' = mrx
      BY <2>2 DEF DeliverToSlave
    <3>2. PICK y \in Seq(Byte) : /\ Flows(Tail(toSlave), y)
                                 /\ (srx \o Head(toSlave)) \o y = srx \o z
      BY <1>0, <2>1, <3>1, FlowsDelivered
    <3>3. Flows(toSlave', y) /\ srx' \o y = srx \o z
      BY <3>1, <3>2
    <3> QED
      BY <1>1, <1>2, <2>1, <3>1, <3>3 DEF Spoilt
  <2>3. CASE DeliverToMaster
    <3>1. /\ toMaster # << >> /\ mrx' = mrx \o Head(toMaster)
          /\ toMaster' = Tail(toMaster) /\ toSlave' = toSlave /\ srx' = srx
      BY <2>3 DEF DeliverToMaster
    <3>2. PICK y \in Seq(Byte) : /\ Flows(Tail(toMaster), y)
                                 /\ (mrx \o Head(toMaster)) \o y = mrx \o v
      BY <1>0, <2>1, <3>1, FlowsDelivered
    <3>3. Flows(toMaster', y) /\ mrx' \o y = mrx \o v
      BY <3>1, <3>2
    <3> QED
      BY <1>1, <1>2, <2>1, <3>1, <3>3 DEF Spoilt
  <2> QED
    BY <2>2, <2>3
<1> QED
  BY <1>1, <1>2 DEF SpoiltInv

\* What is on its way of a frame w after a byte of it was disturbed.
OneOff(h, x, w, p) ==
    /\ x \in Seq(Byte) /\ h.nb + Len(x) = Len(w)
    /\ p \in 1 .. Len(x) /\ x[p] # w[h.nb + p]
    /\ \A k \in 1 .. Len(x) : k # p => x[k] = w[h.nb + k]

LEMMA DisturbedWay ==
    ASSUME NEW h \in Handle, NEW rx \in Seq(Byte),
           NEW wire \in Seq(Seq(Byte)), wire # << >>,
           NEW i \in 1 .. Len(wire[1]), NEW mask \in 1 .. 255,
           NEW w \in Seq(Byte), Way(h, rx, wire, w)
    PROVE  \E z \in Seq(Byte), p \in Nat :
              Flows(Disturb(wire, i, mask), z) /\ OneOff(h, rx \o z, w, p)
<1>1. PICK v \in Seq(Byte) :
         /\ Flows(wire, v) /\ h.nb + Len(rx) + Len(v) = Len(w)
         /\ \A k \in 1 .. Len(v) : v[k] = w[h.nb + Len(rx) + k]
  BY WayFlows
<1> DEFINE e == Xor(v[i], mask)
           z == [v EXCEPT ![i] = e]
           a == Len(rx)
           b == Len(v)
           c == h.nb
           x == rx \o z
           p == a + i
<1>2. i \in 1 .. b /\ Flows(Disturb(wire, i, mask), z)
  BY <1>1, DisturbFlows
<1>3. v[i] \in Byte /\ e \in Byte /\ e # v[i]
  BY <1>1, <1>2, ElementOfSeq, XorType, XorChanges
<1> HIDE DEF e
<1>4. /\ z \in Seq(Byte) /\ Len(z) = b
      /\ \A k \in 1 .. b : z[k] = IF k = i THEN e ELSE v[k]
  BY <1>1, <1>2, <1>3, ExceptSeq
<1> HIDE DEF z
<1>5. /\ x \in Seq(Byte) /\ Len(x) = a + b
      /\ \A k \in 1 .. a + b : x[k] = IF k <= a THEN rx[k] ELSE z[k - a]
  <2>1. rx \in Seq(Byte) /\ z \in Seq(Byte) /\ Len(z) = b
    BY <1>4
  <2> HIDE DEF b
  <2> QED
    BY ONLY <2>1, ConcatProperties DEF x, a
<1>6. a \in Nat /\ b \in Nat /\ c \in Nat
  BY <1>1 DEF Handle, proto_FRAME_MAXSIZE
<1>7. /\ \A k \in 1 .. a : rx[k] = w[c + k]
      /\ \A k \in 1 .. b : v[k] = w[c + a + k]
      /\ c + a + b = Len(w)
  BY <1>1 DEF Way
<1> HIDE DEF a, b, c, x
<1>8. /\ p \in 1 .. a + b /\ p \in Nat /\ ~(p <= a) /\ p - a = i
      /\ c + p = c + a + i
  BY <1>2, <1>6
<1>9. x[p] # w[c + p]
  BY <1>2, <1>3, <1>4, <1>5, <1>7, <1>8
<1>10. ASSUME NEW k \in 1 .. a + b, k # p PROVE x[k] = w[c + k]
  <2>1. CASE k <= a
    <3>1. k \in 1 .. a
      BY <1>6, <2>1
    <3> QED
      BY <1>5, <1>7, <2>1, <3>1
  <2>2. CASE ~(k <= a)
    <3>1. k - a \in 1 .. b /\ k - a # i /\ c + a + (k - a) = c + k
      BY <1>2, <1>6, <1>10, <2>2
    <3> QED
      BY <1>4, <1>5, <1>7, <2>2, <3>1
  <2> QED
    BY <2>1, <2>2
<1>11. c + (a + b) = Len(w)
  BY <1>6, <1>7
<1> HIDE DEF p
<1>12. OneOff(h, x, w, p)
  BY <1>5, <1>8, <1>9, <1>10, <1>11 DEF OneOff, c
<1> QED
  BY <1>2, <1>4, <1>8, <1>12 DEF x

\* A request disturbed is harmless.
LEMMA RequestSpoilt ==
    ASSUME NEW r \in Requests, CrcTellsLength,
           NEW h \in Handle, Holds(h, RequestBytes(r), h.nb),
           h.nb < Len(RequestBytes(r)),
           NEW x, NEW p, OneOff(h, x, RequestBytes(r), p)
    PROVE  Harmless(h, x)
<1> DEFINE w == RequestBytes(r)
           a == RequestArgs(r)
<1>1. r \in Request
  BY LinkAssumption
<1>2. r.cmd \in 0 .. 4 /\ a \in Args /\ r.cmd \in {SET, GET}
  BY <1>1, RequestArgsType, KnownArgs
<1>3. a[1] = r.reg /\ (r.cmd = SET => a[2] = r.val)
  BY DEF RequestArgs
<1>4. w = WireBytes(r.cmd, a)
  BY DEF RequestBytes
<1> HIDE DEF w, a
<1>5. /\ w \in Seq(Byte) /\ Len(w) \in 4 .. 5
      /\ w[1] = proto_START_OF_FRAME /\ FrameLen(w[3]) = Len(w)
  BY <1>2, <1>4, FrameBytes
<1>6. ASSUME NEW v, NEW q, Disturbed(v, w, q)
      PROVE  NoneIn(v, Len(w), {SET, GET})
  <2>1. CASE r.cmd = SET
    <3>1. getCRC3(SET, a[1], a[2]) # getCRC2(GET, a[1])
      BY <1>3, <2>1 DEF CrcTellsLength
    <3>2. w = WireBytes(SET, a)
      BY <1>4, <2>1
    <3> QED
      BY <1>2, <1>6, <3>1, <3>2, SetDisturbed
  <2>2. CASE r.cmd = GET
    <3> DEFINE c == GET
               cmds == {SET, GET}
    <3>1. w = WireBytes(c, a) /\ c \in {GET, REPLY} /\ c \in cmds
          /\ (cmds = {SET, GET} \/ cmds = {REPLY})
      BY <1>4, <2>2
    <3> HIDE DEF c, cmds
    <3>2. NoneIn(v, Len(w), cmds)
      BY <1>2, <1>6, <3>1, ShortDisturbed
    <3> QED
      BY <3>2 DEF cmds
  <2> QED
    BY <1>2, <2>1, <2>2
<1>7. /\ x \in Seq(Byte) /\ h.nb + Len(x) = Len(w)
      /\ p \in 1 .. Len(x) /\ x[p] # w[h.nb + p]
      /\ \A k \in 1 .. Len(x) : k # p => x[k] = w[h.nb + k]
  BY DEF OneOff, w
<1>8. Holds(h, w, h.nb) /\ h.nb < Len(w)
  BY DEF w
<1> QED
  BY <1>5, <1>6, <1>7, <1>8, HarmlessDisturbed

\* An answer disturbed is no reply.
LEMMA AnswerSpoilt ==
    ASSUME NEW r \in Requests, CrcTellsLength, NEW a, Done(r, a),
           NEW h, h.nb = 0, NEW y, NEW p, OneOff(h, y, AnswerBytes(r, a), p)
    PROVE  NoReply(y)
<1> DEFINE w == AnswerBytes(r, a)
           c == IF Owned(r) THEN REPLY ELSE ERR_ARG
<1>1. a \in Args /\ c \in 0 .. 4 /\ w = WireBytes(c, a)
  BY DEF Done, REPLY, ERR_ARG, AnswerBytes
<1>2. (Owned(r) => c = REPLY) /\ (~Owned(r) => c = ERR_ARG)
  OBVIOUS
<1> HIDE DEF w, c
<1>3. w \in Seq(Byte) /\ Len(w) \in 4 .. 5
  BY <1>1, FrameBytes
<1>4. ASSUME NEW v, NEW q, Disturbed(v, w, q)
      PROVE  NoneIn(v, Len(w), {REPLY})
  <2>1. CASE Owned(r)
    <3> DEFINE cmds == {REPLY}
    <3>1. c \in {GET, REPLY} /\ c \in cmds
          /\ (cmds = {SET, GET} \/ cmds = {REPLY})
      BY <1>2, <2>1
    <3> HIDE DEF cmds
    <3>2. NoneIn(v, Len(w), cmds)
      BY <1>1, <1>4, <3>1, ShortDisturbed
    <3> QED
      BY <3>2 DEF cmds
  <2>2. CASE ~Owned(r)
    <3>1. a[1] = r.reg /\ a[2] \in FifthBytes
      BY <2>2 DEF Done
    <3>2. getCRC3(ERR_ARG, a[1], a[2]) # getCRC2(REPLY, a[1])
      BY <3>1 DEF CrcTellsLength
    <3>3. w = WireBytes(ERR_ARG, a)
      BY <1>1, <1>2, <2>2
    <3> QED
      BY <1>1, <1>4, <3>2, <3>3, RefusalDisturbed
  <2> QED
    BY <2>1, <2>2
<1>5. /\ y \in Seq(Byte) /\ 0 + Len(y) = Len(w)
      /\ p \in 1 .. Len(y) /\ y[p] # w[0 + p]
      /\ \A k \in 1 .. Len(y) : k # p => y[k] = w[0 + k]
  BY DEF OneOff, w
<1>6. /\ Len(y) = Len(w) /\ y[p] # w[p]
      /\ \A k \in 1 .. Len(y) : k # p => y[k] = w[k]
  <2> DEFINE m == Len(y)
  <2>1. m \in Nat /\ 0 + m = m /\ \A k \in 1 .. m : 0 + k = k
    BY <1>5
  <2> HIDE DEF m
  <2>2. p \in 1 .. m
    BY <1>5 DEF m
  <2> QED
    BY <1>5, <2>1, <2>2 DEF m
<1> QED
  BY <1>3, <1>4, <1>5, <1>6, NoReplyDisturbed

\* A byte is disturbed that none was before.
LEMMA SpoiltNoise ==
    ASSUME TypeOK, LockInv, NEW mask \in NoiseMasks,
           NoiseToSlave(mask) \/ NoiseToMaster(mask)
    PROVE  SpoiltInv'
<1>1. /\ noise' = noise + 1 /\ noise \in Nat /\ mask \in 1 .. 255
      /\ mh' = mh /\ mpc' = mpc /\ inStep' = inStep /\ sh' = sh
      /\ srx' = srx /\ mrx' = mrx
  BY LinkAssumption DEF NoiseToSlave, NoiseToMaster, TypeOK, hostVars, slaveVars
<1>2. /\ sh \in Handle /\ mh \in Handle
      /\ srx \in Seq(Byte) /\ mrx \in Seq(Byte)
      /\ toSlave \in Seq(Seq(Byte)) /\ toMaster \in Seq(Seq(Byte))
  BY DEF TypeOK
<1>3. ASSUME noise = 0, inStep, CrcTellsLength
      PROVE  mpc = "reading" /\ Spoilt'
  <2>1. LockStep
    BY <1>3 DEF LockInv
  <2>2. CASE NoiseToSlave(mask)
    <3>1. PICK i \in 1 .. Len(toSlave[1]) :
             /\ toSlave # << >> /\ toSlave' = Disturb(toSlave, i, mask)
             /\ toMaster' = toMaster
      BY <2>2 DEF NoiseToSlave
    <3>2. mpc = "reading" /\ req \in Requests /\ Asked
      BY <2>1, <3>1 DEF LockStep, Answered, NoRequestLeft
    <3> DEFINE w == RequestBytes(req)
    <3>3. w \in Seq(Byte)
      BY <3>2, LinkAssumption, RequestArgsType, FrameBytes DEF RequestBytes
    <3>4. /\ Way(sh, srx, toSlave, w)
          /\ mh.nb = 0 /\ mrx = << >> /\ toMaster = << >>
      BY <3>2 DEF Asked, NoAnswerLeft
    <3>5. Holds(sh, w, sh.nb) /\ sh.nb < Len(w)
      BY <3>4 DEF Way
    <3> HIDE DEF w
    <3>6. PICK z \in Seq(Byte), p \in Nat :
             Flows(toSlave', z) /\ OneOff(sh, srx \o z, w, p)
      BY <1>1, <1>2, <3>1, <3>3, <3>4, DisturbedWay
    <3>7. Harmless(sh, srx \o z)
      <4> DEFINE x == srx \o z
      <4>1. OneOff(sh, x, w, p)
        BY <3>6
      <4> HIDE DEF x
      <4>2. Harmless(sh, x)
        BY <1>2, <1>3, <3>2, <3>5, <4>1, RequestSpoilt DEF w
      <4> QED
        BY <4>2 DEF x
    <3>8. Flows(toMaster', << >>) /\ mrx' \o << >> = << >>
      BY <1>1, <3>1, <3>4, NothingFlows
    <3>9. << >> \in Seq(Byte) /\ NoReply(<< >>)
      BY NothingIsNoReply
    <3>10. Spoilt'
      BY <1>1, <3>4, <3>6, <3>7, <3>8, <3>9 DEF Spoilt
    <3> QED
      BY <3>2, <3>10
  <2>3. CASE NoiseToMaster(mask)
    <3>1. PICK i \in 1 .. Len(toMaster[1]) :
             /\ toMaster # << >> /\ toMaster' = Disturb(toMaster, i, mask)
             /\ toSlave' = toSlave
      BY <2>3 DEF NoiseToMaster
    <3>2. mpc = "reading" /\ req \in Requests /\ Answered
      BY <2>1, <3>1 DEF LockStep, Asked, NoAnswerLeft
    <3>3. PICK a \in Args :
             Done(req, a) /\ Way(mh, mrx, toMaster, AnswerBytes(req, a))
      BY <3>2 DEF Answered
    <3> DEFINE w == AnswerBytes(req, a)
    <3>4. w \in Seq(Byte)
      <4> DEFINE c == IF Owned(req) THEN REPLY ELSE ERR_ARG
      <4>1. c \in 0 .. 4 /\ w = WireBytes(c, a)
        BY DEF REPLY, ERR_ARG, AnswerBytes
      <4> HIDE DEF c, w
      <4> QED
        BY <4>1, FrameBytes
    <3>5. /\ mh.nb = 0 /\ sh.nb = 0 /\ srx = << >> /\ toSlave = << >>
          /\ Way(mh, mrx, toMaster, w)
      BY <3>2, <3>3 DEF Answered, NoRequestLeft
    <3> HIDE DEF w
    <3>6. PICK z \in Seq(Byte), p \in Nat :
             Flows(toMaster', z) /\ OneOff(mh, mrx \o z, w, p)
      BY <1>1, <1>2, <3>1, <3>4, <3>5, DisturbedWay
    <3>7. NoReply(mrx \o z)
      <4> DEFINE y == mrx \o z
      <4>1. OneOff(mh, y, w, p)
        BY <3>6
      <4> HIDE DEF y
      <4>2. NoReply(y)
        BY <1>3, <3>2, <3>3, <3>5, <4>1, AnswerSpoilt DEF w
      <4> QED
        BY <4>2 DEF y
    <3>8. Flows(toSlave', << >>) /\ srx' \o << >> = << >>
      BY <1>1, <3>1, <3>5, NothingFlows
    <3>9. << >> \in Seq(Byte) /\ Harmless(sh, << >>)
      <4> DEFINE z0 == << >>
      <4>1. z0 \in Seq(Byte) /\ Len(z0) <= 3
        OBVIOUS
      <4> HIDE DEF z0
      <4>2. Harmless(sh, z0)
        BY <1>2, <3>5, <4>1, EmptyHarmless
      <4> QED
        BY <4>1, <4>2 DEF z0
    <3>10. Spoilt'
      BY <1>1, <3>5, <3>6, <3>7, <3>8, <3>9 DEF Spoilt
    <3> QED
      BY <3>2, <3>10
  <2> QED
    BY <2>2, <2>3
<1>4. noise' = 1 => noise = 0
  BY <1>1
<1> QED
  BY <1>1, <1>3, <1>4 DEF SpoiltInv

LEMMA SpoiltNext ==
    ASSUME TypeOK, LockInv, SpoiltInv, [Next]_vars
    PROVE  SpoiltInv'
<1>1. CASE \E r \in Requests : Call(r) \/ CallFails(r)
  BY <1>1, SpoiltCall
<1>2. CASE Return
  BY <1>2, SpoiltReturn
<1>3. ASSUME ReturnFails PROVE SpoiltInv'
  BY <1>3 DEF SpoiltInv, ReturnFails
<1>4. CASE SlaveMain
  BY <1>4, SpoiltSlave
<1>5. CASE DeliverToSlave \/ DeliverToMaster
  BY <1>5, SpoiltDeliver
<1>6. CASE \E mask \in NoiseMasks : NoiseToSlave(mask) \/ NoiseToMaster(mask)
  BY <1>6, SpoiltNoise
<1>7. CASE UNCHANGED vars
  BY <1>7 DEF vars, SpoiltInv, Spoilt
<1> QED
  BY <1>1, <1>2, <1>3, <1>4, <1>5, <1>6, <1>7 DEF Next

THEOREM AlwaysSpoiltInv == Spec => []SpoiltInv
<1>1. TypeOK /\ LockInv /\ SpoiltInv /\ [Next]_vars => SpoiltInv'
  BY SpoiltNext
<1> QED
  BY <1>1, SpoiltInit, TypeCorrect, AlwaysLockInv, PTL DEF Spec

LEMMA LockImplies ==
    ASSUME TypeOK, LockInv, SpoiltInv
    PROVE  NoFalseSuccess /\ InvalidArgMeansNoRegister
<1>1. Registers(regs) = 0 .. NbRegs - 1
  BY DEF TypeOK, Registers
<1>2. noise = 0 /\ mpc = "idle" /\ inStep => Truthful
  BY DEF LockInv, LockStep
<1>3. before = 0 /\ noise = 1 /\ CrcTellsLength /\ mpc = "idle" /\ inStep =>
         outcome.status # "NO_ERROR"
  BY DEF SpoiltInv
<1> QED
  BY <1>1, <1>2, <1>3 DEF NoFalseSuccess, InvalidArgMeansNoRegister, Truthful,
     Owned

(* A call of proto_master_get or _set in lock step that returns             *)
(* proto_NO_ERROR did what it says, if no byte was disturbed; and in the    *)
(* first call on whose way one is, it does not return that, when the CRC    *)
(* tells the lengths (property NoFalseSuccess).                             *)
THEOREM SuccessIsTrue == Spec => []NoFalseSuccess
<1>1. TypeOK /\ LockInv /\ SpoiltInv => NoFalseSuccess
  BY LockImplies
<1> QED
  BY <1>1, TypeCorrect, AlwaysLockInv, AlwaysSpoiltInv, PTL

(* Until a byte is disturbed, proto_INVALID_ARG is returned in lock step   *)
(* only for a register that does not exist (property                       *)
(* InvalidArgMeansNoRegister).                                             *)
THEOREM InvalidArgIsTrue == Spec => []InvalidArgMeansNoRegister
<1>1. TypeOK /\ LockInv /\ SpoiltInv => InvalidArgMeansNoRegister
  BY LockImplies
<1> QED
  BY <1>1, TypeCorrect, AlwaysLockInv, AlwaysSpoiltInv, PTL

-----------------------------------------------------------------------------
(***************************************************************************)
(* While no byte is disturbed, and if no request holds the start of frame  *)
(* but at its start, the slave makes nothing of the stream but the         *)
(* requests that are in it: whatever the link cuts or delays, and whatever *)
(* a master that gave up leaves in it.  The invariant: what the slave's    *)
(* handle, its buffer and the wire hold, in this order, is a stream of the *)
(* frames of later and later calls, all of them later than those applied.  *)
(***************************************************************************)
StartsFrameOnce(r) ==
    \A i \in 2 .. FrameLen(r.cmd) : RequestBytes(r)[i] # proto_START_OF_FRAME

\* Applied are writes asked for by the calls call[1] < call[2] < ...
AppliedFor(call) ==
    /\ \A i, j \in 1 .. Len(applied) : i < j => call[i] < call[j]
    /\ \A i \in 1 .. Len(applied) :
          /\ issued[call[i]].cmd = SET
          /\ applied[i] = <<issued[call[i]].reg, issued[call[i]].val>>

Streaming ==
    \E T \in Seq(Tags), cut \in Cuts,
       call \in [1 .. Len(applied) -> 1 .. Len(issued)] :
        /\ OnStream(sh, srx, toSlave, T, cut, issued)
        /\ AppliedFor(call)
        /\ \A i \in 1 .. Len(applied), j \in 1 .. Len(T) : call[i] < T[j][1]

StreamInv ==
    /\ StartsOnce(issued)
    /\ noise = 0 => refused = 0 /\ Streaming

LEMMA StartsKept ==
    ASSUME NEW R \in Seq(Request), StartsOnce(R), NEW r \in Request,
           StartsFrameOnce(r)
    PROVE  StartsOnce(Append(R, r))
<1> DEFINE Q == Append(R, r)
           n == Len(R)
<1>1. /\ Len(Q) = n + 1 /\ n \in Nat
      /\ \A c \in 1 .. n : /\ Frames(Q)[c] = Frames(R)[c]
                           /\ FrameSize(Q, c) = FrameSize(R, c)
      /\ Frames(Q)[n + 1] = RequestBytes(r)
      /\ FrameSize(Q, n + 1) = FrameLen(r.cmd)
  BY FramesKept DEF RequestBytes
<1>2. \A c \in 1 .. n : \A i \in 2 .. FrameSize(R, c) :
         Frames(R)[c][i] # proto_START_OF_FRAME
  BY DEF StartsOnce
<1> HIDE DEF Q, n
<1>3. \A c \in 1 .. n + 1 : c \in 1 .. n \/ c = n + 1
  BY <1>1
<1>4. ASSUME NEW c \in 1 .. n + 1, NEW i \in 2 .. FrameSize(Q, c)
      PROVE  Frames(Q)[c][i] # proto_START_OF_FRAME
  <2>1. CASE c \in 1 .. n
    BY <1>1, <1>2, <2>1
  <2>2. CASE c = n + 1
    BY <1>1, <2>2 DEF StartsFrameOnce
  <2> QED
    BY <1>3, <2>1, <2>2
<1> QED
  BY <1>1, <1>4 DEF StartsOnce, Q

LEMMA StreamInit == Init => StreamInv
<1> SUFFICES ASSUME Init PROVE StreamInv
  OBVIOUS
<1>1. /\ issued = << >> /\ applied = << >> /\ srx = << >> /\ toSlave = << >>
      /\ sh \in Handle /\ sh.nb = 0 /\ refused = 0
      /\ Len(issued) = 0 /\ Len(applied) = 0 /\ Len(srx) = 0
      /\ Len(toSlave) = 0
  BY InitType DEF Init, proto_init
<1>2. \A n \in 1 .. 0 : FALSE
  OBVIOUS
<1>3. StartsOnce(issued)
  BY <1>1, <1>2 DEF StartsOnce
<1> DEFINE T == << >>
           cut == [i \in Nat |-> 0]
           call == [i \in 1 .. Len(applied) |-> 1]
<1>4. T \in Seq(Tags) /\ Len(T) = 0
  OBVIOUS
<1>5. cut \in Cuts /\ cut[0] = 0
  BY DEF Cuts
<1>6. call \in [1 .. Len(applied) -> 1 .. Len(issued)]
  BY <1>1, <1>2
<1> HIDE DEF T, cut, call
<1>7. OnStream(sh, srx, toSlave, T, cut, issued)
  <2>1. Tagged(T, issued)
    BY <1>2, <1>4 DEF Tagged
  <2>2. HeldPart(sh, T, issued)
    BY <1>1, <1>2, <1>4 DEF HeldPart
  <2>3. InBuffer(srx, sh.nb, T, issued)
    BY <1>1, <1>2, <1>4 DEF InBuffer
  <2>4. OnWire(toSlave, cut, T, issued)
    <3>1. \A i \in 0 .. 0 : i = 0
      OBVIOUS
    <3>2. \A i, j \in 0 .. 0 : cut[i] <= cut[j]
      BY <1>5, <3>1
    <3> QED
      BY <1>1, <1>2, <1>4, <1>5, <3>2 DEF OnWire
  <2> QED
    BY <1>1, <1>5, <2>1, <2>2, <2>3, <2>4 DEF OnStream
<1>8. AppliedFor(call)
  BY <1>1, <1>2 DEF AppliedFor
<1>9. Streaming
  BY <1>1, <1>2, <1>4, <1>5, <1>6, <1>7, <1>8 DEF Streaming
<1> QED
  BY <1>1, <1>3, <1>9 DEF StreamInv

\* A further call keeps what was applied for the earlier ones.
LEMMA AppliedKept ==
    ASSUME TypeOK, NEW r \in Request, issued' = Append(issued, r),
           applied' = applied,
           NEW call \in [1 .. Len(applied) -> 1 .. Len(issued)],
           AppliedFor(call)
    PROVE  /\ call \in [1 .. Len(applied)' -> 1 .. Len(issued)']
           /\ AppliedFor(call)'
           /\ \A i \in 1 .. Len(applied) : call[i] \in 1 .. Len(issued)
<1>1. /\ Len(issued') = Len(issued) + 1 /\ Len(issued) \in Nat
      /\ \A c \in 1 .. Len(issued) : issued'[c] = issued[c]
  BY AppendProperties DEF TypeOK
<1>2. \A i \in 1 .. Len(applied) : call[i] \in 1 .. Len(issued)
  OBVIOUS
<1>3. 1 .. Len(issued) \subseteq 1 .. Len(issued')
  BY <1>1
<1>4. call \in [1 .. Len(applied') -> 1 .. Len(issued')]
  BY <1>3
<1>5. AppliedFor(call)'
  BY <1>1, <1>2 DEF AppliedFor
<1> QED
  BY <1>2, <1>4, <1>5

LEMMA StreamCall ==
    ASSUME TypeOK, StreamInv, NEW r \in Requests, Call(r), StartsFrameOnce(r)
    PROVE  StreamInv'
<1> DEFINE w == RequestBytes(r)
           P == Packets(w)
           c == Len(issued) + 1
<1>1. /\ r \in Request /\ issued \in Seq(Request) /\ srx \in Seq(Byte)
      /\ toSlave \in Seq(Seq(Byte))
  BY LinkAssumption DEF TypeOK
<1>2. /\ issued' = Append(issued, r) /\ toSlave' = toSlave \o P
      /\ sh' = sh /\ srx' = srx /\ applied' = applied /\ refused' = refused
      /\ noise' = noise
  BY DEF Call, CallWrites, slaveVars, RequestBytes
<1>3. StartsOnce(issued')
  BY <1>1, <1>2, StartsKept DEF StreamInv
<1>4. ASSUME noise = 0 PROVE refused = 0 /\ Streaming'
  <2>1. PICK T \in Seq(Tags), cut \in Cuts,
             call \in [1 .. Len(applied) -> 1 .. Len(issued)] :
                /\ OnStream(sh, srx, toSlave, T, cut, issued)
                /\ AppliedFor(call)
                /\ \A i \in 1 .. Len(applied), j \in 1 .. Len(T) :
                      call[i] < T[j][1]
    BY <1>4 DEF StreamInv, Streaming
  <2>2. w \in Seq(Byte) /\ w = WireBytes(r.cmd, RequestArgs(r))
    BY <1>1, RequestArgsType, Wire DEF RequestBytes
  <2> HIDE DEF w
  <2>3. P \in Seq(Seq(Byte)) /\ \E cp \in Cuts : CutOf(P, cp, w)
    BY <2>2, PacketsCut
  <2> HIDE DEF P
  <2>4. PICK cp \in Cuts : CutOf(P, cp, WireBytes(r.cmd, RequestArgs(r)))
    BY <2>2, <2>3
  <2> DEFINE U == T \o FrameTags(Len(issued) + 1, FrameLen(r.cmd))
  <2>5. /\ U \in Seq(Tags)
        /\ \E new \in Cuts :
              OnStream(sh, srx, toSlave \o P, U, new, Append(issued, r))
        /\ \A j \in 1 .. Len(U) : \/ U[j][1] = Len(issued) + 1
                                  \/ j <= Len(T) /\ U[j] = T[j]
    BY <1>1, <2>1, <2>3, <2>4, StreamSent
  <2> HIDE DEF U
  <2>6. PICK new \in Cuts : OnStream(sh', srx', toSlave', U, new, issued')
    BY <1>2, <2>5
  <2>7. /\ call \in [1 .. Len(applied)' -> 1 .. Len(issued)']
        /\ AppliedFor(call)'
        /\ \A i \in 1 .. Len(applied) : call[i] \in 1 .. Len(issued)
    BY <1>1, <1>2, <2>1, AppliedKept
  <2>8. ASSUME NEW i \in 1 .. Len(applied), NEW j \in 1 .. Len(U)
        PROVE  call[i] < U[j][1]
    <3>1. CASE U[j][1] = Len(issued) + 1
      <4> DEFINE n == Len(issued)
                 a == call[i]
      <4>1. n \in Nat /\ a \in 1 .. n
        BY <1>1, <2>7
      <4> HIDE DEF n, a
      <4>2. a < n + 1
        BY <4>1
      <4> QED
        BY <3>1, <4>2 DEF n, a
    <3>2. CASE j <= Len(T) /\ U[j] = T[j]
      <4>1. j \in 1 .. Len(T)
        <5> DEFINE m == Len(T)
                   v == Len(U)
        <5>1. m \in Nat /\ v \in Nat /\ j \in 1 .. v /\ j <= m
          BY <2>5, <3>2
        <5> HIDE DEF m, v
        <5>2. j \in 1 .. m
          BY <5>1
        <5> QED
          BY <5>2 DEF m
      <4> QED
        BY <2>1, <3>2, <4>1
    <3> QED
      BY <2>5, <3>1, <3>2
  <2>9. Streaming'
    <3>1. \A i \in 1 .. Len(applied)', j \in 1 .. Len(U) : call[i] < U[j][1]
      BY <1>2, <2>8
    <3> QED
      BY <2>5, <2>6, <2>7, <3>1 DEF Streaming
  <2> QED
    BY <1>4, <2>9 DEF StreamInv
<1> QED
  BY <1>2, <1>3, <1>4 DEF StreamInv

\* The device's write fails: the call was made, nothing is sent.
LEMMA StreamCallFails ==
    ASSUME TypeOK, StreamInv, NEW r \in Requests, CallFails(r),
           StartsFrameOnce(r)
    PROVE  StreamInv'
<1>1. /\ r \in Request /\ issued \in Seq(Request) /\ srx \in Seq(Byte)
      /\ toSlave \in Seq(Seq(Byte))
  BY LinkAssumption DEF TypeOK
<1>2. /\ issued' = Append(issued, r) /\ toSlave' = toSlave
      /\ sh' = sh /\ srx' = srx /\ applied' = applied /\ refused' = refused
      /\ noise' = noise
  BY DEF CallFails, CallWrites, slaveVars
<1>3. StartsOnce(issued')
  BY <1>1, <1>2, StartsKept DEF StreamInv
<1>4. ASSUME noise = 0 PROVE refused = 0 /\ Streaming'
  <2>1. PICK T \in Seq(Tags), cut \in Cuts,
             call \in [1 .. Len(applied) -> 1 .. Len(issued)] :
                /\ OnStream(sh, srx, toSlave, T, cut, issued)
                /\ AppliedFor(call)
                /\ \A i \in 1 .. Len(applied), j \in 1 .. Len(T) :
                      call[i] < T[j][1]
    BY <1>4 DEF StreamInv, Streaming
  <2>2. OnStream(sh', srx', toSlave', T, cut, issued')
    BY <1>1, <1>2, <2>1, StreamKept
  <2>3. /\ call \in [1 .. Len(applied)' -> 1 .. Len(issued)']
        /\ AppliedFor(call)'
    BY <1>1, <1>2, <2>1, AppliedKept
  <2>4. \A i \in 1 .. Len(applied)', j \in 1 .. Len(T) : call[i] < T[j][1]
    BY <1>2, <2>1
  <2>5. Streaming'
    BY <2>2, <2>3, <2>4 DEF Streaming
  <2> QED
    BY <1>4, <2>5 DEF StreamInv
<1> QED
  BY <1>2, <1>3, <1>4 DEF StreamInv

LEMMA StreamDeliver ==
    ASSUME TypeOK, StreamInv, DeliverToSlave
    PROVE  StreamInv'
<1>1. /\ toSlave # << >> /\ srx' = srx \o Head(toSlave)
      /\ toSlave' = Tail(toSlave)
      /\ issued' = issued /\ sh' = sh /\ applied' = applied
      /\ refused' = refused /\ noise' = noise
  BY DEF DeliverToSlave, hostVars, slaveVars
<1>2. sh \in Handle /\ srx \in Seq(Byte) /\ toSlave \in Seq(Seq(Byte))
  BY DEF TypeOK
<1>3. ASSUME noise = 0 PROVE Streaming'
  <2>1. PICK T \in Seq(Tags), cut \in Cuts,
             call \in [1 .. Len(applied) -> 1 .. Len(issued)] :
                /\ OnStream(sh, srx, toSlave, T, cut, issued)
                /\ AppliedFor(call)
                /\ \A i \in 1 .. Len(applied), j \in 1 .. Len(T) :
                      call[i] < T[j][1]
    BY <1>3 DEF StreamInv, Streaming
  <2> DEFINE new == [i \in Nat |-> cut[i + 1]]
  <2>2. new \in Cuts
    BY DEF Cuts
  <2>3. OnStream(sh', srx', toSlave', T, new, issued')
    BY <1>1, <1>2, <2>1, StreamDelivered
  <2> HIDE DEF new
  <2>4. AppliedFor(call)'
    BY <1>1, <2>1 DEF AppliedFor
  <2>5. /\ call \in [1 .. Len(applied)' -> 1 .. Len(issued)']
        /\ \A i \in 1 .. Len(applied)', j \in 1 .. Len(T) : call[i] < T[j][1]
    BY <1>1, <2>1
  <2> QED
    BY <2>2, <2>3, <2>4, <2>5 DEF Streaming
<1> QED
  BY <1>1, <1>3 DEF StreamInv

LEMMA StreamUnchanged ==
    ASSUME StreamInv, UNCHANGED <<sh, srx, toSlave, issued, applied, refused>>,
           noise' = noise
    PROVE  StreamInv'
<1>1. Streaming => Streaming'
  <2> SUFFICES ASSUME Streaming PROVE Streaming'
    OBVIOUS
  <2>1. PICK T \in Seq(Tags), cut \in Cuts,
             call \in [1 .. Len(applied) -> 1 .. Len(issued)] :
                /\ OnStream(sh, srx, toSlave, T, cut, issued)
                /\ AppliedFor(call)
                /\ \A i \in 1 .. Len(applied), j \in 1 .. Len(T) :
                      call[i] < T[j][1]
    BY DEF Streaming
  <2>2. OnStream(sh', srx', toSlave', T, cut, issued')
    BY <2>1
  <2>3. AppliedFor(call)'
    BY <2>1 DEF AppliedFor
  <2>4. /\ call \in [1 .. Len(applied)' -> 1 .. Len(issued)']
        /\ \A i \in 1 .. Len(applied)', j \in 1 .. Len(T) : call[i] < T[j][1]
    BY <2>1
  <2> QED
    BY <2>2, <2>3, <2>4 DEF Streaming
<1> QED
  BY <1>1 DEF StreamInv

\* An iteration of the slave: it waits for more, or serves the call whose
\* frame it read the end of.
LEMMA StreamSlave ==
    ASSUME TypeOK, StreamInv, SlaveMain
    PROVE  StreamInv'
<1> DEFINE b == Least(ReadLen(sh), Len(srx))
           buf == Taken(srx, ReadLen(sh))
           x == proto_slave_main(sh, regs, buf)
<1>1. /\ srx # << >>
      /\ srx' = SubSeq(srx, b + 1, Len(srx)) /\ buf = SubSeq(srx, 1, b)
      /\ issued' = issued /\ toSlave' = toSlave /\ noise' = noise
  BY DEF SlaveMain, Left, Taken, hostVars
<1>2. /\ sh' = x.hdle /\ applied' = applied \o x.writes
      /\ refused' = refused + (IF x.result = "REFUSED" THEN 1 ELSE 0)
  BY DEF SlaveMain
<1>3. /\ issued \in Seq(Request) /\ srx \in Seq(Byte) /\ sh \in Handle
      /\ toSlave \in Seq(Seq(Byte)) /\ applied \in Seq(Byte \X Byte)
      /\ regs \in [0 .. NbRegs - 1 -> Byte] /\ NbRegs \in Nat
      /\ Len(srx) \in Nat /\ Len(applied) \in Nat /\ Len(issued) \in Nat
  BY LinkAssumption DEF TypeOK
<1> HIDE DEF x
<1>4. ASSUME noise = 0 PROVE refused' = 0 /\ Streaming'
  <2>1. PICK T \in Seq(Tags), cut \in Cuts,
             call \in [1 .. Len(applied) -> 1 .. Len(issued)] :
                /\ OnStream(sh, srx, toSlave, T, cut, issued)
                /\ AppliedFor(call)
                /\ \A i \in 1 .. Len(applied), j \in 1 .. Len(T) :
                      call[i] < T[j][1]
    BY <1>4 DEF StreamInv, Streaming
  <2>2. /\ Tagged(T, issued) /\ HeldPart(sh, T, issued)
        /\ InBuffer(srx, sh.nb, T, issued)
        /\ StartsOnce(issued)
    BY <2>1 DEF OnStream, StreamInv
  <2> DEFINE a == Len(srx)
             k == sh.nb
             m == Len(T)
  <2>3. /\ k \in 0 .. 4 /\ a \in Nat /\ a > 0 /\ m \in Nat /\ k + a <= m
        /\ ReadLen(sh) = 5 - k
    <3>1. k > 0 => k < FrameSize(issued, T[1][1])
                   /\ FrameSize(issued, T[1][1]) \in 4 .. 5
      <4>1. ASSUME k > 0 PROVE T[1][1] \in 1 .. Len(issued) /\ k < FrameSize(issued, T[1][1])
        <5>1. 1 \in 1 .. Len(T)
          <6>1. m \in Nat /\ k \in Nat /\ k <= m
            BY <2>2 DEF HeldPart, Handle
          <6> HIDE DEF m, k
          <6>2. 1 \in 1 .. m
            BY <4>1, <6>1
          <6> QED
            BY <6>2 DEF m
        <5> QED
          BY <2>2, <4>1, <5>1 DEF Tagged, HeldPart
      <4> QED
        BY <1>3, <4>1, FrameOf
    <3>2. k \in 0 .. 5 /\ ReadLen(sh) = 5 - k
      BY <1>3 DEF Handle, proto_FRAME_MAXSIZE, ReadLen
    <3>3. a \in Nat /\ a # 0
      BY <1>1, <1>3
    <3>4. m \in Nat /\ k + a <= m
      BY <2>2 DEF InBuffer
    <3> HIDE DEF a, m, k
    <3> QED
      BY <3>1, <3>2, <3>3, <3>4
  <2>4. b \in 1 .. a /\ b \in Nat
    <3>1. b = Least(5 - k, a)
      BY <2>3
    <3> HIDE DEF a, k, b
    <3> QED
      BY <2>3, <3>1 DEF Least
  <2>5. /\ buf \in Seq(Byte) /\ Len(buf) = b
        /\ \A i \in 1 .. b : buf[i] = srx[i]
    <3> HIDE DEF b, buf
    <3>1. 1 \in Int /\ b \in Int /\ \A i \in 1 .. b : srx[i] \in Byte
      <4>1. \A i \in 1 .. b : i \in 1 .. a
        <5> HIDE DEF a
        <5> QED
          BY <2>3, <2>4
      <4> QED
        BY <1>3, <2>4, <4>1, ElementOfSeq
    <3> DEFINE y == SubSeq(srx, 1, b)
    <3>2. /\ y \in Seq(Byte)
          /\ Len(y) = IF 1 <= b THEN b - 1 + 1 ELSE 0
          /\ \A i \in 1 .. b - 1 + 1 : y[i] = srx[1 + i - 1]
      BY <3>1, SubSeqProperties
    <3> HIDE DEF y
    <3>3. b - 1 + 1 = b /\ \A i \in 1 .. b : 1 + i - 1 = i
      BY <2>4
    <3> QED
      BY <1>1, <2>3, <2>4, <3>2, <3>3 DEF y
  <2> HIDE DEF b, buf
  <2>6. Reads(buf, sh, T, issued)
    <3>1. \A i \in 1 .. b : i \in 1 .. a
      <4> HIDE DEF a
      <4> QED
        BY <2>3, <2>4
    <3>2. \A i \in 1 .. b : buf[i] = TagByte(issued, T[k + i])
      BY <2>2, <2>5, <3>1 DEF InBuffer
    <3>3. k + b <= m
      <4> HIDE DEF a, k, m
      <4> QED
        BY <2>3, <2>4
    <3>4. Len(buf) # 0
      BY <2>4, <2>5
    <3> QED
      BY <2>5, <3>2, <3>3, <3>4 DEF Reads
  <2>7. PICK u \in 0 .. Len(T) :
              /\ u <= sh.nb + b /\ sh.nb + b = u + x.hdle.nb
              /\ \/ Waited(x, u, T, issued, regs)
                 \/ Served(x, u, T, issued, NbRegs, regs)
    <3>1. \E u \in 0 .. Len(T) :
              LET y == proto_slave_main(sh, regs, buf)
              IN  /\ u <= sh.nb + Len(buf)
                  /\ sh.nb + Len(buf) = u + y.hdle.nb
                  /\ \/ Waited(y, u, T, issued, regs)
                     \/ Served(y, u, T, issued, NbRegs, regs)
      BY <1>3, <2>2, <2>6, SlaveReads
    <3> QED
      BY <2>5, <3>1 DEF x
  <2> DEFINE D == Dropped(T, u)
             new == [i \in Nat |-> cut[i] - u]
  <2>8. /\ D \in Seq(Tags) /\ Len(D) = m - u
        /\ \A i \in 1 .. m - u : D[i] = T[u + i]
    BY <2>2, TaggedDropped
  <2>9. new \in Cuts
    <3>1. u \in Int
      OBVIOUS
    <3> QED
      BY <3>1 DEF Cuts
  <2>10. HeldPart(x.hdle, D, issued)
    <3>1. CASE Waited(x, u, T, issued, regs)
      BY <3>1 DEF Waited
    <3>2. CASE Served(x, u, T, issued, NbRegs, regs)
      <4>1. x.hdle \in Handle /\ x.hdle.nb = 0
        BY <3>2 DEF Served, Serves
      <4>2. 0 <= Len(D) /\ ~(0 > 0) /\ \A i \in 1 .. 0 : FALSE
        BY <2>8
      <4> HIDE DEF D
      <4> QED
        BY <4>1, <4>2 DEF HeldPart
    <3> QED
      BY <2>7, <3>1, <3>2
  <2>11. OnStream(sh', srx', toSlave', D, new, issued')
    <3>1. b \in 0 .. Len(srx)
      <4> HIDE DEF a
      <4>1. b \in 0 .. a
        BY <2>3, <2>4
      <4> QED
        BY <4>1 DEF a
    <3>2. u <= sh.nb + b /\ sh.nb + b = u + x.hdle.nb
      BY <2>7
    <3> DEFINE g == x.hdle
    <3>3. sh' = g
      BY <1>2
    <3>4. /\ HeldPart(g, Dropped(T, u), issued)
          /\ sh.nb + b = u + g.nb
      BY <2>10, <3>2
    <3> HIDE DEF g
    <3>5. OnStream(g, SubSeq(srx, b + 1, Len(srx)), toSlave, D, new, issued)
      BY <1>3, <2>1, <3>1, <3>2, <3>4, StreamRead
    <3> QED
      BY <1>1, <3>3, <3>5
  <2> HIDE DEF D, new
  <2>12. \A j \in 1 .. Len(D) : u + j \in 1 .. m /\ u + j \in u + 1 .. m
                               /\ D[j] = T[u + j]
    <3> HIDE DEF m
    <3>1. \A j \in 1 .. m - u : u + j \in 1 .. m /\ u + j \in u + 1 .. m
      BY <2>3
    <3> QED
      BY <2>8, <3>1
  <2>13. CASE x.writes = << >> /\ x.result # "REFUSED"
    <3>1. applied' = applied /\ refused' = 0
      <4>1. refused = 0
        BY <1>4 DEF StreamInv
      <4>2. applied \o << >> = applied
        BY <1>3
      <4> QED
        BY <1>2, <2>13, <4>1, <4>2
    <3>2. \A i \in 1 .. Len(applied), j \in 1 .. Len(D) : call[i] < D[j][1]
      BY <2>1, <2>12
    <3>3. AppliedFor(call)'
      BY <1>1, <2>1, <3>1 DEF AppliedFor
    <3>4. Streaming'
      <4>1. /\ call \in [1 .. Len(applied)' -> 1 .. Len(issued)']
            /\ \A i \in 1 .. Len(applied)', j \in 1 .. Len(D) :
                  call[i] < D[j][1]
        BY <1>1, <3>1, <3>2
      <4> QED
        BY <2>8, <2>9, <2>11, <3>3, <4>1 DEF Streaming
    <3> QED
      BY <3>1, <3>4
  <2>14. CASE Served(x, u, T, issued, NbRegs, regs) /\ x.writes # << >>
    <3>1. PICK c \in 1 .. Len(issued) :
              /\ Serves(x, NbRegs, regs, issued[c])
              /\ \E i \in 1 .. Len(T) : T[i][1] = c
              /\ \A j \in u + 1 .. Len(T) : c < T[j][1]
      BY <2>14 DEF Served
    <3> DEFINE r == issued[c]
               e == <<r.reg, r.val>>
    <3>2. /\ r.cmd = SET /\ x.writes = <<e>> /\ x.result = "SERVED"
      BY <2>14, <3>1 DEF Serves
    <3>3. applied' = applied \o <<e>> /\ refused' = 0
      <4>1. refused = 0
        BY <1>4 DEF StreamInv
      <4> QED
        BY <1>2, <3>2, <4>1
    <3> DEFINE n == Len(applied)
    <3>4. /\ Len(applied') = n + 1
          /\ \A i \in 1 .. n : applied'[i] = applied[i]
          /\ applied'[n + 1] = e
      <4>1. e \in Byte \X Byte
        <5>1. r \in Request
          BY <1>3, ElementOfSeq
        <5> HIDE DEF r
        <5> QED
          BY <5>1 DEF Request
      <4> HIDE DEF e
      <4>2. applied' = Append(applied, e)
        BY <1>3, <3>3, <4>1
      <4> QED
        BY <1>3, <4>1, <4>2, AppendProperties
    <3> HIDE DEF e
    <3> DEFINE call2 == [i \in 1 .. n + 1 |-> IF i <= n THEN call[i] ELSE c]
    <3>5. n \in Nat /\ \A i \in 1 .. n : call[i] \in 1 .. Len(issued)
      BY <1>3
    <3>6. \A i \in 1 .. n : call[i] < c
      <4>1. PICK v \in 1 .. Len(T) : T[v][1] = c
        BY <3>1
      <4> QED
        BY <2>1, <4>1
    <3> HIDE DEF n
    <3>7. \A i \in 1 .. n + 1 : i \in 1 .. n \/ i = n + 1
      BY <3>5
    <3>8. /\ \A i \in 1 .. n : call2[i] = call[i]
          /\ call2[n + 1] = c
          /\ call2 \in [1 .. n + 1 -> 1 .. Len(issued)]
      <4>1. \A i \in 1 .. n : i \in 1 .. n + 1 /\ i <= n
        BY <3>5
      <4>2. n + 1 \in 1 .. n + 1 /\ ~(n + 1 <= n)
        BY <3>5
      <4>3. \A i \in 1 .. n + 1 : call2[i] = IF i <= n THEN call[i] ELSE c
        OBVIOUS
      <4>4. call2 = [i \in 1 .. n + 1 |-> call2[i]]
        OBVIOUS
      <4> HIDE DEF call2
      <4>5. /\ \A i \in 1 .. n : call2[i] = call[i]
            /\ call2[n + 1] = c
        BY <4>1, <4>2, <4>3
      <4>6. \A i \in 1 .. n + 1 : call2[i] \in 1 .. Len(issued)
        BY <3>5, <3>7, <4>5
      <4> QED
        BY <4>4, <4>5, <4>6
    <3> HIDE DEF call2
    <3>9. PICK d \in [1 .. n + 1 -> 1 .. Len(issued)] :
              d[n + 1] = c /\ \A i \in 1 .. n : d[i] = call[i]
      BY <3>8
    <3>10. AppliedFor(d)'
      <4>1. ASSUME NEW i \in 1 .. n + 1, NEW j \in 1 .. n + 1, i < j
            PROVE  d[i] < d[j]
        <5>1. i \in 1 .. n
          BY <3>5, <4>1
        <5>2. CASE j \in 1 .. n
          BY <2>1, <3>9, <4>1, <5>1, <5>2 DEF AppliedFor, n
        <5>3. CASE j = n + 1
          BY <3>6, <3>9, <5>1, <5>3
        <5> QED
          BY <3>7, <5>2, <5>3
      <4>2. ASSUME NEW i \in 1 .. n + 1
            PROVE  /\ issued[d[i]].cmd = SET
                   /\ applied'[i] = <<issued[d[i]].reg,
                                      issued[d[i]].val>>
        <5>1. CASE i \in 1 .. n
          BY <2>1, <3>4, <3>9, <5>1 DEF AppliedFor, n
        <5>2. CASE i = n + 1
          BY <3>2, <3>4, <3>9, <5>2 DEF e
        <5> QED
          BY <3>7, <5>1, <5>2
      <4> QED
        BY <1>1, <3>4, <4>1, <4>2 DEF AppliedFor
    <3>11. ASSUME NEW i \in 1 .. n + 1, NEW j \in 1 .. Len(D)
           PROVE  d[i] < D[j][1]
      <4>1. u + j \in 1 .. m /\ u + j \in u + 1 .. m /\ D[j] = T[u + j]
        BY <2>12
      <4>2. CASE i \in 1 .. n
        BY <2>1, <3>9, <4>1, <4>2 DEF n
      <4>3. CASE i = n + 1
        BY <3>1, <3>9, <4>1, <4>3
      <4> QED
        BY <3>7, <4>2, <4>3
    <3>12. Streaming'
      <4>1. /\ d \in [1 .. Len(applied)' -> 1 .. Len(issued)']
            /\ \A i \in 1 .. Len(applied)', j \in 1 .. Len(D) :
                  d[i] < D[j][1]
        BY <1>1, <3>4, <3>9, <3>11
      <4> QED
        BY <2>8, <2>9, <2>11, <3>10, <4>1 DEF Streaming
    <3> QED
      BY <3>3, <3>12
  <2>15. x.result # "REFUSED"
         /\ (x.writes = << >> \/ Served(x, u, T, issued, NbRegs, regs))
    <3>1. CASE Waited(x, u, T, issued, regs)
      BY <3>1 DEF Waited, NoAnswer
    <3>2. CASE Served(x, u, T, issued, NbRegs, regs)
      <4>1. x.result = "SERVED"
        BY <3>2 DEF Served, Serves
      <4> QED
        BY <3>2, <4>1
    <3> QED
      BY <2>7, <3>1, <3>2
  <2> QED
    BY <2>13, <2>14, <2>15
<1> QED
  BY <1>1, <1>4 DEF StreamInv

LEMMA StreamNext ==
    ASSUME \A r \in Requests : StartsFrameOnce(r), TypeOK, StreamInv,
           [Next]_vars
    PROVE  StreamInv'
<1>1. CASE \E r \in Requests : Call(r) \/ CallFails(r)
  BY <1>1, StreamCall, StreamCallFails
<1>2. CASE SlaveMain
  BY <1>2, StreamSlave
<1>3. CASE DeliverToSlave
  BY <1>3, StreamDeliver
<1>4. CASE Return \/ ReturnFails \/ DeliverToMaster \/ UNCHANGED vars
  <2>1. /\ UNCHANGED <<sh, srx, toSlave, issued, applied, refused>>
        /\ noise' = noise
    BY <1>4 DEF Return, ReturnFails, DeliverToMaster, vars, slaveVars, hostVars
  <2> QED
    BY <2>1, StreamUnchanged
<1>5. CASE \E mask \in NoiseMasks : NoiseToSlave(mask) \/ NoiseToMaster(mask)
  <2>1. noise' # 0 /\ issued' = issued
    BY <1>5 DEF NoiseToSlave, NoiseToMaster, TypeOK, hostVars
  <2> QED
    BY <2>1 DEF StreamInv, StartsOnce, Frames, FrameSize
<1> QED
  BY <1>1, <1>2, <1>3, <1>4, <1>5 DEF Next

LEMMA StreamImplies ==
    ASSUME TypeOK, StreamInv
    PROVE  /\ noise = 0 => AppliedWritesRequested
           /\ RefusalMeansNoise
<1>1. noise = 0 => AppliedWritesRequested
  <2> SUFFICES ASSUME noise = 0 PROVE AppliedWritesRequested
    OBVIOUS
  <2>1. PICK call \in [1 .. Len(applied) -> 1 .. Len(issued)] :
                AppliedFor(call)
    BY DEF StreamInv, Streaming
  <2>2. DOMAIN applied = 1 .. Len(applied) /\ DOMAIN issued = 1 .. Len(issued)
    BY DEF TypeOK
  <2> QED
    BY <2>1, <2>2 DEF AppliedWritesRequested, AppliedFor
<1>2. RefusalMeansNoise
  <2>1. noise \in Nat /\ refused \in Nat
    BY DEF TypeOK
  <2>2. noise = 0 => refused = 0
    BY DEF StreamInv
  <2> QED
    BY <2>1, <2>2 DEF RefusalMeansNoise
<1> QED
  BY <1>1, <1>2

THEOREM AlwaysStreamInv ==
    ASSUME \A r \in Requests : StartsFrameOnce(r)
    PROVE  Spec => []StreamInv
<1>1. Init => StreamInv
  BY StreamInit
<1>2. TypeOK /\ StreamInv /\ [Next]_vars => StreamInv'
  BY StreamNext
<1> QED
  BY <1>1, <1>2, TypeCorrect, PTL DEF Spec

(* Of bytes or of packets, late or cut, with calls that gave up and device *)
(* errors: as long as no byte is disturbed and the requests hold the start *)
(* of frame only at their start, the registers are written for the calls   *)
(* that asked for it, each at most once and in their order (property       *)
(* AppliedWritesRequested).                                                *)
THEOREM WritesRequested ==
    ASSUME \A r \in Requests : StartsFrameOnce(r)
    PROVE  Spec => [](noise = 0 => AppliedWritesRequested)
<1>1. TypeOK /\ StreamInv => (noise = 0 => AppliedWritesRequested)
  BY StreamImplies
<1> QED
  BY <1>1, TypeCorrect, AlwaysStreamInv, PTL

(* Under the same condition on the requests, no frame is refused for its   *)
(* CRC unless a byte was disturbed (property RefusalMeansNoise).           *)
THEOREM RefusalIsNoise ==
    ASSUME \A r \in Requests : StartsFrameOnce(r)
    PROVE  Spec => []RefusalMeansNoise
<1>1. TypeOK /\ StreamInv => RefusalMeansNoise
  BY StreamImplies
<1> QED
  BY <1>1, TypeCorrect, AlwaysStreamInv, PTL
=============================================================================
