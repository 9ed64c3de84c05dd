-------------------------- MODULE EmulSlaveProofs ---------------------------
(***************************************************************************)
(* The master API on the emulated slave is the register file, for every    *)
(* set of requests, size of the table and injection of errors.  The        *)
(* invariant is that between two calls the master's handle and the stack   *)
(* of answers are empty, and that the slave is either ready, its handle    *)
(* and the stack of requests empty too, or has met a spoiled request and   *)
(* is in one of three states in which it performs nothing any more.        *)
(***************************************************************************)
EXTENDS EmulSlave, ProtoPeersProofs

LEMMA NbRegsType == NbRegs \in Nat
BY EmulAssumption

(***************************************************************************)
(* The stacks.  Bytes pushed on an empty stack are popped as they were,    *)
(* and leave it empty.                                                     *)
(***************************************************************************)
LEMMA PushPop ==
    ASSUME NEW stk \in Stack, stk.n = 0,
           NEW bytes \in Seq(Byte), Len(bytes) <= 5
    PROVE  /\ Fits(stk, bytes)
           /\ Push(stk, bytes) \in Stack
           /\ Push(stk, bytes).n = Len(bytes)
           /\ Popped(Push(stk, bytes), 5) = bytes
<1> DEFINE len == Len(bytes)
           b == [i \in 1 .. proto_FRAME_MAXSIZE |->
                   IF stk.n < i /\ i <= stk.n + Len(bytes)
                   THEN bytes[i - stk.n] ELSE stk.buf[i]]
           p == Push(stk, bytes)
<1>1. /\ len \in Nat /\ len <= 5 /\ len \in 0 .. 5
      /\ stk.buf \in [1 .. 5 -> Byte]
      /\ \A i \in 1 .. len : bytes[i] \in Byte
  <2>1. len \in Nat /\ len <= 5 /\ stk.buf \in [1 .. 5 -> Byte]
    BY DEF Stack, Frame, proto_FRAME_MAXSIZE
  <2>2. \A i \in 1 .. len : bytes[i] \in Byte
    BY ElementOfSeq
  <2> HIDE DEF len
  <2> QED
    BY <2>1, <2>2
<1>2. b = [i \in 1 .. 5 |-> IF i <= len THEN bytes[i] ELSE stk.buf[i]]
  <2>1. b = [i \in 1 .. 5 |->
               IF 0 < i /\ i <= 0 + len THEN bytes[i - 0] ELSE stk.buf[i]]
    BY DEF proto_FRAME_MAXSIZE
  <2> HIDE DEF b, len
  <2> QED
    BY <1>1, <2>1
<1>3. p = [buf |-> b, n |-> stk.n + len]
  BY DEF Push
<1> HIDE DEF b, p
<1>4. p.n = len /\ p.buf = b
  <2> HIDE DEF len
  <2> QED
    BY <1>1, <1>3
<1>5. b \in Frame
  <2>1. ASSUME NEW i \in 1 .. 5
        PROVE  (IF i <= len THEN bytes[i] ELSE stk.buf[i]) \in Byte
    <3> HIDE DEF len
    <3> QED
      BY <1>1
  <2> HIDE DEF len
  <2> QED
    BY <1>2, <2>1 DEF Frame, proto_FRAME_MAXSIZE
<1>6. p \in Stack
  <2> HIDE DEF len
  <2> QED
    BY <1>1, <1>3, <1>5 DEF Stack, proto_FRAME_MAXSIZE
<1>7. Fits(stk, bytes)
  BY <1>1 DEF Fits, proto_FRAME_MAXSIZE
<1>8. Popped(p, 5) = SubSeq(b, 1, len)
  <2>1. Count(p, 5) = len
    <3> HIDE DEF len
    <3> QED
      BY <1>1, <1>4 DEF Count, Least
  <2> QED
    BY <1>4, <2>1 DEF Popped
<1>9. SubSeq(b, 1, len) = bytes
  <2>1. /\ SubSeq(b, 1, len) \in Seq(Byte)
        /\ Len(SubSeq(b, 1, len)) = len
        /\ \A i \in 1 .. len : SubSeq(b, 1, len)[i] = b[i]
    <3> HIDE DEF len
    <3> QED
      BY <1>1, <1>5, FrameSeq
  <2>2. \A i \in 1 .. len : b[i] = bytes[i]
    <3> HIDE DEF len
    <3> QED
      BY <1>1, <1>2
  <2> DEFINE x == SubSeq(b, 1, len)
  <2>3. /\ x \in Seq(Byte) /\ bytes \in Seq(Byte) /\ Len(x) = Len(bytes)
        /\ \A i \in 1 .. Len(x) : x[i] = bytes[i]
    BY <2>1, <2>2
  <2> HIDE DEF x
  <2>4. x = bytes
    BY <2>3, SeqEqual
  <2> QED
    BY <2>4 DEF x
<1> QED
  BY <1>4, <1>6, <1>7, <1>8, <1>9 DEF p

LEMMA MoveDownType ==
    ASSUME NEW dst \in Stack, NEW src \in Stack, NEW k \in 0 .. 5
    PROVE  MoveDown(dst, src, k) \in Frame
<1> DEFINE n == src.n
<1>1. /\ n \in 0 .. 5
      /\ src.buf \in [1 .. 5 -> Byte] /\ dst.buf \in [1 .. 5 -> Byte]
  BY DEF Stack, Frame, proto_FRAME_MAXSIZE
<1>2. MoveDown(dst, src, k) =
         [i \in 1 .. 5 |-> IF i <= n - k THEN src.buf[i + k] ELSE dst.buf[i]]
  BY DEF MoveDown, proto_FRAME_MAXSIZE
<1> HIDE DEF n
<1>3. ASSUME NEW i \in 1 .. 5
      PROVE  (IF i <= n - k THEN src.buf[i + k] ELSE dst.buf[i]) \in Byte
  <2>1. i <= n - k => i + k \in 1 .. 5
    BY <1>1
  <2> QED
    BY <1>1, <2>1
<1> QED
  BY <1>2, <1>3 DEF Frame, proto_FRAME_MAXSIZE

LEMMA ReadAll ==
    ASSUME NEW stk \in Stack, NEW other \in Stack
    PROVE  /\ ReadRest(stk, 5) \in Stack /\ ReadRest(stk, 5).n = 0
           /\ FakeReadMaster(stk, 5) \in Stack
           /\ FakeReadMaster(stk, 5).n = 0
           /\ FakeReadSlave(other, stk, 5) \in Stack
           /\ FakeReadSlave(other, stk, 5).n = other.n
<1> DEFINE n == stk.n
           k == Count(stk, 5)
           x == MoveDown(stk, stk, k)
           y == MoveDown(other, stk, k)
<1>1. n \in 0 .. 5 /\ stk.buf \in Frame /\ other.n \in 0 .. 5
  BY DEF Stack, proto_FRAME_MAXSIZE
<1>2. k = n
  <2> DEFINE m == n
  <2>1. k = Least(5, m)
    BY DEF Count
  <2> HIDE DEF m
  <2>2. m \in 0 .. 5
    BY <1>1 DEF m
  <2> QED
    BY <2>1, <2>2 DEF Least, m
<1>3. x \in Frame /\ y \in Frame
  BY <1>1, <1>2, MoveDownType
<1>4. /\ ReadRest(stk, 5) = [buf |-> x, n |-> n - k]
      /\ FakeReadMaster(stk, 5) = [stk EXCEPT !.n = n - k]
      /\ FakeReadSlave(other, stk, 5) = [other EXCEPT !.buf = y]
  BY DEF ReadRest, FakeReadMaster, FakeReadSlave
<1>5. n - k = 0
  BY <1>1, <1>2
<1> HIDE DEF n, k, x, y
<1>6. ReadRest(stk, 5) \in Stack /\ ReadRest(stk, 5).n = 0
  BY <1>3, <1>4, <1>5 DEF Stack, proto_FRAME_MAXSIZE
<1>7. FakeReadMaster(stk, 5) \in Stack /\ FakeReadMaster(stk, 5).n = 0
  BY <1>4, <1>5 DEF Stack, proto_FRAME_MAXSIZE
<1>8. /\ FakeReadSlave(other, stk, 5) \in Stack
      /\ FakeReadSlave(other, stk, 5).n = other.n
  BY <1>3, <1>4 DEF Stack, proto_FRAME_MAXSIZE
<1> QED
  BY <1>6, <1>7, <1>8

(***************************************************************************)
(* Whatever the stacks hold, their indices stay in them.                   *)
(***************************************************************************)
LEMMA PushType2 ==
    ASSUME NEW stk \in Stack, NEW bytes \in Seq(Byte), Fits(stk, bytes)
    PROVE  Push(stk, bytes) \in Stack
<1> DEFINE len == Len(bytes)
           n == stk.n
           b == [i \in 1 .. proto_FRAME_MAXSIZE |->
                   IF stk.n < i /\ i <= stk.n + Len(bytes)
                   THEN bytes[i - stk.n] ELSE stk.buf[i]]
<1>1. /\ len \in Nat /\ n \in 0 .. 5 /\ len <= 5 - n
      /\ stk.buf \in [1 .. 5 -> Byte]
      /\ \A i \in 1 .. len : bytes[i] \in Byte
  BY ElementOfSeq DEF Stack, Frame, Fits, proto_FRAME_MAXSIZE
<1>2. b = [i \in 1 .. 5 |-> IF n < i /\ i <= n + len
                            THEN bytes[i - n] ELSE stk.buf[i]]
  BY DEF proto_FRAME_MAXSIZE
<1>3. Push(stk, bytes) = [buf |-> b, n |-> n + len]
  BY DEF Push
<1> HIDE DEF b, len, n
<1>4. ASSUME NEW i \in 1 .. 5, n < i, i <= n + len PROVE bytes[i - n] \in Byte
  <2>1. i - n \in 1 .. len
    BY <1>1, <1>4
  <2> QED
    BY <1>1, <2>1
<1>5. b \in Frame
  BY <1>1, <1>2, <1>4 DEF Frame, proto_FRAME_MAXSIZE
<1>6. n + len \in 0 .. 5
  BY <1>1
<1> QED
  BY <1>3, <1>5, <1>6 DEF Stack, proto_FRAME_MAXSIZE

LEMMA SpoiledType ==
    ASSUME NEW stk \in Stack, NEW fl
    PROVE  Spoiled(stk, fl) \in Stack
<1> DEFINE b == [i \in 1 .. proto_FRAME_MAXSIZE |->
                   IF i = 2 THEN (stk.buf[2] + 1) % 256 ELSE stk.buf[i]]
<1>1. stk.buf \in [1 .. 5 -> 0 .. 255]
  BY DEF Stack, Frame, Byte, proto_FRAME_MAXSIZE
<1>2. (stk.buf[2] + 1) % 256 \in 0 .. 255
  BY <1>1
<1>3. b \in Frame
  BY <1>1, <1>2 DEF Frame, Byte, proto_FRAME_MAXSIZE
<1> HIDE DEF b
<1>4. [stk EXCEPT !.buf = b] \in Stack
  BY <1>3 DEF Stack
<1> QED
  BY <1>4 DEF Spoiled, b

LEMMA PoppedType ==
    ASSUME NEW stk \in Stack, NEW len \in 0 .. 5
    PROVE  Popped(stk, len) \in Seq(Byte) /\ Count(stk, len) \in 0 .. stk.n
<1> DEFINE n == stk.n
           k == Count(stk, len)
<1>1. n \in 0 .. 5 /\ stk.buf \in Frame
  BY DEF Stack, proto_FRAME_MAXSIZE
<1>2. k = Least(len, n)
  BY DEF Count
<1> HIDE DEF n, k
<1>3. k \in 0 .. n /\ k \in 0 .. 5
  BY <1>1, <1>2 DEF Least
<1>4. SubSeq(stk.buf, 1, k) \in Seq(Byte)
  BY <1>1, <1>3, FrameSeq
<1> QED
  BY <1>3, <1>4 DEF Popped, k, n

LEMMA ReadType ==
    ASSUME NEW stk \in Stack, NEW other \in Stack, NEW len \in 0 .. 5
    PROVE  /\ ReadRest(stk, len) \in Stack
           /\ FakeReadMaster(stk, len) \in Stack
           /\ FakeReadSlave(other, stk, len) \in Stack
<1> DEFINE n == stk.n
           k == Count(stk, len)
           x == MoveDown(stk, stk, k)
           y == MoveDown(other, stk, k)
<1>1. n \in 0 .. 5 /\ k \in 0 .. n
  BY PoppedType DEF Stack, proto_FRAME_MAXSIZE
<1>2. k \in 0 .. 5 /\ n - k \in 0 .. 5
  <2> HIDE DEF n, k
  <2> QED
    BY <1>1
<1>3. x \in Frame /\ y \in Frame
  BY <1>2, MoveDownType
<1>4. /\ ReadRest(stk, len) = [buf |-> x, n |-> n - k]
      /\ FakeReadMaster(stk, len) = [stk EXCEPT !.n = n - k]
      /\ FakeReadSlave(other, stk, len) = [other EXCEPT !.buf = y]
  BY DEF ReadRest, FakeReadMaster, FakeReadSlave
<1> HIDE DEF n, k, x, y
<1>5. [buf |-> x, n |-> n - k] \in Stack
  BY <1>2, <1>3 DEF Stack, proto_FRAME_MAXSIZE
<1>6. [stk EXCEPT !.n = n - k] \in Stack
  BY <1>2 DEF Stack, proto_FRAME_MAXSIZE
<1>7. [other EXCEPT !.buf = y] \in Stack
  BY <1>3 DEF Stack
<1> QED
  BY <1>4, <1>5, <1>6, <1>7

LEMMA EmulInitType == Init => TypeOK
<1> SUFFICES ASSUME Init PROVE TypeOK
  OBVIOUS
<1>1. proto_init \in Handle
  BY InitType
<1>2. EmptyStack \in Stack
  BY DEF EmptyStack, Stack, Frame, Byte, proto_FRAME_MAXSIZE
<1>3. [r \in 0 .. NbRegs - 1 |-> 0] \in [0 .. NbRegs - 1 -> Byte]
  BY DEF Byte
<1>4. outcome.req \in Request /\ outcome.value \in Byte
  BY DEF Init, Outcome, NoRequest, Request, Byte, GET
<1>5. flags \in 0 .. 3 /\ faulted \in BOOLEAN
  <2>1. flags \in 0 .. 3
    BY DEF Init
  <2>2. faulted \in BOOLEAN
    BY Zenon DEF Init
  <2> QED
    BY <2>1, <2>2
<1>6. regs \in [0 .. NbRegs - 1 -> Byte]
  BY <1>3 DEF Init
<1> QED
  BY <1>1, <1>2, <1>4, <1>5, <1>6 DEF Init, TypeOK

LEMMA EmulCallType ==
    ASSUME TypeOK, NEW req \in Requests, Call(req)
    PROVE  TypeOK'
<1> DEFINE bytes == WireBytes(req.cmd, RequestArgs(req))
           stk == Spoiled(Push(mstk, bytes), flags)
           len == ReadLen(sh)
           s == proto_slave_main(sh, regs, Popped(stk, len))
           sst == FakeReadSlave(sstk, stk, len)
           t == IF Fits(sst, s.reply) THEN Push(sst, s.reply) ELSE sst
           fm == FakeReadMaster(stk, len)
           e == EmulWrite(bytes)
           m == proto_master_readFrame(Written(req),
                  Popped(e.sstk, ReadLen(mh)), RequestArgs(req))
<1>1. /\ mstk' = e.mstk /\ sh' = e.sh /\ regs' = e.regs
      /\ sstk' = ReadRest(e.sstk, ReadLen(mh))
      /\ mh' = m.hdle
      /\ outcome' = Outcome(req, m.status, m.arg)
      /\ flags' = flags /\ faulted' = faulted
      /\ Fits(mstk, bytes)
  BY DEF Call
<1>2. e = [mstk |-> fm, sstk |-> t, sh |-> s.hdle, regs |-> s.regs]
  BY DEF EmulWrite
<1>3. /\ req \in Request /\ req.cmd \in Byte /\ RequestArgs(req) \in Args
  BY EmulAssumption, RequestArgsType, KnownArgs
<1>4. bytes \in Seq(Byte)
  BY <1>3, WireLen
<1> HIDE DEF bytes
<1>5. stk \in Stack
  <2>1. Push(mstk, bytes) \in Stack
    BY <1>1, <1>4, PushType2 DEF TypeOK
  <2> QED
    BY <2>1, SpoiledType
<1>6. len \in 0 .. 5 /\ ReadLen(mh) \in 0 .. 5
  BY ReadLenType DEF TypeOK
<1> HIDE DEF stk, len
<1>7. Popped(stk, len) \in Seq(Byte)
  BY <1>5, <1>6, PoppedType
<1>8. sst \in Stack /\ fm \in Stack
  <2>1. sstk \in Stack
    BY DEF TypeOK
  <2> QED
    BY <1>5, <1>6, <2>1, ReadType
<1> HIDE DEF sst, fm
<1>9. /\ s.hdle \in Handle /\ s.regs \in [0 .. NbRegs - 1 -> Byte]
      /\ s.reply \in Seq(Byte)
  <2>1. sh \in Handle /\ regs \in [0 .. NbRegs - 1 -> Byte]
    BY DEF TypeOK
  <2> QED
    BY <1>7, <2>1, NbRegsType, SlaveMainType
<1> HIDE DEF s
<1>10. t \in Stack
  BY <1>8, <1>9, PushType2
<1> HIDE DEF t, e
<1>11. /\ e.mstk \in Stack /\ e.sstk \in Stack /\ e.sh \in Handle
       /\ e.regs \in [0 .. NbRegs - 1 -> Byte]
  BY <1>2, <1>8, <1>9, <1>10
<1>12. sstk' \in Stack /\ Popped(e.sstk, ReadLen(mh)) \in Seq(Byte)
  BY <1>1, <1>6, <1>11, ReadType, PoppedType
<1>13. m.hdle \in Handle /\ m.arg \in Args
  <2>1. Written(req) \in Handle
    BY <1>3, WriteFrameType DEF TypeOK, Written
  <2> QED
    BY <1>3, <1>12, <2>1, MasterType
<1> HIDE DEF m
<1>14. outcome'.req \in Request /\ outcome'.value \in Byte
  BY <1>1, <1>3, <1>13 DEF Outcome, Args, Byte
<1> QED
  BY <1>1, <1>11, <1>12, <1>13, <1>14 DEF TypeOK

LEMMA EmulNextType == TypeOK /\ [Next]_vars => TypeOK'
<1> SUFFICES ASSUME TypeOK, [Next]_vars PROVE TypeOK'
  OBVIOUS
<1>1. ASSUME NEW req \in Requests, Call(req) PROVE TypeOK'
  BY <1>1, EmulCallType
<1>2. ASSUME NEW req \in Requests, CallFails(req) PROVE TypeOK'
  <2>1. req \in Request /\ req.cmd \in Byte /\ RequestArgs(req) \in Args
    BY EmulAssumption, RequestArgsType, KnownArgs
  <2>2. mh' \in Handle
    BY <1>2, <2>1, WriteFrameType DEF CallFails, Written, TypeOK
  <2>3. outcome'.req \in Request /\ outcome'.value \in Byte
    BY <1>2, <2>1 DEF CallFails, Outcome, Byte
  <2> QED
    BY <1>2, <2>2, <2>3 DEF CallFails, TypeOK
<1>3. ASSUME NEW fl \in FlagValues, SetFlags(fl) PROVE TypeOK'
  <2>1. faulted' \in BOOLEAN
    BY <1>3 DEF SetFlags, TypeOK
  <2> QED
    BY <1>3, <2>1, EmulAssumption DEF SetFlags, TypeOK
<1>4. ASSUME NEW r \in 0 .. NbRegs - 1, NEW v \in Values, Poke(r, v)
      PROVE  TypeOK'
  BY <1>4, EmulAssumption DEF Poke, TypeOK
<1>5. CASE UNCHANGED vars
  BY <1>5 DEF vars, TypeOK
<1> QED
  BY <1>1, <1>2, <1>3, <1>4, <1>5 DEF Next

(* Whatever errors are injected, the stacks are never read or written      *)
(* outside their five bytes, and nothing but bytes reaches a handle or a   *)
(* register (property TypeOK).                                             *)
THEOREM EmulTypeCorrect == Spec => []TypeOK
BY EmulInitType, EmulNextType, PTL DEF Spec
-----------------------------------------------------------------------------
(***************************************************************************)
(* Between two calls.                                                      *)
(***************************************************************************)
Rest ==
    /\ TypeOK /\ mh.nb = 0 /\ sstk.n = 0
    /\ BadCrc(flags) => faulted

\* The slave takes the next request as it comes.
Ready == sh.nb = 0 /\ mstk.n = 0

\* After a spoiled set: the handle has no room to read anything.
Full == sh.nb = 5
\* After a spoiled get: the handle holds its own answer, for a frame, and
\* room for one byte, which it will read and drop.
Refusing ==
    /\ sh.nb = 4 /\ sh.frame[3] = ERR_CRC /\ CrcMatches(sh)
    /\ mstk.n = 0
\* What was left of a request leaves no room for another.
Blocked == mstk.n >= 2

IInv == /\ Rest
        /\ Ready \/ (faulted /\ (Full \/ Refusing \/ Blocked))

(***************************************************************************)
(* A call: what the device is given, what the slave makes of it, and what  *)
(* the master reads back.                                                  *)
(***************************************************************************)
Owned(req) == req.reg \in 0 .. NbRegs - 1
AnswerCmd(req) == IF Owned(req) THEN REPLY ELSE ERR_ARG
RegsAfter(req) == IF req.cmd = SET /\ Owned(req)
                  THEN [regs EXCEPT ![req.reg] = req.val] ELSE regs

Asking(req) == WireBytes(req.cmd, RequestArgs(req))
Given(req) == Spoiled(Push(mstk, Asking(req)), flags)
Ran(req) == proto_slave_main(sh, regs, Popped(Given(req), ReadLen(sh)))

LEMMA AskingType ==
    ASSUME NEW req \in Request
    PROVE  /\ req.cmd \in {SET, GET} /\ req.cmd \in 0 .. 4 /\ req.cmd \in Byte
           /\ RequestArgs(req) \in Args
           /\ Asking(req) \in Seq(Byte)
           /\ Len(Asking(req)) = FrameLen(req.cmd)
           /\ Len(Asking(req)) \in 4 .. 5 /\ Len(Asking(req)) <= 5
           /\ Asking(req)[1] = proto_START_OF_FRAME
           /\ Asking(req)[3] = req.cmd
<1>1. /\ req.cmd \in {SET, GET} /\ req.cmd \in 0 .. 4
      /\ RequestArgs(req) \in Args
  BY RequestArgsType
<1>2. req.cmd \in Byte
  BY <1>1, KnownArgs
<1> DEFINE n == FrameLen(req.cmd)
<1>3. n \in 4 .. 5
  BY <1>1, KnownArgs
<1> HIDE DEF n
<1>4. n <= 5
  BY <1>3
<1> QED
  BY <1>1, <1>2, <1>3, <1>4, Wire DEF Asking, n

LEMMA PushCount ==
    ASSUME NEW stk \in Stack, NEW bytes, NEW fl
    PROVE  Spoiled(Push(stk, bytes), fl).n = stk.n + Len(bytes)
BY DEF Spoiled, Push

LEMMA GivenType ==
    ASSUME TypeOK, NEW req \in Request, Fits(mstk, Asking(req))
    PROVE  /\ Given(req) \in Stack
           /\ Given(req).n = mstk.n + Len(Asking(req))
<1>1. mstk \in Stack /\ Asking(req) \in Seq(Byte)
  BY AskingType DEF TypeOK
<1>2. Push(mstk, Asking(req)) \in Stack
  BY <1>1, PushType2
<1> QED
  BY <1>1, <1>2, SpoiledType, PushCount DEF Given

\* The answer of the slave is what the master finds.
LEMMA SlaveRuns ==
    ASSUME Rest, NEW req \in Request, Fits(mstk, Asking(req))
    PROVE  LET e == EmulWrite(Asking(req))
           IN  /\ e.sh = Ran(req).hdle /\ e.regs = Ran(req).regs
               /\ e.mstk.n = Given(req).n - Count(Given(req), ReadLen(sh))
               /\ e.sstk \in Stack /\ Popped(e.sstk, 5) = Ran(req).reply
<1> DEFINE stk == Given(req)
           len == ReadLen(sh)
           s == Ran(req)
           sst == FakeReadSlave(sstk, stk, len)
           t == IF Fits(sst, s.reply) THEN Push(sst, s.reply) ELSE sst
           m == FakeReadMaster(stk, len)
           e == EmulWrite(Asking(req))
<1>1. e = [mstk |-> m, sstk |-> t, sh |-> s.hdle, regs |-> s.regs]
  BY DEF EmulWrite, Given, Ran
<1>2. stk \in Stack /\ len \in 0 .. 5 /\ sh \in Handle /\ sstk \in Stack
  BY GivenType, ReadLenType DEF Rest, TypeOK
<1>3. m.n = stk.n - Count(stk, len)
  BY <1>2 DEF FakeReadMaster, Stack
<1>4. sst \in Stack /\ sst.n = 0
  <2>1. sst.n = sstk.n
    BY <1>2 DEF FakeReadSlave, Stack
  <2> QED
    BY <1>2, <2>1, ReadType DEF Rest
<1>5. s.reply \in Seq(Byte) /\ Len(s.reply) <= 5
  <2>1. Popped(stk, len) \in Seq(Byte)
    BY <1>2, PoppedType
  <2>2. regs \in [0 .. NbRegs - 1 -> Byte]
    BY DEF Rest, TypeOK
  <2> QED
    BY <1>2, <2>1, <2>2, NbRegsType, SlaveMainType DEF Ran
<1> HIDE DEF stk, len, s, sst, m, e
<1>6. t \in Stack /\ Popped(t, 5) = s.reply
  BY <1>4, <1>5, PushPop
<1> HIDE DEF t
<1>7. e.mstk = m /\ e.sstk = t /\ e.sh = s.hdle /\ e.regs = s.regs
  BY <1>1
<1> QED
  BY <1>3, <1>6, <1>7 DEF e, s, stk, len

\* The master's half of a call.
LEMMA CallReads ==
    ASSUME Rest, NEW req \in Request, Call(req)
    PROVE  /\ Fits(mstk, Asking(req))
           /\ sh' = Ran(req).hdle /\ regs' = Ran(req).regs
           /\ mstk'.n = Given(req).n - Count(Given(req), ReadLen(sh))
           /\ sstk'.n = 0
           /\ flags' = flags /\ faulted' = faulted
           /\ LET m == proto_master_readFrame(Written(req), Ran(req).reply,
                                              RequestArgs(req))
              IN  mh' = m.hdle /\ outcome' = Outcome(req, m.status, m.arg)
<1> DEFINE e == EmulWrite(Asking(req))
<1>1. ReadLen(mh) = 5
  BY EmptyReadLen DEF Rest, TypeOK
<1>2. Fits(mstk, Asking(req))
  BY DEF Call, Asking
<1>3. /\ e.sh = Ran(req).hdle /\ e.regs = Ran(req).regs
      /\ e.mstk.n = Given(req).n - Count(Given(req), ReadLen(sh))
      /\ e.sstk \in Stack /\ Popped(e.sstk, 5) = Ran(req).reply
  BY <1>2, SlaveRuns
<1>4. /\ mstk' = e.mstk /\ sh' = e.sh /\ regs' = e.regs
      /\ sstk' = ReadRest(e.sstk, 5)
      /\ flags' = flags /\ faulted' = faulted
      /\ LET m == proto_master_readFrame(Written(req), Popped(e.sstk, 5),
                                         RequestArgs(req))
         IN  mh' = m.hdle /\ outcome' = Outcome(req, m.status, m.arg)
  BY <1>1 DEF Call, Asking
<1> HIDE DEF e
<1>5. sstk'.n = 0
  BY <1>3, <1>4, ReadAll
<1> QED
  BY <1>2, <1>3, <1>4, <1>5

(***************************************************************************)
(* What the slave makes of the request, in each of its states.             *)
(***************************************************************************)
\* An empty stack gives the slave all it was given.
LEMMA EmptyGives ==
    ASSUME Rest, Ready, NEW req \in Request
    PROVE  /\ Fits(mstk, Asking(req)) /\ ReadLen(sh) = 5
           /\ Given(req).n - Count(Given(req), 5) = 0
           /\ ~BadCrc(flags) => Popped(Given(req), 5) = Asking(req)
<1>1. mstk \in Stack /\ mstk.n = 0 /\ sh \in Handle /\ sh.nb = 0
  BY DEF Rest, Ready, TypeOK
<1>2. Asking(req) \in Seq(Byte) /\ Len(Asking(req)) \in 4 .. 5
  BY AskingType
<1>3. Len(Asking(req)) <= 5
  BY AskingType
<1>4. /\ Fits(mstk, Asking(req))
      /\ Popped(Push(mstk, Asking(req)), 5) = Asking(req)
  BY <1>1, <1>2, <1>3, PushPop
<1>5. Given(req).n \in 4 .. 5
  <2> DEFINE m == Len(Asking(req))
  <2>1. Given(req).n = 0 + m
    BY <1>1, PushCount DEF Given
  <2>2. m \in 4 .. 5
    BY <1>2
  <2> HIDE DEF m
  <2> QED
    BY <2>1, <2>2
<1>6. Given(req).n - Count(Given(req), 5) = 0
  <2> DEFINE n == Given(req).n
  <2>1. Count(Given(req), 5) = Least(5, n)
    BY DEF Count
  <2>2. n \in 4 .. 5
    BY <1>5
  <2> HIDE DEF n
  <2>3. n - Least(5, n) = 0
    BY <2>2 DEF Least
  <2> QED
    BY <2>1, <2>3 DEF n
<1>7. ~BadCrc(flags) => Given(req) = Push(mstk, Asking(req))
  BY DEF Given, Spoiled
<1> QED
  BY <1>1, <1>4, <1>6, <1>7, EmptyReadLen

LEMMA ReadyServes ==
    ASSUME Rest, Ready, ~BadCrc(flags), NEW req \in Request
    PROVE  Serves(Ran(req), NbRegs, regs, req)
<1>1. Ran(req) = proto_slave_main(sh, regs, Asking(req))
  BY EmptyGives DEF Ran
<1>2. /\ NbRegs \in Nat /\ regs \in [0 .. NbRegs - 1 -> Byte]
      /\ sh \in Handle /\ sh.nb = 0
  BY NbRegsType DEF Rest, Ready, TypeOK
<1>3. Serves(proto_slave_main(sh, regs, Asking(req)), NbRegs, regs, req)
  BY <1>2, SlaveServes DEF Asking
<1> QED
  BY <1>1, <1>3

\* What the slave reads when the flag is set: the frame with one added to
\* its CRC.
LEMMA BadCrcGives ==
    ASSUME Rest, Ready, BadCrc(flags), NEW req \in Request
    PROVE  /\ Popped(Given(req), 5) \in Seq(Byte)
           /\ Len(Popped(Given(req), 5)) = FrameLen(req.cmd)
           /\ \A i \in 1 .. FrameLen(req.cmd) :
                 Popped(Given(req), 5)[i] =
                    IF i = 2 THEN (Asking(req)[2] + 1) % 256
                    ELSE Asking(req)[i]
<1> DEFINE w == Asking(req)
           l == FrameLen(req.cmd)
           p == Push(mstk, w)
           b == [i \in 1 .. proto_FRAME_MAXSIZE |->
                   IF i = 2 THEN (p.buf[2] + 1) % 256 ELSE p.buf[i]]
<1>1. mstk \in Stack /\ mstk.n = 0
  BY DEF Rest, Ready, TypeOK
<1>2. /\ w \in Seq(Byte) /\ Len(w) = l /\ l \in 4 .. 5 /\ l <= 5
      /\ w[1] = proto_START_OF_FRAME /\ w[3] = req.cmd
      /\ req.cmd \in 0 .. 4
  BY AskingType
<1> HIDE DEF w, l
<1>3. p \in Stack /\ p.n = l /\ Popped(p, 5) = w
  BY <1>1, <1>2, PushPop
<1> HIDE DEF p
<1>4. p.buf \in Frame /\ p.buf \in [1 .. 5 -> Byte]
  BY <1>3 DEF Stack, Frame, proto_FRAME_MAXSIZE
<1>5. Count(p, 5) = l
  BY <1>2, <1>3 DEF Count, Least
<1>6. \A i \in 1 .. l : w[i] = p.buf[i]
  <2>1. w = SubSeq(p.buf, 1, l)
    BY <1>3, <1>5 DEF Popped
  <2>2. l \in 0 .. 5
    BY <1>2
  <2> QED
    BY <1>4, <2>1, <2>2, FrameSeq
<1>7. p.buf[1] = w[1] /\ p.buf[2] = w[2] /\ p.buf[3] = w[3]
  <2>1. 1 \in 1 .. l /\ 2 \in 1 .. l /\ 3 \in 1 .. l
    BY <1>2
  <2> QED
    BY <1>6, <2>1
<1>8. devemulslave_isFrame(p)
  BY <1>2, <1>3, <1>7 DEF devemulslave_isFrame, proto_LAST, l
<1>9. Given(req) = [p EXCEPT !.buf = b]
  BY <1>8 DEF Given, Spoiled, p, w
<1>10. Given(req) \in Stack /\ Given(req).n = l /\ Given(req).buf = b
  <2>1. b \in Frame
    <3>1. (p.buf[2] + 1) % 256 \in Byte
      BY <1>4 DEF Byte
    <3> QED
      BY <1>4, <3>1 DEF Frame, proto_FRAME_MAXSIZE
  <2> HIDE DEF b
  <2> QED
    BY <1>3, <1>9, <2>1 DEF Stack
<1>11. \A i \in 1 .. 5 : b[i] = IF i = 2 THEN (p.buf[2] + 1) % 256
                                ELSE p.buf[i]
  BY DEF proto_FRAME_MAXSIZE
<1> HIDE DEF b
<1>12. Count(Given(req), 5) = l
  BY <1>2, <1>10 DEF Count, Least
<1>13. Popped(Given(req), 5) = SubSeq(b, 1, l)
  BY <1>10, <1>12 DEF Popped
<1>14. /\ SubSeq(b, 1, l) \in Seq(Byte) /\ Len(SubSeq(b, 1, l)) = l
       /\ \A i \in 1 .. l : SubSeq(b, 1, l)[i] = b[i]
  <2>1. l \in 0 .. 5 /\ b \in Frame
    BY <1>2, <1>10 DEF Stack
  <2> QED
    BY <2>1, FrameSeq
<1>15. ASSUME NEW i \in 1 .. l
       PROVE  SubSeq(b, 1, l)[i] = IF i = 2 THEN (w[2] + 1) % 256 ELSE w[i]
  <2>1. i \in 1 .. 5
    BY <1>2
  <2> QED
    BY <1>6, <1>7, <1>11, <1>14, <2>1
<1> QED
  BY <1>13, <1>14, <1>15 DEF w, l

LEMMA ReadyRefuses ==
    ASSUME Rest, Ready, BadCrc(flags), NEW req \in Request
    PROVE  LET s == Ran(req)
           IN  /\ s.hdle \in Handle /\ s.hdle.nb = FrameLen(req.cmd)
               /\ s.hdle.frame[3] = ERR_CRC /\ CrcMatches(s.hdle)
               /\ s.regs = regs
               /\ \E a \in Args : s.reply = WireBytes(ERR_CRC, a)
<1> DEFINE l == FrameLen(req.cmd)
           w == Asking(req)
           v == Popped(Given(req), 5)
           f == proto_makeFrame(req.cmd, RequestArgs(req))
           x == proto_readFrame(sh, v).hdle
           a == <<x.frame[2], getFrameCRC(x.frame)>>
           s == Ran(req)
<1>1. /\ req.cmd \in 0 .. 4 /\ req.cmd \in Byte /\ RequestArgs(req) \in Args
      /\ l \in 4 .. 5 /\ w[1] = proto_START_OF_FRAME /\ w[3] = req.cmd
  BY AskingType
<1>2. sh \in Handle /\ sh.nb = 0 /\ ReadLen(sh) = 5
  BY EmptyGives DEF Rest, Ready, TypeOK
<1>3. /\ v \in Seq(Byte) /\ Len(v) = l
      /\ \A i \in 1 .. l : v[i] = IF i = 2 THEN (w[2] + 1) % 256 ELSE w[i]
  BY BadCrcGives
<1>4. \A i \in 1 .. l : w[i] = f[i]
  BY <1>1, Wire DEF Asking
<1>5. f \in Frame /\ f[2] = getFrameCRC(f) /\ f[3] = req.cmd
  BY <1>1, MakeFrameType
<1> HIDE DEF l, w, v, f
<1>6. v[1] = proto_START_OF_FRAME /\ v[3] = req.cmd
  <2>1. 1 \in 1 .. l /\ 3 \in 1 .. l
    BY <1>1
  <2> QED
    BY <1>1, <1>3, <2>1
<1>7. /\ Holds(x, v, l)
      /\ proto_readFrame(sh, v).status = "NO_ERROR"
  <2>1. Holds(sh, v, 0)
    BY <1>2 DEF Holds
  <2>2. Skips(v, 0, 0)
    <3> DEFINE sof == FirstSOF(v)
    <3>1. /\ sof \in 1 .. Len(v) + 1
          /\ \A j \in 1 .. sof - 1 :
                j <= Len(v) => v[j] # proto_START_OF_FRAME
      BY <1>3, FirstSOFType
    <3> HIDE DEF sof
    <3>2. sof = 1
      BY <1>1, <1>3, <1>6, <3>1
    <3> QED
      BY <3>2 DEF Skips, sof
  <2>3. l = Least(l, 0 + (Len(v) - 0)) /\ Brings(v, 0, v, 0, l)
    BY <1>1, <1>3 DEF Least, Brings
  <2>4. FrameLen(v[3]) = l /\ l \in 3 .. 5 /\ 0 \in 0 .. l - 1
    BY <1>1, <1>6 DEF l
  <2>5. 0 \in 0 .. Len(v) - 1
    BY <1>1, <1>3
  <2> QED
    BY <1>3, <2>1, <2>2, <2>3, <2>4, <2>5, ReadMore
<1>8. /\ x \in Handle /\ x.nb = l /\ x.frame[3] = req.cmd
      /\ x.frame[2] = (f[2] + 1) % 256
      /\ x.frame[4] = f[4] /\ (l = 5 => x.frame[5] = f[5])
  <2> HIDE DEF x
  <2>1. /\ x \in Handle /\ x.nb = l
        /\ \A i \in 1 .. l : x.frame[i] = v[i]
    BY <1>7 DEF Holds
  <2>2. /\ 2 \in 1 .. l /\ 3 \in 1 .. l /\ 4 \in 1 .. l
        /\ l = 5 => 5 \in 1 .. l
    BY <1>1
  <2> QED
    BY <1>3, <1>4, <1>6, <2>1, <2>2
<1> HIDE DEF x
<1>9. getFrameCRC(x.frame) = f[2]
  <2> DEFINE size == proto_getArgsSize(req.cmd)
  <2>1. l = 3 + size /\ size \in 1 .. 2
    BY <1>1, KnownArgs DEF l
  <2>2. /\ getFrameCRC(x.frame) =
             IF size = 0 THEN getCRC1(x.frame[3])
             ELSE IF size = 1 THEN getCRC2(x.frame[3], x.frame[4])
             ELSE getCRC3(x.frame[3], x.frame[4], x.frame[5])
        /\ getFrameCRC(f) =
             IF size = 0 THEN getCRC1(f[3])
             ELSE IF size = 1 THEN getCRC2(f[3], f[4])
             ELSE getCRC3(f[3], f[4], f[5])
    BY <1>5, <1>8 DEF getFrameCRC
  <2> HIDE DEF size
  <2> QED
    BY <1>5, <1>8, <2>1, <2>2
<1>10. ~CrcMatches(x)
  <2>1. f[2] \in 0 .. 255
    BY <1>5 DEF Frame, Byte, proto_FRAME_MAXSIZE
  <2> DEFINE c == f[2]
  <2>2. c \in 0 .. 255
    BY <2>1
  <2> HIDE DEF c
  <2>3. (c + 1) % 256 # c
    BY <2>2
  <2> QED
    BY <1>8, <1>9, <2>3 DEF CrcMatches, c
<1>11. HasFrame(x)
  <2>1. x.nb >= 3 /\ x.nb >= FrameLen(x.frame[3])
    BY <1>1, <1>8 DEF l
  <2> QED
    BY <2>1 DEF HasFrame, proto_ARGS_OFFSET
<1>12. proto_decodeFrame(x, <<0, 0>>) =
         [hdle |-> x, result |-> "REFUSED", cmd |-> ERR_CRC, arg |-> a]
  BY <1>10, <1>11 DEF proto_decodeFrame
<1>13. a \in Args
  BY <1>8, FrameCrcType DEF Args, Handle, Frame, proto_FRAME_MAXSIZE
<1>14. s = [hdle |-> proto_writeFrame(x, ERR_CRC, a), regs |-> regs,
            reply |-> WireBytes(ERR_CRC, a), writes |-> << >>,
            result |-> "REFUSED"]
  BY <1>2, <1>7, <1>12 DEF proto_slave_main, Ran, v, x
<1> HIDE DEF a, s
<1>15. ERR_CRC \in Byte
  BY DEF ERR_CRC, Byte
<1>16. /\ proto_writeFrame(x, ERR_CRC, a) \in Handle
       /\ proto_writeFrame(x, ERR_CRC, a).nb = l
       /\ proto_writeFrame(x, ERR_CRC, a).frame = proto_makeFrame(ERR_CRC, a)
  BY <1>8, <1>13, <1>15, WriteFrameType DEF proto_writeFrame, Handle
<1>17. /\ proto_makeFrame(ERR_CRC, a)[3] = ERR_CRC
       /\ proto_makeFrame(ERR_CRC, a)[2] =
             getFrameCRC(proto_makeFrame(ERR_CRC, a))
  BY <1>13, <1>15, MakeFrameType
<1> QED
  BY <1>13, <1>14, <1>16, <1>17 DEF s, l, CrcMatches

LEMMA FullSilent ==
    ASSUME Rest, Full, NEW req \in Request, Fits(mstk, Asking(req))
    PROVE  Ran(req).hdle = sh /\ Ran(req).regs = regs /\ Ran(req).reply = << >>
<1>1. ReadLen(sh) = 0
  BY DEF Full, ReadLen, proto_FRAME_MAXSIZE
<1> DEFINE n == Given(req).n
<1>2. Popped(Given(req), 0) = SubSeq(Given(req).buf, 1, Least(0, n))
  BY DEF Popped, Count
<1>3. n \in 0 .. 5 /\ Given(req).buf \in Frame
  BY GivenType DEF Rest, Stack, proto_FRAME_MAXSIZE
<1> HIDE DEF n
<1>4. Least(0, n) = 0
  BY <1>3 DEF Least
<1>5. SubSeq(Given(req).buf, 1, 0) = << >>
  <2> DEFINE x == SubSeq(Given(req).buf, 1, 0)
  <2>1. x \in Seq(Byte) /\ Len(x) = 0
    BY <1>3, FrameSeq
  <2> HIDE DEF x
  <2>2. x = << >>
    BY <2>1
  <2> QED
    BY <2>2 DEF x
<1>6. proto_readFrame(sh, << >>) = [hdle |-> sh, status |-> "TIMEOUT"]
  BY DEF proto_readFrame
<1> QED
  BY <1>1, <1>2, <1>4, <1>5, <1>6 DEF Ran, proto_slave_main

\* The handle still holds an answer of four bytes: the byte it reads, dropped,
\* makes it a frame that came, which is no request.
LEMMA RefusingEnds ==
    ASSUME Rest, Refusing, NEW req \in Request, Fits(mstk, Asking(req))
    PROVE  /\ Ran(req).hdle.nb = 0 /\ Ran(req).regs = regs
           /\ \E a \in Args : Ran(req).reply = WireBytes(ERR_ARG, a)
           /\ Given(req).n - Count(Given(req), ReadLen(sh)) >= 2
<1> DEFINE n == Given(req).n
           v == Popped(Given(req), 1)
           d == proto_decodeFrame(sh, <<0, 0>>)
           a == <<sh.frame[4], sh.frame[5]>>
<1>1. ReadLen(sh) = 1 /\ sh \in Handle /\ sh.nb = 4 /\ sh.frame[3] = ERR_CRC
  BY DEF Rest, Refusing, TypeOK, ReadLen, proto_FRAME_MAXSIZE
<1>2. Given(req) \in Stack /\ Given(req).buf \in Frame
  BY GivenType DEF Rest, Stack
<1>3. n \in 4 .. 5
  <2> DEFINE m == Len(Asking(req))
  <2>1. n = 0 + m
    BY GivenType DEF Rest, Refusing
  <2>2. m \in 4 .. 5
    BY AskingType
  <2> HIDE DEF m, n
  <2> QED
    BY <2>1, <2>2
<1>4. Count(Given(req), 1) = 1
  <2>1. Count(Given(req), 1) = Least(1, n)
    BY DEF Count
  <2> HIDE DEF n
  <2> QED
    BY <1>3, <2>1 DEF Least
<1>5. v \in Seq(Byte) /\ Len(v) = 1
  <2>1. v = SubSeq(Given(req).buf, 1, 1)
    BY <1>4 DEF Popped
  <2>2. 1 \in 0 .. 5
    OBVIOUS
  <2> HIDE DEF v
  <2> QED
    BY <1>2, <2>1, <2>2, FrameSeq
<1> HIDE DEF v
<1>6. FrameLen(ERR_CRC) = 4
  BY DEF FrameLen, proto_getArgsSize, proto_ARGS_OFFSET, proto_LAST, ArgsLut,
         ERR_CRC
<1>7. proto_readFrame(sh, v) = [hdle |-> sh, status |-> "NO_ERROR"]
  <2>1. ASSUME NEW c, NEW limit \in 3 .. 4
        PROVE  Fill(sh, v, c, limit) = sh
    <3>1. sh = [frame |-> sh.frame, nb |-> 4]
      BY <1>1 DEF Handle
    <3>2. sh.frame = [i \in 1 .. 5 |-> sh.frame[i]]
      BY <1>1 DEF Handle, Frame, proto_FRAME_MAXSIZE
    <3>3. Fill(sh, v, c, limit) =
            [frame |-> [i \in 1 .. 5 |-> IF 4 < i /\ i <= 4 + 0
                                         THEN v[c + i - 4] ELSE sh.frame[i]],
             nb |-> 4 + 0]
      BY <1>1 DEF Fill, proto_FRAME_MAXSIZE
    <3>4. [i \in 1 .. 5 |-> IF 4 < i /\ i <= 4 + 0
                            THEN v[c + i - 4] ELSE sh.frame[i]]
          = [i \in 1 .. 5 |-> sh.frame[i]]
      OBVIOUS
    <3> QED
      BY <3>1, <3>2, <3>3, <3>4
  <2>2. proto_pushToFrame(sh, v) = [hdle |-> sh, full |-> TRUE]
    <3> DEFINE h3 == Fill(sh, v, 0, proto_ARGS_OFFSET)
               h4 == Fill(h3, v, 0 + (h3.nb - sh.nb), FrameLen(h3.frame[3]))
    <3>1. h3 = sh
      BY <2>1 DEF proto_ARGS_OFFSET
    <3>2. h4 = sh
      <4>1. h4 = Fill(sh, v, 0 + (sh.nb - sh.nb), 4)
        BY <1>1, <1>6, <3>1
      <4> QED
        BY <2>1, <4>1
    <3>3. proto_pushToFrame(sh, v) =
            IF 0 = Len(v) THEN [hdle |-> sh, full |-> FALSE]
            ELSE IF 0 + (h3.nb - sh.nb) = Len(v)
            THEN [hdle |-> h3, full |-> TRUE]
            ELSE [hdle |-> h4, full |-> h4.nb = FrameLen(h3.frame[3])]
      BY <1>1 DEF proto_pushToFrame
    <3>4. 0 + (sh.nb - sh.nb) = 0
      BY <1>1
    <3> HIDE DEF h3, h4
    <3>5. proto_pushToFrame(sh, v) =
            [hdle |-> sh, full |-> sh.nb = FrameLen(sh.frame[3])]
      BY <1>5, <3>1, <3>2, <3>3, <3>4
    <3>6. (sh.nb = FrameLen(sh.frame[3])) = TRUE
      BY <1>1, <1>6
    <3> QED
      BY <3>5, <3>6
  <2>3. v # << >>
    BY <1>5
  <2> QED
    BY <2>2, <2>3 DEF proto_readFrame
<1>8. d = [hdle |-> [sh EXCEPT !.nb = 0], result |-> "COMPLETED",
           cmd |-> ERR_CRC, arg |-> a]
  <2>1. HasFrame(sh) /\ CrcMatches(sh)
    BY <1>1, <1>6 DEF Refusing, HasFrame, proto_ARGS_OFFSET
  <2> QED
    BY <1>1, <2>1 DEF proto_decodeFrame
<1>9. slave_receive(regs, ERR_CRC, a) =
        [ok |-> FALSE, regs |-> regs, arg |-> a]
  BY DEF slave_receive, ERR_CRC, SET, GET
<1>10. a \in Args
  BY <1>1 DEF Handle, Frame, Args, proto_FRAME_MAXSIZE
<1> HIDE DEF a, d
<1>11. Ran(req) = [hdle |-> proto_writeFrame(d.hdle, ERR_ARG, a),
                   regs |-> regs, reply |-> WireBytes(ERR_ARG, a),
                   writes |-> << >>, result |-> "SERVED"]
  <2>1. Ran(req) = proto_slave_main(sh, regs, v)
    BY <1>1 DEF Ran, v
  <2>2. ERR_CRC # SET
    BY DEF ERR_CRC, SET
  <2> QED
    BY <1>7, <1>8, <1>9, <2>1, <2>2 DEF proto_slave_main, d
<1>12. proto_writeFrame(d.hdle, ERR_ARG, a).nb = 0
  <2>1. d.hdle = [sh EXCEPT !.nb = 0]
    BY <1>8
  <2>2. d.hdle \in Handle /\ d.hdle.nb = 0
    BY <1>1, <2>1 DEF Handle, proto_FRAME_MAXSIZE
  <2>3. ERR_ARG \in Byte
    BY DEF ERR_ARG, Byte
  <2> QED
    BY <1>10, <2>2, <2>3, WriteFrameType
<1>13. n - Count(Given(req), ReadLen(sh)) >= 2
  <2> HIDE DEF n
  <2> QED
    BY <1>1, <1>3, <1>4
<1> QED
  BY <1>10, <1>11, <1>12, <1>13

(***************************************************************************)
(* The steps.                                                              *)
(***************************************************************************)
Told(req, status, value) ==
    outcome' = [req |-> req, status |-> status, value |-> value]

\* What the master makes of an answer, and of none.
LEMMA AnswerTold ==
    ASSUME Rest, NEW req \in Request, Call(req),
           NEW c \in 0 .. 4, NEW a \in Args, Ran(req).reply = WireBytes(c, a)
    PROVE  /\ mh'.nb = 0
           /\ Told(req, ReplyStatus(c),
                   IF ReplyStatus(c) = "NO_ERROR" /\ req.cmd = GET
                   THEN a[1] ELSE 0)
<1> DEFINE w == Written(req)
           ra == RequestArgs(req)
           m == proto_master_readFrame(w, WireBytes(c, a), ra)
<1>1. mh' = m.hdle /\ outcome' = Outcome(req, m.status, m.arg)
  BY CallReads
<1>2. w \in Handle /\ w.nb = 0 /\ ra \in Args
  BY AskingType, WriteFrameType DEF Written, Rest, TypeOK
<1> HIDE DEF w, ra
<1>3. Reports(m, c, a)
  BY <1>2, MasterReports
<1> HIDE DEF m
<1> QED
  BY <1>1, <1>3 DEF Reports, Outcome, Told

LEMMA SilenceTold ==
    ASSUME Rest, NEW req \in Request, Call(req), Ran(req).reply = << >>
    PROVE  mh'.nb = 0 /\ Told(req, "TIMEOUT", 0)
<1> DEFINE w == Written(req)
           ra == RequestArgs(req)
           m == proto_master_readFrame(w, << >>, ra)
<1>1. mh' = m.hdle /\ outcome' = Outcome(req, m.status, m.arg)
  BY CallReads
<1>2. w.nb = 0
  BY AskingType, WriteFrameType DEF Written, Rest, TypeOK
<1> HIDE DEF w, ra
<1>3. proto_readFrame(w, << >>) = [hdle |-> w, status |-> "TIMEOUT"]
  BY DEF proto_readFrame
<1>4. m = [hdle |-> w, status |-> "TIMEOUT", arg |-> ra, decoded |-> FALSE]
  <2> DEFINE r == proto_readFrame(w, << >>)
  <2>1. m = IF r.status # "NO_ERROR"
            THEN [hdle |-> r.hdle, status |-> r.status, arg |-> ra,
                  decoded |-> FALSE]
            ELSE m
    BY Zenon DEF proto_master_readFrame
  <2>2. r.hdle = w /\ r.status = "TIMEOUT"
    BY <1>3
  <2> HIDE DEF r, m
  <2> QED
    BY <2>1, <2>2
<1> HIDE DEF m
<1> QED
  BY <1>1, <1>2, <1>4 DEF Outcome, Told

\* A call that the register file refuses or performs.
LEMMA ServedCall ==
    ASSUME Rest, Ready, ~BadCrc(flags), NEW req \in Request, Call(req)
    PROVE  /\ mh'.nb = 0 /\ Ready' /\ regs' = RegsAfter(req)
           /\ Told(req, IF Owned(req) THEN "NO_ERROR" ELSE "INVALID_ARG",
                   IF Owned(req) /\ req.cmd = GET THEN regs[req.reg] ELSE 0)
<1>1. Serves(Ran(req), NbRegs, regs, req)
  BY ReadyServes
<1>2. PICK a \in Args :
         /\ Ran(req).reply = WireBytes(AnswerCmd(req), a)
         /\ req.cmd = GET /\ Owned(req) => a[1] = regs[req.reg]
  BY <1>1 DEF Serves, Owned, AnswerCmd
<1>3. Ran(req).hdle.nb = 0 /\ Ran(req).regs = RegsAfter(req)
  BY <1>1 DEF Serves, Owned, RegsAfter
<1>4. AnswerCmd(req) \in 0 .. 4
  BY DEF AnswerCmd, REPLY, ERR_ARG
<1>5. /\ mh'.nb = 0
      /\ Told(req, ReplyStatus(AnswerCmd(req)),
              IF ReplyStatus(AnswerCmd(req)) = "NO_ERROR" /\ req.cmd = GET
              THEN a[1] ELSE 0)
  BY <1>2, <1>4, AnswerTold
<1>6. ReplyStatus(AnswerCmd(req)) =
         IF Owned(req) THEN "NO_ERROR" ELSE "INVALID_ARG"
  BY DEF AnswerCmd, ReplyStatus, REPLY, ERR_ARG, ERR_CRC
<1>7. sh'.nb = 0 /\ mstk'.n = 0 /\ regs' = RegsAfter(req)
  BY <1>3, CallReads, EmptyGives
<1> QED
  BY <1>2, <1>5, <1>6, <1>7 DEF Ready

\* A call that fails, and what it leaves.
LEMMA FailedCall ==
    ASSUME IInv, ~Ready \/ BadCrc(flags), NEW req \in Request, Call(req)
    PROVE  /\ mh'.nb = 0 /\ faulted
           /\ Full' \/ Refusing' \/ Blocked'
           /\ regs' = regs
           /\ \E status \in {"TIMEOUT", "PEER_ERR_CRC", "INVALID_ARG"} :
                 Told(req, status, 0)
<1>1. Rest /\ Fits(mstk, Asking(req))
  BY CallReads DEF IInv
<1>2. ReplyStatus(ERR_CRC) = "PEER_ERR_CRC" /\ ERR_CRC \in 0 .. 4
  BY DEF ReplyStatus, ERR_CRC, REPLY, ERR_ARG
<1>3. ReplyStatus(ERR_ARG) = "INVALID_ARG" /\ ERR_ARG \in 0 .. 4
  BY DEF ReplyStatus, ERR_CRC, REPLY, ERR_ARG
<1>4. CASE Ready /\ BadCrc(flags)
  <2>1. faulted
    BY <1>1, <1>4 DEF Rest
  <2>2. /\ sh'.nb = FrameLen(req.cmd) /\ sh'.frame[3] = ERR_CRC
        /\ CrcMatches(sh') /\ regs' = regs
    BY <1>1, <1>4, ReadyRefuses, CallReads
  <2>3. PICK a \in Args : Ran(req).reply = WireBytes(ERR_CRC, a)
    BY <1>1, <1>4, ReadyRefuses
  <2>4. mh'.nb = 0 /\ Told(req, "PEER_ERR_CRC", 0)
    <3>1. /\ mh'.nb = 0
          /\ Told(req, ReplyStatus(ERR_CRC),
                  IF ReplyStatus(ERR_CRC) = "NO_ERROR" /\ req.cmd = GET
                  THEN a[1] ELSE 0)
      BY <1>1, <1>2, <2>3, AnswerTold
    <3> QED
      BY <1>2, <3>1
  <2>5. mstk'.n = 0
    BY <1>1, <1>4, CallReads, EmptyGives
  <2>6. FrameLen(req.cmd) = 4 \/ FrameLen(req.cmd) = 5
    <3>1. FrameLen(req.cmd) \in 4 .. 5
      BY AskingType
    <3> QED
      BY <3>1
  <2>7. CrcMatches(sh)' <=> CrcMatches(sh')
    BY DEF CrcMatches
  <2>8. Full' \/ Refusing'
    BY <2>2, <2>5, <2>6, <2>7 DEF Full, Refusing
  <2> QED
    BY <2>1, <2>2, <2>4, <2>8
<1>5. CASE ~Ready /\ Full
  <2>1. faulted
    BY <1>5 DEF IInv
  <2>2. sh' = sh /\ regs' = regs /\ Ran(req).reply = << >>
    BY <1>1, <1>5, FullSilent, CallReads
  <2>3. mh'.nb = 0 /\ Told(req, "TIMEOUT", 0)
    BY <1>1, <2>2, SilenceTold
  <2>4. Full'
    BY <1>5, <2>2 DEF Full
  <2> QED
    BY <2>1, <2>2, <2>3, <2>4
<1>6. CASE ~Ready /\ Refusing
  <2>1. faulted
    BY <1>6 DEF IInv
  <2>2. /\ regs' = regs /\ mstk'.n >= 2
    BY <1>1, <1>6, RefusingEnds, CallReads
  <2>3. PICK a \in Args : Ran(req).reply = WireBytes(ERR_ARG, a)
    BY <1>1, <1>6, RefusingEnds
  <2>4. mh'.nb = 0 /\ Told(req, "INVALID_ARG", 0)
    <3>1. /\ mh'.nb = 0
          /\ Told(req, ReplyStatus(ERR_ARG),
                  IF ReplyStatus(ERR_ARG) = "NO_ERROR" /\ req.cmd = GET
                  THEN a[1] ELSE 0)
      BY <1>1, <1>3, <2>3, AnswerTold
    <3> QED
      BY <1>3, <3>1
  <2>5. Blocked'
    BY <2>2 DEF Blocked
  <2> QED
    BY <2>1, <2>2, <2>4, <2>5
<1>7. CASE ~Ready /\ Blocked
  <2> DEFINE n == mstk.n
             l == Len(Asking(req))
  <2>1. n \in 0 .. 5 /\ n >= 2
    BY <1>7 DEF IInv, Rest, TypeOK, Stack, Blocked, proto_FRAME_MAXSIZE
  <2>2. l \in 4 .. 5 /\ l <= 5 - n
    BY <1>1, AskingType DEF Fits, proto_FRAME_MAXSIZE
  <2> HIDE DEF n, l
  <2>3. FALSE
    BY <2>1, <2>2
  <2> QED
    BY <2>3
<1> QED
  BY <1>4, <1>5, <1>6, <1>7 DEF IInv

LEMMA RestNext ==
    ASSUME Rest, [Next]_vars, mh'.nb = 0, sstk'.n = 0,
           BadCrc(flags') => faulted'
    PROVE  Rest'
<1>1. TypeOK'
  BY EmulNextType DEF Rest
<1>2. BadCrc(flags)' <=> BadCrc(flags')
  BY DEF BadCrc
<1> QED
  BY <1>1, <1>2 DEF Rest

\* Every call is one of the register file, or fails without effect.
CallPromised(req) ==
    \/ /\ regs' = RegsAfter(req)
       /\ Told(req, IF Owned(req) THEN "NO_ERROR" ELSE "INVALID_ARG",
               IF Owned(req) /\ req.cmd = GET THEN regs[req.reg] ELSE 0)
       /\ ~BadCrc(flags) /\ (~faulted => Ready)
    \/ /\ faulted /\ regs' = regs
       /\ outcome'.req = req /\ outcome'.status # "NO_ERROR"

LEMMA CallStep ==
    ASSUME IInv, NEW req \in Requests, Call(req)
    PROVE  /\ mh'.nb = 0 /\ sstk'.n = 0
           /\ flags' = flags /\ faulted' = faulted
           /\ Ready' \/ (faulted /\ (Full' \/ Refusing' \/ Blocked'))
           /\ CallPromised(req)
<1>1. Rest /\ req \in Request
  BY EmulAssumption DEF IInv
<1>2. sstk'.n = 0 /\ flags' = flags /\ faulted' = faulted
  BY <1>1, CallReads
<1>3. CASE Ready /\ ~BadCrc(flags)
  <2>1. /\ mh'.nb = 0 /\ Ready' /\ regs' = RegsAfter(req)
        /\ Told(req, IF Owned(req) THEN "NO_ERROR" ELSE "INVALID_ARG",
                IF Owned(req) /\ req.cmd = GET THEN regs[req.reg] ELSE 0)
    BY <1>1, <1>3, ServedCall
  <2> QED
    BY <1>2, <1>3, <2>1 DEF CallPromised
<1>4. CASE ~Ready \/ BadCrc(flags)
  <2>1. /\ mh'.nb = 0 /\ faulted /\ regs' = regs
        /\ Full' \/ Refusing' \/ Blocked'
    BY <1>1, <1>4, FailedCall
  <2>2. PICK status \in {"TIMEOUT", "PEER_ERR_CRC", "INVALID_ARG"} :
           Told(req, status, 0)
    BY <1>1, <1>4, FailedCall
  <2>3. outcome'.req = req /\ outcome'.status # "NO_ERROR"
    BY <2>2 DEF Told
  <2> QED
    BY <1>2, <2>1, <2>3 DEF CallPromised
<1> QED
  BY <1>3, <1>4

LEMMA CallFailsStep ==
    ASSUME IInv, NEW req \in Requests, CallFails(req)
    PROVE  /\ mh'.nb = 0 /\ sstk'.n = 0
           /\ flags' = flags /\ faulted' = faulted
           /\ faulted /\ (Full' \/ Refusing' \/ Blocked')
           /\ CallPromised(req)
<1>1. Rest /\ req \in Request
  BY EmulAssumption DEF IInv
<1>2. ~Fits(mstk, Asking(req))
  BY DEF CallFails, Asking
<1>3. ~Ready
  BY <1>1, <1>2, EmptyGives
<1>4. faulted /\ (Full \/ Refusing \/ Blocked)
  BY <1>3 DEF IInv
<1>5. mh' = Written(req) /\ mh'.nb = 0
  BY <1>1, AskingType, WriteFrameType DEF CallFails, Written, Rest, TypeOK
<1>6. /\ sh' = sh /\ mstk' = mstk /\ sstk' = sstk /\ regs' = regs
      /\ flags' = flags /\ faulted' = faulted
      /\ outcome' = Outcome(req, "ERR_SYS", <<0, 0>>)
  BY DEF CallFails
<1>7. Full' \/ Refusing' \/ Blocked'
  BY <1>4, <1>6 DEF Full, Refusing, Blocked, CrcMatches
<1>8. outcome'.req = req /\ outcome'.status # "NO_ERROR"
  BY <1>6 DEF Outcome
<1> QED
  BY <1>1, <1>4, <1>5, <1>6, <1>7, <1>8 DEF CallPromised, Rest

(***************************************************************************)
(* The invariant.                                                          *)
(***************************************************************************)
LEMMA IInvInit == Init => IInv
<1> SUFFICES ASSUME Init PROVE IInv
  OBVIOUS
<1>1. TypeOK
  BY EmulInitType
<1>2. /\ mh.nb = 0 /\ sh.nb = 0 /\ mstk.n = 0 /\ sstk.n = 0
  BY DEF Init, proto_init, EmptyStack
<1>3. ~BadCrc(flags)
  BY DEF Init, BadCrc
<1> QED
  BY <1>1, <1>2, <1>3 DEF IInv, Rest, Ready

LEMMA IInvNext == IInv /\ [Next]_vars => IInv'
<1> SUFFICES ASSUME IInv, [Next]_vars PROVE IInv'
  OBVIOUS
<1>1. Rest
  BY DEF IInv
<1>2. ASSUME NEW req \in Requests, Call(req) PROVE IInv'
  <2>1. /\ mh'.nb = 0 /\ sstk'.n = 0 /\ flags' = flags /\ faulted' = faulted
        /\ Ready' \/ (faulted /\ (Full' \/ Refusing' \/ Blocked'))
    BY <1>2, CallStep
  <2>2. Rest'
    BY <1>1, <2>1, RestNext DEF Rest
  <2> QED
    BY <2>1, <2>2 DEF IInv
<1>3. ASSUME NEW req \in Requests, CallFails(req) PROVE IInv'
  <2>1. /\ mh'.nb = 0 /\ sstk'.n = 0 /\ flags' = flags /\ faulted' = faulted
        /\ faulted /\ (Full' \/ Refusing' \/ Blocked')
    BY <1>3, CallFailsStep
  <2>2. Rest'
    BY <1>1, <2>1, RestNext DEF Rest
  <2> QED
    BY <2>1, <2>2 DEF IInv
<1>4. ASSUME NEW fl \in FlagValues, SetFlags(fl) PROVE IInv'
  <2>1. /\ flags' = fl /\ faulted' = (faulted \/ BadCrc(fl))
        /\ mh' = mh /\ sh' = sh /\ mstk' = mstk /\ sstk' = sstk
    BY <1>4 DEF SetFlags
  <2>2. Rest'
    BY <1>1, <2>1, RestNext DEF Rest
  <2>3. Ready' \/ (faulted' /\ (Full' \/ Refusing' \/ Blocked'))
    BY <2>1 DEF IInv, Ready, Full, Refusing, Blocked, CrcMatches
  <2> QED
    BY <2>2, <2>3 DEF IInv
<1>5. ASSUME sh' = sh, mh' = mh, mstk' = mstk, sstk' = sstk,
             flags' = flags, faulted' = faulted
      PROVE  IInv'
  <2>1. Rest'
    BY <1>1, <1>5, RestNext DEF Rest
  <2>2. Ready' \/ (faulted' /\ (Full' \/ Refusing' \/ Blocked'))
    BY <1>5 DEF IInv, Ready, Full, Refusing, Blocked, CrcMatches
  <2> QED
    BY <2>1, <2>2 DEF IInv
<1>6. ASSUME NEW r \in 0 .. NbRegs - 1, NEW v \in Values, Poke(r, v)
      PROVE  IInv'
  BY <1>5, <1>6 DEF Poke
<1>7. CASE UNCHANGED vars
  BY <1>5, <1>7 DEF vars
<1> QED
  BY <1>2, <1>3, <1>4, <1>6, <1>7 DEF Next

(***************************************************************************)
(* The refinement.                                                         *)
(***************************************************************************)
LEMMA PromiseKept ==
    ASSUME NEW req \in Requests, CallPromised(req), UNCHANGED faulted
    PROVE  RF!Next
<1>1. req.cmd \in {SET, GET}
  BY EmulAssumption, AskingType
<1>2. CASE faulted /\ regs' = regs /\ outcome'.req = req
           /\ outcome'.status # "NO_ERROR"
  <2>1. RF!Fail(req)
    BY <1>2 DEF RF!Fail
  <2> QED
    BY <1>1, <2>1 DEF RF!Next
<1>3. ASSUME regs' = RegsAfter(req),
             Told(req, IF Owned(req) THEN "NO_ERROR" ELSE "INVALID_ARG",
                  IF Owned(req) /\ req.cmd = GET THEN regs[req.reg] ELSE 0)
      PROVE  RF!Next
  <2>1. CASE ~Owned(req)
    <3>1. RF!Refuse(req)
      BY <1>3, <2>1 DEF RF!Refuse, RF!Returns, RF!Owned, Owned, RegsAfter, Told
    <3> QED
      BY <1>1, <3>1 DEF RF!Next
  <2>2. CASE Owned(req) /\ req.cmd = SET
    <3>1. RF!Set(req)
      BY <1>3, <2>2
         DEF RF!Set, RF!Returns, RF!Owned, Owned, RegsAfter, Told, SET, GET
    <3> QED
      BY <2>2, <3>1 DEF RF!Next
  <2>3. CASE Owned(req) /\ req.cmd = GET
    <3>1. RF!Get(req)
      BY <1>3, <2>3
         DEF RF!Get, RF!Returns, RF!Owned, Owned, RegsAfter, Told, SET, GET
    <3> QED
      BY <2>3, <3>1 DEF RF!Next
  <2> QED
    BY <1>1, <2>1, <2>2, <2>3
<1> QED
  BY <1>2, <1>3 DEF CallPromised

LEMMA StepRefines == IInv /\ [Next]_vars => [RF!Next]_RF!vars
<1> SUFFICES ASSUME IInv, [Next]_vars PROVE [RF!Next]_RF!vars
  OBVIOUS
<1>1. ASSUME NEW req \in Requests, Call(req) PROVE RF!Next
  BY <1>1, CallStep, PromiseKept
<1>2. ASSUME NEW req \in Requests, CallFails(req) PROVE RF!Next
  BY <1>2, CallFailsStep, PromiseKept
<1>3. ASSUME NEW fl \in FlagValues, SetFlags(fl) PROVE [RF!Next]_RF!vars
  <2>1. regs' = regs /\ outcome' = outcome
        /\ faulted' = (faulted \/ BadCrc(fl))
    BY <1>3 DEF SetFlags
  <2>2. faulted' = TRUE \/ faulted' = faulted
    BY <2>1, Zenon DEF IInv, Rest, TypeOK
  <2>3. CASE faulted' = TRUE
    BY <2>1, <2>3 DEF RF!Fault, RF!Next
  <2>4. CASE faulted' = faulted
    BY <2>1, <2>4 DEF RF!vars
  <2> QED
    BY <2>2, <2>3, <2>4
<1>4. ASSUME NEW r \in 0 .. NbRegs - 1, NEW v \in Values, Poke(r, v)
      PROVE  RF!Next
  <2>1. RF!Poke(r, v)
    BY <1>4 DEF Poke, RF!Poke
  <2> QED
    BY <2>1 DEF RF!Next, RF!Owned
<1>5. CASE UNCHANGED vars
  BY <1>5 DEF vars, RF!vars
<1> QED
  BY <1>1, <1>2, <1>3, <1>4, <1>5 DEF Next

(* The emulated device and the two protocol layers implement the register  *)
(* file, for every request, table and injection of errors: a call takes    *)
(* effect at once, is refused because the register does not exist or, once *)
(* bad CRCs were injected, fails without effect (property                  *)
(* ImplementsRegisterFile).                                                *)
THEOREM Implements == Spec => ImplementsRegisterFile
<1>1. Init => RF!Init
  BY DEF Init, RF!Init, RF!Owned, Outcome
<1> QED
  BY <1>1, IInvInit, IInvNext, StepRefines, PTL
     DEF Spec, RF!Spec, ImplementsRegisterFile

(* A call whose request goes out with a spoiled CRC changes no register    *)
(* and never succeeds, whatever the calls before it left in the handles    *)
(* and the stacks (property BadCrcHasNoEffect).                            *)
THEOREM BadCrcIsHarmless == Spec => BadCrcHasNoEffect
<1>1. ASSUME IInv, Next, BadCrc(flags), mh' # mh \/ outcome' # outcome
      PROVE  regs' = regs /\ outcome'.status # "NO_ERROR"
  <2>1. PICK req \in Requests : Call(req) \/ CallFails(req)
    BY <1>1, Zenon DEF Next, SetFlags, Poke
  <2>2. CallPromised(req)
    BY <1>1, <2>1, CallStep, CallFailsStep
  <2> QED
    BY <1>1, <2>2 DEF CallPromised
<1>2. IInv /\ [Next]_vars =>
        [BadCrc(flags) /\ (mh' # mh \/ outcome' # outcome) =>
           regs' = regs /\ outcome'.status # "NO_ERROR"]_vars
  BY <1>1
<1> QED
  BY <1>2, IInvInit, IInvNext, PTL DEF Spec, BadCrcHasNoEffect
=============================================================================
