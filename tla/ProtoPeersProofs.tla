-------------------------- MODULE ProtoPeersProofs --------------------------
(***************************************************************************)
(* Facts about the frame layer and the two ends of the protocol, for every *)
(* byte, register table and handle.  First the types: what they return has *)
(* the C types.  Then one exchange: the frame that proto_makeFrame made,   *)
(* arriving whole or in parts, is collected in a handle and decoded as it  *)
(* was made; the slave does what the request says and answers it; the      *)
(* master reports what the slave answered.  Then the stream of frames of   *)
(* several calls, of which the slave reads what it can hold: it serves     *)
(* requests of the stream or nothing.  Then what an answer says to the     *)
(* byte, of which a refusal takes one from the answer before.  Last, one   *)
(* frame with a byte disturbed: the CRC keeps bytes apart, so the slave    *)
(* performs nothing and the master reports no success.                     *)
(***************************************************************************)
EXTENDS ProtoPeers, SequenceTheorems, WellFoundedInduction, TLAPS

(***************************************************************************)
(* The CRC of bytes is a byte.                                             *)
(***************************************************************************)
LEMMA XorType == \A a, b : Xor(a, b) \in Byte
BY DEF Xor, BitXor, Byte

LEMMA ShiftType == \A c \in Byte : crcShift(c) \in Byte
BY XorType DEF crcShift, Byte

LEMMA TableType == CrcTable \in [Byte -> Byte]
BY ShiftType DEF CrcTable, crcByte

LEMMA CrcType ==
    ASSUME NEW c \in Byte, NEW a \in Byte, NEW b \in Byte
    PROVE  /\ getCRC1(c) \in Byte
           /\ getCRC2(c, a) \in Byte
           /\ getCRC3(c, a, b) \in Byte
BY XorType, TableType DEF getCRC1, getCRC2, getCRC3

(***************************************************************************)
(* A byte is the sum of its bits, and the sum says which bits they are.    *)
(***************************************************************************)
Sum8(a, b, c, d, e, f, g, h) ==
    a + 2 * b + 4 * c + 8 * d + 16 * e + 32 * f + 64 * g + 128 * h

LEMMA SumOfBits ==
    ASSUME NEW x \in Byte
    PROVE  x = Sum8(Bit(x, 1), Bit(x, 2), Bit(x, 4), Bit(x, 8),
                    Bit(x, 16), Bit(x, 32), Bit(x, 64), Bit(x, 128))
BY DEF Byte, Bit, Sum8

Differs(p, q) == IF p = q THEN 0 ELSE 1

LEMMA XorSum ==
    ASSUME NEW x \in Byte, NEW y \in Byte
    PROVE  Xor(x, y) = Sum8(Differs(Bit(x, 1), Bit(y, 1)),
                            Differs(Bit(x, 2), Bit(y, 2)),
                            Differs(Bit(x, 4), Bit(y, 4)),
                            Differs(Bit(x, 8), Bit(y, 8)),
                            Differs(Bit(x, 16), Bit(y, 16)),
                            Differs(Bit(x, 32), Bit(y, 32)),
                            Differs(Bit(x, 64), Bit(y, 64)),
                            Differs(Bit(x, 128), Bit(y, 128)))
BY DEF Xor, BitXor, Sum8, Differs

LEMMA XorCommutes == \A x, y : Xor(x, y) = Xor(y, x)
BY DEF Xor, BitXor

LEMMA XorZero == ASSUME NEW x \in Byte PROVE Xor(0, x) = x
BY DEF Xor, BitXor, Bit, Byte

(***************************************************************************)
(* Exclusive or, a shift and a look-up each keep different bytes apart.    *)
(***************************************************************************)
LEMMA XorRight ==
    ASSUME NEW x \in Byte, NEW y \in Byte, NEW z \in Byte,
           Xor(x, y) = Xor(x, z)
    PROVE  y = z
<1> DEFINE a(w) == Differs(Bit(x, w), Bit(y, w))
           b(w) == Differs(Bit(x, w), Bit(z, w))
<1>1. \A w : a(w) \in 0 .. 1 /\ b(w) \in 0 .. 1
  BY DEF Differs
<1>2. /\ Xor(x, y) = Sum8(a(1), a(2), a(4), a(8), a(16), a(32), a(64), a(128))
      /\ Xor(x, z) = Sum8(b(1), b(2), b(4), b(8), b(16), b(32), b(64), b(128))
  BY XorSum
<1> HIDE DEF a, b
<1>3. /\ a(1) = b(1) /\ a(2) = b(2) /\ a(4) = b(4) /\ a(8) = b(8)
      /\ a(16) = b(16) /\ a(32) = b(32) /\ a(64) = b(64) /\ a(128) = b(128)
  <2>1. Sum8(a(1), a(2), a(4), a(8), a(16), a(32), a(64), a(128))
        = Sum8(b(1), b(2), b(4), b(8), b(16), b(32), b(64), b(128))
    BY <1>2
  <2>2. /\ a(1) \in 0 .. 1 /\ a(2) \in 0 .. 1 /\ a(4) \in 0 .. 1
        /\ a(8) \in 0 .. 1 /\ a(16) \in 0 .. 1 /\ a(32) \in 0 .. 1
        /\ a(64) \in 0 .. 1 /\ a(128) \in 0 .. 1
    BY <1>1
  <2>3. /\ b(1) \in 0 .. 1 /\ b(2) \in 0 .. 1 /\ b(4) \in 0 .. 1
        /\ b(8) \in 0 .. 1 /\ b(16) \in 0 .. 1 /\ b(32) \in 0 .. 1
        /\ b(64) \in 0 .. 1 /\ b(128) \in 0 .. 1
    BY <1>1
  <2> QED
    BY <2>1, <2>2, <2>3, SMTT(30) DEF Sum8
<1>4. \A w \in {1, 2, 4, 8, 16, 32, 64, 128} :
         a(w) = b(w) => Bit(y, w) = Bit(z, w)
  <2>1. ASSUME NEW w \in {1, 2, 4, 8, 16, 32, 64, 128}
        PROVE  /\ Bit(x, w) \in 0 .. 1 /\ Bit(y, w) \in 0 .. 1
               /\ Bit(z, w) \in 0 .. 1
    BY DEF Bit, Byte
  <2> QED
    BY <2>1 DEF a, b, Differs
<1>5. /\ Bit(y, 1) = Bit(z, 1) /\ Bit(y, 2) = Bit(z, 2)
      /\ Bit(y, 4) = Bit(z, 4) /\ Bit(y, 8) = Bit(z, 8)
      /\ Bit(y, 16) = Bit(z, 16) /\ Bit(y, 32) = Bit(z, 32)
      /\ Bit(y, 64) = Bit(z, 64) /\ Bit(y, 128) = Bit(z, 128)
  BY <1>3, <1>4
<1> QED
  BY <1>5, SumOfBits

LEMMA XorLeft ==
    ASSUME NEW x \in Byte, NEW y \in Byte, NEW z \in Byte,
           Xor(x, z) = Xor(y, z)
    PROVE  x = y
<1>1. Xor(z, x) = Xor(z, y)
  BY XorCommutes
<1> QED
  BY <1>1, XorRight

\* The polynomial is odd: a byte whose high bit was set is odd after the
\* shift, and one whose high bit was not is even.
LEMMA ShiftKeepsApart ==
    ASSUME NEW x \in Byte, NEW y \in Byte, crcShift(x) = crcShift(y)
    PROVE  x = y
<1> DEFINE s == (2 * x) % 256
           t == (2 * y) % 256
<1>1. s \in Byte /\ t \in Byte /\ 49 \in Byte
  BY DEF Byte
<1>2. s % 2 = 0 /\ t % 2 = 0
  BY DEF Byte
<1>3. Bit(x, 128) \in 0 .. 1 /\ Bit(y, 128) \in 0 .. 1
  BY DEF Bit, Byte
<1>4. Bit(x, 128) = Bit(y, 128) /\ s = t => x = y
  BY DEF Bit, Byte
<1>5. /\ crcShift(x) = IF Bit(x, 128) = 1 THEN Xor(s, 49) ELSE s
      /\ crcShift(y) = IF Bit(y, 128) = 1 THEN Xor(t, 49) ELSE t
  BY DEF crcShift
<1> HIDE DEF s, t
<1>6. Xor(s, 49) % 2 = 1 /\ Xor(t, 49) % 2 = 1
  <2>1. ASSUME NEW r \in Byte, r % 2 = 0 PROVE Xor(r, 49) % 2 = 1
    <3>1. Bit(r, 1) = 0 /\ Bit(49, 1) = 1
      BY <2>1 DEF Bit, Byte
    <3>2. BitXor(r, 49, 1) = 1
      BY <3>1 DEF BitXor
    <3> QED
      BY <3>2 DEF Xor, BitXor
  <2> QED
    BY <1>1, <1>2, <2>1
<1>7. Bit(x, 128) = Bit(y, 128)
  <2>1. Xor(s, 49) # t /\ Xor(t, 49) # s
    BY <1>2, <1>6
  <2>2. CASE Bit(x, 128) = 1
    BY <2>1, <2>2, <1>5
  <2>3. CASE Bit(y, 128) = 1
    BY <2>1, <2>3, <1>5
  <2>4. CASE Bit(x, 128) = 0 /\ Bit(y, 128) = 0
    BY <2>4
  <2> QED
    BY <1>3, <2>2, <2>3, <2>4
<1>8. s = t
  <2>1. CASE Bit(x, 128) = 1
    BY <2>1, <1>1, <1>5, <1>7, XorLeft
  <2>2. CASE Bit(x, 128) # 1
    BY <2>2, <1>5, <1>7
  <2> QED
    BY <2>1, <2>2
<1> QED
  BY <1>4, <1>7, <1>8

LEMMA TableByte == \A x \in Byte : CrcTable[x] = crcByte(x) /\ crcByte(x) \in Byte
BY ShiftType DEF CrcTable, crcByte

LEMMA TableKeepsApart ==
    ASSUME NEW x \in Byte, NEW y \in Byte, CrcTable[x] = CrcTable[y]
    PROVE  x = y
<1>1. crcByte(x) = crcByte(y)
  BY TableByte
<1> QED
  BY <1>1, ShiftType, ShiftKeepsApart DEF crcByte

(***************************************************************************)
(* proto_makeFrame: the frame it makes is five bytes, starts with the      *)
(* start of frame, carries the command and the arguments the command has,  *)
(* and its own CRC.                                                        *)
(***************************************************************************)
LEMMA ArgsSizeType == \A c \in Byte : proto_getArgsSize(c) \in 0 .. 2
BY DEF Byte, proto_getArgsSize, proto_LAST, ArgsLut

LEMMA FrameCrcType ==
    ASSUME NEW f \in Frame
    PROVE  getFrameCRC(f) \in Byte
<1>1. f[3] \in Byte /\ f[4] \in Byte /\ f[5] \in Byte
  BY DEF Frame, proto_FRAME_MAXSIZE
<1>2. /\ getCRC1(f[3]) \in Byte
      /\ getCRC2(f[3], f[4]) \in Byte
      /\ getCRC3(f[3], f[4], f[5]) \in Byte
  BY <1>1, CrcType
<1> QED
  BY <1>2 DEF getFrameCRC

LEMMA RawFrameType ==
    ASSUME NEW cmd \in Byte, NEW args \in Args
    PROVE  /\ RawFrame(cmd, args) \in Frame
           /\ RawFrame(cmd, args)[1] = proto_START_OF_FRAME
           /\ RawFrame(cmd, args)[3] = cmd
           /\ proto_getArgsSize(cmd) >= 1 => RawFrame(cmd, args)[4] = args[1]
           /\ proto_getArgsSize(cmd) = 2 => RawFrame(cmd, args)[5] = args[2]
BY ArgsSizeType DEF RawFrame, Frame, Args, Byte, proto_START_OF_FRAME,
                    proto_FRAME_MAXSIZE

LEMMA MakeFrameType ==
    ASSUME NEW cmd \in Byte, NEW args \in Args
    PROVE  LET f == proto_makeFrame(cmd, args)
           IN  /\ f \in Frame
               /\ f[1] = proto_START_OF_FRAME
               /\ f[2] = getFrameCRC(f)
               /\ f[3] = cmd
               /\ proto_getArgsSize(cmd) >= 1 => f[4] = args[1]
               /\ proto_getArgsSize(cmd) = 2 => f[5] = args[2]
<1> DEFINE raw == RawFrame(cmd, args)
           f == [raw EXCEPT ![2] = getFrameCRC(raw)]
<1>1. raw \in Frame /\ getFrameCRC(raw) \in Byte
  BY RawFrameType, FrameCrcType
<1>2. /\ f \in Frame
      /\ f[2] = getFrameCRC(raw)
      /\ f[1] = raw[1] /\ f[3] = raw[3] /\ f[4] = raw[4] /\ f[5] = raw[5]
  BY <1>1 DEF Frame, proto_FRAME_MAXSIZE
<1>3. getFrameCRC(f) = getFrameCRC(raw)
  BY <1>2 DEF getFrameCRC
<1> QED
  BY <1>2, <1>3, RawFrameType DEF proto_makeFrame

LEMMA FrameLenType == ASSUME NEW c \in Byte PROVE FrameLen(c) \in 3 .. 5
<1> DEFINE n == proto_getArgsSize(c)
<1>1. n \in 0 .. 2
  BY ArgsSizeType
<1>2. FrameLen(c) = 3 + n
  BY DEF FrameLen, proto_ARGS_OFFSET
<1> HIDE DEF n
<1> QED
  BY <1>1, <1>2

LEMMA FrameSeq ==
    ASSUME NEW f \in Frame
    PROVE  /\ f \in Seq(Byte) /\ Len(f) = 5
           /\ \A i \in 1 .. 5 : f[i] \in Byte
           /\ \A n \in 0 .. 5 :
                 /\ SubSeq(f, 1, n) \in Seq(Byte)
                 /\ Len(SubSeq(f, 1, n)) = n
                 /\ \A i \in 1 .. n : SubSeq(f, 1, n)[i] = f[i]
<1>1. f \in [1 .. 5 -> Byte]
  BY DEF Frame, proto_FRAME_MAXSIZE
<1>2. f \in Seq(Byte) /\ Len(f) = 5 /\ \A i \in 1 .. 5 : f[i] \in Byte
  <2>1. f \in Seq(Byte)
    <3>1. [1 .. 5 -> Byte] \in { [1 .. n -> Byte] : n \in Nat }
      OBVIOUS
    <3>2. f \in UNION { [1 .. n -> Byte] : n \in Nat }
      BY <1>1, <3>1
    <3> QED
      BY <3>2, SeqDef, Zenon
  <2>2. Len(f) = 5
    BY <1>1, <2>1, LenProperties
  <2>3. \A i \in 1 .. 5 : f[i] \in Byte
    BY <1>1
  <2> QED
    BY <2>1, <2>2, <2>3
<1>3. ASSUME NEW n \in 0 .. 5
      PROVE  /\ SubSeq(f, 1, n) \in Seq(Byte)
             /\ Len(SubSeq(f, 1, n)) = n
             /\ \A i \in 1 .. n : SubSeq(f, 1, n)[i] = f[i]
  BY <1>2, SubSeqProperties
<1> QED
  BY <1>2, <1>3

LEMMA WireBytesType ==
    ASSUME NEW cmd \in Byte, NEW args \in Args
    PROVE  /\ WireBytes(cmd, args) \in Seq(Byte)
           /\ Len(WireBytes(cmd, args)) = FrameLen(cmd)
           /\ \A i \in 1 .. FrameLen(cmd) :
                 WireBytes(cmd, args)[i] = proto_makeFrame(cmd, args)[i]
<1> DEFINE f == proto_makeFrame(cmd, args)
           n == FrameLen(cmd)
<1>1. f \in Frame
  BY MakeFrameType
<1>2. n \in 0 .. 5
  BY FrameLenType
<1>3. WireBytes(cmd, args) = SubSeq(f, 1, n)
  BY DEF WireBytes
<1> HIDE DEF f, n
<1>4. /\ SubSeq(f, 1, n) \in Seq(Byte)
      /\ Len(SubSeq(f, 1, n)) = n
      /\ \A i \in 1 .. n : SubSeq(f, 1, n)[i] = f[i]
  BY <1>1, <1>2, FrameSeq
<1> QED
  BY <1>3, <1>4 DEF f, n

LEMMA WireLen ==
    ASSUME NEW cmd \in Byte, NEW args \in Args
    PROVE  /\ WireBytes(cmd, args) \in Seq(Byte)
           /\ 3 <= Len(WireBytes(cmd, args)) /\ Len(WireBytes(cmd, args)) <= 5
<1> DEFINE n == FrameLen(cmd)
<1>1. n \in 3 .. 5
  BY FrameLenType
<1>2. WireBytes(cmd, args) \in Seq(Byte) /\ Len(WireBytes(cmd, args)) = n
  BY WireBytesType
<1> HIDE DEF n
<1> QED
  BY <1>1, <1>2

LEMMA InitType == proto_init \in Handle
BY DEF proto_init, Handle, Frame, Byte, proto_FRAME_MAXSIZE

LEMMA WriteFrameType ==
    ASSUME NEW h \in Handle, NEW cmd \in Byte, NEW args \in Args
    PROVE  /\ proto_writeFrame(h, cmd, args) \in Handle
           /\ proto_writeFrame(h, cmd, args).nb = h.nb
BY MakeFrameType DEF proto_writeFrame, Handle

(***************************************************************************)
(* proto_pushToFrame: the search for the start of frame stops at the first *)
(* one, or at the end; copying keeps the handle's types and never moves    *)
(* the cursor back or past the limit.                                      *)
(***************************************************************************)
LEMMA SmallestNat ==
    ASSUME NEW T, T \subseteq Nat, T # {}
    PROVE  \E x \in T : \A y \in T : x <= y
<1> DEFINE R == OpToRel(<, Nat)
<1>1. IsWellFoundedOn(R, Nat)
  BY NatLessThanWellFounded, Zenon
<1>2. \A x, y \in Nat : y < x => <<y, x>> \in R
  BY Zenon DEF OpToRel
<1> HIDE DEF R
<1>3. \E x \in T : \A y \in T : ~(<<y, x>> \in R)
  BY <1>1, WFMin
<1>4. PICK x \in T : \A y \in T : ~(<<y, x>> \in R)
  BY <1>3
<1>5. ASSUME NEW y \in T PROVE x <= y
  <2>1. x \in Nat /\ y \in Nat
    BY <1>4
  <2>2. ~(y < x)
    BY <1>2, <1>4, <2>1, Zenon
  <2> QED
    BY <2>1, <2>2
<1> QED
  BY <1>4, <1>5

LEMMA FirstSOFType ==
    ASSUME NEW buf \in Seq(Byte)
    PROVE  /\ FirstSOF(buf) \in 1 .. Len(buf) + 1
           /\ FirstSOF(buf) <= Len(buf) =>
                 buf[FirstSOF(buf)] = proto_START_OF_FRAME
           /\ \A j \in 1 .. FirstSOF(buf) - 1 : j <= Len(buf) =>
                 buf[j] # proto_START_OF_FRAME
<1> DEFINE T == { i \in 1 .. Len(buf) : buf[i] = proto_START_OF_FRAME }
           P(i) == /\ buf[i] = proto_START_OF_FRAME
                   /\ \A j \in 1 .. i - 1 : buf[j] # proto_START_OF_FRAME
<1>1. Len(buf) \in Nat
  OBVIOUS
<1>2. CASE T = {}
  BY <1>1, <1>2 DEF FirstSOF
<1>3. CASE T # {}
  <2>1. PICK x \in T : \A y \in T : x <= y
    <3>1. T \subseteq Nat
      BY <1>1
    <3> HIDE DEF T
    <3> QED
      BY <1>3, <3>1, SmallestNat, Zenon
  <2>2. x \in 1 .. Len(buf) /\ P(x)
    <3>1. x \in 1 .. Len(buf) /\ buf[x] = proto_START_OF_FRAME
      BY <2>1
    <3>2. ASSUME NEW j \in 1 .. x - 1, buf[j] = proto_START_OF_FRAME
          PROVE  FALSE
      <4>1. j \in 1 .. Len(buf) /\ j < x
        BY <1>1, <3>1
      <4>2. x <= j
        BY <2>1, <3>2, <4>1
      <4> QED
        BY <1>1, <3>1, <4>1, <4>2
    <3> QED
      BY <3>1, <3>2
  <2>3. FirstSOF(buf) = CHOOSE i \in 1 .. Len(buf) : P(i)
    BY <2>2 DEF FirstSOF
  <2>4. FirstSOF(buf) \in 1 .. Len(buf) /\ P(FirstSOF(buf))
    BY <2>2, <2>3
  <2> QED
    BY <1>1, <2>4
<1> QED
  BY <1>2, <1>3

LEMMA FillType ==
    ASSUME NEW h \in Handle, NEW buf \in Seq(Byte),
           NEW c \in 0 .. Len(buf), NEW limit \in 0 .. 5
    PROVE  /\ Fill(h, buf, c, limit) \in Handle
           /\ Fill(h, buf, c, limit).nb \in h.nb .. 5
           /\ Fill(h, buf, c, limit).nb - h.nb <= Len(buf) - c
           /\ h.nb <= limit => Fill(h, buf, c, limit).nb <= limit
           /\ \A i \in 1 .. h.nb :
                 Fill(h, buf, c, limit).frame[i] = h.frame[i]
<1> DEFINE nb == h.nb
           len == Len(buf)
           n == IF nb < limit THEN Least(limit - nb, len - c) ELSE 0
           g == [i \in 1 .. proto_FRAME_MAXSIZE |->
                   IF h.nb < i /\ i <= h.nb + n
                   THEN buf[c + i - h.nb] ELSE h.frame[i]]
<1>0. len \in Nat /\ buf \in Seq(Byte)
  OBVIOUS
<1>1. nb \in 0 .. 5 /\ h.frame \in [1 .. 5 -> Byte]
  BY DEF Handle, Frame, proto_FRAME_MAXSIZE
<1>2. c \in 0 .. len
  OBVIOUS
<1>3. Fill(h, buf, c, limit) = [frame |-> g, nb |-> nb + n]
  BY DEF Fill
<1>4. g = [i \in 1 .. 5 |->
             IF nb < i /\ i <= nb + n THEN buf[c + i - nb] ELSE h.frame[i]]
  BY DEF proto_FRAME_MAXSIZE
<1> HIDE DEF nb, len, g
<1>5. /\ n \in Nat /\ nb + n <= 5 /\ n <= len - c
      /\ nb <= limit => nb + n <= limit
  BY <1>0, <1>1, <1>2 DEF Least
<1> HIDE DEF n
<1>6. \A i \in 1 .. 5 : nb < i /\ i <= nb + n => buf[c + i - nb] \in Byte
  <2>1. ASSUME NEW i \in 1 .. 5, nb < i, i <= nb + n
        PROVE  buf[c + i - nb] \in Byte
    <3>1. c + i - nb \in 1 .. len
      BY <1>0, <1>1, <1>2, <1>5, <2>1
    <3> QED
      BY <3>1, ElementOfSeq DEF len
  <2> QED
    BY <2>1
<1>7. g \in [1 .. 5 -> Byte] /\ \A i \in 1 .. nb : g[i] = h.frame[i]
  BY <1>1, <1>4, <1>5, <1>6
<1>8. /\ [frame |-> g, nb |-> nb + n] \in Handle
      /\ nb + n \in nb .. 5
  BY <1>1, <1>5, <1>7 DEF Handle, Frame, proto_FRAME_MAXSIZE
<1>9. (nb + n) - nb <= len - c
  BY <1>0, <1>1, <1>5
<1> QED
  BY <1>3, <1>5, <1>7, <1>8, <1>9 DEF nb, len

LEMMA PushType ==
    ASSUME NEW h \in Handle, NEW buf \in Seq(Byte)
    PROVE  proto_pushToFrame(h, buf).hdle \in Handle
<1> DEFINE skip   == IF h.nb = 0 THEN FirstSOF(buf) - 1 ELSE 0
           header == Fill(h, buf, skip, proto_ARGS_OFFSET)
           cursor == skip + (header.nb - h.nb)
           length == FrameLen(header.frame[3])
           whole  == Fill(header, buf, cursor, length)
<1>0. Len(buf) \in Nat /\ h.nb \in 0 .. 5
  BY DEF Handle, proto_FRAME_MAXSIZE
<1>1. skip \in 0 .. Len(buf)
  <2> DEFINE sof == FirstSOF(buf)
             len == Len(buf)
  <2>1. sof \in 1 .. len + 1 /\ len \in Nat
    BY <1>0, FirstSOFType
  <2>2. skip = IF h.nb = 0 THEN sof - 1 ELSE 0
    OBVIOUS
  <2> HIDE DEF sof, len, skip
  <2>3. skip \in 0 .. len
    BY <2>1, <2>2
  <2> QED
    BY <2>3 DEF len
<1>2. proto_pushToFrame(h, buf).hdle =
         IF skip = Len(buf) THEN h
         ELSE IF cursor = Len(buf) THEN header ELSE whole
  BY DEF proto_pushToFrame
<1> HIDE DEF skip
<1>3. /\ header \in Handle /\ header.nb \in h.nb .. 5
      /\ header.nb - h.nb <= Len(buf) - skip
  <2>1. 3 \in 0 .. 5
    OBVIOUS
  <2> QED
    BY <1>1, <2>1, FillType DEF proto_ARGS_OFFSET
<1> HIDE DEF header
<1>4. cursor \in 0 .. Len(buf)
  <2> DEFINE hn == header.nb
             n0 == h.nb
             len == Len(buf)
  <2>1. /\ len \in Nat /\ n0 \in 0 .. 5 /\ skip \in 0 .. len
        /\ hn \in n0 .. 5 /\ hn - n0 <= len - skip
    BY <1>0, <1>1, <1>3
  <2>2. cursor = skip + (hn - n0)
    OBVIOUS
  <2> HIDE DEF hn, n0, len, cursor
  <2>3. cursor \in 0 .. len
    BY <2>1, <2>2
  <2> QED
    BY <2>3 DEF len
<1>5. length \in 0 .. 5
  <2>1. header.frame[3] \in Byte
    BY <1>3 DEF Handle, Frame, proto_FRAME_MAXSIZE
  <2>2. length \in 3 .. 5
    BY <2>1, FrameLenType
  <2> QED
    BY <2>2
<1> HIDE DEF cursor, length
<1>6. whole \in Handle
  BY <1>3, <1>4, <1>5, FillType
<1> QED
  BY <1>2, <1>3, <1>6

(***************************************************************************)
(* What proto_readFrame, proto_decodeFrame and the two ends return has the *)
(* types of the C code; decoding moves the cursor to 0 or not at all.      *)
(***************************************************************************)
LEMMA ReadLenType ==
    ASSUME NEW h \in Handle
    PROVE  ReadLen(h) \in 0 .. 5 /\ ReadLen(h) \in Nat
<1> DEFINE n == h.nb
<1>1. n \in 0 .. 5
  BY DEF Handle, proto_FRAME_MAXSIZE
<1>2. ReadLen(h) = 5 - n
  BY DEF ReadLen, proto_FRAME_MAXSIZE
<1> HIDE DEF n
<1> QED
  BY <1>1, <1>2

LEMMA ReadFrameType ==
    ASSUME NEW h \in Handle, NEW buf \in Seq(Byte)
    PROVE  proto_readFrame(h, buf).hdle \in Handle
<1> DEFINE p == proto_pushToFrame(h, buf)
<1>1. p.hdle \in Handle
  BY PushType
<1>2. proto_readFrame(h, buf).hdle = IF buf = << >> THEN h ELSE p.hdle
  BY DEF proto_readFrame
<1> HIDE DEF p
<1> QED
  BY <1>1, <1>2

LEMMA ArgsDef ==
    ASSUME NEW a \in Byte, NEW b \in Byte
    PROVE  <<a, b>> \in Args
BY DEF Args

LEMMA DecodeType ==
    ASSUME NEW h \in Handle, NEW arg \in Args
    PROVE  LET d == proto_decodeFrame(h, arg)
           IN  /\ d.hdle \in Handle /\ d.arg \in Args /\ d.cmd \in Byte
               /\ d.result \in {"WAITING", "REFUSED", "COMPLETED"}
               /\ d.result = "COMPLETED" => d.hdle.nb = 0
               /\ d.hdle.frame = h.frame
<1> DEFINE d == proto_decodeFrame(h, arg)
           crc == getFrameCRC(h.frame)
           f == h.frame
<1>1. crc \in Byte
  BY FrameCrcType DEF Handle
<1>2. /\ f[2] \in Byte /\ f[3] \in Byte /\ f[4] \in Byte /\ f[5] \in Byte
      /\ h \in [frame : Frame, nb : 0 .. 5]
  BY DEF Handle, Frame, proto_FRAME_MAXSIZE
<1>3. 0 \in Byte /\ ERR_CRC \in Byte /\ 0 \in 0 .. 5
  BY DEF Byte, ERR_CRC
<1>4. CASE ~HasFrame(h)
  <2>1. d = [hdle |-> h, result |-> "WAITING", cmd |-> 0, arg |-> arg]
    BY <1>4 DEF proto_decodeFrame
  <2> HIDE DEF d
  <2> QED
    BY <2>1, <1>3 DEF d
<1>5. CASE HasFrame(h) /\ ~CrcMatches(h)
  <2>1. d = [hdle |-> h, result |-> "REFUSED", cmd |-> ERR_CRC,
             arg |-> <<f[2], crc>>]
    BY <1>5 DEF proto_decodeFrame
  <2>2. <<f[2], crc>> \in Args
    BY <1>1, <1>2, ArgsDef
  <2> HIDE DEF d, f, crc
  <2> QED
    BY <2>1, <2>2, <1>3 DEF d
<1>6. CASE HasFrame(h) /\ CrcMatches(h)
  <2> DEFINE g == [h EXCEPT !.nb = 0]
  <2>1. d = [hdle |-> g, result |-> "COMPLETED", cmd |-> f[3],
             arg |-> <<f[4], f[5]>>]
    BY <1>6 DEF proto_decodeFrame
  <2>2. <<f[4], f[5]>> \in Args
    BY <1>2, ArgsDef
  <2>3. g \in Handle /\ g.nb = 0 /\ g.frame = h.frame
    BY <1>2, <1>3 DEF Handle, proto_FRAME_MAXSIZE
  <2> HIDE DEF d, f, g
  <2> QED
    BY <2>1, <2>2, <2>3, <1>2 DEF d, f
<1> QED
  BY <1>4, <1>5, <1>6

LEMMA ReceiveType ==
    ASSUME NEW N \in Nat, NEW regs \in [0 .. N - 1 -> Byte],
           NEW cmd, NEW arg \in Args
    PROVE  LET cb == slave_receive(regs, cmd, arg)
           IN  /\ cb.ok \in BOOLEAN /\ cb.arg \in Args
               /\ cb.regs \in [0 .. N - 1 -> Byte]
<1> DEFINE cb == slave_receive(regs, cmd, arg)
<1>1. arg[1] \in Byte /\ arg[2] \in Byte
  BY DEF Args
<1>2. CASE cmd = SET /\ arg[1] \in Registers(regs)
  <2> DEFINE t == [regs EXCEPT ![arg[1]] = arg[2]]
  <2>1. cb = [ok |-> TRUE, arg |-> arg, regs |-> t]
    BY <1>2 DEF slave_receive
  <2>2. t \in [0 .. N - 1 -> Byte]
    BY <1>1, <1>2
  <2> HIDE DEF cb, t
  <2> QED
    BY <2>1, <2>2 DEF cb
<1>3. CASE cmd = GET /\ arg[1] \in Registers(regs)
  <2> DEFINE a == <<regs[arg[1]], arg[2]>>
  <2>1. cb = [ok |-> TRUE, regs |-> regs, arg |-> a]
    BY <1>3 DEF slave_receive, SET, GET
  <2>2. regs[arg[1]] \in Byte
    BY <1>3 DEF Registers
  <2>3. a \in Args
    BY <1>1, <2>2, ArgsDef
  <2> HIDE DEF cb, a
  <2> QED
    BY <2>1, <2>3 DEF cb
<1>4. CASE ~(cmd \in {SET, GET} /\ arg[1] \in Registers(regs))
  <2>1. cb = [ok |-> FALSE, regs |-> regs, arg |-> arg]
    BY <1>4 DEF slave_receive
  <2> HIDE DEF cb
  <2> QED
    BY <2>1 DEF cb
<1> QED
  BY <1>2, <1>3, <1>4

LEMMA MasterType ==
    ASSUME NEW h \in Handle, NEW buf \in Seq(Byte), NEW arg \in Args
    PROVE  LET m == proto_master_readFrame(h, buf, arg)
           IN  m.hdle \in Handle /\ m.arg \in Args /\ m.decoded \in BOOLEAN
<1> DEFINE m == proto_master_readFrame(h, buf, arg)
           r == proto_readFrame(h, buf)
           d == proto_decodeFrame(r.hdle, arg)
<1>1. r.hdle \in Handle
  BY ReadFrameType
<1>2. /\ m.hdle = IF r.status # "NO_ERROR" THEN r.hdle ELSE d.hdle
      /\ m.arg = IF r.status # "NO_ERROR" THEN arg ELSE d.arg
      /\ m.decoded = IF r.status # "NO_ERROR" THEN FALSE
                     ELSE (d.result = "COMPLETED")
  BY DEF proto_master_readFrame
<1> HIDE DEF r, m
<1>3. d.hdle \in Handle /\ d.arg \in Args
  BY <1>1, DecodeType
<1> HIDE DEF d
<1>4. m.hdle \in Handle /\ m.arg \in Args /\ m.decoded \in BOOLEAN
  BY <1>1, <1>2, <1>3
<1> QED
  BY <1>4 DEF m

LEMMA SlaveMainType ==
    ASSUME NEW N \in Nat, NEW regs \in [0 .. N - 1 -> Byte],
           NEW h \in Handle, NEW buf \in Seq(Byte)
    PROVE  LET s == proto_slave_main(h, regs, buf)
           IN  /\ s.hdle \in Handle
               /\ s.regs \in [0 .. N - 1 -> Byte]
               /\ s.reply \in Seq(Byte) /\ Len(s.reply) <= 5
               /\ s.writes \in Seq(Args)
<1> DEFINE r == proto_readFrame(h, buf)
           d == proto_decodeFrame(r.hdle, <<0, 0>>)
           cb == slave_receive(regs, d.cmd, d.arg)
           cmd == IF cb.ok THEN REPLY ELSE ERR_ARG
           wr == IF cb.ok /\ d.cmd = SET THEN <<d.arg>> ELSE << >>
           s == proto_slave_main(h, regs, buf)
<1>0. r.hdle \in Handle
  BY ReadFrameType
<1>1. <<0, 0>> \in Args
  BY DEF Args, Byte
<1>2. CASE r.status # "NO_ERROR" \/ d.result = "WAITING"
  <2>1. s = [hdle |-> r.hdle, regs |-> regs, reply |-> << >>,
             writes |-> << >>, result |-> "QUIET"]
    BY <1>2 DEF proto_slave_main
  <2>2. << >> \in Seq(Byte) /\ << >> \in Seq(Args) /\ Len(<< >>) = 0
    OBVIOUS
  <2> HIDE DEF s, r
  <2> QED
    BY <1>0, <2>1, <2>2 DEF s
<1>3. CASE ~(r.status # "NO_ERROR" \/ d.result = "WAITING")
           /\ d.result = "COMPLETED"
  <2> DEFINE g == proto_writeFrame(d.hdle, cmd, cb.arg)
             w == WireBytes(cmd, cb.arg)
  <2>1. s = [hdle |-> g, regs |-> cb.regs,
             reply |-> w, writes |-> wr,
             result |-> "SERVED"]
    BY <1>3 DEF proto_slave_main
  <2> HIDE DEF r
  <2>2. d.hdle \in Handle /\ d.arg \in Args /\ d.cmd \in Byte
    BY <1>0, <1>1, DecodeType
  <2> HIDE DEF d
  <2>3. cb.arg \in Args /\ cb.regs \in [0 .. N - 1 -> Byte]
    BY <2>2, ReceiveType
  <2>4. cmd \in Byte /\ wr \in Seq(Args)
    BY <2>2 DEF REPLY, ERR_ARG, Byte
  <2> HIDE DEF cb, cmd, wr
  <2>5. g \in Handle
    BY <2>2, <2>3, <2>4, WriteFrameType
  <2>6. w \in Seq(Byte) /\ Len(w) <= 5
    BY <2>3, <2>4, WireLen
  <2> HIDE DEF g, w, s
  <2>7. s.hdle = g /\ s.reply = w /\ s.regs = cb.regs /\ s.writes = wr
    BY <2>1
  <2>8. /\ s.hdle \in Handle
        /\ s.regs \in [0 .. N - 1 -> Byte]
        /\ s.reply \in Seq(Byte) /\ Len(s.reply) <= 5
        /\ s.writes \in Seq(Args)
    BY <2>3, <2>4, <2>5, <2>6, <2>7, Zenon
  <2> QED
    BY <2>8 DEF s
<1>4. CASE ~(r.status # "NO_ERROR" \/ d.result = "WAITING")
           /\ d.result # "COMPLETED"
  <2> DEFINE g == proto_writeFrame(d.hdle, d.cmd, d.arg)
             w == WireBytes(d.cmd, d.arg)
  <2>1. s = [hdle |-> g, regs |-> regs,
             reply |-> w, writes |-> << >>,
             result |-> "REFUSED"]
    BY <1>4 DEF proto_slave_main
  <2> HIDE DEF r
  <2>2. d.hdle \in Handle /\ d.arg \in Args /\ d.cmd \in Byte
    BY <1>0, <1>1, DecodeType
  <2> HIDE DEF d
  <2>3. g \in Handle
    BY <2>2, WriteFrameType
  <2>4. w \in Seq(Byte) /\ Len(w) <= 5
    BY <2>2, WireLen
  <2>5. << >> \in Seq(Args)
    OBVIOUS
  <2> HIDE DEF g, w, s
  <2>7. s.hdle = g /\ s.reply = w /\ s.regs = regs /\ s.writes = << >>
    BY <2>1
  <2>8. /\ s.hdle \in Handle
        /\ s.regs \in [0 .. N - 1 -> Byte]
        /\ s.reply \in Seq(Byte) /\ Len(s.reply) <= 5
        /\ s.writes \in Seq(Args)
    BY <2>3, <2>4, <2>5, <2>7, Zenon
  <2> QED
    BY <2>8 DEF s
<1> QED
  BY <1>2, <1>3, <1>4

-----------------------------------------------------------------------------
(***************************************************************************)
(* One exchange between two ends.                                          *)
(***************************************************************************)
LEMMA EmptyReadLen ==
    ASSUME NEW h \in Handle, h.nb = 0
    PROVE  ReadLen(h) = 5
BY DEF ReadLen, proto_FRAME_MAXSIZE

LEMMA KnownArgs ==
    ASSUME NEW cmd \in 0 .. 4
    PROVE  /\ cmd \in Byte /\ FrameLen(cmd) \in 4 .. 5
           /\ proto_getArgsSize(cmd) \in 1 .. 2
           /\ FrameLen(cmd) = 3 + proto_getArgsSize(cmd)
<1>1. proto_getArgsSize(cmd) \in 1 .. 2
  BY DEF proto_getArgsSize, proto_LAST, ArgsLut
<1> DEFINE n == proto_getArgsSize(cmd)
<1>2. FrameLen(cmd) = 3 + n
  BY DEF FrameLen, proto_ARGS_OFFSET
<1>3. cmd \in Byte
  BY DEF Byte
<1> HIDE DEF n
<1>4. FrameLen(cmd) \in 4 .. 5
  BY <1>1, <1>2 DEF n
<1> QED
  BY <1>1, <1>2, <1>3, <1>4 DEF n

(***************************************************************************)
(* What a handle holds of a frame, and what reading more of it leaves.     *)
(***************************************************************************)
Holds(h, w, m) ==
    h \in Handle /\ h.nb = m /\ \A i \in 1 .. m : h.frame[i] = w[i]

\* From place s + 1 on, buf has the bytes k + 1 .. m of w.
Brings(buf, s, w, k, m) == \A i \in 1 .. m - k : buf[s + i] = w[k + i]

\* What is skipped by a handle with k bytes.
Skips(buf, k, s) == s = IF k = 0 THEN FirstSOF(buf) - 1 ELSE 0

LEMMA FillHolds ==
    ASSUME NEW w, NEW k \in 0 .. 5, NEW h, Holds(h, w, k),
           NEW buf \in Seq(Byte), NEW c \in 0 .. Len(buf), NEW limit \in 0 .. 5,
           NEW m, m = IF k < limit THEN Least(limit, k + (Len(buf) - c)) ELSE k,
           \A i \in 1 .. m - k : buf[c + i] = w[k + i]
    PROVE  Holds(Fill(h, buf, c, limit), w, m)
<1> DEFINE len == Len(buf)
           n == IF h.nb < limit THEN Least(limit - h.nb, len - c) ELSE 0
           g == [i \in 1 .. proto_FRAME_MAXSIZE |->
                   IF h.nb < i /\ i <= h.nb + n
                   THEN buf[c + i - h.nb] ELSE h.frame[i]]
<1>1. /\ h.nb = k /\ len \in Nat /\ h \in Handle
      /\ \A i \in 1 .. k : h.frame[i] = w[i]
  BY DEF Holds
<1>2. Fill(h, buf, c, limit) \in Handle
  BY <1>1, FillType
<1>3. Fill(h, buf, c, limit) = [frame |-> g, nb |-> h.nb + n]
  BY DEF Fill
<1>4. g = [i \in 1 .. 5 |-> IF k < i /\ i <= k + n THEN buf[c + i - k]
                            ELSE h.frame[i]]
  BY <1>1 DEF proto_FRAME_MAXSIZE
<1>5. c \in 0 .. len /\ m = IF k < limit THEN Least(limit, k + (len - c)) ELSE k
  OBVIOUS
<1> HIDE DEF len, g
<1>6. k + n = m /\ m \in k .. 5
  BY <1>1, <1>5 DEF Least
<1> HIDE DEF n
<1>7. ASSUME NEW i \in 1 .. m PROVE g[i] = w[i]
  <2>1. i \in 1 .. 5
    BY <1>6
  <2>2. CASE i <= k
    BY <1>1, <1>4, <2>1, <2>2
  <2>3. CASE k < i
    <3>1. i - k \in 1 .. m - k /\ c + i - k = c + (i - k) /\ k + (i - k) = i
      BY <1>1, <1>6, <2>3
    <3>2. g[i] = buf[c + (i - k)]
      BY <1>4, <1>6, <2>1, <2>3, <3>1
    <3> QED
      BY <3>1, <3>2
  <2> QED
    BY <2>2, <2>3
<1> QED
  BY <1>1, <1>2, <1>3, <1>6, <1>7 DEF Holds

\* A handle with the first k bytes of a frame w, given more of it from place
\* s + 1 on, holds as much of it as came, and drops what follows it.
LEMMA PushMore ==
    ASSUME NEW w, NEW l \in 3 .. 5, FrameLen(w[3]) = l,
           NEW k \in 0 .. l - 1, NEW h, Holds(h, w, k),
           NEW buf \in Seq(Byte), NEW s \in 0 .. Len(buf) - 1,
           Skips(buf, k, s),
           NEW m, m = Least(l, k + (Len(buf) - s)), Brings(buf, s, w, k, m)
    PROVE  /\ Holds(proto_pushToFrame(h, buf).hdle, w, m)
           /\ m = l => proto_pushToFrame(h, buf).full = TRUE
<1> DEFINE p == proto_pushToFrame(h, buf)
           len == Len(buf)
           d == len - s
           skip == IF h.nb = 0 THEN FirstSOF(buf) - 1 ELSE 0
           header == Fill(h, buf, skip, proto_ARGS_OFFSET)
           cursor == skip + (header.nb - h.nb)
           length == FrameLen(header.frame[3])
           whole == Fill(header, buf, cursor, length)
           a == IF k < 3 THEN Least(3, k + d) ELSE k
<1>1. h.nb = k /\ len \in Nat
  BY DEF Holds
<1>2. p = IF skip = len THEN [hdle |-> h, full |-> FALSE]
          ELSE IF cursor = len THEN [hdle |-> header, full |-> TRUE]
          ELSE [hdle |-> whole, full |-> whole.nb = length]
  BY DEF proto_pushToFrame
<1>3. skip = s
  BY <1>1 DEF Skips
<1> HIDE DEF p, skip
<1>4. d \in Nat /\ d > 0 /\ s \in Nat /\ s + d = len /\ m = Least(l, k + d)
  BY <1>1
<1> HIDE DEF len, d
<1>5. /\ a \in k .. m /\ a \in 0 .. 5 /\ m \in k .. l
      /\ a - k <= d
      /\ a - k = d => a = m
      /\ a - k # d => a >= 3
      /\ m = IF a < l THEN Least(l, a + (d - (a - k))) ELSE a
  <2>1. a = IF k < 3 THEN Least(3, k + d) ELSE k
    OBVIOUS
  <2> HIDE DEF a
  <2> QED
    BY <1>4, <2>1 DEF Least
<1>6. Holds(header, w, a)
  <2>1. header = Fill(h, buf, s, 3)
    BY <1>3 DEF proto_ARGS_OFFSET
  <2>2. \A i \in 1 .. a - k : buf[s + i] = w[k + i]
    BY <1>5 DEF Brings
  <2>3. /\ s \in 0 .. Len(buf) /\ k \in 0 .. 5 /\ 3 \in 0 .. 5
        /\ a = IF k < 3 THEN Least(3, k + (Len(buf) - s)) ELSE k
    BY DEF d, len
  <2> HIDE DEF a
  <2>4. Holds(Fill(h, buf, s, 3), w, a)
    BY <2>2, <2>3, FillHolds
  <2> QED
    BY <2>1, <2>4
<1> HIDE DEF header, a
<1>7. header.nb = a /\ cursor = s + (a - k)
  BY <1>1, <1>3, <1>6 DEF Holds
<1> HIDE DEF cursor
<1>8. skip # len
  BY <1>3, <1>4
<1>9. CASE a - k = d
  <2>1. cursor = len
    BY <1>4, <1>7, <1>9
  <2>2. p.hdle = header /\ p.full = TRUE
    BY <1>2, <1>8, <2>1
  <2> QED
    BY <1>5, <1>6, <1>9, <2>2 DEF p
<1>10. CASE a - k # d
  <2>1. cursor # len /\ cursor \in 0 .. len /\ a >= 3 /\ len - cursor = d - (a - k)
    <3> DEFINE e == a - k
    <3>1. e \in Nat /\ e <= d /\ e # d
      BY <1>5, <1>10
    <3>2. cursor = s + e
      BY <1>7
    <3> HIDE DEF e
    <3>3. cursor # len /\ cursor \in 0 .. len /\ len - cursor = d - e
      BY <1>4, <3>1, <3>2
    <3> QED
      BY <1>5, <1>10, <3>3 DEF e
  <2>2. header.frame[3] = w[3]
    <3>1. 3 \in 1 .. a
      BY <1>5, <2>1
    <3> QED
      BY <1>6, <3>1 DEF Holds
  <2>3. length = l
    BY <2>2
  <2> HIDE DEF length
  <2>4. Holds(whole, w, m)
    <3>1. m = IF a < l THEN Least(l, a + (len - cursor)) ELSE a
      BY <1>5, <2>1
    <3>2. ASSUME NEW i \in 1 .. m - a PROVE buf[cursor + i] = w[a + i]
      <4> DEFINE j == (a - k) + i
      <4>1. j \in 1 .. m - k /\ k + j = a + i
        BY <1>5
      <4>2. s + j = cursor + i
        BY <1>4, <1>5, <1>7
      <4> HIDE DEF j
      <4>3. buf[s + j] = w[k + j]
        BY <4>1 DEF Brings
      <4> QED
        BY <4>1, <4>2, <4>3
    <3>3. cursor \in 0 .. Len(buf) /\ l \in 0 .. 5
          /\ m = IF a < l THEN Least(l, a + (Len(buf) - cursor)) ELSE a
      BY <2>1, <3>1 DEF len
    <3>4. whole = Fill(header, buf, cursor, l)
      BY <2>3
    <3> HIDE DEF whole
    <3>5. Holds(Fill(header, buf, cursor, l), w, m)
      BY <1>5, <1>6, <3>2, <3>3, FillHolds
    <3> QED
      BY <3>4, <3>5
  <2> HIDE DEF whole
  <2>5. p.hdle = whole /\ p.full = (whole.nb = length)
    BY <1>2, <1>8, <2>1
  <2>6. whole.nb = m
    BY <2>4 DEF Holds
  <2> QED
    BY <2>3, <2>4, <2>5, <2>6 DEF p
<1> QED
  BY <1>9, <1>10

\* The wire form of a known command: its length is that of its third byte.
LEMMA Wire ==
    ASSUME NEW cmd \in 0 .. 4, NEW args \in Args
    PROVE  LET w == WireBytes(cmd, args)
               l == FrameLen(cmd)
           IN  /\ w \in Seq(Byte) /\ Len(w) = l /\ l \in 4 .. 5 /\ w # << >>
               /\ w[1] = proto_START_OF_FRAME /\ w[3] = cmd
               /\ FrameLen(w[3]) = l
               /\ \A i \in 1 .. l : w[i] = proto_makeFrame(cmd, args)[i]
<1> DEFINE w == WireBytes(cmd, args)
           l == FrameLen(cmd)
           f == proto_makeFrame(cmd, args)
<1>1. cmd \in Byte /\ l \in 4 .. 5
  BY KnownArgs
<1>2. w \in Seq(Byte) /\ Len(w) = l /\ \A i \in 1 .. l : w[i] = f[i]
  BY <1>1, WireBytesType
<1>3. f[1] = proto_START_OF_FRAME /\ f[3] = cmd
  BY <1>1, MakeFrameType
<1> HIDE DEF f, w
<1>4. w[1] = f[1] /\ w[3] = f[3]
  <2>1. 1 \in 1 .. l /\ 3 \in 1 .. l
    BY <1>1
  <2> QED
    BY <1>2, <2>1
<1>5. FrameLen(w[3]) = l
  BY <1>3, <1>4
<1> HIDE DEF l
<1>6. w # << >>
  BY <1>1, <1>2
<1> QED
  BY <1>1, <1>2, <1>3, <1>4, <1>5, <1>6 DEF w, l, f

LEMMA ReadMore ==
    ASSUME NEW w, NEW l \in 3 .. 5, FrameLen(w[3]) = l,
           NEW k \in 0 .. l - 1, NEW h, Holds(h, w, k),
           NEW buf \in Seq(Byte), NEW s \in 0 .. Len(buf) - 1,
           Skips(buf, k, s),
           NEW m, m = Least(l, k + (Len(buf) - s)), Brings(buf, s, w, k, m)
    PROVE  /\ Holds(proto_readFrame(h, buf).hdle, w, m)
           /\ m = l => proto_readFrame(h, buf).status = "NO_ERROR"
<1> DEFINE p == proto_pushToFrame(h, buf)
           r == proto_readFrame(h, buf)
<1>1. Holds(p.hdle, w, m) /\ (m = l => p.full = TRUE)
  BY PushMore
<1>2. buf # << >>
  <2>1. Len(buf) # 0
    <3> DEFINE n == Len(buf)
    <3>1. n \in Nat /\ s \in 0 .. n - 1
      OBVIOUS
    <3> HIDE DEF n
    <3>2. n # 0
      BY <3>1
    <3> QED
      BY <3>2 DEF n
  <2> QED
    BY <2>1
<1>3. r = [hdle |-> p.hdle,
           status |-> IF p.full THEN "NO_ERROR" ELSE "TIMEOUT"]
  BY <1>2 DEF proto_readFrame
<1> HIDE DEF p, r
<1> QED
  BY <1>1, <1>3 DEF r

\* An empty handle reads a frame that comes whole.
LEMMA ReadWhole ==
    ASSUME NEW h \in Handle, h.nb = 0,
           NEW cmd \in 0 .. 4, NEW args \in Args
    PROVE  LET r == proto_readFrame(h, WireBytes(cmd, args))
           IN  /\ Holds(r.hdle, WireBytes(cmd, args), FrameLen(cmd))
               /\ r.status = "NO_ERROR"
<1> DEFINE w == WireBytes(cmd, args)
           l == FrameLen(cmd)
<1>1. /\ w \in Seq(Byte) /\ Len(w) = l /\ l \in 4 .. 5
      /\ w[1] = proto_START_OF_FRAME /\ FrameLen(w[3]) = l
  BY Wire
<1> HIDE DEF w, l
<1>2. Holds(h, w, 0)
  BY DEF Holds
<1>3. Skips(w, 0, 0)
  <2> DEFINE sof == FirstSOF(w)
  <2>1. /\ sof \in 1 .. Len(w) + 1
        /\ \A j \in 1 .. sof - 1 :
              j <= Len(w) => w[j] # proto_START_OF_FRAME
    BY <1>1, FirstSOFType
  <2> HIDE DEF sof
  <2>2. sof = 1
    BY <1>1, <2>1
  <2> QED
    BY <2>2 DEF Skips, sof
<1>4. Brings(w, 0, w, 0, l)
  <2>1. \A i \in 1 .. l - 0 : 0 + i = i
    BY <1>1
  <2> QED
    BY <2>1 DEF Brings
<1>5. l \in 3 .. 5 /\ 0 \in 0 .. l - 1 /\ 0 \in 0 .. Len(w) - 1
      /\ l = Least(l, 0 + (Len(w) - 0))
  BY <1>1 DEF Least
<1>6. /\ Holds(proto_readFrame(h, w).hdle, w, l)
      /\ l = l => proto_readFrame(h, w).status = "NO_ERROR"
  BY <1>1, <1>2, <1>3, <1>4, <1>5, ReadMore
<1> QED
  BY <1>6 DEF w, l

-----------------------------------------------------------------------------
(***************************************************************************)
(* A frame held whole is decoded as it was made; one held in part waits.   *)
(***************************************************************************)
MadeAndDecoded(d, cmd, args) ==
    /\ d.hdle \in Handle /\ d.hdle.nb = 0
    /\ d.result = "COMPLETED" /\ d.cmd = cmd
    /\ d.arg \in Args /\ d.arg[1] = args[1]
    /\ proto_getArgsSize(cmd) = 2 => d.arg = args

LEMMA RoundTrip ==
    ASSUME NEW cmd \in 0 .. 4, NEW args \in Args, NEW arg \in Args,
           NEW g, Holds(g, WireBytes(cmd, args), FrameLen(cmd))
    PROVE  MadeAndDecoded(proto_decodeFrame(g, arg), cmd, args)
<1> DEFINE f == proto_makeFrame(cmd, args)
           n == FrameLen(cmd)
           size == proto_getArgsSize(cmd)
           d == proto_decodeFrame(g, arg)
<1>1. /\ cmd \in Byte /\ n \in 4 .. 5 /\ size \in 1 .. 2 /\ n = 3 + size
  BY KnownArgs
<1>2. /\ g \in Handle /\ g.nb = n
      /\ \A i \in 1 .. n : g.frame[i] = f[i]
  BY Wire DEF Holds
<1>4. /\ f[2] = getFrameCRC(f) /\ f[3] = cmd /\ f[4] = args[1]
      /\ size = 2 => f[5] = args[2]
  BY <1>1, MakeFrameType
<1> HIDE DEF f, n
<1> DEFINE e == g.frame
<1>5. /\ e[2] = f[2] /\ e[3] = cmd /\ e[4] = f[4]
      /\ size = 2 => e[5] = f[5]
  BY <1>1, <1>2, <1>4
<1>6. getFrameCRC(e) = getFrameCRC(f)
  <2>1. size = proto_getArgsSize(e[3]) /\ size = proto_getArgsSize(f[3])
    BY <1>4, <1>5
  <2>2. getFrameCRC(e) = IF size = 0 THEN getCRC1(e[3])
                         ELSE IF size = 1 THEN getCRC2(e[3], e[4])
                         ELSE getCRC3(e[3], e[4], e[5])
    BY <2>1 DEF getFrameCRC
  <2>3. getFrameCRC(f) = IF size = 0 THEN getCRC1(f[3])
                         ELSE IF size = 1 THEN getCRC2(f[3], f[4])
                         ELSE getCRC3(f[3], f[4], f[5])
    BY <2>1 DEF getFrameCRC
  <2> HIDE DEF size, e
  <2> QED
    BY <1>1, <1>4, <1>5, <2>2, <2>3
<1>7. HasFrame(g) /\ CrcMatches(g)
  <2>1. FrameLen(e[3]) = n /\ n >= 3
    BY <1>1, <1>5 DEF n
  <2>2. g.nb >= FrameLen(g.frame[3]) /\ g.nb >= proto_ARGS_OFFSET
    BY <1>1, <1>2, <2>1 DEF proto_ARGS_OFFSET
  <2>3. getFrameCRC(g.frame) = g.frame[2]
    BY <1>4, <1>5, <1>6
  <2> QED
    BY <2>2, <2>3 DEF HasFrame, CrcMatches
<1> DEFINE x == [g EXCEPT !.nb = 0]
<1>8. d = [hdle |-> x, result |-> "COMPLETED",
           cmd |-> e[3], arg |-> <<e[4], e[5]>>]
  BY <1>7 DEF proto_decodeFrame
<1>9. d.hdle \in Handle /\ d.arg \in Args
  BY <1>2, DecodeType
<1>10. d.hdle.nb = 0
  <2>1. d.result = "COMPLETED"
    BY <1>8
  <2> QED
    BY <1>2, <2>1, DecodeType
<1> HIDE DEF d, e
<1>11. /\ d.result = "COMPLETED" /\ d.cmd = cmd
       /\ d.arg[1] = args[1]
       /\ size = 2 => d.arg = <<args[1], args[2]>>
  BY <1>4, <1>5, <1>8
<1>12. <<args[1], args[2]>> = args
  BY DEF Args
<1> QED
  BY <1>9, <1>10, <1>11, <1>12 DEF d, size, MadeAndDecoded

LEMMA PartWaits ==
    ASSUME NEW w, NEW l \in 3 .. 5, FrameLen(w[3]) = l,
           NEW m \in 0 .. l - 1, NEW g, Holds(g, w, m), NEW arg
    PROVE  proto_decodeFrame(g, arg).result = "WAITING"
<1>1. ~HasFrame(g)
  <2>1. g.nb = m /\ (m >= 3 => g.frame[3] = w[3])
    BY DEF Holds
  <2> QED
    BY <2>1 DEF HasFrame, proto_ARGS_OFFSET
<1> QED
  BY <1>1 DEF proto_decodeFrame

(***************************************************************************)
(* The slave performs a request that arrives whole, and answers it.        *)
(***************************************************************************)
LEMMA RequestArgsType ==
    ASSUME NEW req \in Request
    PROVE  /\ RequestArgs(req) \in Args
           /\ req.cmd \in {SET, GET} /\ req.cmd \in 0 .. 4
           /\ RequestArgs(req)[1] = req.reg
           /\ req.cmd = SET => RequestArgs(req)[2] = req.val
BY DEF RequestArgs, Request, Args, Byte, SET, GET

Serves(s, N, regs, req) ==
    LET owned == req.reg \in 0 .. N - 1
    IN  /\ s.hdle \in Handle /\ s.hdle.nb = 0
        /\ s.regs = IF req.cmd = SET /\ owned
                    THEN [regs EXCEPT ![req.reg] = req.val] ELSE regs
        /\ \E a \in Args :
              /\ s.reply = WireBytes(IF owned THEN REPLY ELSE ERR_ARG, a)
              /\ req.cmd = GET /\ owned => a[1] = regs[req.reg]
        /\ s.writes = IF req.cmd = SET /\ owned THEN <<<<req.reg, req.val>>>>
                      ELSE << >>
        /\ s.result = "SERVED"

\* The iteration that reads the last byte of a request serves it.
LEMMA SlaveEnds ==
    ASSUME NEW N \in Nat, NEW regs \in [0 .. N - 1 -> Byte],
           NEW h, NEW buf, NEW req \in Request,
           Holds(proto_readFrame(h, buf).hdle,
                 WireBytes(req.cmd, RequestArgs(req)), FrameLen(req.cmd)),
           proto_readFrame(h, buf).status = "NO_ERROR"
    PROVE  Serves(proto_slave_main(h, regs, buf), N, regs, req)
<1> DEFINE ra == RequestArgs(req)
           owned == req.reg \in 0 .. N - 1
           r == proto_readFrame(h, buf)
           d == proto_decodeFrame(r.hdle, <<0, 0>>)
           cb == slave_receive(regs, d.cmd, d.arg)
           cmd == IF cb.ok THEN REPLY ELSE ERR_ARG
           g == proto_writeFrame(d.hdle, cmd, cb.arg)
           w == WireBytes(cmd, cb.arg)
           wr == IF cb.ok /\ d.cmd = SET THEN <<d.arg>> ELSE << >>
           s == proto_slave_main(h, regs, buf)
<1>1. /\ ra \in Args /\ ra[1] = req.reg /\ (req.cmd = SET => ra[2] = req.val)
      /\ req.cmd \in {SET, GET} /\ req.cmd \in 0 .. 4
  BY RequestArgsType
<1>2. <<0, 0>> \in Args
  BY DEF Args, Byte
<1>3. /\ r.status = "NO_ERROR" /\ d.hdle \in Handle /\ d.hdle.nb = 0
      /\ d.result = "COMPLETED" /\ d.cmd = req.cmd
      /\ d.arg \in Args /\ d.arg[1] = req.reg
      /\ req.cmd = SET => d.arg = <<req.reg, req.val>>
  <2>1. /\ d.hdle \in Handle /\ d.hdle.nb = 0
        /\ d.result = "COMPLETED" /\ d.cmd = req.cmd
        /\ d.arg \in Args /\ d.arg[1] = ra[1]
        /\ proto_getArgsSize(req.cmd) = 2 => d.arg = ra
    <3> DEFINE x == r.hdle
    <3>1. Holds(x, WireBytes(req.cmd, ra), FrameLen(req.cmd))
      OBVIOUS
    <3> HIDE DEF x, ra
    <3>2. MadeAndDecoded(proto_decodeFrame(x, <<0, 0>>), req.cmd, ra)
      BY <1>1, <1>2, <3>1, RoundTrip
    <3>3. MadeAndDecoded(d, req.cmd, ra)
      BY <3>2 DEF x
    <3> HIDE DEF d
    <3> QED
      BY <3>3 DEF MadeAndDecoded
  <2>2. req.cmd = SET => proto_getArgsSize(req.cmd) = 2
    BY DEF SET, proto_getArgsSize, proto_LAST, ArgsLut
  <2>3. req.cmd = SET => ra = <<req.reg, req.val>>
    BY DEF RequestArgs
  <2>4. r.status = "NO_ERROR"
    OBVIOUS
  <2> HIDE DEF d, r, ra
  <2> QED
    BY <1>1, <2>1, <2>2, <2>3, <2>4
<1> HIDE DEF ra
<1>4. s = [hdle |-> g, regs |-> cb.regs, reply |-> w, writes |-> wr,
           result |-> "SERVED"]
  BY <1>3 DEF proto_slave_main
<1> HIDE DEF r, d
<1>5. /\ owned => cb.ok = TRUE
      /\ ~owned => cb.ok = FALSE
      /\ cb.arg \in Args
      /\ cb.regs = IF req.cmd = SET /\ owned
                   THEN [regs EXCEPT ![req.reg] = req.val] ELSE regs
      /\ req.cmd = GET /\ owned => cb.arg[1] = regs[req.reg]
  <2>0. cb.arg \in Args
    BY <1>3, ReceiveType
  <2>1. Registers(regs) = 0 .. N - 1
    BY DEF Registers
  <2>2. CASE req.cmd = SET /\ owned
    <3> DEFINE t == [regs EXCEPT ![d.arg[1]] = d.arg[2]]
    <3>1. cb = [ok |-> TRUE, arg |-> d.arg, regs |-> t]
      BY <1>3, <2>1, <2>2 DEF slave_receive
    <3>2. t = [regs EXCEPT ![req.reg] = req.val]
      <4>1. d.arg[1] = req.reg /\ d.arg[2] = req.val
        BY <1>3, <2>2
      <4> QED
        BY <4>1
    <3> HIDE DEF cb, t
    <3>3. cb.ok = TRUE /\ cb.regs = t
      BY <3>1
    <3> QED
      BY <2>0, <2>2, <3>2, <3>3 DEF SET, GET
  <2>3. CASE req.cmd = GET /\ owned
    <3>1. cb = [ok |-> TRUE, regs |-> regs,
                arg |-> <<regs[d.arg[1]], d.arg[2]>>]
      BY <1>3, <2>1, <2>3 DEF slave_receive, SET, GET
    <3> HIDE DEF cb
    <3> QED
      BY <1>3, <2>0, <2>3, <3>1 DEF SET, GET
  <2>4. CASE ~owned
    <3>1. cb = [ok |-> FALSE, regs |-> regs, arg |-> d.arg]
      BY <1>3, <2>1, <2>4 DEF slave_receive
    <3> HIDE DEF cb
    <3> QED
      BY <2>0, <2>4, <3>1
  <2> QED
    BY <1>1, <2>2, <2>3, <2>4
<1> HIDE DEF cb, owned
<1>6. cmd = (IF owned THEN REPLY ELSE ERR_ARG) /\ cmd \in Byte
  BY <1>5 DEF REPLY, ERR_ARG, Byte
<1> HIDE DEF cmd
<1>7. g \in Handle /\ g.nb = 0
  BY <1>3, <1>5, <1>6, WriteFrameType
<1> HIDE DEF g, w, wr, s
<1>8. /\ s.hdle \in Handle /\ s.hdle.nb = 0
      /\ s.regs = IF req.cmd = SET /\ owned
                  THEN [regs EXCEPT ![req.reg] = req.val] ELSE regs
      /\ s.reply = w /\ s.writes = wr /\ s.result = "SERVED"
  BY <1>4, <1>5, <1>7
<1>9. w = WireBytes(IF owned THEN REPLY ELSE ERR_ARG, cb.arg)
  BY <1>6 DEF w
<1>10. wr = IF req.cmd = SET /\ owned THEN <<<<req.reg, req.val>>>> ELSE << >>
  BY <1>3, <1>5 DEF wr
<1> QED
  BY <1>5, <1>8, <1>9, <1>10 DEF s, owned, Serves

LEMMA SlaveServes ==
    ASSUME NEW N \in Nat, NEW regs \in [0 .. N - 1 -> Byte],
           NEW h \in Handle, h.nb = 0, NEW req \in Request
    PROVE  Serves(proto_slave_main(h, regs,
                         WireBytes(req.cmd, RequestArgs(req))), N, regs, req)
<1> DEFINE buf == WireBytes(req.cmd, RequestArgs(req))
<1>1. /\ Holds(proto_readFrame(h, buf).hdle, buf, FrameLen(req.cmd))
      /\ proto_readFrame(h, buf).status = "NO_ERROR"
  BY RequestArgsType, ReadWhole
<1> QED
  BY <1>1, SlaveEnds

\* The iterations before it answer nothing, and change only the handle.
NoAnswer(s, h, regs) ==
    s = [hdle |-> h, regs |-> regs, reply |-> << >>, writes |-> << >>,
         result |-> "QUIET"]

LEMMA SlaveWaits ==
    ASSUME NEW w, NEW l \in 3 .. 5, FrameLen(w[3]) = l,
           NEW m \in 0 .. l - 1, NEW h, NEW buf, NEW regs,
           Holds(proto_readFrame(h, buf).hdle, w, m)
    PROVE  NoAnswer(proto_slave_main(h, regs, buf),
                    proto_readFrame(h, buf).hdle, regs)
<1> DEFINE x == proto_readFrame(h, buf).hdle
<1>1. proto_decodeFrame(x, <<0, 0>>).result = "WAITING"
  <2>1. Holds(x, w, m)
    OBVIOUS
  <2> HIDE DEF x
  <2> QED
    BY <2>1, PartWaits
<1> QED
  BY <1>1 DEF NoAnswer, proto_slave_main

\* Bytes without a start of frame are dropped by an empty handle.
LEMMA SlaveDrops ==
    ASSUME NEW h, h.nb = 0, NEW buf, FirstSOF(buf) - 1 = Len(buf), NEW regs
    PROVE  NoAnswer(proto_slave_main(h, regs, buf), h, regs)
<1>1. proto_pushToFrame(h, buf) = [hdle |-> h, full |-> FALSE]
  BY DEF proto_pushToFrame
<1>2. proto_readFrame(h, buf) = [hdle |-> h, status |-> "TIMEOUT"]
  BY <1>1 DEF proto_readFrame
<1> QED
  BY <1>2 DEF NoAnswer, proto_slave_main

(***************************************************************************)
(* The master reports an answer that arrives whole.                        *)
(***************************************************************************)
Reports(m, cmd, args) ==
    /\ m.hdle \in Handle /\ m.hdle.nb = 0 /\ m.decoded = TRUE
    /\ m.status = ReplyStatus(cmd)
    /\ m.arg \in Args /\ m.arg[1] = args[1]

LEMMA MasterReports ==
    ASSUME NEW h \in Handle, h.nb = 0,
           NEW cmd \in 0 .. 4, NEW args \in Args, NEW arg \in Args
    PROVE  Reports(proto_master_readFrame(h, WireBytes(cmd, args), arg),
                   cmd, args)
<1> DEFINE buf == WireBytes(cmd, args)
           r == proto_readFrame(h, buf)
           d == proto_decodeFrame(r.hdle, arg)
           m == proto_master_readFrame(h, buf, arg)
<1>1. /\ r.status = "NO_ERROR" /\ d.hdle \in Handle /\ d.hdle.nb = 0
      /\ d.result = "COMPLETED" /\ d.cmd = cmd
      /\ d.arg \in Args /\ d.arg[1] = args[1]
  <2> DEFINE x == r.hdle
  <2>1. Holds(x, buf, FrameLen(cmd)) /\ r.status = "NO_ERROR"
    BY ReadWhole
  <2> HIDE DEF x, r
  <2>2. MadeAndDecoded(proto_decodeFrame(x, arg), cmd, args)
    BY <2>1, RoundTrip
  <2>3. MadeAndDecoded(d, cmd, args)
    BY <2>2 DEF x
  <2> HIDE DEF d
  <2> QED
    BY <2>1, <2>3 DEF MadeAndDecoded
<1>2. /\ m.hdle = d.hdle /\ m.arg = d.arg
      /\ m.decoded = (d.result = "COMPLETED")
      /\ m.status = ReplyStatus(d.cmd)
  BY <1>1 DEF proto_master_readFrame
<1> HIDE DEF r, d, m
<1> QED
  BY <1>1, <1>2 DEF m, buf, Reports

LEMMA MasterWaits ==
    ASSUME NEW w, NEW l \in 3 .. 5, FrameLen(w[3]) = l,
           NEW m \in 0 .. l - 1, NEW h, NEW buf, NEW arg,
           Holds(proto_readFrame(h, buf).hdle, w, m)
    PROVE  proto_master_readFrame(h, buf, arg).decoded = FALSE
<1> DEFINE x == proto_readFrame(h, buf).hdle
<1>1. proto_decodeFrame(x, arg).result = "WAITING"
  <2>1. Holds(x, w, m)
    OBVIOUS
  <2> HIDE DEF x
  <2> QED
    BY <2>1, PartWaits
<1> QED
  BY <1>1 DEF proto_master_readFrame

-----------------------------------------------------------------------------
(***************************************************************************)
(* A stream of frames read in parts.  Each byte on the way to the slave is *)
(* tagged with the call c it was sent for and its place in that call's     *)
(* frame; T holds the tags in the order of the stream, R the calls made.   *)
(***************************************************************************)
Frames(R) == [c \in 1 .. Len(R) |-> WireBytes(R[c].cmd, RequestArgs(R[c]))]
FrameSize(R, c) == FrameLen(R[c].cmd)
TagByte(R, t) == Frames(R)[t[1]][t[2]]

\* Frames follow each other; only the first may have lost its start.
Tagged(T, R) ==
    \A i \in 1 .. Len(T) :
        /\ T[i][1] \in 1 .. Len(R)
        /\ T[i][2] \in 1 .. FrameSize(R, T[i][1])
        /\ T[i][2] < FrameSize(R, T[i][1]) =>
              i < Len(T) /\ T[i + 1] = <<T[i][1], T[i][2] + 1>>
        /\ \A j \in i + 1 .. Len(T) :
              \/ T[i][1] < T[j][1]
              \/ T[i][1] = T[j][1] /\ T[i][2] < T[j][2]

Tags == Nat \X Nat

\* The handle has the start of the first frame of the stream, or nothing.
HeldPart(h, T, R) ==
    /\ h \in Handle /\ h.nb <= Len(T)
    /\ h.nb > 0 => T[1][2] = 1 /\ h.nb < FrameSize(R, T[1][1])
    /\ \A i \in 1 .. h.nb : h.frame[i] = TagByte(R, T[i])

\* In the calls made, the start of frame is found only at the start.
StartsOnce(R) ==
    \A c \in 1 .. Len(R) : \A i \in 2 .. FrameSize(R, c) :
        Frames(R)[c][i] # proto_START_OF_FRAME

Dropped(T, n) == SubSeq(T, n + 1, Len(T))

LEMMA FrameOf ==
    ASSUME NEW R \in Seq(Request), NEW c \in 1 .. Len(R)
    PROVE  LET w == Frames(R)[c]
               l == FrameSize(R, c)
           IN  /\ R[c] \in Request /\ w = WireBytes(R[c].cmd, RequestArgs(R[c]))
               /\ w \in Seq(Byte) /\ Len(w) = l /\ l \in 4 .. 5
               /\ w[1] = proto_START_OF_FRAME /\ FrameLen(w[3]) = l
<1> DEFINE r == R[c]
<1>1. r \in Request
  BY ElementOfSeq
<1>2. Frames(R)[c] = WireBytes(r.cmd, RequestArgs(r))
  BY DEF Frames
<1> HIDE DEF r
<1>3. r.cmd \in 0 .. 4 /\ RequestArgs(r) \in Args
  BY <1>1, RequestArgsType
<1>4. LET w == WireBytes(r.cmd, RequestArgs(r))
          l == FrameLen(r.cmd)
      IN  /\ w \in Seq(Byte) /\ Len(w) = l /\ l \in 4 .. 5
          /\ w[1] = proto_START_OF_FRAME /\ FrameLen(w[3]) = l
  BY <1>3, Wire
<1> QED
  BY <1>1, <1>2, <1>4 DEF r, FrameSize

\* From its start a frame is on the stream to its end, and what is behind it
\* belongs to later calls.
LEMMA FrameRun ==
    ASSUME NEW R \in Seq(Request), NEW T \in Seq(Tags), Tagged(T, R),
           NEW p \in 1 .. Len(T), T[p][2] = 1
    PROVE  LET c == T[p][1]
               l == FrameSize(R, c)
           IN  /\ c \in 1 .. Len(R) /\ l \in 4 .. 5
               /\ p + l - 1 <= Len(T)
               /\ \A i \in 1 .. l : T[p + i - 1] = <<c, i>>
               /\ \A j \in p + l .. Len(T) : c < T[j][1]
<1> DEFINE c == T[p][1]
           l == FrameSize(R, c)
           n == Len(T)
<1>1. c \in 1 .. Len(R) /\ l \in 4 .. 5 /\ n \in Nat /\ p \in 1 .. n
  BY FrameOf DEF Tagged
<1>2. T[p] = <<c, 1>>
  <2>1. T[p] \in Tags
    BY ElementOfSeq
  <2> QED
    BY <2>1 DEF Tags
<1>3. \A i \in 1 .. n :
         /\ T[i][2] < FrameSize(R, T[i][1]) =>
               i < n /\ T[i + 1] = <<T[i][1], T[i][2] + 1>>
         /\ \A j \in i + 1 .. n :
               \/ T[i][1] < T[j][1]
               \/ T[i][1] = T[j][1] /\ T[i][2] < T[j][2]
         /\ T[i][1] \in Nat
         /\ T[i][2] \in 1 .. FrameSize(R, T[i][1])
  <2>1. \A i \in 1 .. Len(T) : T[i][1] \in Nat
    BY DEF Tagged
  <2> QED
    BY <2>1 DEF Tagged
<1> HIDE DEF c, n
<1>4. \A k \in Nat : p + k \in 1 .. n /\ T[p + k] = <<c, k + 1>> /\ k + 1 < l
         => p + (k + 1) \in 1 .. n /\ T[p + (k + 1)] = <<c, (k + 1) + 1>>
  <2>1. ASSUME NEW k \in Nat, p + k \in 1 .. n, T[p + k] = <<c, k + 1>>,
               k + 1 < l
        PROVE  p + (k + 1) \in 1 .. n /\ T[p + (k + 1)] = <<c, (k + 1) + 1>>
    <3> DEFINE i == p + k
    <3>1. i \in 1 .. n /\ T[i][1] = c /\ T[i][2] = k + 1
      BY <2>1
    <3>2. p + (k + 1) = i + 1
      BY <1>1, <2>1
    <3> HIDE DEF i
    <3>3. T[i][2] < FrameSize(R, T[i][1])
      BY <2>1, <3>1
    <3>4. i < n /\ T[i + 1] = <<T[i][1], T[i][2] + 1>>
      BY <1>3, <3>1, <3>3
    <3>5. T[i + 1] = <<c, (k + 1) + 1>>
      BY <3>1, <3>4
    <3>6. i + 1 \in 1 .. n
      BY <1>1, <3>1, <3>4
    <3> QED
      BY <3>2, <3>5, <3>6
  <2> QED
    BY <2>1
<1> HIDE DEF l
<1>5. p + 0 \in 1 .. n /\ T[p + 0] = <<c, 0 + 1>>
  <2>1. p + 0 = p
    BY <1>1
  <2> QED
    BY <1>1, <1>2, <2>1
<1>6. p + 1 \in 1 .. n /\ T[p + 1] = <<c, 1 + 1>>
  <2>1. 0 \in Nat /\ 0 + 1 < l /\ 0 + 1 = 1
    BY <1>1
  <2> QED
    BY <1>4, <1>5, <2>1
<1>7. p + 2 \in 1 .. n /\ T[p + 2] = <<c, 2 + 1>>
  <2>1. 1 \in Nat /\ 1 + 1 < l /\ 1 + 1 = 2
    BY <1>1
  <2> QED
    BY <1>4, <1>6, <2>1
<1>8. p + 3 \in 1 .. n /\ T[p + 3] = <<c, 3 + 1>>
  <2>1. 2 \in Nat /\ 2 + 1 < l /\ 2 + 1 = 3
    BY <1>1
  <2> QED
    BY <1>4, <1>7, <2>1
<1>9. l = 5 => p + 4 \in 1 .. n /\ T[p + 4] = <<c, 4 + 1>>
  <2>1. l = 5 => 3 \in Nat /\ 3 + 1 < l /\ 3 + 1 = 4
    BY <1>1
  <2> QED
    BY <1>4, <1>8, <2>1
<1>10. p + l - 1 <= n /\ \A i \in 1 .. l : T[p + i - 1] = <<c, i>>
  <2>1. CASE l = 4
    <3>1. /\ p + 1 - 1 = p + 0 /\ p + 2 - 1 = p + 1 /\ p + 3 - 1 = p + 2
          /\ p + 4 - 1 = p + 3
      BY <1>1
    <3>2. \A i \in 1 .. 4 : i = 1 \/ i = 2 \/ i = 3 \/ i = 4
      OBVIOUS
    <3>3. \A i \in 1 .. 4 : T[p + i - 1] = <<c, i>>
      BY <1>5, <1>6, <1>7, <1>8, <3>1, <3>2
    <3>4. p + 3 <= n
      BY <1>8
    <3> QED
      BY <2>1, <3>1, <3>3, <3>4
  <2>2. CASE l = 5
    <3>1. /\ p + 1 - 1 = p + 0 /\ p + 2 - 1 = p + 1 /\ p + 3 - 1 = p + 2
          /\ p + 4 - 1 = p + 3 /\ p + 5 - 1 = p + 4
      BY <1>1
    <3>2. \A i \in 1 .. 5 : i = 1 \/ i = 2 \/ i = 3 \/ i = 4 \/ i = 5
      OBVIOUS
    <3>3. \A i \in 1 .. 5 : T[p + i - 1] = <<c, i>>
      BY <1>5, <1>6, <1>7, <1>8, <1>9, <2>2, <3>1, <3>2
    <3>4. p + 4 <= n
      BY <1>9, <2>2
    <3> QED
      BY <2>2, <3>1, <3>3, <3>4
  <2>3. l = 4 \/ l = 5
    BY <1>1
  <2> QED
    BY <2>1, <2>2, <2>3, Zenon
<1>11. ASSUME NEW j \in p + l .. n PROVE c < T[j][1]
  <2> DEFINE i == p + l - 1
  <2>1. i \in 1 .. n /\ j \in i + 1 .. n /\ l \in 1 .. l
    BY <1>1, <1>10
  <2>2. T[i] = <<c, l>>
    BY <1>10, <2>1
  <2> HIDE DEF i
  <2>3. T[i][1] < T[j][1] \/ (T[i][1] = T[j][1] /\ T[i][2] < T[j][2])
    BY <1>3, <2>1
  <2>4. ~(c = T[j][1] /\ l < T[j][2])
    <3>1. j \in 1 .. n
      BY <1>1, <2>1
    <3>2. T[j][2] \in 1 .. FrameSize(R, T[j][1])
      BY <1>3, <3>1
    <3> QED
      BY <1>1, <3>2 DEF l
  <2> QED
    BY <2>2, <2>3, <2>4
<1> QED
  BY <1>1, <1>10, <1>11 DEF c, l, n

\* What precedes a place can be dropped: what is left is again such a stream.
LEMMA TaggedDropped ==
    ASSUME NEW R, NEW T \in Seq(Tags), Tagged(T, R), NEW n \in 0 .. Len(T)
    PROVE  LET D == Dropped(T, n)
           IN  /\ D \in Seq(Tags) /\ Len(D) = Len(T) - n /\ Tagged(D, R)
               /\ \A i \in 1 .. Len(T) - n : D[i] = T[n + i]
<1> DEFINE m == Len(T)
           D == Dropped(T, n)
<1>1. m \in Nat /\ n \in 0 .. m /\ \A i \in 1 .. m : T[i] \in Tags
  BY ElementOfSeq
<1>2. /\ D \in Seq(Tags) /\ Len(D) = m - n
      /\ \A i \in 1 .. m - n : D[i] = T[n + i]
  <2> DEFINE x == SubSeq(T, n + 1, m)
  <2> HIDE DEF m
  <2>1. n + 1 \in Int /\ m \in Int /\ \A i \in n + 1 .. m : T[i] \in Tags
    BY <1>1
  <2>2. /\ x \in Seq(Tags) /\ Len(x) = IF n + 1 <= m THEN m - (n + 1) + 1 ELSE 0
        /\ \A i \in 1 .. m - (n + 1) + 1 : x[i] = T[n + 1 + i - 1]
    BY <2>1, SubSeqProperties
  <2> HIDE DEF x
  <2>3. Len(x) = m - n
    BY <1>1, <2>2
  <2>4. ASSUME NEW i \in 1 .. m - n PROVE x[i] = T[n + i]
    <3>1. i \in 1 .. m - (n + 1) + 1 /\ n + 1 + i - 1 = n + i
      BY <1>1
    <3> QED
      BY <2>2, <3>1
  <2> QED
    BY <2>2, <2>3, <2>4 DEF Dropped, x, m
<1>3. \A i \in 1 .. m :
        /\ T[i][1] \in 1 .. Len(R)
        /\ T[i][2] \in 1 .. FrameSize(R, T[i][1])
        /\ T[i][2] < FrameSize(R, T[i][1]) =>
              i < m /\ T[i + 1] = <<T[i][1], T[i][2] + 1>>
        /\ \A j \in i + 1 .. m :
              \/ T[i][1] < T[j][1]
              \/ T[i][1] = T[j][1] /\ T[i][2] < T[j][2]
  BY DEF Tagged
<1> HIDE DEF m, D
<1>4. ASSUME NEW i \in 1 .. Len(D)
      PROVE  /\ D[i][1] \in 1 .. Len(R)
             /\ D[i][2] \in 1 .. FrameSize(R, D[i][1])
             /\ D[i][2] < FrameSize(R, D[i][1]) =>
                   i < Len(D) /\ D[i + 1] = <<D[i][1], D[i][2] + 1>>
             /\ \A j \in i + 1 .. Len(D) :
                   \/ D[i][1] < D[j][1]
                   \/ D[i][1] = D[j][1] /\ D[i][2] < D[j][2]
  <2> DEFINE k == n + i
  <2>1. k \in 1 .. m /\ D[i] = T[k]
    BY <1>1, <1>2
  <2>2. k < m => i < Len(D) /\ k + 1 = n + (i + 1) /\ i + 1 \in 1 .. m - n
    BY <1>1, <1>2
  <2> HIDE DEF k
  <2>3. /\ D[i][1] \in 1 .. Len(R)
        /\ D[i][2] \in 1 .. FrameSize(R, D[i][1])
    BY <1>3, <2>1
  <2>4. ASSUME D[i][2] < FrameSize(R, D[i][1])
        PROVE  i < Len(D) /\ D[i + 1] = <<D[i][1], D[i][2] + 1>>
    <3>1. k < m /\ T[k + 1] = <<T[k][1], T[k][2] + 1>>
      BY <1>3, <2>1, <2>4
    <3>2. D[i + 1] = T[k + 1]
      BY <1>2, <2>2, <3>1
    <3> QED
      BY <2>1, <2>2, <3>1, <3>2
  <2>5. ASSUME NEW j \in i + 1 .. Len(D)
        PROVE  \/ D[i][1] < D[j][1]
               \/ D[i][1] = D[j][1] /\ D[i][2] < D[j][2]
    <3> DEFINE g == n + j
    <3>1. g \in k + 1 .. m /\ D[j] = T[g]
      BY <1>1, <1>2 DEF k
    <3> HIDE DEF g
    <3> QED
      BY <1>3, <2>1, <3>1
  <2> QED
    BY <2>3, <2>4, <2>5
<1>5. Tagged(D, R)
  BY <1>4 DEF Tagged
<1> QED
  BY <1>2, <1>5 DEF m, D

\* What one iteration of proto_slave_main makes of the stream: it drops its
\* first u bytes, then holds the start of what is left, having answered
\* nothing, or has served a call c and dropped all that is not later.
Waited(s, u, T, R, regs) ==
    /\ HeldPart(s.hdle, Dropped(T, u), R)
    /\ NoAnswer(s, s.hdle, regs)
Served(s, u, T, R, N, regs) ==
    \E c \in 1 .. Len(R) :
        /\ Serves(s, N, regs, R[c])
        /\ \E i \in 1 .. Len(T) : T[i][1] = c
        /\ \A j \in u + 1 .. Len(T) : c < T[j][1]

\* buf is what the stream has behind the bytes the handle holds.
Reads(buf, h, T, R) ==
    /\ buf \in Seq(Byte) /\ buf # << >>
    /\ h.nb + Len(buf) <= Len(T)
    /\ \A i \in 1 .. Len(buf) : buf[i] = TagByte(R, T[h.nb + i])

\* Reading from the start of a frame on: place s + 1 of the input.
LEMMA SlaveReadsFrame ==
    ASSUME NEW R \in Seq(Request), NEW T \in Seq(Tags), Tagged(T, R),
           NEW N \in Nat, NEW regs \in [0 .. N - 1 -> Byte],
           NEW h, HeldPart(h, T, R), NEW buf, Reads(buf, h, T, R),
           NEW s \in 0 .. Len(buf) - 1, Skips(buf, h.nb, s),
           T[s + 1][2] = 1
    PROVE  \E u \in 0 .. Len(T) :
              LET x == proto_slave_main(h, regs, buf)
              IN  /\ u <= h.nb + Len(buf)
                  /\ h.nb + Len(buf) = u + x.hdle.nb
                  /\ Waited(x, u, T, R, regs) \/ Served(x, u, T, R, N, regs)
<1> DEFINE k == h.nb
           q == Len(buf)
           n == Len(T)
           p == s + 1
           c == T[p][1]
           l == FrameSize(R, c)
           w == Frames(R)[c]
           m == Least(l, k + (q - s))
           x == proto_slave_main(h, regs, buf)
           r == proto_readFrame(h, buf)
<1>1. /\ k \in 0 .. 5 /\ q \in Nat /\ n \in Nat /\ k + q <= n
      /\ s \in 0 .. q - 1 /\ (k > 0 => s = 0)
      /\ h \in Handle
  BY DEF HeldPart, Reads, Handle, proto_FRAME_MAXSIZE, Skips
<1>2. p \in 1 .. Len(T) /\ T[p][2] = 1 /\ p = s + 1
  BY <1>1
<1>3. /\ c \in 1 .. Len(R) /\ l \in 4 .. 5
      /\ p + l - 1 <= n
      /\ \A i \in 1 .. l : T[p + i - 1] = <<c, i>>
      /\ \A j \in p + l .. n : c < T[j][1]
  BY <1>2, FrameRun
<1>4. /\ R[c] \in Request
      /\ w = WireBytes(R[c].cmd, RequestArgs(R[c]))
      /\ FrameLen(w[3]) = l
  BY <1>3, FrameOf
<1>5. \A i \in 1 .. l : TagByte(R, T[p + i - 1]) = w[i]
  BY <1>3 DEF TagByte
<1>6. k < l
  <2>1. CASE k = 0
    BY <1>3, <2>1
  <2>2. CASE k > 0
    <3>1. p = 1
      BY <1>1, <2>2
    <3> QED
      BY <2>2, <3>1 DEF HeldPart
  <2> QED
    BY <1>1, <2>1, <2>2
<1>7. /\ \A i \in 1 .. k : h.frame[i] = TagByte(R, T[i])
      /\ \A i \in 1 .. q : buf[i] = TagByte(R, T[k + i])
      /\ buf \in Seq(Byte)
  BY DEF HeldPart, Reads
<1> HIDE DEF k, q, n, p, c, l, w, x, r
<1>8. Holds(h, w, k)
  <2>1. ASSUME NEW i \in 1 .. k PROVE h.frame[i] = w[i]
    <3>1. p = 1 /\ p + i - 1 = i /\ i \in 1 .. l
      BY <1>1, <1>2, <1>3, <1>6
    <3> QED
      BY <1>5, <1>7, <3>1
  <2> QED
    BY <1>1, <2>1 DEF Holds, k
<1>9. /\ m \in 0 .. l /\ k <= m /\ m - k <= q - s
      /\ m < l => m = k + (q - s)
  BY <1>1, <1>3, <1>6 DEF Least
<1>10. Brings(buf, s, w, k, m)
  <2>1. ASSUME NEW i \in 1 .. m - k PROVE buf[s + i] = w[k + i]
    <3>1. /\ s + i \in 1 .. q /\ k + i \in 1 .. l
          /\ k + (s + i) = p + (k + i) - 1
      BY <1>1, <1>2, <1>3, <1>9
    <3>2. buf[s + i] = TagByte(R, T[k + (s + i)])
      BY <1>7, <3>1
    <3> QED
      BY <1>5, <3>1, <3>2
  <2> QED
    BY <2>1 DEF Brings
<1>11. m = Least(l, k + (Len(buf) - s))
  BY DEF q
<1>12. Skips(buf, k, s)
  BY DEF k
<1> HIDE DEF m
<1>13. Holds(r.hdle, w, m) /\ (m = l => r.status = "NO_ERROR")
  <2>1. /\ l \in 3 .. 5 /\ k \in 0 .. l - 1 /\ buf \in Seq(Byte)
        /\ s \in 0 .. Len(buf) - 1
    BY <1>1, <1>3, <1>6, <1>7
  <2>2. /\ Holds(proto_readFrame(h, buf).hdle, w, m)
        /\ m = l => proto_readFrame(h, buf).status = "NO_ERROR"
    BY <1>4, <1>8, <1>10, <1>11, <1>12, <2>1, ReadMore
  <2> QED
    BY <2>2 DEF r
<1>14. CASE m = l
  <2>1. Serves(x, N, regs, R[c])
    <3> DEFINE q0 == R[c]
    <3>1. q0 \in Request /\ w = WireBytes(q0.cmd, RequestArgs(q0))
          /\ l = FrameLen(q0.cmd)
      BY <1>4 DEF l, FrameSize
    <3> HIDE DEF q0
    <3>2. /\ Holds(proto_readFrame(h, buf).hdle,
                   WireBytes(q0.cmd, RequestArgs(q0)), FrameLen(q0.cmd))
          /\ proto_readFrame(h, buf).status = "NO_ERROR"
      BY <1>13, <1>14, <3>1 DEF r
    <3>3. Serves(proto_slave_main(h, regs, buf), N, regs, q0)
      BY <3>1, <3>2, SlaveEnds
    <3> QED
      BY <3>3 DEF q0, x
  <2> DEFINE u == k + q
  <2>2. u \in 0 .. n
    BY <1>1
  <2>3. \A j \in u + 1 .. n : c < T[j][1]
    <3>1. \A j \in u + 1 .. n : j \in p + l .. n
      BY <1>1, <1>2, <1>3, <1>9, <1>14
    <3> QED
      BY <1>3, <3>1
  <2>4. x.hdle.nb = 0
    BY <2>1 DEF Serves
  <2>5. Served(x, u, T, R, N, regs)
    <3>1. p \in 1 .. Len(T) /\ T[p][1] = c
      BY <1>2 DEF c
    <3> QED
      BY <1>3, <2>1, <2>3, <3>1 DEF Served, n
  <2> HIDE DEF u
  <2>6. u <= k + q /\ k + q = u + 0
    BY <1>1 DEF u
  <2> QED
    BY <2>2, <2>4, <2>5, <2>6 DEF k, q, n, x
<1>15. CASE m < l
  <2>1. NoAnswer(x, r.hdle, regs)
    <3>1. l \in 3 .. 5 /\ m \in 0 .. l - 1
      BY <1>3, <1>9, <1>15
    <3>2. Holds(proto_readFrame(h, buf).hdle, w, m)
      BY <1>13 DEF r
    <3>3. NoAnswer(proto_slave_main(h, regs, buf),
                   proto_readFrame(h, buf).hdle, regs)
      BY <1>4, <3>1, <3>2, SlaveWaits
    <3> QED
      BY <3>3 DEF x, r
  <2>2. x.hdle = r.hdle
    BY <2>1 DEF NoAnswer
  <2> DEFINE u == s
             D == Dropped(T, u)
  <2>3. /\ Len(D) = n - u
        /\ \A i \in 1 .. n - u : D[i] = T[u + i]
    <3>1. s \in 0 .. Len(T)
      BY <1>1 DEF n
    <3> QED
      BY <3>1, TaggedDropped DEF n
  <2>4. m = k + (q - s) /\ m > 0 /\ m <= n - s
    BY <1>1, <1>9, <1>15
  <2> HIDE DEF D
  <2>5. HeldPart(r.hdle, D, R)
    <3>1. r.hdle \in Handle /\ r.hdle.nb = m
          /\ \A i \in 1 .. m : r.hdle.frame[i] = w[i]
      BY <1>13 DEF Holds
    <3>2. D[1] = <<c, 1>>
      <4>1. 1 \in 1 .. n - u /\ 1 \in 1 .. l /\ p + 1 - 1 = u + 1
        BY <1>1, <1>2, <1>3, <2>4
      <4> QED
        BY <1>3, <2>3, <4>1
    <3>3. ASSUME NEW i \in 1 .. m PROVE r.hdle.frame[i] = TagByte(R, D[i])
      <4>1. i \in 1 .. n - u /\ i \in 1 .. l /\ p + i - 1 = u + i
        BY <1>1, <1>2, <1>3, <1>15, <2>4
      <4> QED
        BY <1>5, <2>3, <3>1, <4>1
    <3>4. m <= Len(D)
      BY <1>1, <2>3, <2>4
    <3> HIDE DEF r
    <3>5. D[1][1] = c /\ D[1][2] = 1
      BY <3>2
    <3>6. m < FrameSize(R, D[1][1])
      BY <1>15, <3>5 DEF l
    <3> QED
      BY <3>1, <3>3, <3>4, <3>5, <3>6 DEF HeldPart
  <2>6. Waited(x, u, T, R, regs)
    BY <2>1, <2>2, <2>5 DEF Waited, D
  <2>7. x.hdle.nb = m
    BY <1>13, <2>2 DEF Holds
  <2>8. u \in 0 .. Len(T) /\ u <= k + q /\ k + q = u + m
    BY <1>1, <2>4 DEF n
  <2> QED
    BY <2>6, <2>7, <2>8 DEF k, q, x
<1>16. m = l \/ m < l
  BY <1>3, <1>9
<1> QED
  BY <1>14, <1>15, <1>16, Zenon

LEMMA SlaveReads ==
    ASSUME NEW R \in Seq(Request), NEW T \in Seq(Tags), Tagged(T, R),
           StartsOnce(R),
           NEW N \in Nat, NEW regs \in [0 .. N - 1 -> Byte],
           NEW h, HeldPart(h, T, R), NEW buf, Reads(buf, h, T, R)
    PROVE  \E u \in 0 .. Len(T) :
              LET x == proto_slave_main(h, regs, buf)
              IN  /\ u <= h.nb + Len(buf)
                  /\ h.nb + Len(buf) = u + x.hdle.nb
                  /\ Waited(x, u, T, R, regs) \/ Served(x, u, T, R, N, regs)
<1> DEFINE q == Len(buf)
           n == Len(T)
           sof == FirstSOF(buf)
<1>1. /\ h.nb \in 0 .. 5 /\ q \in Nat /\ q > 0 /\ n \in Nat
      /\ h.nb + q <= n /\ buf \in Seq(Byte) /\ h \in Handle
  BY DEF HeldPart, Reads, Handle, proto_FRAME_MAXSIZE
<1> HIDE DEF n
<1>2. CASE h.nb > 0
  <2>1. Skips(buf, h.nb, 0) /\ 0 \in 0 .. Len(buf) - 1
    BY <1>1, <1>2 DEF Skips
  <2>2. T[0 + 1][2] = 1
    BY <1>2 DEF HeldPart
  <2> QED
    BY <2>1, <2>2, SlaveReadsFrame
<1>3. CASE h.nb = 0
  <2>1. /\ sof \in 1 .. q + 1
        /\ sof <= q => buf[sof] = proto_START_OF_FRAME
    BY <1>1, FirstSOFType
  <2> DEFINE s == sof - 1
  <2>2. Skips(buf, h.nb, s)
    BY <1>3 DEF Skips
  <2> HIDE DEF sof
  <2>3. CASE sof <= q
    <3>1. s \in 0 .. Len(buf) - 1 /\ s + 1 = sof
      BY <1>1, <2>1, <2>3
    <3>2. sof \in 1 .. Len(T) /\ buf[sof] = TagByte(R, T[sof])
      <4>1. sof \in 1 .. q /\ sof \in 1 .. n /\ h.nb + sof = sof
        BY <1>1, <1>3, <2>1, <2>3
      <4> QED
        BY <4>1 DEF Reads, n
    <3>3. T[sof][2] = 1
      <4> DEFINE c == T[sof][1]
                 i == T[sof][2]
      <4>1. c \in 1 .. Len(R) /\ i \in 1 .. FrameSize(R, c)
        BY <3>2 DEF Tagged
      <4>2. Frames(R)[c][i] = proto_START_OF_FRAME
        BY <2>1, <2>3, <3>2 DEF TagByte
      <4> HIDE DEF c, i
      <4>3. ~(i \in 2 .. FrameSize(R, c))
        BY <4>1, <4>2 DEF StartsOnce
      <4>4. FrameSize(R, c) \in 4 .. 5
        BY <4>1, FrameOf
      <4>5. i = 1
        BY <4>1, <4>3, <4>4
      <4> QED
        BY <4>5 DEF i
    <3>4. T[s + 1][2] = 1
      BY <3>1, <3>3
    <3> HIDE DEF s
    <3> QED
      BY <2>2, <3>1, <3>4, SlaveReadsFrame
  <2>4. CASE sof = q + 1
    <3> DEFINE x == proto_slave_main(h, regs, buf)
    <3>1. sof - 1 = Len(buf)
      BY <1>1, <2>4
    <3>2. NoAnswer(x, h, regs)
      BY <1>3, <3>1, SlaveDrops DEF sof
    <3>3. x.hdle = h
      BY <3>2 DEF NoAnswer
    <3> HIDE DEF x
    <3>4. q \in 0 .. Len(T) /\ q <= h.nb + q /\ h.nb + q = q + h.nb
      BY <1>1, <1>3 DEF n
    <3>5. HeldPart(h, Dropped(T, q), R)
      <4> DEFINE D == Dropped(T, q)
      <4>1. Len(D) \in Nat
        BY <3>4, TaggedDropped
      <4> HIDE DEF D
      <4>2. HeldPart(h, D, R)
        BY <1>1, <1>3, <4>1 DEF HeldPart
      <4> QED
        BY <4>2 DEF D
    <3>6. Waited(x, q, T, R, regs)
      BY <3>2, <3>3, <3>5 DEF Waited
    <3> QED
      BY <3>3, <3>4, <3>6 DEF x
  <2> QED
    BY <1>1, <2>1, <2>3, <2>4
<1> QED
  BY <1>1, <1>2, <1>3

-----------------------------------------------------------------------------
(***************************************************************************)
(* The stream from the host to the slave: the handle, the bytes arrived    *)
(* and the packets on the wire.  cut[i] is the place in the stream where   *)
(* packet i ends and the next begins; a packet may be a byte or a frame.   *)
(***************************************************************************)
InBuffer(rx, k, T, R) ==
    /\ k + Len(rx) <= Len(T)
    /\ \A i \in 1 .. Len(rx) : rx[i] = TagByte(R, T[k + i])

OnWire(wire, cut, T, R) ==
    /\ cut[Len(wire)] = Len(T)
    /\ \A i, j \in 0 .. Len(wire) : i <= j => cut[i] <= cut[j]
    /\ \A i \in 1 .. Len(wire) :
          /\ cut[i] = cut[i - 1] + Len(wire[i])
          /\ \A k \in 1 .. Len(wire[i]) :
                wire[i][k] = TagByte(R, T[cut[i - 1] + k])

Cuts == [Nat -> Int]

OnStream(h, rx, wire, T, cut, R) ==
    /\ Tagged(T, R)
    /\ HeldPart(h, T, R)
    /\ InBuffer(rx, h.nb, T, R)
    /\ cut[0] = h.nb + Len(rx)
    /\ OnWire(wire, cut, T, R)

\* A packet of the wire lies in the stream.
LEMMA PacketInside ==
    ASSUME NEW wire \in Seq(Seq(Byte)), NEW T \in Seq(Tags), NEW cut \in Cuts,
           NEW R, OnWire(wire, cut, T, R), NEW b \in Nat, cut[0] = b,
           NEW i \in 1 .. Len(wire)
    PROVE  /\ i - 1 \in 0 .. Len(wire)
           /\ cut[i - 1] \in Nat /\ b <= cut[i - 1]
           /\ Len(wire[i]) \in Nat
           /\ \A k \in 1 .. Len(wire[i]) : cut[i - 1] + k \in b + 1 .. Len(T)
<1> DEFINE n == Len(wire)
           m == Len(T)
           p == wire[i]
<1>1. n \in Nat /\ m \in Nat /\ p \in Seq(Byte) /\ Len(p) \in Nat
  BY ElementOfSeq
<1>2. i - 1 \in 0 .. n /\ i \in 0 .. n /\ n \in 0 .. n /\ 0 \in 0 .. n
      /\ i - 1 \in Nat /\ i \in Nat
  BY <1>1
<1>3. /\ cut[n] = m /\ cut[0] <= cut[i - 1] /\ cut[i] <= cut[n]
      /\ cut[i] = cut[i - 1] + Len(p)
  <2>1. /\ cut[n] = m
        /\ \A e, f \in 0 .. n : e <= f => cut[e] <= cut[f]
        /\ cut[i] = cut[i - 1] + Len(p)
    BY DEF OnWire
  <2>2. 0 <= i - 1 /\ i <= n
    BY <1>1, <1>2
  <2> HIDE DEF n, m, p
  <2>3. cut[0] <= cut[i - 1]
    BY <1>2, <2>1, <2>2
  <2>4. cut[i] <= cut[n]
    BY <1>2, <2>1, <2>2
  <2> QED
    BY <2>1, <2>3, <2>4
<1>4. cut[i - 1] \in Int
  BY <1>2 DEF Cuts
<1> HIDE DEF n, m, p
<1> DEFINE a == cut[i - 1]
           l == Len(p)
<1>5. a \in Int /\ b <= a /\ a + l <= m /\ l \in Nat
  BY <1>1, <1>3, <1>4
<1> HIDE DEF a, l
<1>6. a \in Nat /\ \A k \in 1 .. l : a + k \in b + 1 .. m
  BY <1>1, <1>5
<1> QED
  BY <1>1, <1>2, <1>5, <1>6 DEF a, l, n, m, p

\* A further call leaves what the earlier ones sent as it is.
LEMMA FramesKept ==
    ASSUME NEW R \in Seq(Request), NEW r \in Request
    PROVE  LET Q == Append(R, r)
           IN  /\ Q \in Seq(Request) /\ Len(Q) = Len(R) + 1 /\ Len(R) \in Nat
               /\ \A c \in 1 .. Len(R) :
                     /\ c \in 1 .. Len(Q)
                     /\ Frames(Q)[c] = Frames(R)[c]
                     /\ FrameSize(Q, c) = FrameSize(R, c)
               /\ Len(R) + 1 \in 1 .. Len(Q)
               /\ Frames(Q)[Len(R) + 1] = WireBytes(r.cmd, RequestArgs(r))
               /\ FrameSize(Q, Len(R) + 1) = FrameLen(r.cmd)
<1> DEFINE Q == Append(R, r)
           n == Len(R)
<1>1. /\ Q \in Seq(Request) /\ Len(Q) = n + 1 /\ n \in Nat
      /\ \A c \in 1 .. n : Q[c] = R[c]
      /\ Q[n + 1] = r
  BY AppendProperties
<1> HIDE DEF Q, n
<1>2. \A c \in 1 .. n : c \in 1 .. Len(Q)
  BY <1>1
<1>3. n + 1 \in 1 .. Len(Q)
  BY <1>1
<1>4. ASSUME NEW c \in 1 .. n
      PROVE  /\ Frames(Q)[c] = Frames(R)[c]
             /\ FrameSize(Q, c) = FrameSize(R, c)
  BY <1>1, <1>2 DEF Frames, FrameSize, n
<1>5. /\ Frames(Q)[n + 1] = WireBytes(r.cmd, RequestArgs(r))
      /\ FrameSize(Q, n + 1) = FrameLen(r.cmd)
  BY <1>1, <1>3 DEF Frames, FrameSize
<1> QED
  BY <1>1, <1>2, <1>3, <1>4, <1>5 DEF Q, n

LEMMA StreamKept ==
    ASSUME NEW R \in Seq(Request), NEW r \in Request, NEW T \in Seq(Tags),
           NEW cut \in Cuts, NEW h, NEW rx \in Seq(Byte),
           NEW wire \in Seq(Seq(Byte)),
           OnStream(h, rx, wire, T, cut, R)
    PROVE  OnStream(h, rx, wire, T, cut, Append(R, r))
<1> DEFINE Q == Append(R, r)
<1>1. \A c \in 1 .. Len(R) :
         /\ c \in 1 .. Len(Q)
         /\ Frames(Q)[c] = Frames(R)[c]
         /\ FrameSize(Q, c) = FrameSize(R, c)
  BY FramesKept
<1> HIDE DEF Q
<1>2. \A i \in 1 .. Len(T) : T[i][1] \in 1 .. Len(R)
  BY DEF OnStream, Tagged
<1>3. \A i \in 1 .. Len(T) : TagByte(Q, T[i]) = TagByte(R, T[i])
  BY <1>1, <1>2 DEF TagByte
<1>4. Tagged(T, Q)
  BY <1>1, <1>2 DEF OnStream, Tagged
<1>5. h \in Handle /\ h.nb \in 0 .. 5 /\ Len(T) \in Nat /\ Len(rx) \in Nat
      /\ h.nb <= Len(T) /\ h.nb + Len(rx) <= Len(T)
  BY DEF OnStream, HeldPart, InBuffer, Handle, proto_FRAME_MAXSIZE
<1>6. HeldPart(h, T, Q)
  <2>1. h.nb > 0 => 1 \in 1 .. Len(T)
    BY <1>5
  <2>2. h.nb > 0 => T[1][2] = 1 /\ h.nb < FrameSize(Q, T[1][1])
    BY <1>1, <1>2, <2>1 DEF OnStream, HeldPart
  <2>3. \A i \in 1 .. h.nb : i \in 1 .. Len(T)
    BY <1>5
  <2>4. \A i \in 1 .. h.nb : h.frame[i] = TagByte(Q, T[i])
    BY <1>3, <2>3 DEF OnStream, HeldPart
  <2> QED
    BY <1>5, <2>2, <2>4 DEF HeldPart
<1>7. InBuffer(rx, h.nb, T, Q)
  <2>1. \A i \in 1 .. Len(rx) : h.nb + i \in 1 .. Len(T)
    <3> DEFINE n == Len(rx)
               m == Len(T)
               k == h.nb
    <3>1. n \in Nat /\ m \in Nat /\ k \in 0 .. 5 /\ k + n <= m
      BY <1>5
    <3> HIDE DEF n, m, k
    <3>2. \A i \in 1 .. n : k + i \in 1 .. m
      BY <3>1
    <3> QED
      BY <3>2 DEF n, m, k
  <2> QED
    BY <1>3, <2>1 DEF OnStream, InBuffer
<1>8. OnWire(wire, cut, T, Q)
  <2>1. ASSUME NEW i \in 1 .. Len(wire), NEW k \in 1 .. Len(wire[i])
        PROVE  wire[i][k] = TagByte(Q, T[cut[i - 1] + k])
    <3> DEFINE b == h.nb + Len(rx)
    <3>1. b \in Nat /\ cut[0] = b
      BY <1>5 DEF OnStream
    <3> HIDE DEF b
    <3>2. cut[i - 1] + k \in b + 1 .. Len(T)
      BY <3>1, PacketInside DEF OnStream
    <3>3. cut[i - 1] + k \in 1 .. Len(T)
      BY <1>5, <3>1, <3>2
    <3> QED
      BY <1>3, <3>3 DEF OnStream, OnWire
  <2> QED
    BY <2>1 DEF OnStream, OnWire
<1> QED
  BY <1>4, <1>6, <1>7, <1>8 DEF OnStream, Q

\* The first packet arrives.
LEMMA StreamDelivered ==
    ASSUME NEW R, NEW T \in Seq(Tags), NEW cut \in Cuts, NEW h \in Handle,
           NEW rx \in Seq(Byte), NEW wire \in Seq(Seq(Byte)), wire # << >>,
           OnStream(h, rx, wire, T, cut, R)
    PROVE  OnStream(h, rx \o Head(wire), Tail(wire), T,
                    [i \in Nat |-> cut[i + 1]], R)
<1> DEFINE n == Len(wire)
           m == Len(T)
           a == Len(rx)
           k == h.nb
           p == wire[1]
           l == Len(p)
           new == [i \in Nat |-> cut[i + 1]]
           rest == Tail(wire)
           y == rx \o p
<1>1. /\ n \in Nat /\ n > 0 /\ m \in Nat /\ a \in Nat /\ k \in 0 .. 5
      /\ Head(wire) = p
      /\ p \in Seq(Byte) /\ l \in Nat
  <2>1. n \in Nat /\ n # 0
    OBVIOUS
  <2>2. 1 \in 1 .. n
    BY <2>1
  <2> QED
    BY <2>1, <2>2, ElementOfSeq DEF Handle, proto_FRAME_MAXSIZE
<1>2. /\ rest \in Seq(Seq(Byte)) /\ Len(rest) = n - 1
      /\ \A i \in 1 .. n - 1 : rest[i] = wire[i + 1]
  BY HeadTailProperties
<1>3. /\ cut[0] = k + a /\ cut[n] = m
      /\ \A i, j \in 0 .. n : i <= j => cut[i] <= cut[j]
      /\ \A i \in 1 .. n :
            /\ cut[i] = cut[i - 1] + Len(wire[i])
            /\ \A e \in 1 .. Len(wire[i]) :
                  wire[i][e] = TagByte(R, T[cut[i - 1] + e])
      /\ k + a <= m
      /\ \A i \in 1 .. a : rx[i] = TagByte(R, T[k + i])
  BY DEF OnStream, OnWire, InBuffer
<1>4. /\ y \in Seq(Byte) /\ Len(y) = a + l
      /\ \A i \in 1 .. a + l : y[i] = IF i <= a THEN rx[i] ELSE p[i - a]
  BY <1>1, ConcatProperties
<1>5. \A i \in Nat : new[i] = cut[i + 1] /\ new[i] \in Int
  BY DEF Cuts
<1> HIDE DEF n, m, a, k, l, new, rest, y
<1>6. cut[1] = k + a + l /\ cut[1] <= m
  <2>1. 1 \in 1 .. n /\ 1 \in 0 .. n /\ n \in 0 .. n /\ 1 <= n /\ 1 - 1 = 0
    BY <1>1
  <2>2. cut[1] = cut[0] + l
    BY <1>3, <2>1 DEF l
  <2> QED
    BY <1>3, <2>1, <2>2
<1>7. InBuffer(y, k, T, R)
  <2>1. ASSUME NEW i \in 1 .. a + l PROVE y[i] = TagByte(R, T[k + i])
    <3>1. CASE i <= a
      <4>1. i \in 1 .. a
        BY <1>1, <3>1
      <4> QED
        BY <1>3, <1>4, <3>1, <4>1
    <3>2. CASE ~(i <= a)
      <4>1. i - a \in 1 .. l /\ (k + a) + (i - a) = k + i /\ 1 \in 1 .. n
            /\ 1 - 1 = 0
        BY <1>1, <3>2
      <4>2. p[i - a] = TagByte(R, T[cut[0] + (i - a)])
        BY <1>3, <4>1 DEF l
      <4> QED
        BY <1>3, <1>4, <3>2, <4>1, <4>2
    <3> QED
      BY <3>1, <3>2
  <2>2. k + Len(y) <= m
    BY <1>1, <1>4, <1>6
  <2> QED
    BY <1>4, <2>1, <2>2 DEF InBuffer, m
<1>8. OnWire(rest, new, T, R)
  <2>1. new[Len(rest)] = m
    <3>1. n - 1 \in Nat /\ (n - 1) + 1 = n
      BY <1>1
    <3> QED
      BY <1>2, <1>3, <1>5, <3>1
  <2>2. ASSUME NEW i \in 0 .. n - 1, NEW j \in 0 .. n - 1, i <= j
        PROVE  new[i] <= new[j]
    <3>1. i + 1 \in 0 .. n /\ j + 1 \in 0 .. n /\ i + 1 <= j + 1
          /\ i \in Nat /\ j \in Nat
      BY <1>1, <2>2
    <3> QED
      BY <1>3, <1>5, <3>1
  <2>3. ASSUME NEW i \in 1 .. n - 1
        PROVE  /\ new[i] = new[i - 1] + Len(rest[i])
               /\ \A e \in 1 .. Len(rest[i]) :
                     rest[i][e] = TagByte(R, T[new[i - 1] + e])
    <3>1. /\ i + 1 \in 1 .. n /\ (i + 1) - 1 = i /\ i \in Nat
          /\ i - 1 \in Nat /\ (i - 1) + 1 = i
      BY <1>1
    <3>2. new[i] = cut[i + 1] /\ new[i - 1] = cut[i] /\ rest[i] = wire[i + 1]
      BY <1>2, <1>5, <3>1
    <3> QED
      BY <1>3, <3>1, <3>2
  <2> QED
    BY <1>2, <2>1, <2>2, <2>3 DEF OnWire, m
<1>9. new[0] = k + Len(y)
  <2>1. 0 \in Nat /\ 0 + 1 = 1 /\ k + (a + l) = k + a + l
    BY <1>1
  <2> QED
    BY <1>4, <1>5, <1>6, <2>1
<1>10. Tagged(T, R) /\ HeldPart(h, T, R)
  BY DEF OnStream
<1>11. OnStream(h, y, rest, T, new, R)
  BY <1>7, <1>8, <1>9, <1>10 DEF OnStream, k
<1> QED
  BY <1>1, <1>11 DEF y, rest, new

\* What is read leaves the stream; the slave's handle holds the start of the
\* rest.
LEMMA StreamRead ==
    ASSUME NEW R, NEW T \in Seq(Tags), NEW cut \in Cuts, NEW h, NEW g,
           NEW rx \in Seq(Byte), NEW wire \in Seq(Seq(Byte)),
           OnStream(h, rx, wire, T, cut, R),
           NEW u \in 0 .. Len(T), HeldPart(g, Dropped(T, u), R),
           NEW b \in 0 .. Len(rx), u <= h.nb + b, h.nb + b = u + g.nb
    PROVE  OnStream(g, SubSeq(rx, b + 1, Len(rx)), wire, Dropped(T, u),
                    [i \in Nat |-> cut[i] - u], R)
<1> DEFINE n == Len(wire)
           m == Len(T)
           a == Len(rx)
           k == h.nb
           j == g.nb
           D == Dropped(T, u)
           y == SubSeq(rx, b + 1, a)
           new == [i \in Nat |-> cut[i] - u]
<1>1. /\ n \in Nat /\ m \in Nat /\ a \in Nat /\ b \in 0 .. a /\ u \in 0 .. m
      /\ k \in 0 .. 5 /\ j \in 0 .. 5 /\ u <= k + b /\ k + b = u + j
      /\ u \in Nat
  BY DEF OnStream, HeldPart, Handle, proto_FRAME_MAXSIZE
<1>2. /\ cut[0] = k + a /\ cut[n] = m /\ k + a <= m
      /\ \A e, f \in 0 .. n : e <= f => cut[e] <= cut[f]
      /\ \A i \in 1 .. n :
            /\ cut[i] = cut[i - 1] + Len(wire[i])
            /\ \A e \in 1 .. Len(wire[i]) :
                  wire[i][e] = TagByte(R, T[cut[i - 1] + e])
      /\ \A i \in 1 .. a : rx[i] = TagByte(R, T[k + i])
      /\ Tagged(T, R)
  BY DEF OnStream, OnWire, InBuffer
<1>3. /\ Len(D) = m - u /\ Tagged(D, R)
      /\ \A i \in 1 .. m - u : D[i] = T[u + i]
  BY <1>2, TaggedDropped
<1>4. /\ Len(y) = a - b
      /\ \A i \in 1 .. a - b : y[i] = rx[b + i]
  <2>1. /\ b + 1 \in Int /\ a \in Int
        /\ \A i \in b + 1 .. a : rx[i] \in Byte
    <3>1. \A i \in b + 1 .. a : i \in 1 .. a
      BY <1>1
    <3> QED
      BY <1>1, <3>1, ElementOfSeq
  <2> HIDE DEF a
  <2>2. /\ Len(y) = IF b + 1 <= a THEN a - (b + 1) + 1 ELSE 0
        /\ \A i \in 1 .. a - (b + 1) + 1 : y[i] = rx[b + 1 + i - 1]
    BY <2>1, SubSeqProperties
  <2> HIDE DEF y
  <2>3. ASSUME NEW i \in 1 .. a - b PROVE y[i] = rx[b + i]
    <3>1. i \in 1 .. a - (b + 1) + 1 /\ b + 1 + i - 1 = b + i
      BY <1>1
    <3> QED
      BY <2>2, <3>1
  <2> QED
    BY <1>1, <2>2, <2>3
<1>5. \A i \in Nat : new[i] = cut[i] - u /\ cut[i] \in Int
  BY DEF Cuts
<1>6. new \in Cuts
  BY <1>1 DEF Cuts
<1> HIDE DEF n, m, a, k, j, D, y, new
<1>7. InBuffer(y, j, D, R)
  <2>1. ASSUME NEW i \in 1 .. a - b PROVE y[i] = TagByte(R, D[j + i])
    <3>1. k + a <= m
      BY <1>2
    <3>2. b + i \in 1 .. a /\ j + i \in 1 .. m - u /\ u + (j + i) = k + (b + i)
      BY <1>1, <3>1
    <3> QED
      BY <1>2, <1>3, <1>4, <3>2
  <2>2. j + Len(y) <= Len(D)
    BY <1>1, <1>2, <1>3, <1>4
  <2> QED
    BY <1>4, <2>1, <2>2 DEF InBuffer
<1>8. OnWire(wire, new, D, R)
  <2>1. new[n] = Len(D)
    BY <1>1, <1>2, <1>3, <1>5
  <2>2. ASSUME NEW e \in 0 .. n, NEW f \in 0 .. n, e <= f
        PROVE  new[e] <= new[f]
    <3> DEFINE x == cut[e]
               z == cut[f]
    <3>1. e \in Nat /\ f \in Nat
      BY <1>1
    <3>2. x \in Int /\ z \in Int /\ x <= z /\ new[e] = x - u /\ new[f] = z - u
      BY <1>2, <1>5, <2>2, <3>1
    <3> HIDE DEF x, z
    <3> QED
      BY <1>1, <3>2
  <2>3. ASSUME NEW i \in 1 .. n
        PROVE  /\ new[i] = new[i - 1] + Len(wire[i])
               /\ \A e \in 1 .. Len(wire[i]) :
                     wire[i][e] = TagByte(R, D[new[i - 1] + e])
    <3> DEFINE x == cut[i - 1]
               z == cut[i]
               l == Len(wire[i])
               o == k + a
    <3>1. /\ x \in Nat /\ o <= x /\ l \in Nat
          /\ \A e \in 1 .. l : x + e \in o + 1 .. m
      <4>1. o \in Nat /\ cut[0] = o
        BY <1>1, <1>2
      <4>2. OnWire(wire, cut, T, R) /\ i \in 1 .. Len(wire)
        BY DEF OnStream, n
      <4> HIDE DEF o
      <4> QED
        BY <4>1, <4>2, PacketInside DEF m
    <3>2. /\ z = x + l /\ i \in Nat /\ i - 1 \in Nat
          /\ \A e \in 1 .. l : wire[i][e] = TagByte(R, T[x + e])
      BY <1>1, <1>2
    <3>3. new[i] = z - u /\ new[i - 1] = x - u
      BY <1>5, <3>2
    <3>4. o \in Nat /\ u <= o
      BY <1>1
    <3> HIDE DEF x, z, l, o
    <3>5. new[i] = new[i - 1] + l
      BY <1>1, <3>1, <3>2, <3>3
    <3>6. ASSUME NEW e \in 1 .. l
          PROVE  wire[i][e] = TagByte(R, D[new[i - 1] + e])
      <4> DEFINE v == (x - u) + e
      <4>1. v \in 1 .. m - u /\ u + v = x + e
        <5>1. x + e \in o + 1 .. m
          BY <3>1
        <5> QED
          BY <1>1, <3>1, <3>4, <5>1
      <4>2. v = new[i - 1] + e
        BY <3>3
      <4> HIDE DEF v
      <4>3. D[v] = T[x + e]
        BY <1>3, <4>1
      <4> QED
        BY <3>2, <4>2, <4>3
    <3> QED
      BY <3>5, <3>6 DEF l
  <2> QED
    BY <2>1, <2>2, <2>3 DEF OnWire, n
<1>9. new[0] = j + Len(y)
  <2>1. new[0] = (k + a) - u
    BY <1>2, <1>5
  <2>2. (k + a) - u = j + (a - b)
    BY <1>1
  <2> QED
    BY <1>4, <2>1, <2>2
<1> QED
  BY <1>3, <1>7, <1>8, <1>9 DEF OnStream, j, D, y, new, a

\* The packets P are w, cut at the places cp.
CutOf(P, cp, w) ==
    /\ cp[0] = 0 /\ cp[Len(P)] = Len(w)
    /\ \A i, j \in 0 .. Len(P) : i <= j => cp[i] <= cp[j]
    /\ \A i \in 1 .. Len(P) :
          /\ cp[i] = cp[i - 1] + Len(P[i])
          /\ \A k \in 1 .. Len(P[i]) :
                /\ cp[i - 1] + k \in 1 .. Len(w)
                /\ P[i][k] = w[cp[i - 1] + k]

\* The tags of the frame of call c.
FrameTags(c, l) == [i \in 1 .. l |-> <<c, i>>]

\* A call sends its frame behind what is on the way.
LEMMA StreamSent ==
    ASSUME NEW R \in Seq(Request), NEW r \in Request, NEW T \in Seq(Tags),
           NEW cut \in Cuts, NEW h, NEW rx \in Seq(Byte),
           NEW wire \in Seq(Seq(Byte)), OnStream(h, rx, wire, T, cut, R),
           NEW P \in Seq(Seq(Byte)), NEW cp \in Cuts,
           CutOf(P, cp, WireBytes(r.cmd, RequestArgs(r)))
    PROVE  LET U == T \o FrameTags(Len(R) + 1, FrameLen(r.cmd))
           IN  /\ U \in Seq(Tags)
               /\ \E new \in Cuts :
                     OnStream(h, rx, wire \o P, U, new, Append(R, r))
               /\ \A j \in 1 .. Len(U) : \/ U[j][1] = Len(R) + 1
                                         \/ j <= Len(T) /\ U[j] = T[j]
<1> DEFINE Q == Append(R, r)
           c == Len(R) + 1
           w == WireBytes(r.cmd, RequestArgs(r))
           l == FrameLen(r.cmd)
           A == FrameTags(c, l)
           U == T \o A
           W == wire \o P
           n == Len(wire)
           m == Len(T)
           q == Len(P)
           new == [i \in Nat |-> IF i <= n THEN cut[i] ELSE m + cp[i - n]]
<1>1. /\ n \in Nat /\ m \in Nat /\ q \in Nat /\ c \in Nat /\ c - 1 = Len(R)
      /\ w \in Seq(Byte) /\ Len(w) = l /\ l \in 4 .. 5
  <2>1. n \in Nat /\ m \in Nat /\ q \in Nat
    OBVIOUS
  <2>2. c \in Nat /\ c - 1 = Len(R)
    <3> DEFINE a == Len(R)
    <3>1. a \in Nat /\ c = a + 1
      OBVIOUS
    <3> HIDE DEF a, c
    <3>2. c \in Nat /\ c - 1 = a
      BY <3>1
    <3> QED
      BY <3>2 DEF a
  <2>3. w \in Seq(Byte) /\ Len(w) = l /\ l \in 4 .. 5
    BY RequestArgsType, Wire
  <2> QED
    BY <2>1, <2>2, <2>3
<1>2. /\ c \in 1 .. Len(Q) /\ Frames(Q)[c] = w /\ FrameSize(Q, c) = l
  BY FramesKept
<1>3. OnStream(h, rx, wire, T, cut, Q)
  BY StreamKept
<1>4. /\ A \in Seq(Tags) /\ Len(A) = l /\ \A i \in 1 .. l : A[i] = <<c, i>>
  <2>1. \A i \in 1 .. l : <<c, i>> \in Tags
    BY <1>1 DEF Tags
  <2> HIDE DEF c, l
  <2>2. A = [i \in 1 .. l |-> <<c, i>>]
    BY DEF FrameTags
  <2> HIDE DEF A
  <2>3. A \in Seq(Tags)
    <3>1. A \in [1 .. l -> Tags]
      BY <2>1, <2>2
    <3>2. l \in Nat
      BY <1>1
    <3> HIDE DEF A
    <3> QED
      BY <3>1, <3>2, SeqDef
  <2>4. Len(A) = l
    BY <1>1, <2>2, <2>3
  <2> QED
    BY <2>2, <2>3, <2>4
<1>5. /\ U \in Seq(Tags) /\ Len(U) = m + l
      /\ \A i \in 1 .. m + l : U[i] = IF i <= m THEN T[i] ELSE A[i - m]
  <2> HIDE DEF A, l
  <2> QED
    BY <1>4, ConcatProperties
<1>6. /\ W \in Seq(Seq(Byte)) /\ Len(W) = n + q
      /\ \A i \in 1 .. n + q : W[i] = IF i <= n THEN wire[i] ELSE P[i - n]
  BY ConcatProperties
<1>7. \A i \in 1 .. m : T[i][1] < c
  <2>1. \A i \in 1 .. m : T[i][1] \in 1 .. Len(R)
    BY DEF OnStream, Tagged
  <2> DEFINE a == Len(R)
  <2>2. \A i \in 1 .. m : T[i][1] \in 1 .. a
    BY <2>1
  <2>3. c \in Nat /\ c - 1 = a
    BY <1>1
  <2> HIDE DEF a, c
  <2> QED
    BY <2>2, <2>3
<1> HIDE DEF Q, c, w, l, A, U, W, n, m, q
<1>8. /\ \A i \in 1 .. m : i \in 1 .. m + l /\ U[i] = T[i]
      /\ \A i \in 1 .. l : m + i \in 1 .. m + l /\ U[m + i] = <<c, i>>
      /\ \A j \in 1 .. m + l : j \in 1 .. m \/ j - m \in 1 .. l
  <2>1. ASSUME NEW i \in 1 .. l PROVE U[m + i] = <<c, i>>
    <3>1. m + i \in 1 .. m + l /\ ~(m + i <= m) /\ (m + i) - m = i
      BY <1>1
    <3> QED
      BY <1>4, <1>5, <3>1
  <2> QED
    BY <1>1, <1>5, <2>1
<1>9. /\ Tagged(T, Q) /\ HeldPart(h, T, Q) /\ InBuffer(rx, h.nb, T, Q)
      /\ cut[0] = h.nb + Len(rx) /\ OnWire(wire, cut, T, Q)
      /\ h \in Handle /\ h.nb \in Nat /\ Len(rx) \in Nat
      /\ h.nb + Len(rx) <= m
  BY <1>3 DEF OnStream, HeldPart, InBuffer, Handle, proto_FRAME_MAXSIZE, m
<1>10. Tagged(U, Q)
  <2>1. \A i \in 1 .. m :
           /\ T[i][1] \in 1 .. Len(Q)
           /\ T[i][2] \in 1 .. FrameSize(Q, T[i][1])
           /\ T[i][2] < FrameSize(Q, T[i][1]) =>
                 i < m /\ T[i + 1] = <<T[i][1], T[i][2] + 1>>
           /\ \A j \in i + 1 .. m :
                 \/ T[i][1] < T[j][1]
                 \/ T[i][1] = T[j][1] /\ T[i][2] < T[j][2]
    BY <1>9 DEF Tagged, m
  <2>2. ASSUME NEW i \in 1 .. m
        PROVE  /\ U[i][1] \in 1 .. Len(Q)
               /\ U[i][2] \in 1 .. FrameSize(Q, U[i][1])
               /\ U[i][2] < FrameSize(Q, U[i][1]) =>
                     i < m + l /\ U[i + 1] = <<U[i][1], U[i][2] + 1>>
               /\ \A j \in i + 1 .. m + l :
                     \/ U[i][1] < U[j][1]
                     \/ U[i][1] = U[j][1] /\ U[i][2] < U[j][2]
    <3>1. U[i] = T[i]
      BY <1>8
    <3>2. ASSUME U[i][2] < FrameSize(Q, U[i][1])
          PROVE  i < m + l /\ U[i + 1] = <<U[i][1], U[i][2] + 1>>
      <4>1. i < m /\ T[i + 1] = <<T[i][1], T[i][2] + 1>>
        BY <2>1, <3>1, <3>2
      <4>2. i + 1 \in 1 .. m /\ i < m + l
        BY <1>1, <4>1
      <4> QED
        BY <1>8, <3>1, <4>1, <4>2
    <3>3. ASSUME NEW j \in i + 1 .. m + l
          PROVE  \/ U[i][1] < U[j][1]
                 \/ U[i][1] = U[j][1] /\ U[i][2] < U[j][2]
      <4>1. CASE j <= m
        <5>1. j \in i + 1 .. m /\ j \in 1 .. m
          BY <1>1, <4>1
        <5> QED
          BY <1>8, <2>1, <3>1, <5>1
      <4>2. CASE ~(j <= m)
        <5>1. j - m \in 1 .. l /\ m + (j - m) = j
          BY <1>1, <4>2
        <5>2. U[j] = <<c, j - m>>
          BY <1>8, <5>1
        <5>3. U[i][1] < c
          BY <1>7, <3>1
        <5> QED
          BY <5>2, <5>3
      <4> QED
        BY <4>1, <4>2
    <3>4. U[i][1] \in 1 .. Len(Q) /\ U[i][2] \in 1 .. FrameSize(Q, U[i][1])
      BY <2>1, <3>1
    <3> QED
      BY <3>2, <3>3, <3>4
  <2>3. ASSUME NEW e \in 1 .. l
        PROVE  /\ U[m + e][1] \in 1 .. Len(Q)
               /\ U[m + e][2] \in 1 .. FrameSize(Q, U[m + e][1])
               /\ U[m + e][2] < FrameSize(Q, U[m + e][1]) =>
                     /\ m + e < m + l
                     /\ U[(m + e) + 1] = <<U[m + e][1], U[m + e][2] + 1>>
               /\ \A j \in (m + e) + 1 .. m + l :
                     \/ U[m + e][1] < U[j][1]
                     \/ U[m + e][1] = U[j][1] /\ U[m + e][2] < U[j][2]
    <3>1. U[m + e] = <<c, e>>
      BY <1>8
    <3>2. ASSUME e < l
          PROVE  m + e < m + l /\ U[(m + e) + 1] = <<c, e + 1>>
      <4>1. e + 1 \in 1 .. l /\ m + (e + 1) = (m + e) + 1 /\ m + e < m + l
        BY <1>1, <3>2
      <4> QED
        BY <1>8, <4>1
    <3>3. ASSUME NEW j \in (m + e) + 1 .. m + l
          PROVE  U[j][1] = c /\ e < U[j][2]
      <4>1. j - m \in 1 .. l /\ m + (j - m) = j /\ e < j - m
        BY <1>1
      <4> DEFINE o == j - m
      <4>2. U[j] = <<c, o>>
        BY <1>8, <4>1
      <4> QED
        BY <4>1, <4>2
    <3>4. FrameSize(Q, c) = l /\ c \in 1 .. Len(Q) /\ e \in 1 .. l
      BY <1>2
    <3> QED
      BY <3>1, <3>2, <3>3, <3>4
  <2>4. ASSUME NEW i \in 1 .. m + l
        PROVE  /\ U[i][1] \in 1 .. Len(Q)
               /\ U[i][2] \in 1 .. FrameSize(Q, U[i][1])
               /\ U[i][2] < FrameSize(Q, U[i][1]) =>
                     i < m + l /\ U[i + 1] = <<U[i][1], U[i][2] + 1>>
               /\ \A j \in i + 1 .. m + l :
                     \/ U[i][1] < U[j][1]
                     \/ U[i][1] = U[j][1] /\ U[i][2] < U[j][2]
    <3>1. CASE i \in 1 .. m
      BY <2>2, <3>1
    <3>2. CASE i - m \in 1 .. l
      <4> DEFINE e == i - m
      <4>1. e \in 1 .. l /\ m + e = i
        BY <1>1, <3>2
      <4> HIDE DEF e
      <4> QED
        BY <2>3, <4>1
    <3> QED
      BY <1>8, <3>1, <3>2
  <2> QED
    BY <1>5, <2>4 DEF Tagged
<1>11. HeldPart(h, U, Q)
  <2>1. h.nb > 0 => U[1] = T[1]
    <3>1. h.nb > 0 => 1 \in 1 .. m
      BY <1>1, <1>9
    <3> QED
      BY <1>8, <3>1
  <2>2. \A i \in 1 .. h.nb : U[i] = T[i]
    <3>1. \A i \in 1 .. h.nb : i \in 1 .. m
      BY <1>1, <1>9
    <3> QED
      BY <1>8, <3>1
  <2>3. h.nb <= Len(U)
    BY <1>1, <1>5, <1>9
  <2> QED
    BY <1>9, <2>1, <2>2, <2>3 DEF HeldPart
<1>12. InBuffer(rx, h.nb, U, Q)
  <2> DEFINE a == Len(rx)
             k == h.nb
  <2>1. a \in Nat /\ k \in Nat /\ k + a <= m
    BY <1>9
  <2>2. \A i \in 1 .. a : rx[i] = TagByte(Q, T[k + i])
    BY <1>9 DEF InBuffer
  <2> HIDE DEF a, k
  <2>3. \A i \in 1 .. a : k + i \in 1 .. m
    BY <1>1, <2>1
  <2>4. \A i \in 1 .. a : rx[i] = TagByte(Q, U[k + i])
    BY <1>8, <2>2, <2>3
  <2>5. k + a <= Len(U)
    BY <1>1, <1>5, <2>1
  <2> QED
    BY <2>4, <2>5 DEF InBuffer, a, k
<1>13. /\ \A i \in 0 .. n : i \in Nat /\ new[i] = cut[i] /\ cut[i] \in Int
       /\ \A i \in 0 .. q : /\ n + i \in Nat /\ cp[i] \in Int
                            /\ new[n + i] = m + cp[i]
       /\ new \in Cuts
  <2>1. /\ cut[n] = m /\ cp[0] = 0
    BY <1>9 DEF OnWire, CutOf, n, m
  <2>2. \A i \in Nat : cut[i] \in Int /\ cp[i] \in Int
    BY DEF Cuts
  <2>3. \A i \in Nat : new[i] = IF i <= n THEN cut[i] ELSE m + cp[i - n]
    OBVIOUS
  <2>4. new \in Cuts
    <3>1. ASSUME NEW i \in Nat
          PROVE  (IF i <= n THEN cut[i] ELSE m + cp[i - n]) \in Int
      <4>1. CASE i <= n
        BY <2>2, <4>1
      <4>2. CASE ~(i <= n)
        <5>1. i - n \in Nat
          BY <1>1, <4>2
        <5>2. cp[i - n] \in Int
          BY <2>2, <5>1
        <5> QED
          BY <1>1, <4>2, <5>2
      <4> QED
        BY <4>1, <4>2
    <3> QED
      BY <3>1 DEF Cuts
  <2> HIDE DEF new
  <2>5. ASSUME NEW i \in 0 .. q
        PROVE  /\ n + i \in Nat /\ cp[i] \in Int /\ new[n + i] = m + cp[i]
    <3>1. CASE i = 0
      <4>1. n + i = n /\ n \in Nat /\ n <= n /\ 0 \in Nat
        BY <1>1, <3>1
      <4>2. new[n] = m
        BY <2>1, <2>3, <4>1
      <4>3. m = m + cp[0]
        BY <1>1, <2>1
      <4> QED
        BY <2>2, <3>1, <4>1, <4>2, <4>3
    <3>2. CASE i # 0
      <4>1. n + i \in Nat /\ ~(n + i <= n) /\ (n + i) - n = i /\ i \in Nat
        BY <1>1, <3>2
      <4> QED
        BY <2>2, <2>3, <4>1
    <3> QED
      BY <3>1, <3>2
  <2>6. \A i \in 0 .. n : i \in Nat /\ i <= n
    BY <1>1
  <2> QED
    BY <2>2, <2>3, <2>4, <2>5, <2>6
<1> HIDE DEF new
<1>14. /\ cut[n] = m
       /\ \A e, f \in 0 .. n : e <= f => cut[e] <= cut[f]
       /\ \A i \in 1 .. n :
             /\ cut[i] = cut[i - 1] + Len(wire[i])
             /\ \A k \in 1 .. Len(wire[i]) :
                   wire[i][k] = TagByte(Q, T[cut[i - 1] + k])
  BY <1>9 DEF OnWire, n, m
<1>15. /\ cp[0] = 0 /\ cp[q] = l
       /\ \A e, f \in 0 .. q : e <= f => cp[e] <= cp[f]
       /\ \A i \in 1 .. q :
             /\ cp[i] = cp[i - 1] + Len(P[i])
             /\ \A k \in 1 .. Len(P[i]) :
                   /\ cp[i - 1] + k \in 1 .. l
                   /\ P[i][k] = w[cp[i - 1] + k]
  BY <1>1 DEF CutOf, q, w
<1>16. OnWire(W, new, U, Q)
  <2>1. new[n + q] = m + l
    <3>1. q \in 0 .. q
      BY <1>1
    <3> QED
      BY <1>13, <1>15, <3>1
  <2>2. ASSUME NEW e \in 0 .. n + q, NEW f \in 0 .. n + q, e <= f
        PROVE  new[e] <= new[f]
    <3>1. CASE f <= n
      <4>1. e \in 0 .. n /\ f \in 0 .. n
        BY <1>1, <2>2, <3>1
      <4> QED
        BY <1>13, <1>14, <2>2, <4>1
    <3>2. CASE ~(f <= n) /\ ~(e <= n)
      <4> DEFINE x == e - n
                 y == f - n
      <4>1. x \in 0 .. q /\ y \in 0 .. q /\ x <= y /\ n + x = e /\ n + y = f
        BY <1>1, <2>2, <3>2
      <4> HIDE DEF x, y
      <4>2. /\ new[e] = m + cp[x] /\ new[f] = m + cp[y]
            /\ cp[x] \in Int /\ cp[y] \in Int
        BY <1>13, <4>1
      <4>3. cp[x] <= cp[y]
        BY <1>15, <4>1
      <4> DEFINE a == cp[x]
                 b == cp[y]
      <4> HIDE DEF a, b
      <4>4. m + a <= m + b
        BY <1>1, <4>2, <4>3 DEF a, b
      <4> QED
        BY <4>2, <4>4 DEF a, b
    <3>3. CASE ~(f <= n) /\ e <= n
      <4> DEFINE y == f - n
      <4>1. y \in 0 .. q /\ n + y = f /\ e \in 0 .. n /\ n \in 0 .. n
            /\ 0 \in 0 .. q /\ 0 <= y
        BY <1>1, <2>2, <3>3
      <4> HIDE DEF y
      <4> DEFINE a == cut[e]
                 b == cp[y]
      <4>2. new[e] = a /\ new[f] = m + b /\ a \in Int /\ b \in Int
        BY <1>13, <4>1
      <4>3. a <= m
        BY <1>14, <3>3, <4>1
      <4>4. 0 <= b
        BY <1>15, <4>1
      <4> HIDE DEF a, b
      <4>5. a <= m + b
        BY <1>1, <4>2, <4>3, <4>4
      <4> QED
        BY <4>2, <4>5
    <3> QED
      BY <3>1, <3>2, <3>3
  <2>3. ASSUME NEW i \in 1 .. n
        PROVE  /\ new[i] = new[i - 1] + Len(W[i])
               /\ \A k \in 1 .. Len(W[i]) :
                     W[i][k] = TagByte(Q, U[new[i - 1] + k])
    <3>1. i \in 0 .. n /\ i - 1 \in 0 .. n /\ i \in 1 .. n + q /\ i <= n
      BY <1>1
    <3>2. W[i] = wire[i] /\ new[i] = cut[i] /\ new[i - 1] = cut[i - 1]
      BY <1>6, <1>13, <3>1
    <3>3. ASSUME NEW k \in 1 .. Len(wire[i])
          PROVE  wire[i][k] = TagByte(Q, U[cut[i - 1] + k])
      <4> DEFINE o == h.nb + Len(rx)
                 v == cut[i - 1] + k
      <4>1. o \in Nat /\ cut[0] = o
        BY <1>9
      <4>2. OnWire(wire, cut, T, Q) /\ i \in 1 .. Len(wire)
        BY <1>9 DEF n
      <4> HIDE DEF o
      <4>3. v \in o + 1 .. m
        BY <4>1, <4>2, PacketInside DEF m
      <4> HIDE DEF v
      <4>4. v \in 1 .. m
        BY <1>1, <4>1, <4>3
      <4>5. U[v] = T[v]
        BY <1>8, <4>4
      <4>6. wire[i][k] = TagByte(Q, T[v])
        BY <1>14 DEF v
      <4> QED
        BY <4>5, <4>6 DEF v
    <3>4. cut[i] = cut[i - 1] + Len(wire[i])
      BY <1>14
    <3> QED
      BY <3>2, <3>3, <3>4
  <2>4. ASSUME NEW i \in 1 .. q
        PROVE  /\ new[n + i] = new[(n + i) - 1] + Len(W[n + i])
               /\ \A k \in 1 .. Len(W[n + i]) :
                     W[n + i][k] = TagByte(Q, U[new[(n + i) - 1] + k])
    <3>1. /\ i \in 0 .. q /\ i - 1 \in 0 .. q /\ n + i \in 1 .. n + q
          /\ ~(n + i <= n) /\ (n + i) - n = i /\ (n + i) - 1 = n + (i - 1)
      BY <1>1
    <3> DEFINE a == cp[i - 1]
               b == cp[i]
               p == P[i]
    <3>2. /\ W[n + i] = p /\ new[n + i] = m + b /\ new[(n + i) - 1] = m + a
          /\ a \in Int /\ b \in Int
      BY <1>6, <1>13, <3>1
    <3>3. /\ b = a + Len(p)
          /\ \A k \in 1 .. Len(p) : a + k \in 1 .. l /\ p[k] = w[a + k]
      BY <1>15
    <3>4. Len(p) \in Nat
      <4>1. p \in Seq(Byte)
        BY ElementOfSeq DEF q
      <4> QED
        BY <4>1
    <3> HIDE DEF a, b, p
    <3>5. m + b = (m + a) + Len(p)
      BY <1>1, <3>2, <3>3, <3>4
    <3>6. ASSUME NEW k \in 1 .. Len(p)
          PROVE  p[k] = TagByte(Q, U[(m + a) + k])
      <4> DEFINE v == a + k
      <4>1. v \in 1 .. l /\ p[k] = w[v]
        BY <3>3
      <4>2. (m + a) + k = m + v
        BY <1>1, <3>2
      <4> HIDE DEF v
      <4>3. U[m + v] = <<c, v>>
        BY <1>8, <4>1
      <4>4. TagByte(Q, <<c, v>>) = w[v]
        BY <1>2 DEF TagByte
      <4> QED
        BY <4>1, <4>2, <4>3, <4>4
    <3> QED
      BY <3>2, <3>5, <3>6
  <2>5. ASSUME NEW i \in 1 .. n + q
        PROVE  /\ new[i] = new[i - 1] + Len(W[i])
               /\ \A k \in 1 .. Len(W[i]) :
                     W[i][k] = TagByte(Q, U[new[i - 1] + k])
    <3>1. CASE i <= n
      <4>1. i \in 1 .. n
        BY <1>1, <3>1
      <4> QED
        BY <2>3, <4>1
    <3>2. CASE ~(i <= n)
      <4> DEFINE e == i - n
      <4>1. e \in 1 .. q /\ n + e = i
        BY <1>1, <3>2
      <4> HIDE DEF e
      <4> QED
        BY <2>4, <4>1
    <3> QED
      BY <3>1, <3>2
  <2> QED
    BY <1>5, <1>6, <2>1, <2>2, <2>5 DEF OnWire
<1>17. new[0] = h.nb + Len(rx)
  <2>1. 0 \in 0 .. n
    BY <1>1
  <2> QED
    BY <1>9, <1>13, <2>1
<1>18. OnStream(h, rx, W, U, new, Q)
  BY <1>10, <1>11, <1>12, <1>16, <1>17 DEF OnStream
<1>19. ASSUME NEW j \in 1 .. Len(U)
       PROVE  U[j][1] = c \/ (j <= m /\ U[j] = T[j])
  <2>1. j \in 1 .. m + l
    BY <1>5
  <2>2. CASE j \in 1 .. m
    BY <1>1, <1>8, <2>2
  <2>3. CASE j - m \in 1 .. l
    <3>1. U[m + (j - m)] = <<c, j - m>>
      BY <1>8, <2>3
    <3>2. m + (j - m) = j
      BY <1>1, <2>1
    <3> QED
      BY <3>1, <3>2
  <2> QED
    BY <1>8, <2>1, <2>2, <2>3
<1> QED
  BY <1>5, <1>13, <1>18, <1>19 DEF U, A, c, l, m, W, Q

-----------------------------------------------------------------------------
(***************************************************************************)
(* One frame w on its way: its start in the handle, what follows in the    *)
(* buffer, and the rest on the wire, where packet i ends at place cut[i].  *)
(***************************************************************************)
Way(h, rx, wire, w) ==
    \E cut \in Cuts :
        /\ Holds(h, w, h.nb) /\ h.nb < Len(w)
        /\ \A i \in 1 .. Len(rx) : rx[i] = w[h.nb + i]
        /\ cut[0] = h.nb + Len(rx) /\ cut[Len(wire)] = Len(w)
        /\ \A i, j \in 0 .. Len(wire) : i <= j => cut[i] <= cut[j]
        /\ \A i \in 1 .. Len(wire) :
              /\ Len(wire[i]) > 0 /\ cut[i] = cut[i - 1] + Len(wire[i])
              /\ \A k \in 1 .. Len(wire[i]) : wire[i][k] = w[cut[i - 1] + k]

LEMMA WaySent ==
    ASSUME NEW w \in Seq(Byte), w # << >>, NEW h \in Handle, h.nb = 0,
           NEW P \in Seq(Seq(Byte)), \A i \in 1 .. Len(P) : Len(P[i]) > 0,
           NEW cp \in Cuts, CutOf(P, cp, w)
    PROVE  Way(h, << >>, P, w)
<1>1. Len(w) > 0
  <2> DEFINE l == Len(w)
  <2>1. l \in Nat /\ l # 0
    OBVIOUS
  <2> HIDE DEF l
  <2>2. l > 0
    BY <2>1
  <2> QED
    BY <2>2 DEF l
<1>2. Holds(h, w, 0)
  BY DEF Holds
<1>3. Len(<< >>) = 0 /\ \A i \in 1 .. 0 : FALSE
  OBVIOUS
<1>4. /\ cp[0] = 0 /\ cp[Len(P)] = Len(w)
      /\ \A i, j \in 0 .. Len(P) : i <= j => cp[i] <= cp[j]
      /\ \A i \in 1 .. Len(P) :
            /\ Len(P[i]) > 0 /\ cp[i] = cp[i - 1] + Len(P[i])
            /\ \A k \in 1 .. Len(P[i]) : P[i][k] = w[cp[i - 1] + k]
  BY DEF CutOf
<1> QED
  BY <1>1, <1>2, <1>3, <1>4 DEF Way

LEMMA WayDelivered ==
    ASSUME NEW w \in Seq(Byte), NEW h \in Handle, NEW rx \in Seq(Byte),
           NEW wire \in Seq(Seq(Byte)), wire # << >>, Way(h, rx, wire, w)
    PROVE  Way(h, rx \o Head(wire), Tail(wire), w)
<1> DEFINE n == Len(wire)
           a == Len(rx)
           k == h.nb
           p == wire[1]
           l == Len(p)
           rest == Tail(wire)
           y == rx \o p
<1>1. /\ n \in Nat /\ n > 0 /\ a \in Nat /\ k \in 0 .. 5
      /\ Head(wire) = p /\ p \in Seq(Byte) /\ l \in Nat
  <2>1. n \in Nat /\ n # 0
    OBVIOUS
  <2>2. 1 \in 1 .. n
    BY <2>1
  <2> QED
    BY <2>1, <2>2, ElementOfSeq DEF Handle, proto_FRAME_MAXSIZE
<1>2. /\ rest \in Seq(Seq(Byte)) /\ Len(rest) = n - 1
      /\ \A i \in 1 .. n - 1 : rest[i] = wire[i + 1]
  BY HeadTailProperties
<1>3. PICK cut \in Cuts :
        /\ Holds(h, w, k) /\ k < Len(w)
        /\ \A i \in 1 .. a : rx[i] = w[k + i]
        /\ cut[0] = k + a /\ cut[n] = Len(w)
        /\ \A i, j \in 0 .. n : i <= j => cut[i] <= cut[j]
        /\ \A i \in 1 .. n :
              /\ Len(wire[i]) > 0 /\ cut[i] = cut[i - 1] + Len(wire[i])
              /\ \A e \in 1 .. Len(wire[i]) : wire[i][e] = w[cut[i - 1] + e]
  BY DEF Way
<1>4. /\ y \in Seq(Byte) /\ Len(y) = a + l
      /\ \A i \in 1 .. a + l : y[i] = IF i <= a THEN rx[i] ELSE p[i - a]
  BY <1>1, ConcatProperties
<1> DEFINE new == [i \in Nat |-> cut[i + 1]]
<1>5. new \in Cuts /\ \A i \in Nat : new[i] = cut[i + 1]
  BY DEF Cuts
<1> HIDE DEF n, a, k, l, new, rest, y
<1>6. cut[1] = k + a + l /\ 1 \in 1 .. n /\ 1 - 1 = 0
  <2>1. 1 \in 1 .. n /\ 1 - 1 = 0
    BY <1>1
  <2>2. cut[1] = cut[0] + l
    BY <1>3, <2>1 DEF l
  <2> QED
    BY <1>3, <2>1, <2>2
<1>7. ASSUME NEW i \in 1 .. a + l PROVE y[i] = w[k + i]
  <2>1. CASE i <= a
    <3>1. i \in 1 .. a
      BY <1>1, <2>1
    <3> QED
      BY <1>3, <1>4, <2>1, <3>1
  <2>2. CASE ~(i <= a)
    <3>1. i - a \in 1 .. l /\ (k + a) + (i - a) = k + i
      BY <1>1, <2>2
    <3>2. p[i - a] = w[cut[0] + (i - a)]
      BY <1>3, <1>6, <3>1 DEF l
    <3> QED
      BY <1>3, <1>4, <2>2, <3>1, <3>2
  <2> QED
    BY <2>1, <2>2
<1>8. /\ new[0] = k + Len(y) /\ new[Len(rest)] = Len(w)
  <2>1. 0 \in Nat /\ 0 + 1 = 1 /\ k + (a + l) = k + a + l
        /\ n - 1 \in Nat /\ (n - 1) + 1 = n
    BY <1>1
  <2> QED
    BY <1>2, <1>3, <1>4, <1>5, <1>6, <2>1
<1>9. ASSUME NEW i \in 0 .. n - 1, NEW j \in 0 .. n - 1, i <= j
      PROVE  new[i] <= new[j]
  <2>1. i + 1 \in 0 .. n /\ j + 1 \in 0 .. n /\ i + 1 <= j + 1
        /\ i \in Nat /\ j \in Nat
    BY <1>1, <1>9
  <2> QED
    BY <1>3, <1>5, <2>1
<1>10. ASSUME NEW i \in 1 .. n - 1
       PROVE  /\ Len(rest[i]) > 0 /\ new[i] = new[i - 1] + Len(rest[i])
              /\ \A e \in 1 .. Len(rest[i]) : rest[i][e] = w[new[i - 1] + e]
  <2>1. /\ i + 1 \in 1 .. n /\ (i + 1) - 1 = i /\ i \in Nat
        /\ i - 1 \in Nat /\ (i - 1) + 1 = i
    BY <1>1
  <2>2. new[i] = cut[i + 1] /\ new[i - 1] = cut[i] /\ rest[i] = wire[i + 1]
    BY <1>2, <1>5, <2>1
  <2> QED
    BY <1>3, <2>1, <2>2
<1>11. Way(h, y, rest, w)
  <2>1. Holds(h, w, h.nb) /\ h.nb < Len(w)
    BY <1>3 DEF k
  <2>2. \A i \in 1 .. Len(y) : y[i] = w[h.nb + i]
    BY <1>4, <1>7 DEF k
  <2>3. new[0] = h.nb + Len(y) /\ new[Len(rest)] = Len(w)
    BY <1>8 DEF k
  <2>4. \A i, j \in 0 .. Len(rest) : i <= j => new[i] <= new[j]
    BY <1>2, <1>9
  <2>5. \A i \in 1 .. Len(rest) :
           /\ Len(rest[i]) > 0 /\ new[i] = new[i - 1] + Len(rest[i])
           /\ \A e \in 1 .. Len(rest[i]) : rest[i][e] = w[new[i - 1] + e]
    BY <1>2, <1>10
  <2> QED
    BY <1>5, <2>1, <2>2, <2>3, <2>4, <2>5 DEF Way
<1> QED
  BY <1>1, <1>11 DEF y, rest

\* A read takes all that has arrived of the frame: then the handle has the
\* whole frame and nothing is left of it, or its start and the rest is on its
\* way.
LEMMA WayRead ==
    ASSUME NEW w \in Seq(Byte), Len(w) \in 4 .. 5,
           w[1] = proto_START_OF_FRAME, FrameLen(w[3]) = Len(w),
           NEW h, NEW rx \in Seq(Byte), rx # << >>,
           NEW wire \in Seq(Seq(Byte)), Way(h, rx, wire, w)
    PROVE  LET r == proto_readFrame(h, rx)
           IN  /\ Len(rx) <= ReadLen(h)
               /\ \/ /\ Holds(r.hdle, w, Len(w)) /\ r.status = "NO_ERROR"
                     /\ wire = << >>
                     /\ h.nb = 0 => rx = w
                  \/ /\ \E m \in 0 .. Len(w) - 1 : Holds(r.hdle, w, m)
                     /\ Way(r.hdle, << >>, wire, w)
<1> DEFINE n == Len(wire)
           a == Len(rx)
           k == h.nb
           l == Len(w)
           m == k + a
           r == proto_readFrame(h, rx)
<1>1. PICK cut \in Cuts :
        /\ Holds(h, w, k) /\ k < l
        /\ \A i \in 1 .. a : rx[i] = w[k + i]
        /\ cut[0] = k + a /\ cut[n] = l
        /\ \A i, j \in 0 .. n : i <= j => cut[i] <= cut[j]
        /\ \A i \in 1 .. n :
              /\ Len(wire[i]) > 0 /\ cut[i] = cut[i - 1] + Len(wire[i])
              /\ \A e \in 1 .. Len(wire[i]) : wire[i][e] = w[cut[i - 1] + e]
  BY DEF Way
<1>2. /\ n \in Nat /\ a \in Nat /\ a # 0 /\ l \in 4 .. 5 /\ k \in 0 .. 5
      /\ h \in Handle /\ rx \in Seq(Byte) /\ FrameLen(w[3]) = l
  BY <1>1 DEF Holds, Handle, proto_FRAME_MAXSIZE
<1>3. n > 0 => wire[1] \in Seq(Byte) /\ Len(wire[1]) \in Nat
  <2>1. n > 0 => 1 \in 1 .. n
    BY <1>2
  <2> QED
    BY <2>1, ElementOfSeq
<1>4. ReadLen(h) = 5 - k
  BY DEF ReadLen, proto_FRAME_MAXSIZE
<1> HIDE DEF n, a, k, l, m, r
<1>5. /\ m <= l /\ m \in 1 .. l /\ a <= 5 - k
      /\ m = l => n = 0
  <2>1. m = k + a
    BY DEF m
  <2>2. cut[0] <= cut[n]
    <3>1. 0 \in 0 .. n /\ n \in 0 .. n /\ 0 <= n
      BY <1>2
    <3> QED
      BY <1>1, <3>1
  <2>3. m <= l
    BY <1>1, <2>1, <2>2
  <2>4. ASSUME n > 0 PROVE m < l
    <3>1. 1 \in 1 .. n /\ 1 - 1 = 0 /\ 1 \in 0 .. n /\ n \in 0 .. n /\ 1 <= n
      BY <1>2, <2>4
    <3> DEFINE e == Len(wire[1])
    <3>2. e \in Nat /\ e > 0 /\ cut[1] = cut[0] + e
      BY <1>1, <1>3, <2>4, <3>1
    <3>3. cut[1] <= cut[n]
      BY <1>1, <3>1
    <3>4. cut[0] = m /\ cut[n] = l
      BY <1>1, <2>1
    <3> HIDE DEF e
    <3> QED
      BY <1>2, <2>1, <3>2, <3>3, <3>4
  <2> QED
    BY <1>1, <1>2, <2>1, <2>3, <2>4
<1>6. Skips(rx, k, 0)
  <2>1. CASE k > 0
    BY <2>1 DEF Skips
  <2>2. CASE k = 0
    <3> DEFINE sof == FirstSOF(rx)
    <3>1. /\ sof \in 1 .. a + 1
          /\ \A j \in 1 .. sof - 1 : j <= a => rx[j] # proto_START_OF_FRAME
      BY FirstSOFType DEF a
    <3>2. rx[1] = proto_START_OF_FRAME
      <4>1. 1 \in 1 .. a /\ k + 1 = 1
        BY <1>2, <2>2
      <4> QED
        BY <1>1, <4>1
    <3> HIDE DEF sof
    <3>3. sof = 1
      BY <1>2, <3>1, <3>2
    <3> QED
      BY <2>2, <3>3 DEF Skips, sof
  <2> QED
    BY <1>2, <2>1, <2>2
<1>7. Brings(rx, 0, w, k, m)
  <2>1. \A i \in 1 .. m - k : i \in 1 .. a /\ 0 + i = i
    BY <1>2 DEF m
  <2> QED
    BY <1>1, <2>1 DEF Brings
<1>8. Holds(r.hdle, w, m) /\ (m = l => r.status = "NO_ERROR")
  <2> DEFINE s == 0
  <2>1. /\ l \in 3 .. 5 /\ k \in 0 .. l - 1 /\ s \in 0 .. a - 1
        /\ m = Least(l, k + (a - s))
    BY <1>1, <1>2, <1>5 DEF m, Least
  <2>2. Skips(rx, k, s) /\ Brings(rx, s, w, k, m)
    BY <1>6, <1>7
  <2> HIDE DEF s
  <2>3. s \in 0 .. Len(rx) - 1 /\ m = Least(l, k + (Len(rx) - s))
    BY <2>1 DEF a
  <2>4. /\ Holds(proto_readFrame(h, rx).hdle, w, m)
        /\ m = l => proto_readFrame(h, rx).status = "NO_ERROR"
    <3>1. Holds(h, w, k) /\ FrameLen(w[3]) = l
      BY <1>1, <1>2
    <3> QED
      BY <2>1, <2>2, <2>3, <3>1, ReadMore
  <2> QED
    BY <2>4 DEF r
<1>9. CASE m = l
  <2>1. wire = << >>
    BY <1>5, <1>9, EmptySeq DEF n
  <2>2. ASSUME k = 0 PROVE rx = w
    <3>1. a = l /\ \A i \in 1 .. a : k + i = i
      BY <1>2, <1>9, <2>2 DEF m
    <3>2. Len(rx) = Len(w) /\ \A i \in 1 .. Len(rx) : rx[i] = w[i]
      BY <1>1, <3>1 DEF a, l
    <3> QED
      BY <3>2, SeqEqual
  <2> QED
    BY <1>4, <1>5, <1>8, <1>9, <2>1, <2>2 DEF a, l, r, k
<1>10. CASE m # l
  <2> DEFINE g == r.hdle
  <2>1. Holds(g, w, m) /\ g.nb = m
    BY <1>8 DEF Holds
  <2> HIDE DEF g
  <2>2. m \in 0 .. l - 1 /\ m < l
    BY <1>2, <1>5, <1>10
  <2>3. Len(<< >>) = 0 /\ m + 0 = m /\ \A i \in 1 .. 0 : FALSE
    BY <2>2, <1>2
  <2>4. cut[0] = m
    BY <1>1 DEF m
  <2>5. Way(g, << >>, wire, w)
    BY <1>1, <2>1, <2>2, <2>3, <2>4 DEF Way, n, l
  <2> QED
    BY <1>4, <1>5, <2>1, <2>2, <2>5 DEF a, l, r, g
<1> QED
  BY <1>9, <1>10

-----------------------------------------------------------------------------
(***************************************************************************)
(* The bytes of the answer.  The handle is one frame for both directions:  *)
(* a request of four bytes leaves the fifth byte of the last answer in it, *)
(* and a refusal sends it back.                                            *)
(***************************************************************************)
LEMMA FillKeeps ==
    ASSUME NEW h \in Handle, NEW buf \in Seq(Byte),
           NEW c \in 0 .. Len(buf), NEW limit \in 0 .. 5,
           Fill(h, buf, c, limit).nb < 5
    PROVE  Fill(h, buf, c, limit).frame[5] = h.frame[5]
<1> DEFINE n == IF h.nb < limit THEN Least(limit - h.nb, Len(buf) - c) ELSE 0
           g == [i \in 1 .. proto_FRAME_MAXSIZE |->
                   IF h.nb < i /\ i <= h.nb + n
                   THEN buf[c + i - h.nb] ELSE h.frame[i]]
<1>1. Fill(h, buf, c, limit) = [frame |-> g, nb |-> h.nb + n]
  BY DEF Fill
<1>2. g[5] = IF h.nb < 5 /\ 5 <= h.nb + n
             THEN buf[c + 5 - h.nb] ELSE h.frame[5]
  BY DEF proto_FRAME_MAXSIZE
<1>3. h.nb + n \in Int /\ h.nb + n < 5
  <2>1. h.nb \in 0 .. 5 /\ Len(buf) \in Nat
    BY DEF Handle, proto_FRAME_MAXSIZE
  <2>2. n \in Int
    BY <2>1 DEF Least
  <2> HIDE DEF n, g
  <2>3. h.nb + n < 5
    BY <1>1
  <2> QED
    BY <2>1, <2>2, <2>3
<1> HIDE DEF n, g
<1>4. ~(5 <= h.nb + n)
  BY <1>3
<1> QED
  BY <1>1, <1>2, <1>4

LEMMA ReadKeeps ==
    ASSUME NEW h \in Handle, NEW buf \in Seq(Byte),
           proto_readFrame(h, buf).hdle.nb < 5
    PROVE  proto_readFrame(h, buf).hdle.frame[5] = h.frame[5]
<1> DEFINE len == Len(buf)
           skip == IF h.nb = 0 THEN FirstSOF(buf) - 1 ELSE 0
           header == Fill(h, buf, skip, proto_ARGS_OFFSET)
           cursor == skip + (header.nb - h.nb)
           length == FrameLen(header.frame[3])
           whole == Fill(header, buf, cursor, length)
           p == proto_pushToFrame(h, buf)
           r == proto_readFrame(h, buf)
<1>1. r.hdle = IF buf = << >> THEN h ELSE p.hdle
  BY DEF proto_readFrame
<1>2. p.hdle = IF skip = len THEN h ELSE IF cursor = len THEN header
               ELSE whole
  BY DEF proto_pushToFrame
<1>3. skip \in 0 .. len /\ 3 \in 0 .. 5 /\ len \in Nat
  <2>1. FirstSOF(buf) \in 1 .. len + 1
    BY FirstSOFType
  <2> QED
    BY <2>1
<1>4. /\ header \in Handle /\ header.nb \in h.nb .. 5
      /\ header.nb - h.nb <= len - skip /\ h.nb \in 0 .. 5
      /\ header.nb < 5 => header.frame[5] = h.frame[5]
  <2> HIDE DEF skip
  <2> DEFINE f == Fill(h, buf, skip, 3)
  <2>1. /\ f \in Handle /\ f.nb \in h.nb .. 5 /\ f.nb - h.nb <= len - skip
        /\ f.nb < 5 => f.frame[5] = h.frame[5]
    BY <1>3, FillType, FillKeeps
  <2> HIDE DEF f
  <2>2. header = f
    BY DEF f, proto_ARGS_OFFSET
  <2> QED
    BY <2>1, <2>2 DEF Handle, proto_FRAME_MAXSIZE
<1>5. cursor \in 0 .. len /\ length \in 0 .. 5
  <2>1. header.frame[3] \in Byte
    BY <1>4 DEF Handle, Frame, proto_FRAME_MAXSIZE
  <2>2. length \in 3 .. 5
    BY <2>1, FrameLenType
  <2> HIDE DEF length
  <2>3. cursor \in 0 .. len
    <3> DEFINE k == h.nb
               m == header.nb
    <3>1. k \in 0 .. 5 /\ m \in k .. 5 /\ m - k <= len - skip
      BY <1>4
    <3>2. cursor = skip + (m - k)
      OBVIOUS
    <3> HIDE DEF k, m, skip, cursor, len
    <3> QED
      BY <1>3, <3>1, <3>2
  <2> QED
    BY <2>2, <2>3
<1> HIDE DEF header, cursor, length, skip
<1>6. /\ whole \in Handle /\ whole.nb \in header.nb .. 5
      /\ whole.nb < 5 => whole.frame[5] = header.frame[5]
  <2>1. header \in Handle /\ cursor \in 0 .. Len(buf) /\ length \in 0 .. 5
    BY <1>4, <1>5
  <2>2. whole \in Handle /\ whole.nb \in header.nb .. 5
    BY <2>1, FillType
  <2>3. ASSUME whole.nb < 5 PROVE whole.frame[5] = header.frame[5]
    BY <2>1, <2>3, FillKeeps
  <2> QED
    BY <2>2, <2>3
<1> HIDE DEF whole, p, len
<1>7. whole.nb < 5 => whole.frame[5] = h.frame[5]
  <2>1. whole.nb < 5 => header.nb < 5
    BY <1>4, <1>6
  <2> QED
    BY <1>4, <1>6, <2>1
<1> QED
  BY <1>1, <1>2, <1>4, <1>7

LEMMA ReplyBytes ==
    ASSUME NEW a, NEW b, NEW c
    PROVE  /\ WireBytes(REPLY, <<a, b>>) = WireBytes(REPLY, <<a, c>>)
           /\ proto_makeFrame(REPLY, <<a, b>>)[5] = 0
<1>1. proto_getArgsSize(REPLY) = 1
  BY DEF REPLY, proto_getArgsSize, proto_LAST, ArgsLut
<1>2. /\ RawFrame(REPLY, <<a, b>>) = <<proto_START_OF_FRAME, 0, REPLY, a, 0>>
      /\ RawFrame(REPLY, <<a, c>>) = <<proto_START_OF_FRAME, 0, REPLY, a, 0>>
  BY <1>1 DEF RawFrame
<1>3. proto_makeFrame(REPLY, <<a, b>>) = proto_makeFrame(REPLY, <<a, c>>)
  BY <1>2 DEF proto_makeFrame
<1>4. proto_makeFrame(REPLY, <<a, b>>)[5] = 0
  BY <1>2 DEF proto_makeFrame
<1> QED
  BY <1>3, <1>4 DEF WireBytes

RefusedByte(req, g) == IF req.cmd = SET THEN req.val ELSE g.frame[5]

\* What the answer to a request of a handle with frame g says.
AnswerTo(req, N, regs, g) ==
    IF req.reg \notin 0 .. N - 1
    THEN WireBytes(ERR_ARG, <<req.reg, RefusedByte(req, g)>>)
    ELSE WireBytes(REPLY,
            <<IF req.cmd = SET THEN req.reg ELSE regs[req.reg], 0>>)

Answers(s, g, N, regs, req) ==
    /\ s.reply = AnswerTo(req, N, regs, g)
    /\ s.hdle.frame[5] = IF req.reg \in 0 .. N - 1 THEN 0
                         ELSE RefusedByte(req, g)

LEMMA SlaveAnswers ==
    ASSUME NEW N \in Nat, NEW regs \in [0 .. N - 1 -> Byte],
           NEW h, NEW buf, NEW req \in Request,
           Holds(proto_readFrame(h, buf).hdle,
                 WireBytes(req.cmd, RequestArgs(req)), FrameLen(req.cmd)),
           proto_readFrame(h, buf).status = "NO_ERROR"
    PROVE  Answers(proto_slave_main(h, regs, buf),
                   proto_readFrame(h, buf).hdle, N, regs, req)
<1> DEFINE ra == RequestArgs(req)
           owned == req.reg \in 0 .. N - 1
           r == proto_readFrame(h, buf)
           e == r.hdle.frame
           d == proto_decodeFrame(r.hdle, <<0, 0>>)
           cb == slave_receive(regs, d.cmd, d.arg)
           cmd == IF cb.ok THEN REPLY ELSE ERR_ARG
           s == proto_slave_main(h, regs, buf)
           f == proto_makeFrame(req.cmd, ra)
           l == FrameLen(req.cmd)
<1>1. /\ ra \in Args /\ ra[1] = req.reg /\ (req.cmd = SET => ra[2] = req.val)
      /\ req.cmd \in {SET, GET} /\ req.cmd \in 0 .. 4 /\ req.reg \in Byte
      /\ req.val \in Byte
  BY RequestArgsType DEF Request
<1>2. <<0, 0>> \in Args
  BY DEF Args, Byte
<1>3. MadeAndDecoded(d, req.cmd, ra)
  <2> DEFINE x == r.hdle
  <2>1. Holds(x, WireBytes(req.cmd, ra), l)
    OBVIOUS
  <2> HIDE DEF x, ra
  <2>2. MadeAndDecoded(proto_decodeFrame(x, <<0, 0>>), req.cmd, ra)
    BY <1>1, <1>2, <2>1, RoundTrip
  <2> QED
    BY <2>2 DEF x
<1>4. d.arg = <<e[4], e[5]>> /\ d.hdle = [r.hdle EXCEPT !.nb = 0]
  <2>1. d.result = "COMPLETED"
    BY <1>3 DEF MadeAndDecoded
  <2> QED
    BY <2>1 DEF proto_decodeFrame
<1>5. d.cmd = req.cmd /\ d.result = "COMPLETED" /\ d.arg \in Args
      /\ d.hdle \in Handle
      /\ d.arg = <<req.reg, RefusedByte(req, r.hdle)>>
  <2>1. /\ d.cmd = req.cmd /\ d.result = "COMPLETED" /\ d.arg[1] = ra[1]
        /\ d.arg \in Args /\ d.hdle \in Handle
        /\ proto_getArgsSize(req.cmd) = 2 => d.arg = ra
    BY <1>3 DEF MadeAndDecoded
  <2>2. req.cmd = SET => proto_getArgsSize(req.cmd) = 2
    BY DEF SET, proto_getArgsSize, proto_LAST, ArgsLut
  <2>3. req.cmd = SET => ra = <<req.reg, req.val>>
    BY DEF RequestArgs
  <2> HIDE DEF d, ra
  <2>4. CASE req.cmd = SET
    BY <2>1, <2>2, <2>3, <2>4 DEF RefusedByte
  <2>5. CASE req.cmd # SET
    <3>1. e[4] = req.reg
      BY <1>1, <1>4, <2>1
    <3> QED
      BY <1>4, <2>1, <2>5, <3>1 DEF RefusedByte
  <2> QED
    BY <2>4, <2>5
<1>6. s.reply = WireBytes(cmd, cb.arg)
      /\ s.hdle = proto_writeFrame(d.hdle, cmd, cb.arg)
  <2>1. r.status = "NO_ERROR"
    OBVIOUS
  <2> HIDE DEF r
  <2> QED
    BY <1>5, <2>1 DEF proto_slave_main, r
<1>7. s.hdle.frame = proto_makeFrame(cmd, cb.arg)
  <2> HIDE DEF cmd, cb, s
  <2> DEFINE x == d.hdle
  <2>1. x \in Handle /\ s.hdle = proto_writeFrame(x, cmd, cb.arg)
    BY <1>5, <1>6
  <2> HIDE DEF x, d
  <2> QED
    BY <2>1 DEF proto_writeFrame, Handle
<1> DEFINE b == RefusedByte(req, r.hdle)
<1> HIDE DEF s, r, d, ra, e
<1>8. Registers(regs) = 0 .. N - 1
  BY DEF Registers
<1>9. b \in Byte
  BY <1>5 DEF Args
<1> HIDE DEF b
<1>10. CASE owned
  <2>1. cb.ok = TRUE
        /\ cb.arg = IF req.cmd = SET THEN <<req.reg, b>>
                    ELSE <<regs[req.reg], b>>
    <3>1. d.arg[1] = req.reg /\ d.arg[2] = b /\ d.arg = <<req.reg, b>>
      BY <1>5 DEF b
    <3>2. CASE req.cmd = SET
      <4>1. cb = [ok |-> TRUE, arg |-> d.arg,
                  regs |-> [regs EXCEPT ![d.arg[1]] = d.arg[2]]]
        BY <1>5, <1>8, <1>10, <3>1, <3>2 DEF slave_receive
      <4> HIDE DEF cb
      <4> QED
        BY <3>1, <3>2, <4>1
    <3>3. CASE req.cmd = GET
      <4>1. cb = [ok |-> TRUE, regs |-> regs,
                  arg |-> <<regs[d.arg[1]], d.arg[2]>>]
        BY <1>5, <1>8, <1>10, <3>1, <3>3 DEF slave_receive, SET, GET
      <4> HIDE DEF cb
      <4> QED
        BY <3>1, <3>3, <4>1 DEF SET, GET
    <3> QED
      BY <1>1, <3>2, <3>3
  <2> HIDE DEF cb
  <2> DEFINE v == IF req.cmd = SET THEN req.reg ELSE regs[req.reg]
  <2>2. cb.arg = <<v, b>> /\ cmd = REPLY
    BY <2>1
  <2> HIDE DEF v, cmd
  <2>3. /\ s.reply = WireBytes(REPLY, <<v, 0>>)
        /\ s.hdle.frame[5] = 0
    <3>1. /\ WireBytes(REPLY, <<v, b>>) = WireBytes(REPLY, <<v, 0>>)
          /\ proto_makeFrame(REPLY, <<v, b>>)[5] = 0
      BY ReplyBytes
    <3> QED
      BY <1>6, <1>7, <2>2, <3>1
  <2> QED
    BY <1>10, <2>3 DEF v, s, r, AnswerTo, Answers
<1>11. CASE ~owned
  <2>1. cb = [ok |-> FALSE, regs |-> regs, arg |-> d.arg]
    <3>1. d.arg[1] = req.reg
      BY <1>5
    <3> QED
      BY <1>8, <1>11, <3>1 DEF slave_receive
  <2> HIDE DEF cb
  <2>2. cb.arg = <<req.reg, b>> /\ cmd = ERR_ARG
    BY <1>5, <2>1 DEF b
  <2> HIDE DEF cmd
  <2>3. s.hdle.frame[5] = b
    <3>1. ERR_ARG \in Byte /\ proto_getArgsSize(ERR_ARG) = 2
      BY DEF ERR_ARG, Byte, proto_getArgsSize, proto_LAST, ArgsLut
    <3>2. <<req.reg, b>> \in Args
      BY <1>1, <1>9, ArgsDef
    <3>3. proto_makeFrame(ERR_ARG, <<req.reg, b>>)[5] = <<req.reg, b>>[2]
      BY <3>1, <3>2, MakeFrameType
    <3> QED
      BY <1>7, <2>2, <3>3
  <2> QED
    BY <1>6, <1>11, <2>2, <2>3 DEF s, r, b, AnswerTo, Answers
<1> QED
  BY <1>10, <1>11

(***************************************************************************)
(* One frame w read from a stream: its start is in the handle, and x, what *)
(* is still to come, is the rest of it.                                    *)
(***************************************************************************)
Comes(h, x, w) ==
    /\ Holds(h, w, h.nb) /\ h.nb < Len(w) /\ h.nb + Len(x) = Len(w)
    /\ \A i \in 1 .. Len(x) : x[i] = w[h.nb + i]

LEMMA ComesRead ==
    ASSUME NEW w \in Seq(Byte), Len(w) \in 4 .. 5,
           w[1] = proto_START_OF_FRAME, FrameLen(w[3]) = Len(w),
           NEW h, NEW x \in Seq(Byte), x # << >>, NEW y \in Seq(Byte),
           Comes(h, x \o y, w)
    PROVE  LET r == proto_readFrame(h, x)
           IN  \/ /\ Holds(r.hdle, w, Len(w)) /\ r.status = "NO_ERROR"
                  /\ y = << >>
               \/ /\ \E m \in 0 .. Len(w) - 1 : Holds(r.hdle, w, m)
                  /\ Comes(r.hdle, y, w)
<1> DEFINE a == Len(x)
           b == Len(y)
           k == h.nb
           l == Len(w)
           m == k + a
           z == x \o y
           r == proto_readFrame(h, x)
<1>1. /\ a \in Nat /\ a # 0 /\ b \in Nat /\ l \in 4 .. 5
      /\ z \in Seq(Byte) /\ Len(z) = a + b
      /\ \A i \in 1 .. a + b : z[i] = IF i <= a THEN x[i] ELSE y[i - a]
  BY ConcatProperties
<1>2. /\ Holds(h, w, k) /\ k < l /\ k + (a + b) = l
      /\ \A i \in 1 .. a + b : z[i] = w[k + i]
  BY <1>1 DEF Comes
<1>3. k \in 0 .. 5
  BY <1>2 DEF Holds, Handle, proto_FRAME_MAXSIZE
<1> HIDE DEF z, a, b, k, l, m, r
<1>4. /\ \A i \in 1 .. a : x[i] = w[k + i]
      /\ \A i \in 1 .. b : y[i] = w[m + i]
  <2>1. ASSUME NEW i \in 1 .. a PROVE x[i] = w[k + i]
    <3>1. i \in 1 .. a + b /\ i <= a
      BY <1>1
    <3> QED
      BY <1>1, <1>2, <3>1
  <2>2. ASSUME NEW i \in 1 .. b PROVE y[i] = w[m + i]
    <3> DEFINE j == a + i
    <3>1. j \in 1 .. a + b /\ ~(j <= a) /\ j - a = i /\ k + j = m + i
      BY <1>1, <1>3 DEF m
    <3> HIDE DEF j
    <3>2. z[j] = y[i] /\ z[j] = w[k + j]
      BY <1>1, <1>2, <3>1
    <3> QED
      BY <3>1, <3>2
  <2> QED
    BY <2>1, <2>2
<1>5. m + b = l /\ m \in 1 .. l
  BY <1>1, <1>2, <1>3 DEF m
<1>6. Skips(x, k, 0)
  <2>1. CASE k > 0
    BY <2>1 DEF Skips
  <2>2. CASE k = 0
    <3> DEFINE sof == FirstSOF(x)
    <3>1. /\ sof \in 1 .. a + 1
          /\ \A j \in 1 .. sof - 1 : j <= a => x[j] # proto_START_OF_FRAME
      BY FirstSOFType DEF a
    <3>2. x[1] = proto_START_OF_FRAME
      <4>1. 1 \in 1 .. a /\ k + 1 = 1
        BY <1>1, <2>2
      <4> QED
        BY <1>4, <4>1
    <3> HIDE DEF sof
    <3>3. sof = 1
      BY <1>1, <3>1, <3>2
    <3> QED
      BY <2>2, <3>3 DEF Skips, sof
  <2> QED
    BY <1>3, <2>1, <2>2
<1>7. Brings(x, 0, w, k, m)
  <2>1. \A i \in 1 .. m - k : i \in 1 .. a /\ 0 + i = i
    BY <1>1, <1>3 DEF m
  <2> QED
    BY <1>4, <2>1 DEF Brings
<1>8. Holds(r.hdle, w, m) /\ (m = l => r.status = "NO_ERROR")
  <2> DEFINE s == 0
  <2>1. /\ l \in 3 .. 5 /\ k \in 0 .. l - 1 /\ s \in 0 .. a - 1
        /\ m = Least(l, k + (a - s))
    BY <1>1, <1>2, <1>3, <1>5 DEF m, Least
  <2>2. Skips(x, k, s) /\ Brings(x, s, w, k, m)
    BY <1>6, <1>7
  <2> HIDE DEF s
  <2>3. s \in 0 .. Len(x) - 1 /\ m = Least(l, k + (Len(x) - s))
    BY <2>1 DEF a
  <2>4. FrameLen(w[3]) = l
    BY DEF l
  <2>5. /\ Holds(proto_readFrame(h, x).hdle, w, m)
        /\ m = l => proto_readFrame(h, x).status = "NO_ERROR"
    BY <1>2, <2>1, <2>2, <2>3, <2>4, ReadMore
  <2> QED
    BY <2>5 DEF r
<1>9. CASE m = l
  <2>1. b = 0
    BY <1>1, <1>5, <1>9
  <2>2. y = << >>
    BY <2>1, EmptySeq DEF b
  <2> QED
    BY <1>8, <1>9, <2>2 DEF l, r
<1>10. CASE m # l
  <2>1. m \in 0 .. l - 1 /\ m < l
    BY <1>1, <1>5, <1>10
  <2> DEFINE g == r.hdle
  <2>2. Holds(g, w, m) /\ g.nb = m
    BY <1>8 DEF Holds
  <2> HIDE DEF g
  <2>3. Comes(g, y, w)
    BY <1>4, <1>5, <2>1, <2>2 DEF Comes, b, l
  <2> QED
    BY <2>1, <2>2, <2>3 DEF g, l, r
<1> QED
  BY <1>9, <1>10

LEMMA SlaveSleeps ==
    ASSUME NEW h, NEW regs
    PROVE  NoAnswer(proto_slave_main(h, regs, << >>), h, regs)
BY DEF NoAnswer, proto_slave_main, proto_readFrame

-----------------------------------------------------------------------------
(***************************************************************************)
(* The CRC keeps frames apart that differ in one byte after the command.   *)
(***************************************************************************)
LEMMA Crc2Apart ==
    ASSUME NEW c \in Byte, NEW a \in Byte, NEW b \in Byte,
           getCRC2(c, a) = getCRC2(c, b)
    PROVE  a = b
<1> DEFINE x == getCRC1(c)
<1>1. x \in Byte
  BY CrcType
<1>2. CrcTable[Xor(x, a)] = CrcTable[Xor(x, b)]
  BY DEF getCRC2
<1> HIDE DEF x
<1>3. Xor(x, a) = Xor(x, b)
  BY <1>2, XorType, TableKeepsApart
<1> QED
  BY <1>1, <1>3, XorRight

LEMMA Crc3Apart ==
    ASSUME NEW c \in Byte, NEW a \in Byte, NEW b \in Byte,
           NEW u \in Byte, NEW v \in Byte,
           getCRC3(c, a, u) = getCRC3(c, b, v), a = b \/ u = v
    PROVE  a = b /\ u = v
<1> DEFINE x == getCRC2(c, a)
           y == getCRC2(c, b)
<1>1. x \in Byte /\ y \in Byte
  BY CrcType
<1>2. CrcTable[Xor(x, u)] = CrcTable[Xor(y, v)]
  BY DEF getCRC3
<1>3. x = y => a = b
  BY Crc2Apart
<1>4. a = b => x = y
  OBVIOUS
<1> HIDE DEF x, y
<1>5. Xor(x, u) = Xor(y, v)
  BY <1>2, XorType, TableKeepsApart
<1>6. CASE a = b
  <2>1. u = v
    BY <1>1, <1>4, <1>5, <1>6, XorRight
  <2> QED
    BY <1>6, <2>1
<1>7. CASE u = v
  <2>1. x = y
    BY <1>1, <1>5, <1>7, XorLeft
  <2> QED
    BY <1>3, <1>7, <2>1
<1> QED
  BY <1>6, <1>7

\* What the table says of a few bytes.
LEMMA ShiftLowBit ==
    ASSUME NEW c \in 0 .. 127 PROVE crcShift(c) = 2 * c
BY DEF crcShift, Bit

LEMMA ShiftHighBit ==
    ASSUME NEW c \in 128 .. 255
    PROVE  crcShift(c) = Xor(2 * c - 256, 49)
<1>1. Bit(c, 128) = 1 /\ (2 * c) % 256 = 2 * c - 256
  BY DEF Bit
<1> QED
  BY <1>1 DEF crcShift

LEMMA TableValues ==
    /\ CrcTable[0] = 0 /\ CrcTable[2] = 98 /\ CrcTable[4] = 196
    /\ CrcTable[198] = 225 /\ CrcTable[123] = 18 /\ CrcTable[248] = 59
<1>1. crcByte(0) = 0 /\ crcByte(2) = 98 /\ crcByte(4) = 196
  <2>1. /\ crcShift(0) = 0 /\ crcShift(2) = 4 /\ crcShift(4) = 8
        /\ crcShift(8) = 16 /\ crcShift(16) = 32 /\ crcShift(32) = 64
        /\ crcShift(64) = 128 /\ crcShift(49) = 98 /\ crcShift(98) = 196
    BY ShiftLowBit
  <2>2. crcShift(128) = 49
    BY ShiftHighBit DEF Xor, BitXor, Bit
  <2> QED
    BY <2>1, <2>2 DEF crcByte
<1>2. crcByte(198) = 225
  <2>1. /\ crcShift(75) = 150 /\ crcShift(29) = 58 /\ crcShift(58) = 116
        /\ crcShift(116) = 232
    BY ShiftLowBit
  <2>2. crcShift(198) = 189 /\ crcShift(189) = 75
    BY ShiftHighBit DEF Xor, BitXor, Bit
  <2>3. crcShift(150) = 29 /\ crcShift(232) = 225
    BY ShiftHighBit DEF Xor, BitXor, Bit
  <2> QED
    BY <2>1, <2>2, <2>3 DEF crcByte
<1>3. crcByte(123) = 18
  <2>1. /\ crcShift(123) = 246 /\ crcShift(39) = 78 /\ crcShift(78) = 156
        /\ crcShift(9) = 18
    BY ShiftLowBit
  <2>2. crcShift(246) = 221 /\ crcShift(221) = 139
    BY ShiftHighBit DEF Xor, BitXor, Bit
  <2>3. crcShift(139) = 39 /\ crcShift(156) = 9
    BY ShiftHighBit DEF Xor, BitXor, Bit
  <2> QED
    BY <2>1, <2>2, <2>3 DEF crcByte
<1>4. crcByte(248) = 59
  <2>1. crcShift(87) = 174 /\ crcShift(109) = 218
    BY ShiftLowBit
  <2>2. crcShift(248) = 193 /\ crcShift(193) = 179 /\ crcShift(179) = 87
    BY ShiftHighBit DEF Xor, BitXor, Bit
  <2>3. crcShift(174) = 109 /\ crcShift(218) = 133 /\ crcShift(133) = 59
    BY ShiftHighBit DEF Xor, BitXor, Bit
  <2> QED
    BY <2>1, <2>2, <2>3 DEF crcByte
<1>5. \A x \in {0, 2, 4, 198, 123, 248} : CrcTable[x] = crcByte(x)
  BY TableByte DEF Byte
<1> QED
  BY <1>1, <1>2, <1>3, <1>4, <1>5

\* A frame that lost its first byte is no other frame: a set of register GET
\* would need the CRC of the get that is inside it, and a refusal that names
\* register REPLY has not the CRC of the reply inside it.
LEMMA InnerGet ==
    ASSUME NEW v \in Byte
    PROVE  getCRC3(SET, GET, v) = getCRC2(GET, v)
<1>1. getCRC1(SET) = 0 /\ Xor(0, GET) = 1
  BY TableValues DEF getCRC1, SET, GET, Xor, BitXor, Bit
<1>2. getCRC2(SET, GET) = getCRC1(GET)
  BY <1>1 DEF getCRC2, getCRC1, GET
<1> QED
  BY <1>2 DEF getCRC3, getCRC2

LEMMA InnerReply ==
    ASSUME NEW v \in Byte, getCRC3(ERR_ARG, REPLY, v) = proto_START_OF_FRAME
    PROVE  getCRC2(REPLY, v) # ERR_ARG
<1>1. getCRC2(ERR_ARG, REPLY) = 225
  <2>1. Xor(196, 2) = 198
    BY DEF Xor, BitXor, Bit
  <2> QED
    BY <2>1, TableValues DEF getCRC2, getCRC1, ERR_ARG, REPLY
<1>2. v = 154
  <2>1. Xor(225, 154) = 123
    BY DEF Xor, BitXor, Bit
  <2>2. CrcTable[Xor(225, v)] = CrcTable[123]
    BY <1>1, TableValues DEF getCRC3, proto_START_OF_FRAME
  <2>3. Xor(225, v) = Xor(225, 154)
    <3>1. Xor(225, v) \in Byte /\ 123 \in Byte
      BY XorType DEF Byte
    <3>2. Xor(225, v) = 123
      BY <2>2, <3>1, TableKeepsApart
    <3> QED
      BY <2>1, <3>2
  <2>4. 225 \in Byte /\ 154 \in Byte
    BY DEF Byte
  <2> QED
    BY <2>3, <2>4, XorRight
<1>3. getCRC2(REPLY, v) = 59
  <2>1. Xor(98, 154) = 248
    BY DEF Xor, BitXor, Bit
  <2> QED
    BY <1>2, <2>1, TableValues DEF getCRC2, getCRC1, REPLY
<1> QED
  BY <1>3 DEF ERR_ARG

(***************************************************************************)
(* A frame with one byte disturbed.                                        *)
(***************************************************************************)
Bytes5 == [1 .. 5 -> Byte]

\* The bytes o + 1 .. n of w start with a frame that has one of the commands
\* and the CRC of its bytes.
Accepted(w, o, n, cmds) ==
    LET l == FrameLen(w[o + 3])
    IN  /\ n - o >= 4 /\ w[o + 1] = proto_START_OF_FRAME
        /\ w[o + 3] \in cmds /\ n - o >= l
        /\ w[o + 2] = IF l = 4 THEN getCRC2(w[o + 3], w[o + 4])
                      ELSE getCRC3(w[o + 3], w[o + 4], w[o + 5])

\* A reader that looks for a start of frame finds no such frame in the n
\* bytes, five at most: not at their start, nor after the first byte.
NoneIn(w, n, cmds) ==
    /\ ~Accepted(w, 0, n, cmds)
    /\ w[1] # proto_START_OF_FRAME => ~Accepted(w, 1, n, cmds)

\* The slave whose handle is h, with the bytes x to come, performs nothing.
\* Either what it holds and what comes is no request, or it has refused a
\* frame, and holds the start of its own refusal, without room for another.
Harmless(h, x) ==
    /\ h \in Handle /\ h.nb + Len(x) <= 5
    /\ \/ h.nb >= 3 /\ h.frame[3] = ERR_CRC
       \/ \E w \in Bytes5 :
             /\ Holds(h, w, h.nb)
             /\ h.nb > 0 => w[1] = proto_START_OF_FRAME
             /\ h.nb >= 3 => h.nb < FrameLen(w[3])
             /\ \A i \in 1 .. Len(x) : w[h.nb + i] = x[i]
             /\ NoneIn(w, h.nb + Len(x), {SET, GET})

\* What an iteration of such a slave does.
Declines(s, z, regs) ==
    /\ Harmless(s.hdle, z) /\ s.regs = regs
    /\ \/ s.reply = << >>
       \/ \E c \in {ERR_CRC, ERR_ARG} : \E a \in Args :
             s.reply = WireBytes(c, a)

LEMMA TooShort ==
    ASSUME NEW n \in Int, n <= 3, NEW w, NEW cmds
    PROVE  NoneIn(w, n, cmds)
BY DEF NoneIn, Accepted

LEMMA EmptyHarmless ==
    ASSUME NEW h \in Handle, h.nb = 0, NEW z \in Seq(Byte), Len(z) <= 3
    PROVE  Harmless(h, z)
<1> DEFINE b == Len(z)
           w == [i \in 1 .. 5 |-> IF i <= b THEN z[i] ELSE 0]
<1>1. b \in Nat /\ b <= 3
  OBVIOUS
<1>2. \A i \in 1 .. b : z[i] \in Byte
  BY ElementOfSeq
<1> HIDE DEF b
<1>3. w \in Bytes5 /\ \A i \in 1 .. b : w[0 + i] = z[i]
  BY <1>1, <1>2 DEF Bytes5, Byte
<1> HIDE DEF w
<1>4. NoneIn(w, 0 + b, {SET, GET})
  BY <1>1, TooShort
<1>5. Holds(h, w, 0)
  BY DEF Holds
<1> QED
  BY <1>1, <1>3, <1>4, <1>5 DEF Harmless, b

\* Decoding a handle that holds a frame w whole.
LEMMA DecodesWhole ==
    ASSUME NEW w \in Bytes5, NEW l \in 3 .. 5, FrameLen(w[3]) = l,
           NEW g, Holds(g, w, l), NEW arg \in Args
    PROVE  LET d == proto_decodeFrame(g, arg)
           IN  /\ d.arg \in Args
               /\ \/ /\ d.result = "REFUSED" /\ d.hdle = g /\ d.cmd = ERR_CRC
                  \/ /\ d.result = "COMPLETED" /\ d.cmd = w[3]
                     /\ d.hdle \in Handle /\ d.hdle.nb = 0
                     /\ l = 4 => w[2] = getCRC2(w[3], w[4])
                     /\ l = 5 => w[2] = getCRC3(w[3], w[4], w[5])
<1> DEFINE d == proto_decodeFrame(g, arg)
           e == g.frame
<1>1. /\ g \in Handle /\ g.nb = l /\ \A i \in 1 .. l : e[i] = w[i]
  BY DEF Holds
<1>2. e[1] = w[1] /\ e[2] = w[2] /\ e[3] = w[3]
      /\ (l >= 4 => e[4] = w[4]) /\ (l = 5 => e[5] = w[5])
  BY <1>1
<1>3. d.arg \in Args /\ d.hdle \in Handle
  BY <1>1, DecodeType
<1>4. HasFrame(g)
  BY <1>1, <1>2 DEF HasFrame, proto_ARGS_OFFSET
<1> DEFINE size == proto_getArgsSize(w[3])
<1>5. l = 3 + size /\ size \in 0 .. 2
  <2>1. w[3] \in Byte
    BY DEF Bytes5
  <2>2. size \in 0 .. 2
    BY <2>1, ArgsSizeType
  <2> QED
    BY <2>2 DEF FrameLen, proto_ARGS_OFFSET
<1>6. CASE ~CrcMatches(g)
  <2>1. d.result = "REFUSED" /\ d.hdle = g /\ d.cmd = ERR_CRC
    BY <1>4, <1>6 DEF proto_decodeFrame
  <2> QED
    BY <1>3, <2>1
<1>7. CASE CrcMatches(g)
  <2>1. d = [hdle |-> [g EXCEPT !.nb = 0], result |-> "COMPLETED",
             cmd |-> e[3], arg |-> <<e[4], e[5]>>]
    BY <1>4, <1>7 DEF proto_decodeFrame
  <2>2. d.result = "COMPLETED" /\ d.cmd = w[3] /\ d.hdle.nb = 0
    <3>1. d.result = "COMPLETED" /\ d.cmd = e[3]
      BY <2>1
    <3> HIDE DEF d
    <3> QED
      BY <1>1, <1>2, <3>1, DecodeType DEF d
  <2>3. getFrameCRC(e) = w[2]
    BY <1>2, <1>7 DEF CrcMatches
  <2>4. getFrameCRC(e) = IF size = 0 THEN getCRC1(e[3])
                         ELSE IF size = 1 THEN getCRC2(e[3], e[4])
                         ELSE getCRC3(e[3], e[4], e[5])
    BY <1>2 DEF getFrameCRC
  <2> HIDE DEF size, e
  <2>5. /\ l = 4 => w[2] = getCRC2(w[3], w[4])
        /\ l = 5 => w[2] = getCRC3(w[3], w[4], w[5])
    <3>1. (l = 4 => size = 1) /\ (l = 5 => size = 2)
      BY <1>5
    <3> QED
      BY <1>2, <2>3, <2>4, <3>1
  <2> QED
    BY <1>3, <2>2, <2>5
<1> QED
  BY <1>6, <1>7

\* What the slave makes of a completed frame that is no request, and of one
\* that is refused.
LEMMA SlaveDenies ==
    ASSUME NEW h, NEW regs, NEW buf,
           proto_readFrame(h, buf).hdle \in Handle,
           proto_readFrame(h, buf).status = "NO_ERROR",
           NEW d, d = proto_decodeFrame(proto_readFrame(h, buf).hdle, <<0, 0>>),
           d.result = "COMPLETED", d.cmd \notin {SET, GET}
    PROVE  LET s == proto_slave_main(h, regs, buf)
           IN  /\ s.hdle \in Handle /\ s.hdle.nb = 0 /\ s.regs = regs
               /\ d.arg \in Args /\ s.reply = WireBytes(ERR_ARG, d.arg)
<1> DEFINE r == proto_readFrame(h, buf)
           cb == slave_receive(regs, d.cmd, d.arg)
           s == proto_slave_main(h, regs, buf)
<1>1. /\ d.hdle \in Handle /\ d.arg \in Args /\ d.hdle.nb = 0
  <2>1. <<0, 0>> \in Args
    BY DEF Args, Byte
  <2> DEFINE x == proto_readFrame(h, buf).hdle
  <2>2. x \in Handle /\ d = proto_decodeFrame(x, <<0, 0>>)
    OBVIOUS
  <2> HIDE DEF x
  <2> QED
    BY <2>1, <2>2, DecodeType
<1>2. cb = [ok |-> FALSE, regs |-> regs, arg |-> d.arg]
  BY DEF slave_receive
<1> HIDE DEF cb
<1>3. cb.ok = FALSE /\ cb.regs = regs /\ cb.arg = d.arg
  BY <1>2
<1>4. s = [hdle |-> proto_writeFrame(d.hdle, ERR_ARG, d.arg), regs |-> regs,
           reply |-> WireBytes(ERR_ARG, d.arg), writes |-> << >>,
           result |-> "SERVED"]
  BY <1>3 DEF proto_slave_main, cb
<1>5. /\ proto_writeFrame(d.hdle, ERR_ARG, d.arg) \in Handle
      /\ proto_writeFrame(d.hdle, ERR_ARG, d.arg).nb = 0
  <2>1. ERR_ARG \in Byte
    BY DEF ERR_ARG, Byte
  <2> QED
    BY <1>1, <2>1, WriteFrameType
<1> HIDE DEF s
<1> QED
  BY <1>1, <1>4, <1>5 DEF s

LEMMA SlaveRefuses ==
    ASSUME NEW h, NEW regs, NEW buf,
           proto_readFrame(h, buf).hdle \in Handle,
           proto_readFrame(h, buf).status = "NO_ERROR",
           NEW d, d = proto_decodeFrame(proto_readFrame(h, buf).hdle, <<0, 0>>),
           d.result = "REFUSED"
    PROVE  LET s == proto_slave_main(h, regs, buf)
           IN  /\ s.hdle \in Handle
               /\ s.hdle.nb = proto_readFrame(h, buf).hdle.nb
               /\ s.hdle.frame[3] = ERR_CRC /\ s.regs = regs
               /\ d.arg \in Args /\ s.reply = WireBytes(ERR_CRC, d.arg)
<1> DEFINE g == proto_readFrame(h, buf).hdle
           s == proto_slave_main(h, regs, buf)
<1>1. /\ g \in Handle /\ d = proto_decodeFrame(g, <<0, 0>>)
      /\ proto_readFrame(h, buf).status = "NO_ERROR"
  OBVIOUS
<1>2. s = [hdle |-> proto_writeFrame(d.hdle, d.cmd, d.arg), regs |-> regs,
           reply |-> WireBytes(d.cmd, d.arg), writes |-> << >>,
           result |-> "REFUSED"]
  BY DEF proto_slave_main
<1> HIDE DEF g, s
<1>3. d.arg \in Args /\ d.hdle = g /\ d.cmd = ERR_CRC
  <2>1. <<0, 0>> \in Args
    BY DEF Args, Byte
  <2>2. d.arg \in Args
    BY <1>1, <2>1, DecodeType
  <2>3. d = [hdle |-> g, result |-> "REFUSED", cmd |-> ERR_CRC,
             arg |-> <<g.frame[2], getFrameCRC(g.frame)>>]
    <3>1. d.result = "REFUSED"
      OBVIOUS
    <3>2. HasFrame(g) /\ ~CrcMatches(g)
      BY <1>1, <3>1 DEF proto_decodeFrame
    <3> QED
      BY <1>1, <3>2 DEF proto_decodeFrame
  <2> QED
    BY <2>2, <2>3
<1> DEFINE x == proto_writeFrame(g, ERR_CRC, d.arg)
<1>4. x \in Handle /\ x.nb = g.nb /\ x.frame[3] = ERR_CRC
  <2>1. ERR_CRC \in Byte
    BY DEF ERR_CRC, Byte
  <2>2. x \in Handle /\ x.nb = g.nb
    BY <1>1, <1>3, <2>1, WriteFrameType
  <2>3. x.frame = proto_makeFrame(ERR_CRC, d.arg)
    BY <1>1 DEF proto_writeFrame, Handle
  <2> QED
    BY <1>3, <2>1, <2>2, <2>3, MakeFrameType
<1> HIDE DEF x
<1>5. /\ s.hdle = x /\ s.regs = regs /\ s.reply = WireBytes(ERR_CRC, d.arg)
  BY <1>2, <1>3 DEF x
<1> QED
  BY <1>3, <1>4, <1>5 DEF s, g

\* An iteration that reads too little of a frame, or nothing of it.
LEMMA SlaveQuiet ==
    ASSUME NEW h, NEW regs, NEW buf,
           \/ proto_readFrame(h, buf).status # "NO_ERROR"
           \/ proto_decodeFrame(proto_readFrame(h, buf).hdle,
                                <<0, 0>>).result = "WAITING"
    PROVE  NoAnswer(proto_slave_main(h, regs, buf),
                    proto_readFrame(h, buf).hdle, regs)
BY DEF proto_slave_main, NoAnswer

\* Reading never forgets what a handle holds.
LEMMA ReadOn ==
    ASSUME NEW h \in Handle, NEW buf \in Seq(Byte), h.nb > 0
    PROVE  LET g == proto_readFrame(h, buf).hdle
           IN  /\ g \in Handle /\ g.nb >= h.nb /\ g.nb - h.nb <= Len(buf)
               /\ \A i \in 1 .. h.nb : g.frame[i] = h.frame[i]
<1> DEFINE len == Len(buf)
           header == Fill(h, buf, 0, proto_ARGS_OFFSET)
           cursor == 0 + (header.nb - h.nb)
           length == FrameLen(header.frame[3])
           whole == Fill(header, buf, cursor, length)
           g == proto_readFrame(h, buf).hdle
<1>1. g \in {h, header, whole}
  BY DEF proto_readFrame, proto_pushToFrame
<1>2. len \in Nat /\ h.nb \in 0 .. 5
  BY DEF Handle, proto_FRAME_MAXSIZE
<1>3. /\ header \in Handle /\ header.nb \in h.nb .. 5
      /\ header.nb - h.nb <= len
      /\ \A i \in 1 .. h.nb : header.frame[i] = h.frame[i]
  <2> DEFINE f == Fill(h, buf, 0, 3)
  <2>1. 3 \in 0 .. 5 /\ 0 \in 0 .. Len(buf)
    BY <1>2
  <2>2. /\ f \in Handle /\ f.nb \in h.nb .. 5 /\ f.nb - h.nb <= Len(buf) - 0
        /\ \A i \in 1 .. h.nb : f.frame[i] = h.frame[i]
    <3> DEFINE c == 0
               limit == 3
    <3>1. c \in 0 .. Len(buf) /\ limit \in 0 .. 5
      BY <2>1
    <3> HIDE DEF c, limit
    <3>2. /\ Fill(h, buf, c, limit) \in Handle
          /\ Fill(h, buf, c, limit).nb \in h.nb .. 5
          /\ Fill(h, buf, c, limit).nb - h.nb <= Len(buf) - c
          /\ \A i \in 1 .. h.nb :
                Fill(h, buf, c, limit).frame[i] = h.frame[i]
      BY <3>1, FillType
    <3> QED
      BY <3>2 DEF c, limit
  <2>3. header = f
    BY DEF proto_ARGS_OFFSET
  <2> HIDE DEF f, header
  <2>4. header.nb - h.nb <= len
    <3>1. f.nb - h.nb <= len - 0
      BY <2>2
    <3> HIDE DEF len
    <3> QED
      BY <1>2, <2>2, <2>3, <3>1
  <2> QED
    BY <2>2, <2>3, <2>4
<1>4. length \in 3 .. 5
  <2>1. header.frame[3] \in Byte
    BY <1>3 DEF Handle, Frame, proto_FRAME_MAXSIZE
  <2> QED
    BY <2>1, FrameLenType
<1> HIDE DEF header, length
<1>5. cursor \in 0 .. len /\ cursor = header.nb - h.nb
  <2> HIDE DEF len
  <2> QED
    BY <1>2, <1>3
<1> HIDE DEF cursor
<1>6. /\ whole \in Handle /\ whole.nb \in header.nb .. 5
      /\ whole.nb - header.nb <= len - cursor
      /\ \A i \in 1 .. header.nb : whole.frame[i] = header.frame[i]
  <2>1. length \in 0 .. 5
    BY <1>4
  <2> QED
    BY <1>3, <1>5, <2>1, FillType
<1> HIDE DEF whole, len
<1>7. /\ whole.nb >= h.nb /\ whole.nb - h.nb <= len
      /\ \A i \in 1 .. h.nb : whole.frame[i] = h.frame[i]
  <2>1. \A i \in 1 .. h.nb : i \in 1 .. header.nb
    BY <1>2, <1>3
  <2> DEFINE k == h.nb
             m == header.nb
             n == whole.nb
  <2>2. k \in 0 .. 5 /\ m \in k .. 5 /\ n \in m .. 5 /\ cursor = m - k
        /\ n - m <= len - cursor
    BY <1>2, <1>3, <1>5, <1>6
  <2>3. \A i \in 1 .. h.nb : whole.frame[i] = h.frame[i]
    BY <1>3, <1>6, <2>1
  <2> HIDE DEF k, m, n
  <2>4. n >= k /\ n - k <= len
    BY <1>2, <2>2
  <2> QED
    BY <2>3, <2>4 DEF k, n
<1> HIDE DEF g
<1> QED
  BY <1>1, <1>2, <1>3, <1>6, <1>7 DEF g, len

\* An iteration of a slave that holds the start of w, whose rest comes, when
\* w does not start with a request.
LEMMA DeclinesOther ==
    ASSUME NEW h, NEW rx \in Seq(Byte), NEW z \in Seq(Byte), NEW w \in Bytes5,
           NEW k \in 0 .. 4, NEW s \in 0 .. Len(rx) - 1,
           Holds(h, w, k), Skips(rx, k, s),
           w[1] = proto_START_OF_FRAME, k < FrameLen(w[3]),
           k + (Len(rx) - s) + Len(z) <= 5,
           \A i \in 1 .. Len(rx) - s : rx[s + i] = w[k + i],
           \A i \in 1 .. Len(z) : w[k + (Len(rx) - s) + i] = z[i],
           ~Accepted(w, 0, k + (Len(rx) - s) + Len(z), {SET, GET}),
           NEW regs
    PROVE  Declines(proto_slave_main(h, regs, rx), z, regs)
<1> DEFINE d == Len(rx) - s
           l == FrameLen(w[3])
           b == Len(z)
           m == Least(l, k + d)
           r == proto_readFrame(h, rx)
           g == r.hdle
           t == proto_slave_main(h, regs, rx)
<1>1. /\ l \in 3 .. 5 /\ d \in Nat /\ d > 0 /\ b \in Nat /\ k \in 0 .. 4
      /\ k < l /\ k + d + b <= 5
  <2>1. w[3] \in Byte
    BY DEF Bytes5
  <2>2. l \in 3 .. 5
    BY <2>1, FrameLenType
  <2> HIDE DEF l
  <2>3. k < l
    BY DEF l
  <2> DEFINE a == Len(rx)
  <2>4. a \in Nat /\ s \in 0 .. a - 1 /\ d = a - s
    OBVIOUS
  <2>5. k + d + b <= 5 /\ b \in Nat
    OBVIOUS
  <2> HIDE DEF a, d, b
  <2>6. d \in Nat /\ d > 0
    BY <2>4
  <2> QED
    BY <2>2, <2>3, <2>5, <2>6
<1>2. /\ \A i \in 1 .. d : rx[s + i] = w[k + i]
      /\ \A i \in 1 .. b : w[k + d + i] = z[i]
      /\ ~Accepted(w, 0, k + d + b, {SET, GET})
  OBVIOUS
<1>3. /\ m \in 1 .. l /\ m - k <= d /\ m <= k + d
      /\ m # l => m = k + d
  <2> HIDE DEF l, d
  <2> QED
    BY <1>1 DEF Least
<1>4. Holds(g, w, m) /\ (m = l => r.status = "NO_ERROR")
  <2>1. Brings(rx, s, w, k, m)
    <3>1. \A i \in 1 .. m - k : i \in 1 .. d
      <4> HIDE DEF m, d
      <4> QED
        BY <1>1, <1>3
    <3> QED
      BY <1>2, <3>1 DEF Brings
  <2>2. k \in 0 .. l - 1
    <3> HIDE DEF l
    <3> QED
      BY <1>1
  <2> HIDE DEF l
  <2>3. m = Least(l, k + (Len(rx) - s)) /\ FrameLen(w[3]) = l
    BY DEF l
  <2> HIDE DEF m
  <2>4. /\ Holds(proto_readFrame(h, rx).hdle, w, m)
        /\ m = l => proto_readFrame(h, rx).status = "NO_ERROR"
    BY <1>1, <2>1, <2>2, <2>3, ReadMore
  <2> QED
    BY <2>4
<1>5. FrameLen(w[3]) = l
  OBVIOUS
<1> HIDE DEF l, m, d, b
<1>6. g \in Handle /\ g.nb = m
  BY <1>4 DEF Holds
<1>7. CASE m # l
  <2>1. m \in 0 .. l - 1 /\ m = k + d
    BY <1>1, <1>3, <1>7
  <2>2. proto_decodeFrame(g, <<0, 0>>).result = "WAITING"
    <3> HIDE DEF g
    <3> QED
      BY <1>1, <1>4, <1>5, <2>1, PartWaits
  <2>3. NoAnswer(t, g, regs)
    BY <2>2, SlaveQuiet
  <2> HIDE DEF t
  <2>4. t.hdle = g /\ t.regs = regs /\ t.reply = << >>
    BY <2>3 DEF NoAnswer
  <2> HIDE DEF g
  <2>5. Harmless(g, z)
    <3>1. g.nb + Len(z) <= 5 /\ g.nb + Len(z) = k + d + b
      BY <1>1, <1>6, <2>1 DEF b
    <3>2. \A i \in 1 .. Len(z) : w[g.nb + i] = z[i]
      BY <1>2, <1>6, <2>1 DEF b
    <3>3. NoneIn(w, g.nb + Len(z), {SET, GET})
      BY <1>2, <3>1 DEF NoneIn
    <3>4. Holds(g, w, g.nb) /\ g.nb < FrameLen(w[3])
      BY <1>1, <1>4, <1>5, <1>6, <2>1
    <3> QED
      BY <1>6, <3>1, <3>2, <3>3, <3>4 DEF Harmless
  <2> QED
    BY <2>4, <2>5 DEF Declines, t
<1>8. CASE m = l
  <2> DEFINE e == proto_decodeFrame(g, <<0, 0>>)
  <2>1. <<0, 0>> \in Args /\ Holds(g, w, l) /\ r.status = "NO_ERROR"
    BY <1>4, <1>8 DEF Args, Byte
  <2>2. /\ e.arg \in Args
        /\ \/ e.result = "REFUSED" /\ e.hdle = g /\ e.cmd = ERR_CRC
           \/ /\ e.result = "COMPLETED" /\ e.cmd = w[3]
              /\ l = 4 => w[2] = getCRC2(w[3], w[4])
              /\ l = 5 => w[2] = getCRC3(w[3], w[4], w[5])
    <3> HIDE DEF g
    <3> QED
      BY <1>1, <1>5, <2>1, DecodesWhole
  <2>3. CASE e.result = "REFUSED"
    <3>1. /\ t.hdle \in Handle /\ t.hdle.nb = g.nb
          /\ t.hdle.frame[3] = ERR_CRC /\ t.regs = regs
          /\ t.reply = WireBytes(ERR_CRC, e.arg)
      BY <1>6, <2>1, <2>3, SlaveRefuses
    <3> HIDE DEF t, e, g
    <3>2. t.hdle.nb >= 3 /\ t.hdle.nb + Len(z) <= 5
      BY <1>1, <1>3, <1>6, <1>8, <3>1 DEF b
    <3>3. Harmless(t.hdle, z)
      BY <3>1, <3>2 DEF Harmless
    <3> QED
      BY <2>2, <3>1, <3>3 DEF Declines, t
  <2>4. CASE e.result = "COMPLETED"
    <3>1. e.cmd \notin {SET, GET}
      <4> SUFFICES ASSUME e.cmd \in {SET, GET} PROVE FALSE
        OBVIOUS
      <4>1. w[3] \in {SET, GET} /\ e.cmd = w[3]
        BY <2>2, <2>4
      <4>2. l \in 4 .. 5
        <5> DEFINE c == w[3]
        <5>1. c \in 0 .. 4
          BY <4>1 DEF SET, GET
        <5> HIDE DEF c
        <5>2. FrameLen(c) \in 4 .. 5
          BY <5>1, KnownArgs
        <5> QED
          BY <1>5, <5>2 DEF c
      <4>3. /\ l = 4 => w[2] = getCRC2(w[3], w[4])
            /\ l = 5 => w[2] = getCRC3(w[3], w[4], w[5])
        BY <2>2, <2>4
      <4> DEFINE n == k + d + b
      <4>4. n >= l /\ n >= 4 /\ n \in Nat
        <5>1. k + d >= l /\ k + d + b \in Nat /\ k + d + b >= k + d
          BY <1>1, <1>3, <1>8
        <5> QED
          BY <1>1, <4>2, <5>1
      <4>5. 0 + 1 = 1 /\ 0 + 2 = 2 /\ 0 + 3 = 3 /\ 0 + 4 = 4 /\ 0 + 5 = 5
            /\ n - 0 = n
        BY <4>4
      <4> HIDE DEF n, e, t, g
      <4>6. Accepted(w, 0, n, {SET, GET})
        BY <1>5, <4>1, <4>2, <4>3, <4>4, <4>5 DEF Accepted
      <4> QED
        BY <1>2, <4>6 DEF n
    <3>2. /\ t.hdle \in Handle /\ t.hdle.nb = 0 /\ t.regs = regs
          /\ t.reply = WireBytes(ERR_ARG, e.arg)
      BY <1>6, <2>1, <2>4, <3>1, SlaveDenies
    <3>3. Harmless(t.hdle, z)
      <4> HIDE DEF t
      <4>1. Len(z) <= 3
        BY <1>1, <1>3, <1>8 DEF b
      <4> QED
        BY <3>2, <4>1, EmptyHarmless
    <3> HIDE DEF t, e
    <3> QED
      BY <2>2, <3>2, <3>3 DEF Declines, t
  <2> QED
    BY <2>2, <2>3, <2>4
<1> QED
  BY <1>7, <1>8

\* The bytes of w after the first s.
After(w, s) == [i \in 1 .. 5 |-> IF i + s <= 5 THEN w[i + s] ELSE 0]

LEMMA AfterType ==
    ASSUME NEW w \in Bytes5, NEW s \in Nat
    PROVE  /\ After(w, s) \in Bytes5
           /\ \A i \in Nat : 0 < i /\ i + s <= 5 => After(w, s)[i] = w[i + s]
<1>1. ASSUME NEW i \in 1 .. 5 PROVE (IF i + s <= 5 THEN w[i + s] ELSE 0) \in Byte
  <2>1. CASE i + s <= 5
    <3>1. i + s \in 1 .. 5
      BY <2>1
    <3> QED
      BY <2>1, <3>1 DEF Bytes5
  <2>2. CASE ~(i + s <= 5)
    BY <2>2 DEF Byte
  <2> QED
    BY <2>1, <2>2
<1>2. ASSUME NEW i \in Nat, 0 < i, i + s <= 5 PROVE After(w, s)[i] = w[i + s]
  <2>1. i \in 1 .. 5
    BY <1>2
  <2> QED
    BY <1>2, <2>1 DEF After
<1> QED
  BY <1>1, <1>2 DEF After, Bytes5

\* What does not start a request after one byte does not once it is dropped.
LEMMA AcceptedAfter ==
    ASSUME NEW w \in Bytes5, NEW n \in Nat, n <= 5, NEW s \in Nat, s <= n,
           NoneIn(w, n, {SET, GET}),
           s = 0 \/ w[1] # proto_START_OF_FRAME
    PROVE  ~Accepted(After(w, s), 0, n - s, {SET, GET})
<1> DEFINE u == After(w, s)
<1>1. \A i \in Nat : 0 < i /\ i + s <= 5 => u[i] = w[i + s]
  BY AfterType
<1>2. CASE n - s < 4
  BY <1>2 DEF Accepted
<1>3. CASE n - s >= 4
  <2>1. s \in 0 .. 1 /\ n \in 4 .. 5
    BY <1>3
  <2>2. /\ u[1] = w[1 + s] /\ u[2] = w[2 + s] /\ u[3] = w[3 + s]
        /\ u[4] = w[4 + s]
        /\ n - s >= 5 => u[5] = w[5 + s]
    BY <1>1, <2>1
  <2> HIDE DEF u
  <2>3. ASSUME Accepted(u, 0, n - s, {SET, GET})
        PROVE  Accepted(w, s, n, {SET, GET})
    <3> DEFINE l == FrameLen(u[3])
    <3>1. /\ (n - s) - 0 >= 4 /\ u[0 + 1] = proto_START_OF_FRAME
          /\ u[0 + 3] \in {SET, GET} /\ (n - s) - 0 >= FrameLen(u[0 + 3])
          /\ u[0 + 2] = IF FrameLen(u[0 + 3]) = 4
                        THEN getCRC2(u[0 + 3], u[0 + 4])
                        ELSE getCRC3(u[0 + 3], u[0 + 4], u[0 + 5])
      BY <2>3 DEF Accepted
    <3>2. 0 + 1 = 1 /\ 0 + 2 = 2 /\ 0 + 3 = 3 /\ 0 + 4 = 4 /\ 0 + 5 = 5
          /\ (n - s) - 0 = n - s
      BY <2>1
    <3>3. /\ n - s >= 4 /\ u[1] = proto_START_OF_FRAME
          /\ u[3] \in {SET, GET} /\ n - s >= l
          /\ u[2] = IF l = 4 THEN getCRC2(u[3], u[4])
                    ELSE getCRC3(u[3], u[4], u[5])
      BY <3>1, <3>2
    <3>4. l \in 4 .. 5
      <4> DEFINE c == u[3]
      <4>1. c \in 0 .. 4
        BY <3>3 DEF SET, GET
      <4> HIDE DEF c
      <4>2. FrameLen(c) \in 4 .. 5
        BY <4>1, KnownArgs
      <4> QED
        BY <4>2 DEF c
    <3>5. FrameLen(w[s + 3]) = l /\ s + 3 = 3 + s /\ s + 1 = 1 + s
          /\ s + 2 = 2 + s /\ s + 4 = 4 + s /\ s + 5 = 5 + s
      BY <2>1, <2>2
    <3> HIDE DEF l
    <3>6. l = 5 => u[5] = w[s + 5]
      BY <2>2, <3>3, <3>4, <3>5
    <3>7. /\ n - s >= 4 /\ w[s + 1] = proto_START_OF_FRAME
          /\ w[s + 3] \in {SET, GET} /\ n - s >= l
          /\ w[s + 2] = IF l = 4 THEN getCRC2(w[s + 3], w[s + 4])
                        ELSE getCRC3(w[s + 3], w[s + 4], w[s + 5])
      <4>1. /\ u[1] = w[s + 1] /\ u[2] = w[s + 2] /\ u[3] = w[s + 3]
            /\ u[4] = w[s + 4]
        BY <2>2, <3>5
      <4>2. CASE l = 4
        BY <3>3, <4>1, <4>2
      <4>3. CASE l = 5
        BY <3>3, <3>6, <4>1, <4>3
      <4> QED
        BY <3>4, <4>2, <4>3
    <3> QED
      BY <3>5, <3>7 DEF Accepted
  <2>4. ~Accepted(w, s, n, {SET, GET})
    <3>1. s = 0 \/ (s = 1 /\ w[1] # proto_START_OF_FRAME)
      BY <2>1
    <3> QED
      BY <3>1 DEF NoneIn
  <2> QED
    BY <2>3, <2>4 DEF u
<1> QED
  BY <1>2, <1>3

\* One that has refused a frame: whatever follows completes no request.
LEMMA DeclinesAgain ==
    ASSUME NEW h \in Handle, h.nb >= 3, h.frame[3] = ERR_CRC,
           NEW rx \in Seq(Byte), NEW z \in Seq(Byte),
           h.nb + Len(rx) + Len(z) <= 5, NEW regs
    PROVE  Declines(proto_slave_main(h, regs, rx), z, regs)
<1> DEFINE k == h.nb
           a == Len(rx)
           b == Len(z)
           r == proto_readFrame(h, rx)
           g == r.hdle
           n == g.nb
           e == proto_decodeFrame(g, <<0, 0>>)
           t == proto_slave_main(h, regs, rx)
<1>1. k \in 3 .. 5 /\ a \in Nat /\ b \in Nat /\ k + a + b <= 5
  BY DEF Handle, proto_FRAME_MAXSIZE
<1>2. /\ g \in Handle /\ n >= k /\ n - k <= a
      /\ \A i \in 1 .. k : g.frame[i] = h.frame[i]
  BY <1>1, ReadOn
<1>3. n \in 0 .. 5
  BY <1>2 DEF Handle, proto_FRAME_MAXSIZE
<1>4. g.frame[3] = ERR_CRC
  <2>1. 3 \in 1 .. k
    BY <1>1
  <2> QED
    BY <1>2, <2>1
<1>5. n >= 3 /\ n + b <= 5 /\ b <= 3
  <2> HIDE DEF n, k, a, b, g
  <2> QED
    BY <1>1, <1>2, <1>3
<1>6. <<0, 0>> \in Args
  BY DEF Args, Byte
<1>7. /\ e.arg \in Args /\ e.result \in {"WAITING", "REFUSED", "COMPLETED"}
  <2> HIDE DEF g
  <2> QED
    BY <1>2, <1>6, DecodeType
<1>8. CASE r.status # "NO_ERROR" \/ e.result = "WAITING"
  <2>1. NoAnswer(t, g, regs)
    BY <1>8, SlaveQuiet
  <2> HIDE DEF t, g
  <2>2. t.hdle = g /\ t.regs = regs /\ t.reply = << >>
    BY <2>1 DEF NoAnswer
  <2>3. Harmless(g, z)
    BY <1>2, <1>4, <1>5 DEF Harmless
  <2> QED
    BY <2>2, <2>3 DEF Declines, t
<1>9. CASE r.status = "NO_ERROR" /\ e.result = "REFUSED"
  <2>1. /\ t.hdle \in Handle /\ t.hdle.nb = n
        /\ t.hdle.frame[3] = ERR_CRC /\ t.regs = regs
        /\ t.reply = WireBytes(ERR_CRC, e.arg)
    BY <1>2, <1>9, SlaveRefuses
  <2> HIDE DEF t, e, g, n
  <2>2. Harmless(t.hdle, z)
    BY <1>5, <2>1 DEF Harmless
  <2> QED
    BY <1>7, <2>1, <2>2 DEF Declines, t
<1>10. CASE r.status = "NO_ERROR" /\ e.result = "COMPLETED"
  <2>1. e.cmd = ERR_CRC
    <3> HIDE DEF g
    <3> QED
      BY <1>4, <1>10 DEF proto_decodeFrame
  <2>2. e.cmd \notin {SET, GET}
    BY <2>1 DEF SET, GET, ERR_CRC
  <2>3. /\ t.hdle \in Handle /\ t.hdle.nb = 0 /\ t.regs = regs
        /\ t.reply = WireBytes(ERR_ARG, e.arg)
    BY <1>2, <1>10, <2>2, SlaveDenies
  <2> HIDE DEF t, e
  <2>4. Harmless(t.hdle, z)
    BY <1>5, <2>3, EmptyHarmless
  <2> QED
    BY <1>7, <2>3, <2>4 DEF Declines, t
<1> QED
  BY <1>7, <1>8, <1>9, <1>10

LEMMA SlaveDeclines ==
    ASSUME NEW h, NEW rx \in Seq(Byte), rx # << >>, NEW z \in Seq(Byte),
           NEW x, x = rx \o z, Harmless(h, x), NEW regs
    PROVE  /\ Len(rx) <= ReadLen(h)
           /\ Declines(proto_slave_main(h, regs, rx), z, regs)
<1> DEFINE k == h.nb
           a == Len(rx)
           b == Len(z)
           t == proto_slave_main(h, regs, rx)
<1>1. /\ a \in Nat /\ a # 0 /\ b \in Nat
      /\ x \in Seq(Byte) /\ Len(x) = a + b
      /\ \A i \in 1 .. a + b : x[i] = IF i <= a THEN rx[i] ELSE z[i - a]
  BY ConcatProperties
<1>2. h \in Handle /\ k \in 0 .. 5 /\ k + (a + b) <= 5
  BY <1>1 DEF Harmless, Handle, proto_FRAME_MAXSIZE
<1>3. Len(rx) <= ReadLen(h)
  <2>1. ReadLen(h) = 5 - k
    BY DEF ReadLen, proto_FRAME_MAXSIZE
  <2> HIDE DEF k, a, b
  <2>2. a <= 5 - k
    BY <1>1, <1>2
  <2> QED
    BY <2>1, <2>2 DEF a
<1>4. CASE h.nb >= 3 /\ h.frame[3] = ERR_CRC
  <2>1. h.nb + Len(rx) + Len(z) <= 5
    <3> HIDE DEF a, b, k
    <3>1. k + a + b <= 5
      BY <1>1, <1>2
    <3> QED
      BY <3>1 DEF a, b, k
  <2> QED
    BY <1>2, <1>3, <1>4, <2>1, DeclinesAgain
<1>5. CASE ~(h.nb >= 3 /\ h.frame[3] = ERR_CRC)
  <2>1. PICK w \in Bytes5 :
            /\ Holds(h, w, k)
            /\ k > 0 => w[1] = proto_START_OF_FRAME
            /\ k >= 3 => k < FrameLen(w[3])
            /\ \A i \in 1 .. a + b : w[k + i] = x[i]
            /\ NoneIn(w, k + (a + b), {SET, GET})
    BY <1>1, <1>5 DEF Harmless
  <2> HIDE DEF a, b, k
  <2>2. /\ \A i \in 1 .. a : w[k + i] = rx[i]
        /\ \A i \in 1 .. b : w[k + a + i] = z[i]
    <3>1. ASSUME NEW i \in 1 .. a PROVE w[k + i] = rx[i]
      <4>1. i \in 1 .. a + b /\ i <= a
        BY <1>1
      <4> QED
        BY <1>1, <2>1, <4>1
    <3>2. ASSUME NEW i \in 1 .. b PROVE w[k + a + i] = z[i]
      <4>1. a + i \in 1 .. a + b /\ ~(a + i <= a) /\ (a + i) - a = i
            /\ k + (a + i) = k + a + i
        BY <1>1, <1>2
      <4>2. w[k + (a + i)] = x[a + i] /\ x[a + i] = z[(a + i) - a]
        BY <1>1, <2>1, <4>1
      <4> QED
        BY <4>1, <4>2
    <3> QED
      BY <3>1, <3>2
  <2>3. FrameLen(w[3]) \in 3 .. 5
    <3>1. w[3] \in Byte
      BY DEF Bytes5
    <3> QED
      BY <3>1, FrameLenType
  <2>4. k \in 0 .. 4 /\ k < FrameLen(w[3])
    <3> DEFINE l == FrameLen(w[3])
    <3>1. l \in 3 .. 5 /\ (k >= 3 => k < l)
      BY <2>1, <2>3
    <3> HIDE DEF l
    <3>2. k \in 0 .. 4 /\ k < l
      BY <1>1, <1>2, <3>1
    <3> QED
      BY <3>2 DEF l
  <2>5. CASE k > 0
    <3> DEFINE s == 0
    <3>1. s \in 0 .. a - 1 /\ Skips(rx, k, s)
      BY <1>1, <2>5 DEF Skips
    <3>2. /\ k + (a - s) + b <= 5
          /\ \A i \in 1 .. a - s : rx[s + i] = w[k + i]
          /\ \A i \in 1 .. b : w[k + (a - s) + i] = z[i]
          /\ ~Accepted(w, 0, k + (a - s) + b, {SET, GET})
      <4>1. a - 0 = a /\ k + a + b = k + (a + b)
        BY <1>1, <1>2
      <4>2. \A i \in 1 .. a : 0 + i = i
        BY <1>1
      <4> QED
        BY <1>2, <2>1, <2>2, <4>1, <4>2 DEF NoneIn
    <3> HIDE DEF s, t
    <3>3. Declines(proto_slave_main(h, regs, rx), z, regs)
      BY <2>1, <2>4, <2>5, <3>1, <3>2, DeclinesOther DEF a, b
    <3> QED
      BY <1>3, <3>3
  <2>6. CASE k = 0
    <3> DEFINE sof == FirstSOF(rx)
               s == sof - 1
    <3>1. /\ sof \in 1 .. a + 1
          /\ sof <= a => rx[sof] = proto_START_OF_FRAME
          /\ \A j \in 1 .. sof - 1 : j <= a => rx[j] # proto_START_OF_FRAME
      BY FirstSOFType DEF a
    <3> HIDE DEF sof
    <3>2. s \in 0 .. a /\ s + 1 = sof
      BY <1>1, <3>1
    <3>3. s = 0 \/ w[1] # proto_START_OF_FRAME
      <4>1. ASSUME s # 0 PROVE w[1] # proto_START_OF_FRAME
        <5>1. 1 \in 1 .. sof - 1 /\ 1 \in 1 .. a /\ k + 1 = 1 /\ 1 <= a
          BY <1>1, <2>6, <3>1, <3>2, <4>1
        <5>2. w[1] = rx[1]
          BY <2>2, <5>1
        <5> QED
          BY <3>1, <5>1, <5>2
      <4> QED
        BY <4>1
    <3> DEFINE u == After(w, s)
               n == a + b
    <3>4. /\ u \in Bytes5
          /\ \A i \in Nat : 0 < i /\ i + s <= 5 => u[i] = w[i + s]
          /\ n \in Nat /\ n <= 5 /\ s \in Nat /\ s <= n /\ k + (a + b) = n
      <4>1. n \in Nat /\ n <= 5 /\ s \in Nat /\ s <= n /\ k + (a + b) = n
        BY <1>1, <1>2, <2>6, <3>2
      <4> HIDE DEF s, n
      <4> QED
        BY <4>1, AfterType
    <3> HIDE DEF s, u, n
    <3>5. ~Accepted(u, 0, n - s, {SET, GET})
      BY <2>1, <3>3, <3>4, AcceptedAfter DEF u
    <3>6. \A i \in 1 .. a - s : rx[s + i] = u[i]
      <4>1. ASSUME NEW i \in 1 .. a - s PROVE rx[s + i] = u[i]
        <5>1. s + i \in 1 .. a /\ i \in Nat /\ 0 < i /\ i + s <= 5
              /\ k + (s + i) = i + s
          BY <1>1, <1>2, <2>6, <3>2
        <5> QED
          BY <2>2, <3>4, <5>1
      <4> QED
        BY <4>1
    <3>7. \A i \in 1 .. b : u[a - s + i] = z[i]
      <4>1. ASSUME NEW i \in 1 .. b PROVE u[a - s + i] = z[i]
        <5> DEFINE j == a - s + i
        <5>1. j \in Nat /\ 0 < j /\ j + s <= 5 /\ j + s = k + a + i
          BY <1>1, <1>2, <2>6, <3>2
        <5> HIDE DEF j
        <5> QED
          BY <2>2, <3>4, <5>1 DEF j
      <4> QED
        BY <4>1
    <3>8. CASE s = a
      <4>1. NoAnswer(t, h, regs)
        BY <2>6, <3>8, SlaveDrops DEF s, a, sof, k
      <4> HIDE DEF t
      <4>2. t.hdle = h /\ t.regs = regs /\ t.reply = << >>
        BY <4>1 DEF NoAnswer
      <4>3. Harmless(h, z)
        <5>1. Len(z) <= 4 /\ Len(z) = b /\ n - s = b
          BY <1>1, <1>2, <3>4, <3>8 DEF b, n
        <5>2. \A i \in 1 .. b : u[k + i] = z[i]
          <6>1. \A i \in 1 .. b : a - s + i = k + i
            BY <1>1, <2>6, <3>8
          <6> QED
            BY <3>7, <6>1
        <5>3. NoneIn(u, k + b, {SET, GET})
          <6>1. k + b = b /\ b - 1 < 4
            BY <1>1, <2>6, <5>1
          <6>2. ~Accepted(u, 1, b, {SET, GET})
            <7>1. ~(b - 1 >= 4)
              BY <1>1, <6>1
            <7> QED
              BY <7>1 DEF Accepted
          <6> QED
            BY <3>5, <5>1, <6>1, <6>2 DEF NoneIn
        <5>4. Holds(h, u, k) /\ ~(k > 0) /\ ~(k >= 3) /\ k + Len(z) <= 5
          BY <1>2, <2>6, <5>1 DEF Holds, k
        <5> QED
          BY <1>2, <3>4, <5>1, <5>2, <5>3, <5>4 DEF Harmless, k
      <4> QED
        BY <1>3, <4>2, <4>3 DEF Declines, t
    <3>9. CASE s # a
      <4>1. s \in 0 .. a - 1 /\ Skips(rx, k, s)
        BY <1>1, <2>6, <3>2, <3>9 DEF Skips, s, sof
      <4>2. u[1] = proto_START_OF_FRAME
        <5>1. 1 \in 1 .. a - s /\ s + 1 = sof /\ sof <= a
          BY <1>1, <3>2, <4>1
        <5> QED
          BY <3>1, <3>6, <5>1
      <4>3. k \in 0 .. 4 /\ k < FrameLen(u[3])
        <5>1. u[3] \in Byte
          BY <3>4 DEF Bytes5
        <5> DEFINE l == FrameLen(u[3])
        <5>2. l \in 3 .. 5
          BY <5>1, FrameLenType
        <5> HIDE DEF l
        <5>3. k < l
          BY <2>6, <5>2
        <5> QED
          BY <2>4, <5>3 DEF l
      <4>4. Holds(h, u, k)
        BY <1>2, <2>6 DEF Holds, k
      <4>5. /\ k + (a - s) + b <= 5
            /\ \A i \in 1 .. a - s : rx[s + i] = u[k + i]
            /\ \A i \in 1 .. b : u[k + (a - s) + i] = z[i]
            /\ ~Accepted(u, 0, k + (a - s) + b, {SET, GET})
        <5>1. k + (a - s) + b = n - s /\ n - s <= 5 /\ k + (a - s) = a - s
          BY <1>1, <1>2, <2>6, <3>2, <3>4, <4>1 DEF n
        <5>2. \A i \in 1 .. a - s : k + i = i
          BY <1>1, <2>6, <4>1
        <5> QED
          BY <3>5, <3>6, <3>7, <5>1, <5>2
      <4> HIDE DEF t
      <4>6. Declines(proto_slave_main(h, regs, rx), z, regs)
        BY <3>4, <4>1, <4>2, <4>3, <4>4, <4>5, DeclinesOther DEF a, b
      <4> QED
        BY <1>3, <4>6
    <3> QED
      BY <3>8, <3>9
  <2> QED
    BY <1>2, <2>5, <2>6 DEF k
<1> QED
  BY <1>4, <1>5

LEMMA Lengths ==
    /\ FrameLen(SET) = 5 /\ FrameLen(GET) = 4 /\ FrameLen(REPLY) = 4
    /\ FrameLen(ERR_CRC) = 4 /\ FrameLen(ERR_ARG) = 5
BY DEF FrameLen, proto_getArgsSize, ArgsLut, proto_LAST, proto_ARGS_OFFSET,
       SET, GET, REPLY, ERR_CRC, ERR_ARG

\* The bytes of a frame.
IsFrame(v, cmd, args) ==
    /\ Len(v) = FrameLen(cmd) /\ FrameLen(cmd) \in 4 .. 5
    /\ v[1] = proto_START_OF_FRAME /\ v[3] = cmd
    /\ v[4] = args[1]
    /\ FrameLen(cmd) = 4 => v[2] = getCRC2(cmd, args[1])
    /\ FrameLen(cmd) = 5 => /\ v[2] = getCRC3(cmd, args[1], args[2])
                            /\ v[5] = args[2]

LEMMA WireIs ==
    ASSUME NEW cmd \in 0 .. 4, NEW args \in Args
    PROVE  IsFrame(WireBytes(cmd, args), cmd, args)
<1> DEFINE v == WireBytes(cmd, args)
           f == proto_makeFrame(cmd, args)
           l == FrameLen(cmd)
           size == proto_getArgsSize(cmd)
<1>1. cmd \in Byte /\ size \in 1 .. 2 /\ l = 3 + size /\ l \in 4 .. 5
  BY KnownArgs
<1>2. /\ f[2] = getFrameCRC(f) /\ f[1] = proto_START_OF_FRAME
      /\ f[3] = cmd /\ f[4] = args[1] /\ (size = 2 => f[5] = args[2])
  BY <1>1, MakeFrameType
<1>3. Len(v) = l /\ \A i \in 1 .. l : v[i] = f[i]
  BY <1>1, WireBytesType
<1>4. getFrameCRC(f) = IF size = 0 THEN getCRC1(f[3])
                       ELSE IF size = 1 THEN getCRC2(f[3], f[4])
                       ELSE getCRC3(f[3], f[4], f[5])
  BY <1>2 DEF getFrameCRC
<1> HIDE DEF v, f, l, size
<1>5. /\ v[1] = f[1] /\ v[2] = f[2] /\ v[3] = f[3] /\ v[4] = f[4]
      /\ (l = 5 => v[5] = f[5])
  BY <1>1, <1>3
<1>6. CASE size = 1
  <2>1. l = 4
    BY <1>1, <1>6
  <2> QED
    BY <1>2, <1>3, <1>4, <1>5, <1>6, <2>1 DEF v, l, IsFrame
<1>7. CASE size = 2
  <2>1. l = 5
    BY <1>1, <1>7
  <2> QED
    BY <1>2, <1>3, <1>4, <1>5, <1>7, <2>1 DEF v, l, IsFrame
<1> QED
  BY <1>1, <1>6, <1>7

\* w is v with its byte p changed.
Disturbed(w, v, p) ==
    /\ w \in Bytes5 /\ p \in 1 .. Len(v) /\ w[p] # v[p]
    /\ \A i \in 1 .. Len(v) : i # p => w[i] = v[i]

LEMMA SetDisturbed ==
    ASSUME NEW a \in Args, NEW v, v = WireBytes(SET, a),
           NEW w, NEW p, Disturbed(w, v, p),
           getCRC3(SET, a[1], a[2]) # getCRC2(GET, a[1])
    PROVE  NoneIn(w, Len(v), {SET, GET})
<1>1. /\ Len(v) = 5 /\ v[1] = proto_START_OF_FRAME /\ v[3] = SET
      /\ v[4] = a[1] /\ v[5] = a[2] /\ v[2] = getCRC3(SET, a[1], a[2])
  <2> DEFINE c == SET
  <2>1. c \in 0 .. 4 /\ FrameLen(c) = 5 /\ v = WireBytes(c, a) /\ a \in Args
    BY Lengths DEF SET
  <2> HIDE DEF c
  <2>2. IsFrame(v, c, a)
    BY <2>1, WireIs
  <2> QED
    BY <2>1, <2>2 DEF IsFrame, c
<1>2. a[1] \in Byte /\ a[2] \in Byte
  BY DEF Args
<1>3. /\ w[1] \in Byte /\ w[2] \in Byte /\ w[3] \in Byte /\ w[4] \in Byte
      /\ w[5] \in Byte
  BY DEF Disturbed, Bytes5
<1>4. /\ p \in 1 .. 5 /\ w[p] # v[p]
      /\ (p # 1 => w[1] = v[1]) /\ (p # 2 => w[2] = v[2])
      /\ (p # 3 => w[3] = v[3]) /\ (p # 4 => w[4] = v[4])
      /\ (p # 5 => w[5] = v[5])
  BY <1>1 DEF Disturbed
<1>5. SET \in Byte /\ SET # GET
  BY DEF SET, GET, Byte
<1>6. ASSUME Accepted(w, 0, 5, {SET, GET}) PROVE FALSE
  <2>1. /\ w[1] = proto_START_OF_FRAME /\ w[3] \in {SET, GET}
        /\ w[2] = IF FrameLen(w[3]) = 4 THEN getCRC2(w[3], w[4])
                  ELSE getCRC3(w[3], w[4], w[5])
    BY <1>6 DEF Accepted
  <2>2. CASE w[3] = GET
    <3>1. p = 3 /\ w[2] = getCRC2(GET, w[4])
      BY <1>1, <1>4, <1>5, <2>1, <2>2, Lengths
    <3> QED
      BY <1>1, <1>4, <3>1
  <2>3. CASE w[3] = SET
    <3>1. w[2] = getCRC3(SET, w[4], w[5])
      BY <2>1, <2>3, Lengths
    <3>2. p # 1 /\ p # 3
      BY <1>1, <1>4, <2>1, <2>3
    <3>3. p = 2 \/ p = 4 \/ p = 5
      BY <1>4, <3>2
    <3>4. CASE p = 2
      BY <1>1, <1>4, <3>1, <3>4
    <3>5. CASE p = 4 \/ p = 5
      <4>1. getCRC3(SET, w[4], w[5]) = getCRC3(SET, a[1], a[2])
        BY <1>1, <1>4, <3>1, <3>5
      <4>2. w[4] = a[1] \/ w[5] = a[2]
        BY <1>1, <1>4, <3>5
      <4>3. w[4] = a[1] /\ w[5] = a[2]
        BY <1>2, <1>3, <1>5, <4>1, <4>2, Crc3Apart
      <4> QED
        BY <1>1, <1>4, <3>5, <4>3
    <3> QED
      BY <3>3, <3>4, <3>5
  <2> QED
    BY <2>1, <2>2, <2>3
<1>7. ASSUME w[1] # proto_START_OF_FRAME, Accepted(w, 1, 5, {SET, GET})
      PROVE  FALSE
  <2>1. /\ w[2] = proto_START_OF_FRAME /\ w[4] \in {SET, GET}
        /\ 4 >= FrameLen(w[4])
        /\ w[3] = IF FrameLen(w[4]) = 4 THEN getCRC2(w[4], w[5])
                  ELSE getCRC3(w[4], w[5], w[6])
    BY <1>7 DEF Accepted
  <2>2. w[4] = GET /\ p = 1
    BY <1>1, <1>4, <1>7, <2>1, Lengths
  <2>3. SET = getCRC2(GET, a[2]) /\ getCRC3(SET, GET, a[2]) = proto_START_OF_FRAME
    BY <1>1, <1>4, <2>1, <2>2, Lengths
  <2> QED
    BY <1>2, <2>3, InnerGet DEF SET, proto_START_OF_FRAME
<1> QED
  BY <1>1, <1>6, <1>7 DEF NoneIn

\* The same of a frame of four bytes: there is no room in it for another.
LEMMA ShortDisturbed ==
    ASSUME NEW c \in {GET, REPLY}, NEW a \in Args, NEW v, v = WireBytes(c, a),
           NEW w, NEW p, Disturbed(w, v, p),
           NEW cmds, cmds = {SET, GET} \/ cmds = {REPLY}, c \in cmds
    PROVE  NoneIn(w, Len(v), cmds)
<1>1. /\ Len(v) = 4 /\ v[1] = proto_START_OF_FRAME /\ v[3] = c
      /\ v[4] = a[1] /\ v[2] = getCRC2(c, a[1])
  <2>1. c \in 0 .. 4 /\ FrameLen(c) = 4 /\ v = WireBytes(c, a) /\ a \in Args
    BY Lengths DEF GET, REPLY
  <2>2. IsFrame(v, c, a)
    BY <2>1, WireIs
  <2> QED
    BY <2>1, <2>2 DEF IsFrame
<1>2. a[1] \in Byte /\ c \in Byte
  BY DEF Args, GET, REPLY, Byte
<1>3. /\ w[1] \in Byte /\ w[2] \in Byte /\ w[3] \in Byte /\ w[4] \in Byte
  BY DEF Disturbed, Bytes5
<1>4. /\ p \in 1 .. 4 /\ w[p] # v[p]
      /\ (p # 1 => w[1] = v[1]) /\ (p # 2 => w[2] = v[2])
      /\ (p # 3 => w[3] = v[3]) /\ (p # 4 => w[4] = v[4])
  BY <1>1 DEF Disturbed
<1>5. ASSUME Accepted(w, 0, 4, cmds) PROVE FALSE
  <2>1. /\ w[1] = proto_START_OF_FRAME /\ w[3] \in cmds
        /\ 4 >= FrameLen(w[3])
        /\ w[2] = IF FrameLen(w[3]) = 4 THEN getCRC2(w[3], w[4])
                  ELSE getCRC3(w[3], w[4], w[5])
    BY <1>5 DEF Accepted
  <2>2. w[3] = c
    <3>1. w[3] # SET
      BY <2>1, Lengths
    <3>2. w[3] \in {GET, REPLY} /\ (w[3] = GET <=> c = GET)
      BY <2>1, <3>1 DEF SET, GET, REPLY
    <3> QED
      BY <3>2
  <2>3. w[2] = getCRC2(c, w[4])
    BY <2>1, <2>2, Lengths
  <2>4. p # 1 /\ p # 3 /\ p # 2
    BY <1>1, <1>4, <2>1, <2>2, <2>3
  <2>5. p = 4
    BY <1>4, <2>4
  <2>6. getCRC2(c, w[4]) = getCRC2(c, a[1])
    BY <1>1, <1>4, <2>3, <2>5
  <2>7. w[4] = a[1]
    BY <1>2, <1>3, <2>6, Crc2Apart
  <2> QED
    BY <1>1, <1>4, <2>5, <2>7
<1>6. ~Accepted(w, 1, 4, cmds)
  BY DEF Accepted
<1> QED
  BY <1>1, <1>5, <1>6 DEF NoneIn

LEMMA RefusalDisturbed ==
    ASSUME NEW a \in Args, NEW v, v = WireBytes(ERR_ARG, a),
           NEW w, NEW p, Disturbed(w, v, p),
           getCRC3(ERR_ARG, a[1], a[2]) # getCRC2(REPLY, a[1])
    PROVE  NoneIn(w, Len(v), {REPLY})
<1>1. /\ Len(v) = 5 /\ v[1] = proto_START_OF_FRAME /\ v[3] = ERR_ARG
      /\ v[4] = a[1] /\ v[5] = a[2] /\ v[2] = getCRC3(ERR_ARG, a[1], a[2])
  <2> DEFINE c == ERR_ARG
  <2>1. c \in 0 .. 4 /\ FrameLen(c) = 5 /\ v = WireBytes(c, a) /\ a \in Args
    BY Lengths DEF ERR_ARG
  <2> HIDE DEF c
  <2>2. IsFrame(v, c, a)
    BY <2>1, WireIs
  <2> QED
    BY <2>1, <2>2 DEF IsFrame, c
<1>2. a[1] \in Byte /\ a[2] \in Byte
  BY DEF Args
<1>4. /\ p \in 1 .. 5 /\ w[p] # v[p]
      /\ (p # 1 => w[1] = v[1]) /\ (p # 2 => w[2] = v[2])
      /\ (p # 3 => w[3] = v[3]) /\ (p # 4 => w[4] = v[4])
      /\ (p # 5 => w[5] = v[5])
  BY <1>1 DEF Disturbed
<1>5. ERR_ARG # REPLY
  BY DEF ERR_ARG, REPLY
<1>6. ASSUME Accepted(w, 0, 5, {REPLY}) PROVE FALSE
  <2>1. /\ w[3] = REPLY
        /\ w[2] = IF FrameLen(w[3]) = 4 THEN getCRC2(w[3], w[4])
                  ELSE getCRC3(w[3], w[4], w[5])
    BY <1>6 DEF Accepted
  <2>2. p = 3 /\ w[2] = getCRC2(REPLY, w[4])
    BY <1>1, <1>4, <1>5, <2>1, Lengths
  <2> QED
    BY <1>1, <1>4, <2>2
<1>7. ASSUME w[1] # proto_START_OF_FRAME, Accepted(w, 1, 5, {REPLY})
      PROVE  FALSE
  <2>1. /\ w[2] = proto_START_OF_FRAME /\ w[4] = REPLY
        /\ w[3] = IF FrameLen(w[4]) = 4 THEN getCRC2(w[4], w[5])
                  ELSE getCRC3(w[4], w[5], w[6])
    BY <1>7 DEF Accepted
  <2>2. p = 1
    BY <1>1, <1>4, <1>7
  <2>3. /\ ERR_ARG = getCRC2(REPLY, a[2])
        /\ getCRC3(ERR_ARG, REPLY, a[2]) = proto_START_OF_FRAME
    BY <1>1, <1>4, <2>1, <2>2, Lengths
  <2> QED
    BY <1>2, <2>3, InnerReply
<1> QED
  BY <1>1, <1>6, <1>7 DEF NoneIn

\* What comes to the master starts with no reply: it starts with an answer of
\* another kind, or is at most five bytes with no reply in them.
Refusal(y) == Len(y) >= 3 /\ y[1] = proto_START_OF_FRAME /\ y[3] # REPLY
NoReply(y) ==
    \/ Refusal(y)
    \/ /\ Len(y) <= 5
       /\ \E w \in Bytes5 : /\ \A i \in 1 .. Len(y) : w[i] = y[i]
                            /\ NoneIn(w, Len(y), {REPLY})

\* An attempt to read the first bytes of that reports no success.
LEMMA MasterDoubts ==
    ASSUME NEW h \in Handle, h.nb = 0, NEW y \in Seq(Byte), NoReply(y),
           NEW buf \in Seq(Byte), Len(buf) <= Len(y),
           \A i \in 1 .. Len(buf) : buf[i] = y[i], NEW arg \in Args
    PROVE  LET m == proto_master_readFrame(h, buf, arg)
           IN  m.decoded => m.status # "NO_ERROR"
<1> DEFINE a == Len(buf)
           n == Len(y)
           r == proto_readFrame(h, buf)
           g == r.hdle
           d == proto_decodeFrame(g, arg)
           m == proto_master_readFrame(h, buf, arg)
           sof == FirstSOF(buf)
           s == sof - 1
<1>1. a \in Nat /\ n \in Nat /\ a <= n
  OBVIOUS
<1>2. /\ sof \in 1 .. a + 1
      /\ sof <= a => buf[sof] = proto_START_OF_FRAME
      /\ \A j \in 1 .. sof - 1 : j <= a => buf[j] # proto_START_OF_FRAME
  BY FirstSOFType
<1>3. /\ r.status # "NO_ERROR" => m.decoded = FALSE
      /\ d.result # "COMPLETED" => m.decoded = FALSE
      /\ d.result = "COMPLETED" /\ r.status = "NO_ERROR" =>
            m.status = ReplyStatus(d.cmd)
  <2> HIDE DEF r
  <2> QED
    BY DEF proto_master_readFrame, r
<1>4. \A c : c # REPLY => ReplyStatus(c) # "NO_ERROR"
  BY DEF ReplyStatus
<1>5. CASE s = a
  <2>1. proto_pushToFrame(h, buf) = [hdle |-> h, full |-> FALSE]
    BY <1>5 DEF proto_pushToFrame
  <2>2. r.status # "NO_ERROR"
    BY <2>1 DEF proto_readFrame
  <2> QED
    BY <1>3, <2>2
<1>6. CASE s # a
  <2> DEFINE u == [i \in 1 .. 5 |-> IF s + i <= a THEN buf[s + i] ELSE 0]
             l == FrameLen(u[3])
             k == Least(l, a - s)
  <2>1. /\ s \in 0 .. a - 1 /\ a - s \in Nat /\ a - s > 0 /\ s + 1 = sof
        /\ sof <= a /\ sof \in 1 .. a
    <3> HIDE DEF sof, a
    <3> QED
      BY <1>1, <1>2, <1>6
  <2>2. u \in Bytes5 /\ \A i \in 1 .. 5 : i <= a - s => u[i] = buf[s + i]
    <3>1. ASSUME NEW i \in 1 .. 5, s + i <= a PROVE buf[s + i] \in Byte
      <4>1. s + i \in 1 .. Len(buf)
        BY <1>1, <2>1, <3>1
      <4> QED
        BY <4>1, ElementOfSeq
    <3>2. \A i \in 1 .. 5 : i <= a - s => s + i <= a
      <4> HIDE DEF a, s
      <4> QED
        BY <1>1, <2>1
    <3> HIDE DEF a, s
    <3>3. ASSUME NEW i \in 1 .. 5
          PROVE  u[i] \in Byte /\ (i <= a - s => u[i] = buf[s + i])
      <4>1. CASE s + i <= a
        BY <3>1, <4>1
      <4>2. CASE ~(s + i <= a)
        <5>1. u[i] = 0
          BY <4>2
        <5> QED
          BY <3>2, <4>2, <5>1 DEF Byte
      <4> QED
        BY <4>1, <4>2
    <3>4. u \in [1 .. 5 -> Byte]
      BY <3>3
    <3> QED
      BY <3>3, <3>4 DEF Bytes5
  <2> HIDE DEF u
  <2>3. l \in 3 .. 5 /\ u[3] \in Byte
    <3>1. u[3] \in Byte
      BY <2>2 DEF Bytes5
    <3> QED
      BY <3>1, FrameLenType
  <2>4. k \in 1 .. l /\ k <= a - s /\ (k # l => k = a - s)
    <3> HIDE DEF l, a, s
    <3> QED
      BY <1>1, <2>1, <2>3 DEF Least
  <2>5. Holds(g, u, k) /\ (k = l => r.status = "NO_ERROR")
    <3> DEFINE z == 0
    <3>1. Holds(h, u, z) /\ Skips(buf, z, s) /\ z \in 0 .. l - 1
      <4> HIDE DEF l, s
      <4> QED
        BY <2>3 DEF Holds, Skips, s, sof
    <3>2. Brings(buf, s, u, z, k)
      <4>1. \A i \in 1 .. k - 0 : i \in 1 .. 5 /\ i <= a - s /\ 0 + i = i
        <5> HIDE DEF k, l, a, s
        <5> QED
          BY <1>1, <2>1, <2>3, <2>4
      <4> QED
        BY <2>2, <4>1 DEF Brings
    <3>3. k = Least(l, z + (Len(buf) - s))
      <4>1. 0 + (a - s) = a - s
        BY <2>1
      <4> QED
        BY <4>1
    <3>5. /\ FrameLen(u[3]) = l /\ l \in 3 .. 5 /\ s \in 0 .. Len(buf) - 1
      BY <2>1, <2>3
    <3> HIDE DEF z, l, k, s, sof, a, n, r, g, d, m
    <3>4. /\ Holds(proto_readFrame(h, buf).hdle, u, k)
          /\ k = l => proto_readFrame(h, buf).status = "NO_ERROR"
      BY <3>1, <3>2, <3>3, <3>5, ReadMore
    <3> QED
      BY <3>4 DEF g, r
  <2>6. CASE k # l
    <3> HIDE DEF g, k
    <3>1. k \in 0 .. l - 1
      <4> HIDE DEF l
      <4> QED
        BY <2>3, <2>4, <2>6
    <3>2. d.result = "WAITING"
      BY <2>3, <2>5, <3>1, PartWaits
    <3> HIDE DEF d, m
    <3> QED
      BY <1>3, <3>2 DEF m
  <2>7. CASE k = l
    <3>1. \/ d.result = "REFUSED"
          \/ /\ d.result = "COMPLETED" /\ d.cmd = u[3]
             /\ l = 4 => u[2] = getCRC2(u[3], u[4])
      <4> DEFINE q == l
      <4>1. q \in 3 .. 5 /\ FrameLen(u[3]) = q /\ Holds(g, u, q)
        BY <2>3, <2>5, <2>7
      <4> HIDE DEF g, l, q
      <4> QED
        BY <2>2, <4>1, DecodesWhole DEF q
    <3>2. ASSUME d.cmd = REPLY, d.result = "COMPLETED" PROVE FALSE
      <4>1. u[3] = REPLY /\ l = 4 /\ u[2] = getCRC2(REPLY, u[4])
        BY <3>1, <3>2, Lengths
      <4>2. a - s >= 4
        BY <2>4, <2>7, <4>1
      <4> HIDE DEF a, n, s, l, k, d, g, r, m
      <4>3. \A i \in 1 .. 4 : u[i] = y[s + i] /\ s + i \in 1 .. n
        <5>1. ASSUME NEW i \in 1 .. 4 PROVE u[i] = y[s + i] /\ s + i \in 1 .. n
          <6>1. s + i \in 1 .. a /\ i \in 1 .. 5 /\ i <= a - s /\ s + i \in 1 .. n
            BY <1>1, <2>1, <4>2
          <6> QED
            BY <2>2, <6>1 DEF a
        <5> QED
          BY <5>1
      <4>4. s # 0 => y[1] # proto_START_OF_FRAME
        <5>1. ASSUME s # 0 PROVE y[1] # proto_START_OF_FRAME
          <6>1. 1 \in 1 .. sof - 1 /\ 1 \in 1 .. a /\ 1 <= a
            BY <1>1, <2>1, <5>1 DEF s
          <6> QED
            BY <1>2, <6>1 DEF a
        <5> QED
          BY <5>1
      <4>5. CASE Refusal(y)
        <5>1. s = 0
          BY <4>4, <4>5 DEF Refusal
        <5> QED
          BY <4>1, <4>3, <4>5, <5>1 DEF Refusal
      <4>6. CASE ~Refusal(y)
        <5>1. PICK w \in Bytes5 : /\ \A i \in 1 .. n : w[i] = y[i]
                                  /\ NoneIn(w, n, {REPLY})
          BY <4>6 DEF NoReply, n
        <5>2. n <= 5
          BY <4>6 DEF NoReply, n
        <5>3. s \in 0 .. 1 /\ n - s >= 4
          BY <1>1, <2>1, <4>2, <5>2
        <5>4. /\ w[s + 1] = u[1] /\ w[s + 2] = u[2] /\ w[s + 3] = u[3]
              /\ w[s + 4] = u[4]
          BY <4>3, <5>1
        <5>5. u[1] = proto_START_OF_FRAME
          <6>1. 1 \in 1 .. 5 /\ 1 <= a - s
            BY <1>1, <2>1
          <6> QED
            BY <1>2, <2>1, <2>2, <6>1
        <5>6. Accepted(w, s, n, {REPLY})
          <6>1. FrameLen(w[s + 3]) = 4
            BY <4>1, <5>4, Lengths
          <6> QED
            BY <4>1, <5>3, <5>4, <5>5, <6>1 DEF Accepted
        <5>7. CASE s = 0
          BY <5>1, <5>6, <5>7 DEF NoneIn
        <5>8. CASE s = 1
          <6>1. w[1] # proto_START_OF_FRAME
            <7>1. 1 \in 1 .. n
              BY <1>1, <5>3, <5>8
            <7> QED
              BY <4>4, <5>1, <5>8, <7>1
          <6> QED
            BY <5>1, <5>6, <5>8, <6>1 DEF NoneIn
        <5> QED
          BY <5>3, <5>7, <5>8
      <4> QED
        BY <4>5, <4>6
    <3>3. d.result = "COMPLETED" => d.cmd # REPLY
      BY <3>2
    <3>4. r.status = "NO_ERROR"
      BY <2>5, <2>7
    <3> HIDE DEF d, m, r
    <3>5. m.decoded => m.status # "NO_ERROR"
      BY <1>3, <1>4, <3>3, <3>4
    <3> QED
      BY <3>5 DEF m
  <2> QED
    BY <2>6, <2>7
<1> QED
  BY <1>5, <1>6

\* The frame w with its byte k + p changed, of which the first k have been
\* read and the others are x.
LEMMA DisturbedRest ==
    ASSUME NEW w \in Seq(Byte), Len(w) \in 4 .. 5, NEW k \in 0 .. 4,
           NEW x \in Seq(Byte), k + Len(x) = Len(w), NEW p \in 1 .. Len(x),
           x[p] # w[k + p],
           \A i \in 1 .. Len(x) : i # p => x[i] = w[k + i]
    PROVE  \E v \in Bytes5 : /\ Disturbed(v, w, k + p)
                             /\ \A i \in 1 .. Len(x) : v[k + i] = x[i]
<1> DEFINE n == Len(w)
           m == Len(x)
           q == k + p
           v == [i \in 1 .. 5 |-> IF i > n THEN 0
                                  ELSE IF i <= k THEN w[i] ELSE x[i - k]]
<1>1. /\ n \in 4 .. 5 /\ m \in Nat /\ k + m = n /\ p \in 1 .. m
      /\ q \in 1 .. n /\ q = k + p
  <2>1. n \in 4 .. 5 /\ m \in Nat /\ k + m = n /\ p \in 1 .. m
    OBVIOUS
  <2> HIDE DEF n, m
  <2> QED
    BY <2>1
<1>2. (\A i \in 1 .. n : w[i] \in Byte) /\ \A i \in 1 .. m : x[i] \in Byte
  BY ElementOfSeq
<1>3. x[p] # w[q] /\ \A i \in 1 .. m : i # p => x[i] = w[k + i]
  OBVIOUS
<1> HIDE DEF n, m, q
<1>4. ASSUME NEW i \in 1 .. 5
      PROVE  /\ v[i] \in Byte
             /\ i <= n /\ i <= k => v[i] = w[i]
             /\ i <= n /\ i > k => v[i] = x[i - k]
  <2>1. CASE i > n
    BY <1>1, <2>1 DEF Byte
  <2>2. CASE i <= n /\ i <= k
    <3>1. i \in 1 .. n
      BY <1>1, <2>2
    <3> QED
      BY <1>1, <1>2, <2>2, <3>1
  <2>3. CASE i <= n /\ i > k
    <3>1. i - k \in 1 .. m
      BY <1>1, <2>3
    <3> QED
      BY <1>1, <1>2, <2>3, <3>1
  <2> QED
    BY <1>1, <2>1, <2>2, <2>3
<1>5. v \in Bytes5
  <2>1. \A i \in 1 .. 5 : v[i] \in Byte
    BY <1>4
  <2>2. v \in [1 .. 5 -> Byte]
    BY <2>1
  <2> QED
    BY <2>2 DEF Bytes5
<1> HIDE DEF v
<1>6. ASSUME NEW i \in 1 .. m PROVE v[k + i] = x[i]
  <2>1. k + i \in 1 .. 5 /\ k + i <= n /\ k + i > k /\ (k + i) - k = i
    BY <1>1
  <2> QED
    BY <1>4, <2>1
<1>7. ASSUME NEW i \in 1 .. n, i # q PROVE v[i] = w[i]
  <2>1. i \in 1 .. 5 /\ i <= n
    BY <1>1
  <2>2. CASE i <= k
    BY <1>4, <2>1, <2>2
  <2>3. CASE i > k
    <3>1. i - k \in 1 .. m /\ i - k # p /\ k + (i - k) = i
      BY <1>1, <1>7, <2>3
    <3> QED
      BY <1>3, <1>4, <2>1, <2>3, <3>1
  <2> QED
    BY <2>1, <2>2, <2>3
<1>8. v[q] # w[q]
  BY <1>1, <1>3, <1>6
<1>9. Disturbed(v, w, q)
  BY <1>1, <1>5, <1>7, <1>8 DEF Disturbed, n
<1> QED
  BY <1>5, <1>6, <1>9 DEF q, m

\* A request disturbed on its way to the slave, and an answer on its way to
\* the master.
LEMMA HarmlessDisturbed ==
    ASSUME NEW w \in Seq(Byte), Len(w) \in 4 .. 5,
           w[1] = proto_START_OF_FRAME, FrameLen(w[3]) = Len(w),
           NEW h, Holds(h, w, h.nb), h.nb < Len(w),
           NEW x \in Seq(Byte), h.nb + Len(x) = Len(w), NEW p \in 1 .. Len(x),
           x[p] # w[h.nb + p],
           \A i \in 1 .. Len(x) : i # p => x[i] = w[h.nb + i],
           \A v : Disturbed(v, w, h.nb + p) => NoneIn(v, Len(w), {SET, GET})
    PROVE  Harmless(h, x)
<1> DEFINE n == Len(w)
           k == h.nb
           m == Len(x)
<1>1. n \in 4 .. 5 /\ k \in 0 .. 4 /\ m \in Nat /\ k + m = n /\ p \in 1 .. m
  <2>1. k \in 0 .. 5
    BY DEF Holds, Handle, proto_FRAME_MAXSIZE
  <2>2. n \in 4 .. 5 /\ k < n /\ m \in Nat /\ k + m = n /\ p \in 1 .. m
    OBVIOUS
  <2> HIDE DEF n, k, m
  <2> QED
    BY <2>1, <2>2
<1>2. PICK v \in Bytes5 : /\ Disturbed(v, w, k + p)
                          /\ \A i \in 1 .. m : v[k + i] = x[i]
  BY <1>1, DisturbedRest
<1>3. NoneIn(v, n, {SET, GET})
  BY <1>2
<1>4. h \in Handle /\ \A i \in 1 .. k : h.frame[i] = w[i]
  BY DEF Holds
<1>5. \A i \in 1 .. n : i # k + p => v[i] = w[i]
  BY <1>2 DEF Disturbed
<1>6. FrameLen(w[3]) = n /\ k < n /\ w[1] = proto_START_OF_FRAME
  OBVIOUS
<1> HIDE DEF n, m, k
<1>7. \A i \in 1 .. k : v[i] = w[i]
  <2>1. \A i \in 1 .. k : i \in 1 .. n /\ i # k + p
    BY <1>1
  <2> QED
    BY <1>5, <2>1
<1>8. Holds(h, v, h.nb)
  BY <1>4, <1>7 DEF Holds, k
<1>9. k > 0 => v[1] = proto_START_OF_FRAME
  <2>1. k > 0 => 1 \in 1 .. k
    BY <1>1
  <2> QED
    BY <1>6, <1>7, <2>1
<1>10. k >= 3 => k < FrameLen(v[3])
  <2>1. k >= 3 => 3 \in 1 .. k
    BY <1>1
  <2> QED
    BY <1>6, <1>7, <2>1
<1>11. NoneIn(v, k + m, {SET, GET}) /\ k + m <= 5
  BY <1>1, <1>3
<1> QED
  BY <1>2, <1>4, <1>8, <1>9, <1>10, <1>11 DEF Harmless, k, m

LEMMA NoReplyDisturbed ==
    ASSUME NEW w \in Seq(Byte), Len(w) \in 4 .. 5,
           NEW y \in Seq(Byte), Len(y) = Len(w), NEW p \in 1 .. Len(y),
           y[p] # w[p], \A i \in 1 .. Len(y) : i # p => y[i] = w[i],
           \A v : Disturbed(v, w, p) => NoneIn(v, Len(w), {REPLY})
    PROVE  NoReply(y)
<1> DEFINE k == 0
           m == Len(y)
           n == Len(w)
<1>1. \A i \in Int : k + i = i
  OBVIOUS
<1>2. m = n /\ n \in 4 .. 5 /\ p \in 1 .. m /\ p \in Int /\ k \in 0 .. 4
  OBVIOUS
<1> HIDE DEF k
<1>3. /\ k + m = n /\ y[p] # w[k + p]
      /\ \A i \in 1 .. m : i # p => y[i] = w[k + i]
  BY <1>1, <1>2
<1>4. PICK v \in Bytes5 : /\ Disturbed(v, w, k + p)
                          /\ \A i \in 1 .. m : v[k + i] = y[i]
  BY <1>2, <1>3, DisturbedRest
<1>5. \A i \in 1 .. m : v[i] = y[i]
  BY <1>1, <1>4
<1>6. NoneIn(v, m, {REPLY})
  BY <1>1, <1>2, <1>4
<1>7. m <= 5
  <2> HIDE DEF m, n
  <2> QED
    BY <1>2
<1> QED
  BY <1>5, <1>6, <1>7 DEF NoReply

LEMMA NothingIsNoReply == NoReply(<< >>)
<1> DEFINE w == [i \in 1 .. 5 |-> 0]
           n == 0
<1>1. w \in Bytes5
  BY DEF Bytes5, Byte
<1> HIDE DEF w
<1>2. NoneIn(w, n, {REPLY})
  BY TooShort
<1>3. Len(<< >>) = 0 /\ \A i \in 1 .. 0 : w[i] = << >>[i]
  OBVIOUS
<1> QED
  BY <1>1, <1>2, <1>3 DEF NoReply

(***************************************************************************)
(* The bytes z are those of the packets on a wire.                         *)
(***************************************************************************)
Flows(wire, z) == \E cut \in Cuts : CutOf(wire, cut, z)

LEMMA NothingFlows == Flows(<< >>, << >>)
<1> DEFINE cut == [i \in Nat |-> 0]
<1>1. cut \in Cuts /\ cut[0] = 0
  BY DEF Cuts
<1> HIDE DEF cut
<1>2. \A i \in 0 .. 0 : i = 0
  OBVIOUS
<1>3. Len(<< >>) = 0 /\ \A i \in 1 .. 0 : FALSE
  OBVIOUS
<1>4. \A i, j \in 0 .. 0 : i <= j => cut[i] <= cut[j]
  BY <1>1, <1>2
<1>5. CutOf(<< >>, cut, << >>)
  BY <1>1, <1>3, <1>4 DEF CutOf
<1> QED
  BY <1>1, <1>5 DEF Flows

\* On a frame's way, the wire has what the handle and the buffer have not.
LEMMA WayFlows ==
    ASSUME NEW h \in Handle, NEW rx \in Seq(Byte), NEW wire \in Seq(Seq(Byte)),
           NEW w \in Seq(Byte), Way(h, rx, wire, w)
    PROVE  \E z \in Seq(Byte) :
              /\ Flows(wire, z)
              /\ h.nb + Len(rx) + Len(z) = Len(w)
              /\ \A i \in 1 .. Len(z) : z[i] = w[h.nb + Len(rx) + i]
<1> DEFINE n == Len(wire)
           c == h.nb + Len(rx)
           l == Len(w)
           m == l - c
           z == [i \in 1 .. m |-> w[c + i]]
<1>1. PICK cut \in Cuts :
         /\ cut[0] = c /\ cut[n] = l
         /\ \A i, j \in 0 .. n : i <= j => cut[i] <= cut[j]
         /\ \A i \in 1 .. n :
               /\ cut[i] = cut[i - 1] + Len(wire[i])
               /\ \A k \in 1 .. Len(wire[i]) : wire[i][k] = w[cut[i - 1] + k]
  BY DEF Way
<1>2. n \in Nat /\ l \in Nat /\ c \in Nat
  BY DEF Handle, proto_FRAME_MAXSIZE
<1>3. \A i \in 1 .. l : w[i] \in Byte
  BY ElementOfSeq
<1>4. \A i \in 1 .. n : Len(wire[i]) \in Nat
  BY ElementOfSeq
<1> HIDE DEF n, c, l
<1>5. c <= l /\ m \in Nat
  <2>1. 0 \in 0 .. n /\ n \in 0 .. n /\ 0 <= n
    BY <1>2
  <2>2. cut[0] <= cut[n]
    BY <1>1, <2>1
  <2> QED
    BY <1>1, <1>2, <2>2
<1>6. z \in Seq(Byte) /\ Len(z) = m /\ \A i \in 1 .. m : z[i] = w[c + i]
  <2>1. ASSUME NEW i \in 1 .. m PROVE w[c + i] \in Byte
    <3>1. c + i \in 1 .. l
      BY <1>2, <1>5
    <3> QED
      BY <1>3, <3>1
  <2> HIDE DEF m
  <2>2. z \in [1 .. m -> Byte] /\ \A i \in 1 .. m : z[i] = w[c + i]
    BY <2>1
  <2> HIDE DEF z
  <2> QED
    BY <1>5, <2>2, IsASeq
<1> HIDE DEF z
<1> DEFINE new == [i \in Nat |-> cut[i] - c]
<1>7. new \in Cuts /\ \A i \in Nat : new[i] = cut[i] - c /\ cut[i] \in Int
  BY <1>2 DEF Cuts
<1> HIDE DEF new
<1>8. new[0] = 0 /\ new[n] = m
  BY <1>1, <1>2, <1>7
<1>9. ASSUME NEW i \in 0 .. n, NEW j \in 0 .. n, i <= j
      PROVE  new[i] <= new[j]
  <2>1. i \in Nat /\ j \in Nat /\ cut[i] <= cut[j]
    BY <1>1, <1>2, <1>9
  <2> QED
    BY <1>2, <1>7, <2>1
<1>10. ASSUME NEW i \in 1 .. n
       PROVE  /\ new[i] = new[i - 1] + Len(wire[i])
              /\ \A k \in 1 .. Len(wire[i]) :
                    /\ new[i - 1] + k \in 1 .. m
                    /\ wire[i][k] = z[new[i - 1] + k]
  <2>1. /\ i \in Nat /\ i - 1 \in Nat /\ i - 1 \in 0 .. n /\ i \in 0 .. n
        /\ 0 \in 0 .. n /\ n \in 0 .. n /\ 0 <= i - 1 /\ i <= n
    BY <1>2
  <2>2. /\ cut[i] = cut[i - 1] + Len(wire[i]) /\ Len(wire[i]) \in Nat
        /\ c <= cut[i - 1] /\ cut[i] <= l
    BY <1>1, <1>4, <2>1
  <2>3. /\ new[i] = cut[i] - c /\ new[i - 1] = cut[i - 1] - c
        /\ cut[i - 1] \in Int /\ cut[i] \in Int
    BY <1>7, <2>1
  <2>4. new[i] = new[i - 1] + Len(wire[i])
    BY <1>2, <2>2, <2>3
  <2>5. ASSUME NEW k \in 1 .. Len(wire[i])
        PROVE  new[i - 1] + k \in 1 .. m /\ wire[i][k] = z[new[i - 1] + k]
    <3>1. new[i - 1] + k \in 1 .. m /\ c + (new[i - 1] + k) = cut[i - 1] + k
      <4> DEFINE o == new[i - 1]
                 a == cut[i - 1]
                 e == cut[i]
                 r == Len(wire[i])
      <4>1. /\ o = a - c /\ a \in Int /\ e \in Int /\ r \in Nat /\ k \in 1 .. r
            /\ e = a + r /\ c <= a /\ e <= l
        BY <2>2, <2>3
      <4> HIDE DEF o, a, e, r
      <4>2. o + k \in 1 .. m /\ c + (o + k) = a + k
        BY <1>2, <4>1
      <4> QED
        BY <4>2 DEF o, a
    <3>2. wire[i][k] = w[cut[i - 1] + k]
      BY <1>1
    <3> QED
      BY <1>6, <3>1, <3>2
  <2> QED
    BY <2>4, <2>5
<1>11. CutOf(wire, new, z)
  BY <1>6, <1>8, <1>9, <1>10 DEF CutOf, n
<1>12. Flows(wire, z)
  BY <1>7, <1>11 DEF Flows
<1>13. c + Len(z) = l
  BY <1>2, <1>5, <1>6
<1> QED
  BY <1>6, <1>12, <1>13 DEF c, l

\* The first packet is the start of the bytes on the wire.
LEMMA FlowsFirst ==
    ASSUME NEW wire \in Seq(Seq(Byte)), wire # << >>, NEW z \in Seq(Byte),
           NEW cut \in Cuts, CutOf(wire, cut, z)
    PROVE  /\ cut[1] = Len(wire[1]) /\ Len(wire[1]) <= Len(z)
           /\ \A i \in 1 .. Len(wire[1]) : wire[1][i] = z[i]
           /\ Len(wire) \in Nat /\ Len(wire) >= 1
           /\ wire[1] \in Seq(Byte) /\ Len(wire[1]) \in Nat
<1> DEFINE n == Len(wire)
           l == Len(wire[1])
<1>1. n \in Nat /\ n # 0
  OBVIOUS
<1>2. n >= 1 /\ 1 \in 1 .. n /\ 1 - 1 = 0 /\ 1 \in 0 .. n /\ n \in 0 .. n
  <2> HIDE DEF n
  <2> QED
    BY <1>1
<1>3. wire[1] \in Seq(Byte)
  BY <1>2, ElementOfSeq
<1>4. /\ cut[0] = 0 /\ cut[n] = Len(z) /\ cut[1] <= cut[n]
      /\ cut[1] = cut[0] + l
      /\ \A k \in 1 .. l : wire[1][k] = z[cut[0] + k]
  BY <1>2 DEF CutOf
<1>5. l \in Nat /\ \A k \in 1 .. l : 0 + k = k
  BY <1>3
<1> QED
  BY <1>1, <1>2, <1>3, <1>4, <1>5

\* The packet delivered goes from the wire to the buffer.
LEMMA FlowsDelivered ==
    ASSUME NEW wire \in Seq(Seq(Byte)), wire # << >>, NEW z \in Seq(Byte),
           Flows(wire, z), NEW rx \in Seq(Byte)
    PROVE  \E y \in Seq(Byte) :
              /\ Flows(Tail(wire), y)
              /\ (rx \o Head(wire)) \o y = rx \o z
<1>1. PICK cut \in Cuts : CutOf(wire, cut, z)
  BY DEF Flows
<1> DEFINE n == Len(wire)
           p == wire[1]
           l == Len(p)
           m == Len(z)
           b == m - l
           y == [i \in 1 .. b |-> z[l + i]]
           rest == Tail(wire)
<1>2. /\ cut[1] = l /\ l <= m /\ \A i \in 1 .. l : p[i] = z[i]
      /\ n \in Nat /\ n >= 1 /\ p \in Seq(Byte) /\ l \in Nat
  BY <1>1, FlowsFirst
<1>3. m \in Nat /\ \A i \in 1 .. m : z[i] \in Byte
  BY ElementOfSeq
<1>4. /\ rest \in Seq(Seq(Byte)) /\ Len(rest) = n - 1
      /\ \A i \in 1 .. n - 1 : rest[i] = wire[i + 1]
      /\ Head(wire) = p
  BY HeadTailProperties
<1>5. /\ cut[0] = 0 /\ cut[n] = m
      /\ \A i, j \in 0 .. n : i <= j => cut[i] <= cut[j]
      /\ \A i \in 1 .. n :
            /\ cut[i] = cut[i - 1] + Len(wire[i])
            /\ \A k \in 1 .. Len(wire[i]) :
                  /\ cut[i - 1] + k \in 1 .. m
                  /\ wire[i][k] = z[cut[i - 1] + k]
  BY <1>1 DEF CutOf
<1>6. \A i \in 1 .. n : Len(wire[i]) \in Nat
  BY ElementOfSeq
<1> HIDE DEF n, m, l, rest
<1>7. y \in Seq(Byte) /\ Len(y) = b /\ \A i \in 1 .. b : y[i] = z[l + i]
  <2>1. ASSUME NEW i \in 1 .. b PROVE z[l + i] \in Byte
    <3>1. l + i \in 1 .. m
      BY <1>2, <1>3
    <3> QED
      BY <1>3, <3>1
  <2>2. b \in Nat
    BY <1>2, <1>3
  <2> HIDE DEF b
  <2>3. y \in [1 .. b -> Byte] /\ \A i \in 1 .. b : y[i] = z[l + i]
    BY <2>1
  <2> HIDE DEF y
  <2> QED
    BY <2>2, <2>3, IsASeq
<1> HIDE DEF y
<1> DEFINE new == [i \in Nat |-> cut[i + 1] - l]
<1>8. new \in Cuts /\ \A i \in Nat : new[i] = cut[i + 1] - l /\ cut[i + 1] \in Int
  BY <1>2 DEF Cuts
<1> HIDE DEF new
<1>9. new[0] = 0 /\ new[n - 1] = b
  <2>1. 0 \in Nat /\ 0 + 1 = 1 /\ n - 1 \in Nat /\ (n - 1) + 1 = n
    BY <1>2
  <2>2. new[0] = cut[1] - l /\ new[n - 1] = cut[n] - l
    BY <1>8, <2>1
  <2> QED
    BY <1>2, <1>5, <2>2
<1>10. ASSUME NEW i \in 0 .. n - 1, NEW j \in 0 .. n - 1, i <= j
       PROVE  new[i] <= new[j]
  <2>1. i + 1 \in 0 .. n /\ j + 1 \in 0 .. n /\ i + 1 <= j + 1
        /\ i \in Nat /\ j \in Nat
    BY <1>2, <1>10
  <2>2. cut[i + 1] <= cut[j + 1]
    BY <1>5, <2>1
  <2>3. /\ new[i] = cut[i + 1] - l /\ cut[i + 1] \in Int
        /\ new[j] = cut[j + 1] - l /\ cut[j + 1] \in Int
    BY <1>8, <2>1
  <2> QED
    BY <1>2, <2>2, <2>3
<1>11. ASSUME NEW i \in 1 .. n - 1
       PROVE  /\ new[i] = new[i - 1] + Len(rest[i])
              /\ \A k \in 1 .. Len(rest[i]) :
                    /\ new[i - 1] + k \in 1 .. b
                    /\ rest[i][k] = y[new[i - 1] + k]
  <2>1. /\ i + 1 \in 1 .. n /\ (i + 1) - 1 = i /\ i \in Nat
        /\ i - 1 \in Nat /\ (i - 1) + 1 = i
        /\ 1 \in 0 .. n /\ i \in 0 .. n /\ 1 <= i
    BY <1>2
  <2>2. /\ new[i] = cut[i + 1] - l /\ new[i - 1] = cut[i] - l
        /\ rest[i] = wire[i + 1] /\ cut[i] \in Int /\ cut[i + 1] \in Int
    BY <1>4, <1>8, <2>1
  <2>3. cut[i + 1] = cut[i] + Len(rest[i]) /\ Len(rest[i]) \in Nat
    BY <1>5, <1>6, <2>1, <2>2
  <2>4. l <= cut[i]
    BY <1>2, <1>5, <2>1
  <2>5. new[i] = new[i - 1] + Len(rest[i])
    BY <1>2, <2>2, <2>3
  <2>6. ASSUME NEW k \in 1 .. Len(rest[i])
        PROVE  new[i - 1] + k \in 1 .. b /\ rest[i][k] = y[new[i - 1] + k]
    <3>1. cut[i] + k \in 1 .. m /\ rest[i][k] = z[cut[i] + k]
      BY <1>5, <2>1, <2>2
    <3>2. new[i - 1] + k \in 1 .. b /\ l + (new[i - 1] + k) = cut[i] + k
      <4> DEFINE o == new[i - 1]
                 a == cut[i]
      <4>1. o = a - l /\ a \in Int /\ l <= a /\ a + k \in 1 .. m /\ k \in Nat
            /\ k > 0
        BY <2>2, <2>3, <2>4, <3>1
      <4> HIDE DEF o, a
      <4>2. o + k \in 1 .. m - l /\ l + (o + k) = a + k
        BY <1>2, <1>3, <4>1
      <4> QED
        BY <4>2 DEF o, a
    <3> QED
      BY <1>7, <3>1, <3>2
  <2> QED
    BY <2>5, <2>6
<1>12. Flows(rest, y)
  <2>1. /\ new[0] = 0 /\ new[Len(rest)] = Len(y)
        /\ \A i, j \in 0 .. Len(rest) : i <= j => new[i] <= new[j]
    BY <1>4, <1>7, <1>9, <1>10
  <2>2. CutOf(rest, new, y)
    BY <1>4, <1>7, <1>11, <2>1 DEF CutOf
  <2> QED
    BY <1>8, <2>2 DEF Flows
<1>13. p \o y = z
  <2>1. /\ p \o y \in Seq(Byte) /\ Len(p \o y) = l + b
        /\ \A i \in 1 .. l + b :
              (p \o y)[i] = IF i <= l THEN p[i] ELSE y[i - l]
    <3> HIDE DEF b, p
    <3> QED
      BY <1>2, <1>7, ConcatProperties DEF l
  <2>2. l + b = m
    BY <1>2, <1>3
  <2>3. ASSUME NEW i \in 1 .. m PROVE (p \o y)[i] = z[i]
    <3>1. CASE i <= l
      <4>1. i \in 1 .. l
        BY <1>2, <1>3, <3>1
      <4> QED
        BY <1>2, <2>1, <2>2, <3>1, <4>1
    <3>2. CASE ~(i <= l)
      <4>1. i - l \in 1 .. b /\ l + (i - l) = i
        BY <1>2, <1>3, <3>2
      <4> QED
        BY <1>7, <2>1, <2>2, <3>2, <4>1
    <3> QED
      BY <3>1, <3>2
  <2> QED
    BY <2>1, <2>2, <2>3, SeqEqual DEF m
<1>14. (rx \o p) \o y = rx \o z
  <2> HIDE DEF p
  <2>0. rx \in Seq(Byte) /\ p \in Seq(Byte) /\ y \in Seq(Byte)
    BY <1>2, <1>7
  <2>1. (rx \o p) \o y = rx \o (p \o y)
    BY ONLY <2>0, ConcatAssociative
  <2> QED
    BY <1>13, <2>1
<1> QED
  BY <1>4, <1>7, <1>12, <1>14 DEF rest

\* Packets sent go behind those on the wire.
LEMMA FlowsSent ==
    ASSUME NEW wire \in Seq(Seq(Byte)), NEW z \in Seq(Byte), Flows(wire, z),
           NEW P \in Seq(Seq(Byte)), NEW v \in Seq(Byte), Flows(P, v)
    PROVE  Flows(wire \o P, z \o v)
<1>1. PICK cut \in Cuts : CutOf(wire, cut, z)
  BY DEF Flows
<1>2. PICK cp \in Cuts : CutOf(P, cp, v)
  BY DEF Flows
<1> DEFINE n == Len(wire)
           q == Len(P)
           m == Len(z)
           d == Len(v)
           all == wire \o P
           y == z \o v
           new == [i \in Nat |-> IF i <= n THEN cut[i] ELSE m + cp[i - n]]
<1>3. n \in Nat /\ q \in Nat /\ m \in Nat /\ d \in Nat
  OBVIOUS
<1>4. /\ all \in Seq(Seq(Byte)) /\ Len(all) = n + q
      /\ \A i \in 1 .. n + q : all[i] = IF i <= n THEN wire[i] ELSE P[i - n]
  BY ConcatProperties
<1>5. /\ y \in Seq(Byte) /\ Len(y) = m + d
      /\ \A i \in 1 .. m + d : y[i] = IF i <= m THEN z[i] ELSE v[i - m]
  BY ConcatProperties
<1>6. /\ cut[0] = 0 /\ cut[n] = m
      /\ \A i, j \in 0 .. n : i <= j => cut[i] <= cut[j]
      /\ \A i \in 1 .. n :
            /\ cut[i] = cut[i - 1] + Len(wire[i])
            /\ \A k \in 1 .. Len(wire[i]) :
                  /\ cut[i - 1] + k \in 1 .. m
                  /\ wire[i][k] = z[cut[i - 1] + k]
  BY <1>1 DEF CutOf
<1>7. /\ cp[0] = 0 /\ cp[q] = d
      /\ \A i, j \in 0 .. q : i <= j => cp[i] <= cp[j]
      /\ \A i \in 1 .. q :
            /\ cp[i] = cp[i - 1] + Len(P[i])
            /\ \A k \in 1 .. Len(P[i]) :
                  /\ cp[i - 1] + k \in 1 .. d
                  /\ P[i][k] = v[cp[i - 1] + k]
  BY <1>2 DEF CutOf
<1>8. /\ \A i \in 1 .. n : Len(wire[i]) \in Nat
      /\ \A i \in 1 .. q : Len(P[i]) \in Nat
  BY ElementOfSeq
<1>9. (\A i \in Nat : cut[i] \in Int) /\ \A i \in Nat : cp[i] \in Int
  BY DEF Cuts
<1> HIDE DEF n, q, m, d, all, y
<1>10. /\ \A i \in Nat : i <= n => new[i] = cut[i]
       /\ \A i \in Nat : i >= n => new[i] = m + cp[i - n]
       /\ new \in Cuts
  <2>1. ASSUME NEW i \in Nat
        PROVE  /\ i <= n => new[i] = cut[i]
               /\ i >= n => new[i] = m + cp[i - n]
               /\ new[i] \in Int
    <3>1. CASE i <= n
      <4>1. i = n => m + cp[i - n] = cut[n]
        BY <1>3, <1>6, <1>7
      <4> QED
        BY <1>3, <1>9, <3>1, <4>1
    <3>2. CASE ~(i <= n)
      <4>1. i - n \in Nat
        BY <1>3, <3>2
      <4> QED
        BY <1>3, <1>9, <3>2, <4>1
    <3> QED
      BY <3>1, <3>2
  <2>2. new \in [Nat -> Int]
    BY <2>1
  <2> QED
    BY <2>1, <2>2 DEF Cuts
<1> HIDE DEF new
<1>11. new[0] = 0 /\ new[n + q] = m + d
  <2>1. 0 \in Nat /\ 0 <= n /\ n + q \in Nat /\ n + q >= n /\ (n + q) - n = q
    BY <1>3
  <2> QED
    BY <1>6, <1>7, <1>10, <2>1
<1>12. ASSUME NEW i \in 0 .. n + q, NEW j \in 0 .. n + q, i <= j
       PROVE  new[i] <= new[j]
  <2>1. i \in Nat /\ j \in Nat
    BY <1>3
  <2>2. CASE j <= n
    <3>1. i \in 0 .. n /\ j \in 0 .. n /\ i <= n
      BY <1>3, <1>12, <2>2
    <3> QED
      BY <1>6, <1>10, <1>12, <2>1, <2>2, <3>1
  <2>3. CASE i >= n
    <3>1. /\ i - n \in 0 .. q /\ j - n \in 0 .. q /\ i - n <= j - n /\ j >= n
          /\ i - n \in Nat /\ j - n \in Nat
      BY <1>3, <1>12, <2>3
    <3>2. cp[i - n] <= cp[j - n]
      BY <1>7, <3>1
    <3>3. new[i] = m + cp[i - n] /\ new[j] = m + cp[j - n]
      BY <1>10, <2>1, <2>3, <3>1
    <3> QED
      BY <1>3, <1>9, <3>1, <3>2, <3>3
  <2>4. CASE i < n /\ j > n
    <3>1. /\ i \in 0 .. n /\ n \in 0 .. n /\ i <= n
          /\ 0 \in 0 .. q /\ j - n \in 0 .. q /\ 0 <= j - n /\ j >= n
          /\ j - n \in Nat
      BY <1>3, <2>4
    <3>2. cut[i] <= cut[n] /\ cp[0] <= cp[j - n]
      BY <1>6, <1>7, <3>1
    <3>3. new[i] = cut[i] /\ new[j] = m + cp[j - n]
      BY <1>10, <2>1, <3>1
    <3> QED
      BY <1>3, <1>6, <1>7, <1>9, <2>1, <3>1, <3>2, <3>3
  <2> QED
    BY <1>3, <2>1, <2>2, <2>3, <2>4
<1>13. ASSUME NEW i \in 1 .. n + q
       PROVE  /\ new[i] = new[i - 1] + Len(all[i])
              /\ \A k \in 1 .. Len(all[i]) :
                    /\ new[i - 1] + k \in 1 .. m + d
                    /\ all[i][k] = y[new[i - 1] + k]
  <2>1. i \in Nat /\ i - 1 \in Nat
    BY <1>3
  <2>2. CASE i <= n
    <3>1. i \in 1 .. n /\ i - 1 <= n
      BY <1>3, <2>2
    <3>2. new[i] = cut[i] /\ new[i - 1] = cut[i - 1] /\ all[i] = wire[i]
      BY <1>4, <1>10, <2>1, <2>2, <3>1
    <3>3. ASSUME NEW k \in 1 .. Len(wire[i])
          PROVE  /\ cut[i - 1] + k \in 1 .. m + d
                 /\ wire[i][k] = y[cut[i - 1] + k]
      <4>1. cut[i - 1] + k \in 1 .. m /\ wire[i][k] = z[cut[i - 1] + k]
        BY <1>6, <3>1
      <4>2. cut[i - 1] + k \in 1 .. m + d /\ cut[i - 1] + k <= m
        BY <1>3, <4>1
      <4> QED
        BY <1>5, <4>1, <4>2
    <3> QED
      BY <1>6, <3>1, <3>2, <3>3
  <2>3. CASE ~(i <= n)
    <3>1. /\ i - n \in 1 .. q /\ i >= n /\ i - 1 >= n
          /\ (i - 1) - n = (i - n) - 1 /\ (i - n) - 1 \in Nat /\ i - n \in Nat
      BY <1>3, <2>1, <2>3
    <3> DEFINE e == i - n
    <3>2. new[i] = m + cp[e] /\ new[i - 1] = m + cp[e - 1] /\ all[i] = P[e]
      BY <1>4, <1>10, <2>1, <2>3, <3>1
    <3>3. cp[e] = cp[e - 1] + Len(P[e]) /\ cp[e - 1] \in Int /\ Len(P[e]) \in Nat
      BY <1>7, <1>8, <1>9, <3>1
    <3>4. ASSUME NEW k \in 1 .. Len(P[e])
          PROVE  /\ (m + cp[e - 1]) + k \in 1 .. m + d
                 /\ P[e][k] = y[(m + cp[e - 1]) + k]
      <4>1. cp[e - 1] + k \in 1 .. d /\ P[e][k] = v[cp[e - 1] + k]
        BY <1>7, <3>1
      <4> DEFINE o == cp[e - 1]
      <4>2. o \in Int /\ o + k \in 1 .. d /\ k \in Nat
        BY <3>3, <4>1
      <4> HIDE DEF o, e
      <4>3. /\ (m + o) + k \in 1 .. m + d /\ ~((m + o) + k <= m)
            /\ ((m + o) + k) - m = o + k
        BY <1>3, <4>2
      <4>4. y[(m + o) + k] = v[((m + o) + k) - m]
        BY <1>5, <4>3
      <4> QED
        BY <4>1, <4>3, <4>4 DEF o
    <3> HIDE DEF e
    <3>5. new[i] = new[i - 1] + Len(all[i])
      BY <1>3, <3>2, <3>3
    <3> QED
      BY <3>2, <3>4, <3>5
  <2> QED
    BY <2>2, <2>3
<1>14. CutOf(all, new, y)
  BY <1>4, <1>5, <1>11, <1>12, <1>13 DEF CutOf
<1> QED
  BY <1>10, <1>14 DEF Flows, all, y
=============================================================================
