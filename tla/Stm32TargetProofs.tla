------------------------- MODULE Stm32TargetProofs --------------------------
(***************************************************************************)
(* The ring between the USB interrupt and the main loop, for every size,   *)
(* every packet size and every interleaving: its types, that it is a       *)
(* stream of bytes as long as it is never full, and that a host that waits *)
(* for its answers gets the right ones.                                    *)
(***************************************************************************)
EXTENDS Stm32Target, ProtoPeersProofs

(***************************************************************************)
(* Indices modulo the size of the ring: those the ring uses stay below     *)
(* three turns.                                                            *)
(***************************************************************************)
Size == Nat \ {0}

LEMMA ModType == ASSUME NEW F \in Size, NEW x \in Nat PROVE x % F \in 0 .. F - 1
BY DEF Size

LEMMA ModCases ==
    ASSUME NEW F \in Size, NEW x \in Nat
    PROVE  /\ x < F => x % F = x
           /\ F <= x /\ x < 2 * F => x % F = x - F
<1>1. ASSUME x < F PROVE x % F = x
  BY <1>1 DEF Size
<1>2. ASSUME F <= x, x < 2 * F PROVE x % F = x - F
  BY <1>2 DEF Size
<1> QED
  BY <1>1, <1>2

LEMMA FifoSizeType == FifoSize \in Size /\ FifoSize >= 2
BY TargetAssumption DEF Size

\* What is b places after slot a.
LEMMA Wrapped ==
    ASSUME NEW F \in Size, NEW a \in 0 .. F - 1, NEW b \in 0 .. F
    PROVE  /\ (a + b) % F = IF a + b < F THEN a + b ELSE a + b - F
           /\ (a + b) % F \in 0 .. F - 1
<1> DEFINE x == a + b
<1>1. x \in Nat /\ x < 2 * F /\ F \in Nat
  BY DEF Size
<1>2. (x < F => x % F = x) /\ (F <= x /\ x < 2 * F => x % F = x - F)
  BY <1>1, ModCases
<1>3. x % F \in 0 .. F - 1
  BY <1>1, ModType
<1>4. a + b < F \/ F <= a + b
  BY <1>1
<1>5. CASE a + b < F
  BY <1>2, <1>3, <1>5
<1>6. CASE F <= a + b
  <2>1. ~(a + b < F)
    BY <1>1, <1>6
  <2> QED
    BY <1>1, <1>2, <1>3, <1>6, <2>1
<1> QED
  BY <1>4, <1>5, <1>6

\* Places that are less than a turn apart are different.
LEMMA Distinct ==
    ASSUME NEW F \in Size, NEW a \in 0 .. F - 1,
           NEW b \in 0 .. F - 1, NEW c \in 0 .. F - 1,
           (a + b) % F = (a + c) % F
    PROVE  b = c
<1>0. F \in Nat /\ b \in 0 .. F /\ c \in 0 .. F
  BY DEF Size
<1>1. (a + b) % F = IF a + b < F THEN a + b ELSE a + b - F
  BY <1>0, Wrapped
<1>2. (a + c) % F = IF a + c < F THEN a + c ELSE a + c - F
  BY <1>0, Wrapped
<1> QED
  BY <1>0, <1>1, <1>2

\* Two moves that stay within a turn are one.
LEMMA MoveTwice ==
    ASSUME NEW F \in Size, NEW a \in 0 .. F - 1,
           NEW b \in 0 .. F, NEW c \in 0 .. F, b + c <= F
    PROVE  (((a + b) % F) + c) % F = (a + (b + c)) % F
<1> DEFINE d == (a + b) % F
           e == b + c
<1>0. F \in Nat /\ e \in 0 .. F
  BY DEF Size
<1>1. d = (IF a + b < F THEN a + b ELSE a + b - F) /\ d \in 0 .. F - 1
  BY Wrapped
<1> HIDE DEF d
<1>2. (d + c) % F = IF d + c < F THEN d + c ELSE d + c - F
  BY <1>1, Wrapped
<1>3. (a + e) % F = IF a + e < F THEN a + e ELSE a + e - F
  BY <1>0, Wrapped
<1>4. (d + c) % F = (a + e) % F
  BY <1>0, <1>1, <1>2, <1>3
<1> QED
  BY <1>4 DEF d, e

(***************************************************************************)
(* What the interrupt writes.                                              *)
(***************************************************************************)
LEMMA LargestBelow ==
    ASSUME NEW n \in Nat, NEW T, T \subseteq 1 .. n, T # {}
    PROVE  \E x \in T : \A y \in T : y <= x
<1> DEFINE U == { n - x : x \in T }
<1>1. U \subseteq Nat
  OBVIOUS
<1>2. U # {}
  OBVIOUS
<1> HIDE DEF U
<1>3. PICK u \in U : \A v \in U : u <= v
  BY <1>1, <1>2, SmallestNat, Zenon
<1>4. PICK x \in T : u = n - x
  BY <1>3 DEF U
<1>5. ASSUME NEW y \in T PROVE y <= x
  <2>1. n - y \in U
    BY DEF U
  <2>2. n - x <= n - y
    BY <1>3, <1>4, <2>1
  <2> QED
    BY <2>2
<1> QED
  BY <1>4, <1>5

LEMMA PushedType ==
    ASSUME NEW bytes \in Seq(Byte), buffer \in [Slots -> Byte]
    PROVE  Pushed(bytes) \in [Slots -> Byte]
<1> DEFINE n == Len(bytes)
           Last(slot) == CHOOSE i \in Written(bytes, slot) :
                            \A j \in Written(bytes, slot) : j <= i
<1>1. ASSUME NEW slot \in Slots, Written(bytes, slot) # {}
      PROVE  bytes[Last(slot)] \in Byte
  <2> DEFINE W == Written(bytes, slot)
  <2>1. W \subseteq 1 .. n /\ n \in Nat
    BY DEF Written
  <2>2. \E i \in W : \A j \in W : j <= i
    <3> HIDE DEF W, n
    <3> QED
      BY <1>1, <2>1, LargestBelow DEF W
  <2>3. Last(slot) \in W
    BY <2>2
  <2> HIDE DEF W, Last
  <2> QED
    BY <2>1, <2>3, ElementOfSeq
<1> QED
  BY <1>1 DEF Pushed

LEMMA PushedWhere ==
    ASSUME NEW bytes \in Seq(Byte), Len(bytes) <= FifoSize,
           buffer \in [Slots -> Byte], end \in Slots
    PROVE  /\ \A j \in 1 .. Len(bytes) :
                 Pushed(bytes)[(end + (j - 1)) % FifoSize] = bytes[j]
           /\ \A slot \in Slots :
                 (\A j \in 1 .. Len(bytes) : (end + (j - 1)) % FifoSize # slot)
                 => Pushed(bytes)[slot] = buffer[slot]
<1> DEFINE n == Len(bytes)
           F == FifoSize
<1>1. /\ F \in Size /\ F \in Nat /\ n \in Nat /\ n <= F
      /\ end \in 0 .. F - 1 /\ Slots = 0 .. F - 1
  BY FifoSizeType DEF Size, Slots
<1>2. \A slot : Written(bytes, slot) =
                   { i \in 1 .. n : (end + (i - 1)) % F = slot }
  <2>1. ASSUME NEW i \in 1 .. n PROVE end + i - 1 = end + (i - 1)
    BY <1>1
  <2> QED
    BY <2>1 DEF Written
<1>3. ASSUME NEW j \in 1 .. n
      PROVE  Pushed(bytes)[(end + (j - 1)) % FifoSize] = bytes[j]
  <2> DEFINE slot == (end + (j - 1)) % F
             W == Written(bytes, slot)
  <2>1. slot \in Slots
    <3>1. j - 1 \in 0 .. F
      BY <1>1
    <3> QED
      BY <1>1, <3>1, Wrapped
  <2>2. W = {j}
    <3>1. ASSUME NEW i \in 1 .. n, (end + (i - 1)) % F = (end + (j - 1)) % F
          PROVE  i = j
      <4>1. i - 1 \in 0 .. F - 1 /\ j - 1 \in 0 .. F - 1
        BY <1>1
      <4>2. i - 1 = j - 1
        BY <1>1, <3>1, <4>1, Distinct
      <4> QED
        BY <4>2
    <3> QED
      BY <1>2, <3>1
  <2>3. Pushed(bytes)[slot] = IF W = {} THEN buffer[slot]
                              ELSE bytes[CHOOSE i \in W : \A k \in W : k <= i]
    BY <2>1 DEF Pushed
  <2> HIDE DEF W, slot
  <2>4. j <= j
    BY <1>1
  <2>5. (CHOOSE i \in W : \A k \in W : k <= i) = j
    BY <2>2, <2>4
  <2>6. Pushed(bytes)[slot] = bytes[j]
    BY <2>2, <2>3, <2>5
  <2> QED
    BY <2>6 DEF slot
<1>4. ASSUME NEW slot \in Slots,
             \A j \in 1 .. n : (end + (j - 1)) % F # slot
      PROVE  Pushed(bytes)[slot] = buffer[slot]
  <2>1. Written(bytes, slot) = {}
    BY <1>2, <1>4
  <2> QED
    BY <2>1 DEF Pushed
<1> QED
  BY <1>3, <1>4

(***************************************************************************)
(* Types.                                                                  *)
(***************************************************************************)
LEMMA NbRegsType == NbRegs \in Nat
BY TargetAssumption

LEMMA RequestBytesType ==
    ASSUME NEW r \in Requests
    PROVE  /\ r \in Request
           /\ WireBytes(r.cmd, RequestArgs(r)) \in Seq(Byte)
           /\ Len(WireBytes(r.cmd, RequestArgs(r))) > 0
<1>1. r \in Request
  BY TargetAssumption
<1>2. r.cmd \in Byte /\ RequestArgs(r) \in Args
  BY <1>1 DEF Request, RequestArgs, Args, Byte, SET, GET
<1> DEFINE w == WireBytes(r.cmd, RequestArgs(r))
<1>3. w \in Seq(Byte) /\ 3 <= Len(w)
  BY <1>2, WireLen
<1> HIDE DEF w
<1>4. w \in Seq(Byte) /\ Len(w) > 0
  BY <1>3
<1> QED
  BY <1>1, <1>4 DEF w

LEMMA InitTypeOK == Init => TypeOK
<1> SUFFICES ASSUME Init PROVE TypeOK
  OBVIOUS
<1>1. proto_init \in Handle
  BY InitType
<1>2. [r \in 0 .. NbRegs - 1 |-> 0] \in [0 .. NbRegs - 1 -> Byte]
  BY DEF Byte
<1>3. 0 \in Slots /\ [i \in Slots |-> 0] \in [Slots -> Byte]
  BY FifoSizeType DEF Slots, Byte, Size
<1> QED
  BY <1>1, <1>2, <1>3 DEF Init, TypeOK

LEMMA SplitType ==
    ASSUME NEW s \in Seq(Byte), NEW n \in 1 .. Len(s)
    PROVE  /\ SubSeq(s, 1, n) \in Seq(Byte) /\ Len(SubSeq(s, 1, n)) = n
           /\ SubSeq(s, n + 1, Len(s)) \in Seq(Byte)
<1> DEFINE len == Len(s)
<1>1. len \in Nat /\ n \in 1 .. len /\ \A i \in 1 .. len : s[i] \in Byte
  BY ElementOfSeq
<1>2. SubSeq(s, 1, n) \in Seq(Byte) /\ Len(SubSeq(s, 1, n)) = n
  BY <1>1, SubSeqProperties
<1>3. SubSeq(s, n + 1, len) \in Seq(Byte)
  <2>1. n + 1 \in Int /\ len \in Int /\ \A i \in n + 1 .. len : s[i] \in Byte
    BY <1>1
  <2> QED
    BY <2>1, SubSeqProperties
<1> QED
  BY <1>2, <1>3

LEMMA ReceiveTypeOK ==
    ASSUME TypeOK, NEW n \in 1 .. PacketSize, Receive(n)
    PROVE  TypeOK'
<1> DEFINE b == SubSeq(toTarget, 1, n)
<1>1. /\ n \in 1 .. Len(toTarget) /\ toTarget \in Seq(Byte)
      /\ toTarget' = SubSeq(toTarget, n + 1, Len(toTarget))
      /\ buffer' = Pushed(b) /\ buffer \in [Slots -> Byte]
      /\ end' = (end + n) % FifoSize /\ end \in Slots
      /\ backlog' = backlog + n /\ backlog \in Int
  BY DEF Receive, Advance, TypeOK
<1>2. b \in Seq(Byte) /\ toTarget' \in Seq(Byte)
  BY <1>1, SplitType
<1> HIDE DEF b
<1>3. buffer' \in [Slots -> Byte]
  BY <1>1, <1>2, PushedType
<1>4. end' \in Slots
  <2> DEFINE x == end + n
  <2>1. x \in Nat
    BY <1>1 DEF Slots
  <2>2. x % FifoSize \in 0 .. FifoSize - 1
    BY <2>1, FifoSizeType, ModType
  <2> QED
    BY <1>1, <2>2 DEF Slots
<1>5. backlog' \in Int
  BY <1>1
<1> QED
  BY <1>2, <1>3, <1>4, <1>5 DEF TypeOK, Receive, host

LEMMA ProcessTypeOK ==
    ASSUME TypeOK, Process
    PROVE  TypeOK'
<1> DEFINE s == proto_slave_main(sh, regs, got)
<1>1. /\ sh' = s.hdle /\ regs' = s.regs /\ tx' = Transmit(s.reply)
      /\ got' = << >> /\ pc' = "test"
      /\ UNCHANGED <<toTarget, fifo, backlog, host>>
  BY DEF Process
<1>2. /\ s.hdle \in Handle /\ s.regs \in [0 .. NbRegs - 1 -> Byte]
      /\ s.reply \in Seq(Byte)
  <2>1. /\ sh \in Handle /\ regs \in [0 .. NbRegs - 1 -> Byte]
        /\ got \in Seq(Byte)
    BY DEF TypeOK
  <2> QED
    BY <2>1, NbRegsType, SlaveMainType
<1> HIDE DEF s
<1>3. tx' \in Seq(Byte)
  BY <1>1, <1>2 DEF Transmit, TypeOK
<1>4. got' \in Seq(Byte)
  BY <1>1
<1> QED
  BY <1>1, <1>2, <1>3, <1>4 DEF TypeOK, fifo, host

LEMMA NextTypeOK == TypeOK /\ [Next]_vars => TypeOK'
<1> SUFFICES ASSUME TypeOK, [Next]_vars PROVE TypeOK'
  OBVIOUS
<1>1. ASSUME NEW r \in Requests, Send(r) PROVE TypeOK'
  <2> DEFINE w == WireBytes(r.cmd, RequestArgs(r))
  <2>1. r \in Request /\ w \in Seq(Byte)
    BY RequestBytesType
  <2>2. /\ toTarget' = toTarget \o w /\ issued' = Append(issued, r)
        /\ inStep' = (inStep /\ Len(issued) = Len(answers))
        /\ UNCHANGED <<fifo, tx, pc, got, sh, regs, backlog, answers>>
    BY <1>1 DEF Send
  <2> HIDE DEF w
  <2>3. toTarget' \in Seq(Byte) /\ issued' \in Seq(Request)
    BY <2>1, <2>2 DEF TypeOK
  <2>4. inStep' \in BOOLEAN
    BY <2>2 DEF TypeOK
  <2> QED
    BY <2>2, <2>3, <2>4 DEF TypeOK, fifo
<1>2. ASSUME NEW n \in 1 .. PacketSize, Receive(n) PROVE TypeOK'
  BY <1>2, ReceiveTypeOK
<1>3. CASE DataIn
  <2>1. answers' \in Seq(Seq(Byte)) /\ tx' \in Seq(Byte)
    BY <1>3 DEF DataIn, TypeOK
  <2> QED
    BY <1>3, <2>1 DEF DataIn, TypeOK, fifo
<1>4. CASE Test
  BY <1>4 DEF Test, TypeOK, fifo, host
<1>5. CASE Pop
  <2>1. /\ got' = Append(got, buffer[begin]) /\ begin' = (begin + 1) % FifoSize
        /\ backlog' = backlog - 1 /\ pc' = "test"
        /\ UNCHANGED <<toTarget, buffer, end, tx, sh, regs, host>>
    BY <1>5 DEF Pop, Advance
  <2>2. buffer[begin] \in Byte /\ begin \in 0 .. FifoSize - 1
    BY DEF TypeOK, Slots
  <2>3. begin' \in Slots
    <3> DEFINE x == begin + 1
    <3>1. x \in Nat
      BY <2>2
    <3>2. x % FifoSize \in 0 .. FifoSize - 1
      BY <3>1, FifoSizeType, ModType
    <3> QED
      BY <2>1, <3>2 DEF Slots
  <2>4. got' \in Seq(Byte) /\ backlog' \in Int
    BY <2>1, <2>2 DEF TypeOK
  <2> QED
    BY <2>1, <2>3, <2>4 DEF TypeOK, host
<1>6. CASE Process
  BY <1>6, ProcessTypeOK
<1>7. CASE UNCHANGED vars
  BY <1>7 DEF vars, TypeOK
<1> QED
  BY <1>1, <1>2, <1>3, <1>4, <1>5, <1>6, <1>7 DEF Next, MainLoop

(* The indices of the ring never leave it, and what is received, held,     *)
(* read and answered are bytes (property TypeOK).                          *)
THEOREM TargetTypeCorrect == Spec => []TypeOK
BY InitTypeOK, NextTypeOK, PTL DEF Spec

(***************************************************************************)
(* The stream.  The interrupt never looks at "begin", so the ring keeps    *)
(* its promise only while fewer bytes than it has slots are waiting; then  *)
(* "end" is that many places after "begin", and a turn of the loop that    *)
(* saw them differ finds a byte to pop.                                    *)
(***************************************************************************)
HasRoom == backlog < FifoSize

RingInv ==
    /\ backlog \in Nat
    /\ end = (begin + backlog) % FifoSize
    /\ pc = "pop" => backlog > 0

\* The slot of the unread byte number i.
Slot(i) == (begin + (i - 1)) % FifoSize

UnreadOK ==
    /\ UnreadLen = backlog
    /\ Unread = [i \in 1 .. backlog |-> buffer[Slot(i)]]
    /\ \A i \in 1 .. backlog : Slot(i) \in Slots
    /\ Unread \in Seq(Byte) /\ Len(Unread) = backlog

LEMMA UnreadIs == TypeOK /\ RingInv /\ HasRoom => UnreadOK
<1> SUFFICES ASSUME TypeOK, RingInv, HasRoom PROVE UnreadOK
  OBVIOUS
<1>1. /\ FifoSize \in Size /\ FifoSize \in Nat
      /\ begin \in 0 .. FifoSize - 1 /\ Slots = 0 .. FifoSize - 1
      /\ backlog \in 0 .. FifoSize - 1
      /\ buffer \in [Slots -> Byte]
  BY FifoSizeType DEF TypeOK, RingInv, HasRoom, Slots, Size
<1>2. end = IF begin + backlog < FifoSize THEN begin + backlog
            ELSE begin + backlog - FifoSize
  <2>1. backlog \in 0 .. FifoSize
    BY <1>1
  <2>2. (begin + backlog) % FifoSize =
           IF begin + backlog < FifoSize THEN begin + backlog
           ELSE begin + backlog - FifoSize
    BY <1>1, <2>1, Wrapped
  <2> QED
    BY <2>2 DEF RingInv
<1>3. UnreadLen = backlog
  BY <1>1, <1>2 DEF UnreadLen
<1>4. ASSUME NEW i \in 1 .. backlog
      PROVE  Slot(i) \in Slots /\ (begin + i - 1) % FifoSize = Slot(i)
  <2>1. i - 1 \in 0 .. FifoSize /\ begin + i - 1 = begin + (i - 1)
    BY <1>1
  <2>2. (begin + (i - 1)) % FifoSize \in 0 .. FifoSize - 1
    BY <1>1, <2>1, Wrapped
  <2> QED
    BY <1>1, <2>1, <2>2 DEF Slot
<1> DEFINE u == [i \in 1 .. backlog |-> buffer[Slot(i)]]
<1>5. Unread = u
  BY <1>3, <1>4 DEF Unread
<1>6. u \in [1 .. backlog -> Byte]
  BY <1>1, <1>4
<1> HIDE DEF u
<1>7. u \in Seq(Byte) /\ Len(u) = backlog
  <2>1. [1 .. backlog -> Byte] \in { [1 .. k -> Byte] : k \in Nat }
    BY <1>1
  <2>2. u \in UNION { [1 .. k -> Byte] : k \in Nat }
    BY <1>6, <2>1
  <2>3. u \in Seq(Byte)
    BY <2>2, SeqDef, Zenon
  <2>4. backlog \in Nat
    BY <1>1
  <2>5. Len(u) = backlog
    BY <1>6, <2>3, <2>4, LenProperties
  <2> QED
    BY <2>3, <2>5
<1> QED
  BY <1>3, <1>4, <1>5, <1>7 DEF u, UnreadOK

LEMMA ReceiveStream ==
    ASSUME TypeOK, TypeOK', RingInv, HasRoom, HasRoom',
           NEW n \in 1 .. PacketSize, Receive(n)
    PROVE  RingInv' /\ Stream!Receive
<1> DEFINE b == SubSeq(toTarget, 1, n)
<1>1. /\ FifoSize \in Size /\ FifoSize \in Nat
      /\ begin \in 0 .. FifoSize - 1 /\ Slots = 0 .. FifoSize - 1
      /\ end \in 0 .. FifoSize - 1
      /\ backlog \in Nat /\ n \in Nat /\ n >= 1
      /\ backlog + n < FifoSize
      /\ backlog' = backlog + n
      /\ buffer' = Pushed(b) /\ begin' = begin /\ pc' = pc /\ got' = got
      /\ end' = (end + n) % FifoSize
      /\ end = (begin + backlog) % FifoSize
      /\ toTarget' = SubSeq(toTarget, n + 1, Len(toTarget))
      /\ n \in 1 .. Len(toTarget) /\ toTarget \in Seq(Byte)
      /\ buffer \in [Slots -> Byte]
  BY FifoSizeType
     DEF TypeOK, RingInv, HasRoom, Slots, Size, Receive, Advance
<1>2. b \in Seq(Byte) /\ Len(b) = n
  BY <1>1, SplitType
<1>3. RingInv'
  <2>1. backlog \in 0 .. FifoSize /\ n \in 0 .. FifoSize
        /\ backlog + n <= FifoSize
    BY <1>1
  <2>2. (((begin + backlog) % FifoSize) + n) % FifoSize =
           (begin + (backlog + n)) % FifoSize
    BY <1>1, <2>1, MoveTwice
  <2>3. end' = (begin' + backlog') % FifoSize
    BY <1>1, <2>2
  <2>4. backlog' \in Nat /\ (pc' = "pop" => backlog' > 0)
    BY <1>1
  <2> QED
    BY <2>3, <2>4 DEF RingInv
<1> HIDE DEF b
<1>4. /\ Unread = [i \in 1 .. backlog |-> buffer[Slot(i)]]
      /\ Unread \in Seq(Byte) /\ Len(Unread) = backlog
      /\ \A i \in 1 .. backlog : Slot(i) \in Slots
  BY UnreadIs DEF UnreadOK
<1>5. /\ Unread' = [i \in 1 .. backlog' |-> buffer'[Slot(i)']]
      /\ Unread' \in Seq(Byte) /\ Len(Unread') = backlog'
  <2>1. UnreadOK'
    BY <1>3, UnreadIs, PTL
  <2> QED
    BY <2>1 DEF UnreadOK
<1>6. \A i : Slot(i)' = Slot(i)
  BY <1>1 DEF Slot
<1>7. Unread' = Unread \o b
  <2> DEFINE x == Unread \o b
             y == Unread'
  <2>1. /\ x \in Seq(Byte) /\ Len(x) = backlog + n
        /\ \A i \in 1 .. backlog : x[i] = buffer[Slot(i)]
        /\ \A i \in backlog + 1 .. backlog + n : x[i] = b[i - backlog]
    <3> DEFINE q == Unread
    <3>1. /\ q \in Seq(Byte) /\ Len(q) = backlog
          /\ \A i \in 1 .. backlog : q[i] = buffer[Slot(i)]
      BY <1>4
    <3> HIDE DEF q
    <3>2. /\ q \o b \in Seq(Byte) /\ Len(q \o b) = backlog + n
          /\ \A i \in 1 .. backlog + n :
                (q \o b)[i] = IF i <= backlog THEN q[i] ELSE b[i - backlog]
      BY <1>1, <1>2, <3>1, ConcatProperties
    <3>3. ASSUME NEW i \in 1 .. backlog PROVE (q \o b)[i] = q[i]
      <4>1. i \in 1 .. backlog + n /\ i <= backlog
        BY <1>1
      <4> QED
        BY <3>2, <4>1
    <3>4. ASSUME NEW i \in backlog + 1 .. backlog + n
          PROVE  (q \o b)[i] = b[i - backlog]
      <4>1. i \in 1 .. backlog + n /\ ~(i <= backlog)
        BY <1>1
      <4> QED
        BY <3>2, <4>1
    <3> QED
      BY <3>1, <3>2, <3>3, <3>4 DEF q
  <2>2. /\ y \in Seq(Byte) /\ Len(y) = backlog + n
        /\ \A i \in 1 .. backlog + n : y[i] = Pushed(b)[Slot(i)]
    BY <1>1, <1>5, <1>6
  <2> HIDE DEF x, y
  <2>3. /\ \A j \in 1 .. n : Pushed(b)[(end + (j - 1)) % FifoSize] = b[j]
        /\ \A slot \in Slots :
              (\A j \in 1 .. n : (end + (j - 1)) % FifoSize # slot)
              => Pushed(b)[slot] = buffer[slot]
    <3>1. Len(b) <= FifoSize /\ end \in Slots
      BY <1>1, <1>2
    <3> QED
      BY <1>1, <1>2, <3>1, PushedWhere
  <2>4. ASSUME NEW j \in 1 .. n
        PROVE  (end + (j - 1)) % FifoSize =
                  (begin + (backlog + (j - 1))) % FifoSize
    <3>1. /\ backlog \in 0 .. FifoSize /\ j - 1 \in 0 .. FifoSize
          /\ backlog + (j - 1) <= FifoSize
      BY <1>1
    <3> QED
      BY <1>1, <3>1, MoveTwice
  <2>5. ASSUME NEW i \in 1 .. backlog PROVE y[i] = x[i]
    <3>1. ASSUME NEW j \in 1 .. n
          PROVE  (end + (j - 1)) % FifoSize # Slot(i)
      <4>1. /\ backlog + (j - 1) \in 0 .. FifoSize - 1
            /\ i - 1 \in 0 .. FifoSize - 1
            /\ backlog + (j - 1) # i - 1
        BY <1>1
      <4>2. (begin + (backlog + (j - 1))) % FifoSize
               # (begin + (i - 1)) % FifoSize
        BY <1>1, <4>1, Distinct
      <4> QED
        BY <2>4, <4>2 DEF Slot
    <3>2. Pushed(b)[Slot(i)] = buffer[Slot(i)]
      BY <1>4, <2>3, <3>1
    <3>3. i \in 1 .. backlog + n
      BY <1>1
    <3> QED
      BY <2>1, <2>2, <3>2, <3>3
  <2>6. ASSUME NEW i \in backlog + 1 .. backlog + n PROVE y[i] = x[i]
    <3> DEFINE j == i - backlog
    <3>1. /\ j \in 1 .. n /\ i \in 1 .. backlog + n
          /\ backlog + (j - 1) = i - 1
      BY <1>1
    <3> HIDE DEF j
    <3>2. (end + (j - 1)) % FifoSize = Slot(i)
      BY <2>4, <3>1 DEF Slot
    <3>3. Pushed(b)[Slot(i)] = b[j]
      BY <2>3, <3>1, <3>2
    <3>4. x[i] = b[j]
      BY <2>1 DEF j
    <3> QED
      BY <2>2, <3>1, <3>3, <3>4
  <2>7. \A i \in 1 .. Len(x) : x[i] = y[i]
    <3>1. ASSUME NEW i \in 1 .. Len(x) PROVE x[i] = y[i]
      <4>1. i \in 1 .. backlog \/ i \in backlog + 1 .. backlog + n
        BY <1>1, <2>1
      <4> QED
        BY <2>5, <2>6, <4>1
    <3> QED
      BY <3>1
  <2>8. x = y
    BY <2>1, <2>2, <2>7, SeqEqual
  <2> QED
    BY <2>8 DEF x, y
<1>8. Stream!Receive
  BY <1>1, <1>7 DEF Stream!Receive, b
<1> QED
  BY <1>3, <1>8

LEMMA PopStream ==
    ASSUME TypeOK, TypeOK', RingInv, HasRoom, HasRoom', Pop
    PROVE  RingInv' /\ Stream!Take
<1>1. /\ FifoSize \in Size /\ FifoSize \in Nat
      /\ begin \in 0 .. FifoSize - 1
      /\ backlog \in Nat /\ backlog > 0 /\ backlog < FifoSize
      /\ end = (begin + backlog) % FifoSize
      /\ backlog' = backlog - 1
      /\ buffer' = buffer /\ end' = end /\ pc' = "test"
      /\ begin' = (begin + 1) % FifoSize
      /\ got' = Append(got, buffer[begin]) /\ toTarget' = toTarget
  BY FifoSizeType DEF TypeOK, RingInv, HasRoom, Slots, Size, Pop, Advance
<1>2. \A k \in 0 .. FifoSize - 1 :
         (begin' + k) % FifoSize = (begin + (1 + k)) % FifoSize
  <2>1. ASSUME NEW k \in 0 .. FifoSize - 1
        PROVE  (begin' + k) % FifoSize = (begin + (1 + k)) % FifoSize
    <3>1. 1 \in 0 .. FifoSize /\ k \in 0 .. FifoSize /\ 1 + k <= FifoSize
      BY <1>1
    <3>2. (((begin + 1) % FifoSize) + k) % FifoSize
             = (begin + (1 + k)) % FifoSize
      BY <1>1, <3>1, MoveTwice
    <3> QED
      BY <1>1, <3>2
  <2> QED
    BY <2>1
<1>3. RingInv'
  <2>1. backlog - 1 \in 0 .. FifoSize - 1 /\ 1 + (backlog - 1) = backlog
    BY <1>1
  <2>2. (begin' + (backlog - 1)) % FifoSize
           = (begin + (1 + (backlog - 1))) % FifoSize
    BY <1>2, <2>1
  <2>3. end' = (begin' + backlog') % FifoSize
    BY <1>1, <2>1, <2>2
  <2>4. backlog' \in Nat /\ pc' # "pop"
    BY <1>1
  <2> QED
    BY <2>3, <2>4 DEF RingInv
<1>4. /\ Unread = [i \in 1 .. backlog |-> buffer[Slot(i)]]
      /\ Unread \in Seq(Byte) /\ Len(Unread) = backlog
  BY UnreadIs DEF UnreadOK
<1>5. /\ Unread' = [i \in 1 .. backlog' |-> buffer'[Slot(i)']]
      /\ Unread' \in Seq(Byte) /\ Len(Unread') = backlog'
  <2>1. UnreadOK'
    BY <1>3, UnreadIs, PTL
  <2> QED
    BY <2>1 DEF UnreadOK
<1>6. ASSUME NEW i \in 1 .. backlog - 1 PROVE Slot(i)' = Slot(i + 1)
  <2>1. /\ i - 1 \in 0 .. FifoSize - 1 /\ 1 + (i - 1) = i /\ (i + 1) - 1 = i
    BY <1>1
  <2>2. (begin' + (i - 1)) % FifoSize = (begin + (1 + (i - 1))) % FifoSize
    BY <1>2, <2>1
  <2> QED
    BY <2>1, <2>2 DEF Slot
<1>7. /\ Unread # << >>
      /\ Head(Unread) = buffer[begin]
      /\ Unread' = Tail(Unread)
  <2> DEFINE q == Unread
             y == Unread'
  <2>1. /\ q \in Seq(Byte) /\ Len(q) = backlog
        /\ \A i \in 1 .. backlog : q[i] = buffer[Slot(i)]
        /\ y \in Seq(Byte) /\ Len(y) = backlog - 1
    BY <1>1, <1>4, <1>5
  <2>2. ASSUME NEW i \in 1 .. backlog - 1 PROVE y[i] = buffer[Slot(i + 1)]
    BY <1>1, <1>5, <1>6
  <2> HIDE DEF q, y
  <2>3. Slot(1) = begin
    <3>1. begin + (1 - 1) = begin /\ begin < FifoSize /\ begin \in Nat
      BY <1>1
    <3>2. begin % FifoSize = begin
      BY <1>1, <3>1, ModCases
    <3> QED
      BY <3>1, <3>2 DEF Slot
  <2>4. q # << >> /\ Head(q) = buffer[begin]
    <3>1. 1 \in 1 .. backlog /\ Len(q) # 0
      BY <1>1, <2>1
    <3>2. q[1] = buffer[begin]
      BY <2>1, <2>3, <3>1
    <3> QED
      BY <2>1, <3>1, <3>2
  <2>5. /\ Tail(q) \in Seq(Byte) /\ Len(Tail(q)) = backlog - 1
        /\ \A i \in 1 .. Len(Tail(q)) : Tail(q)[i] = q[i + 1]
    BY <2>1, <2>4, HeadTailProperties
  <2> DEFINE t == Tail(q)
  <2>6. \A i \in 1 .. Len(y) : y[i] = t[i]
    <3>1. ASSUME NEW i \in 1 .. backlog - 1 PROVE y[i] = t[i]
      <4>1. i + 1 \in 1 .. backlog
        BY <1>1
      <4> QED
        BY <2>1, <2>2, <2>5, <4>1
    <3> QED
      BY <2>1, <3>1
  <2>7. t \in Seq(Byte) /\ Len(t) = Len(y)
    BY <2>1, <2>5
  <2> HIDE DEF t
  <2>8. y = t
    BY <2>1, <2>6, <2>7, SeqEqual
  <2> QED
    BY <2>4, <2>8 DEF q, y, t
<1>8. Stream!Take
  BY <1>1, <1>7 DEF Stream!Take
<1> QED
  BY <1>3, <1>8

(* Every other step leaves the ring alone.                                 *)
LEMMA UnreadSame ==
    ASSUME UNCHANGED <<fifo>>
    PROVE  UNCHANGED Unread
BY DEF fifo, Unread, UnreadLen

LEMMA StreamInit == Init => RingInv /\ Stream!Init
<1> SUFFICES ASSUME Init PROVE RingInv /\ Stream!Init
  OBVIOUS
<1>1. RingInv /\ HasRoom
  <2>1. 0 % FifoSize = 0 /\ 0 < FifoSize
    <3>1. 0 < FifoSize /\ 0 \in Nat
      BY FifoSizeType DEF Size
    <3> QED
      BY <3>1, FifoSizeType, ModCases
  <2> QED
    BY <2>1 DEF Init, RingInv, HasRoom
<1>2. Unread = << >>
  <2>1. Unread \in Seq(Byte) /\ Len(Unread) = 0
    BY <1>1, InitTypeOK, UnreadIs DEF UnreadOK, Init
  <2> DEFINE u == Unread
  <2> HIDE DEF u
  <2>2. u \in Seq(Byte) /\ Len(u) = 0
    BY <2>1 DEF u
  <2>3. u = << >>
    BY <2>2
  <2> QED
    BY <2>3 DEF u
<1> QED
  BY <1>1, <1>2 DEF Init, Stream!Init

LEMMA StreamStep ==
    ASSUME TypeOK, TypeOK', RingInv, HasRoom, HasRoom', [Next]_vars
    PROVE  RingInv' /\ [Stream!Next]_Stream!vars
<1> USE DEF Stream!vars
<1>1. ASSUME NEW r \in Requests, Send(r) PROVE RingInv' /\ Stream!Next
  <2> DEFINE w == WireBytes(r.cmd, RequestArgs(r))
             t == toTarget
  <2>1. /\ toTarget' = t \o w
        /\ UNCHANGED <<fifo, pc, got, backlog>>
    BY <1>1 DEF Send
  <2>2. /\ w \in Seq(Byte) /\ Len(w) > 0 /\ t \in Seq(Byte)
    BY RequestBytesType DEF TypeOK
  <2> HIDE DEF w, t
  <2>3. Len(t \o w) > Len(t) /\ SubSeq(t \o w, 1, Len(t)) = t
    <3>1. /\ t \o w \in Seq(Byte) /\ Len(t \o w) = Len(t) + Len(w)
          /\ Len(t) \in Nat /\ Len(w) \in Nat
          /\ \A i \in 1 .. Len(t) : (t \o w)[i] = t[i]
      BY <2>2, ConcatProperties
    <3> DEFINE n == Len(t)
               s == t \o w
    <3>2. n \in Nat /\ s \in Seq(Byte) /\ n < Len(s) /\ Len(s) \in Nat
          /\ \A i \in 1 .. n : s[i] = t[i]
      BY <2>2, <3>1
    <3> HIDE DEF s
    <3>3. /\ SubSeq(s, 1, n) \in Seq(Byte) /\ Len(SubSeq(s, 1, n)) = n
          /\ \A i \in 1 .. n : SubSeq(s, 1, n)[i] = s[i]
      <4> HIDE DEF n
      <4>1. \A i \in 1 .. n : s[i] \in Byte
        <5>1. ASSUME NEW i \in 1 .. n PROVE i \in 1 .. Len(s)
          BY <3>2
        <5> QED
          BY <3>2, <5>1, ElementOfSeq
      <4> QED
        BY <3>2, <4>1, SubSeqProperties
    <3>4. SubSeq(s, 1, n) = t
      <4> DEFINE x == SubSeq(s, 1, n)
      <4>1. /\ x \in Seq(Byte) /\ t \in Seq(Byte) /\ Len(x) = Len(t)
            /\ \A i \in 1 .. Len(x) : x[i] = t[i]
        BY <2>2, <3>2, <3>3
      <4> HIDE DEF x
      <4>2. x = t
        BY <4>1, SeqEqual
      <4> QED
        BY <4>2 DEF x
    <3> QED
      BY <3>2, <3>4 DEF s
  <2>4. Stream!Send
    BY <2>1, <2>3, UnreadSame DEF Stream!Send, t
  <2> QED
    BY <2>1, <2>4 DEF RingInv, fifo, Stream!Next
<1>2. ASSUME NEW n \in 1 .. PacketSize, Receive(n)
      PROVE  RingInv' /\ Stream!Next
  BY <1>2, ReceiveStream DEF Stream!Next
<1>3. CASE DataIn
  <2>1. UNCHANGED <<fifo, pc, got, backlog, toTarget>>
    BY <1>3 DEF DataIn
  <2> QED
    BY <2>1, UnreadSame DEF RingInv, fifo
<1>4. CASE Test
  <2>1. UNCHANGED <<fifo, got, backlog, toTarget>>
    BY <1>4 DEF Test
  <2>2. pc' = "pop" => backlog > 0
    <3>1. ASSUME pc' = "pop", ~(backlog > 0) PROVE FALSE
      <4>1. begin # end
        BY <1>4, <3>1 DEF Test, More
      <4>2. backlog = 0
        BY <3>1 DEF RingInv
      <4>3. begin \in Nat /\ begin < FifoSize /\ begin + 0 = begin
        BY FifoSizeType DEF TypeOK, Slots, Size
      <4>4. begin % FifoSize = begin
        BY <4>3, FifoSizeType, ModCases
      <4> QED
        BY <4>1, <4>2, <4>3, <4>4 DEF RingInv
    <3> QED
      BY <3>1
  <2> QED
    BY <2>1, <2>2, UnreadSame DEF RingInv, fifo
<1>5. CASE Pop
  BY <1>5, PopStream DEF Stream!Next
<1>6. CASE Process
  <2>1. UNCHANGED <<fifo, backlog, toTarget>> /\ got' = << >> /\ pc' = "test"
    BY <1>6 DEF Process
  <2>2. Stream!Finish
    BY <2>1, UnreadSame DEF Stream!Finish
  <2> QED
    BY <2>1, <2>2 DEF RingInv, fifo, Stream!Next
<1>7. CASE UNCHANGED vars
  <2>1. UNCHANGED <<fifo, pc, got, backlog, toTarget>>
    BY <1>7 DEF vars, fifo
  <2> QED
    BY <2>1, UnreadSame DEF RingInv, fifo
<1> QED
  BY <1>1, <1>2, <1>3, <1>4, <1>5, <1>6, <1>7 DEF Next, MainLoop

(* While fewer bytes are waiting than the ring has slots, the bytes the    *)
(* loop reads are those the interrupt received, each once and in order,    *)
(* wherever the interrupt cuts the loop (property FifoIsStream).           *)
THEOREM RingIsStream == Spec /\ []HasRoom => FifoIsStream
<1>1. /\ TypeOK /\ TypeOK' /\ RingInv /\ HasRoom /\ HasRoom' /\ [Next]_vars
      => RingInv' /\ [Stream!Next]_Stream!vars
  BY StreamStep
<1> QED
  BY <1>1, StreamInit, TargetTypeCorrect, PTL
     DEF Spec, Stream!Spec, FifoIsStream

-----------------------------------------------------------------------------
(***************************************************************************)
(* The answers.  While the host waits for each, one frame is on its way:   *)
(* the request, its start in the slave's handle and the rest in what the   *)
(* loop has read, in the ring and on the wire, or its answer.  That is     *)
(* never more than a frame, so the ring, if it is larger, has room.        *)
(***************************************************************************)
Path == got \o (Unread \o toTarget)

RequestWire(r) == WireBytes(r.cmd, RequestArgs(r))

\* The registers hold what the first n requests wrote to them.
Table(n) == \A r \in 0 .. NbRegs - 1 : regs[r] = Held(r, n)

\* The answer that is given, with the byte that a refused get finds in the
\* handle: the one that the answer before left there.
SecondByte(n) ==
    IF issued[n].cmd = SET THEN issued[n].val
    ELSE IF n > 1 /\ Len(answers[n - 1]) = proto_FRAME_MAXSIZE
    THEN answers[n - 1][5]
    ELSE 0
ExpectedAnswer(n) ==
    LET r == issued[n]
    IN  IF r.reg \notin Registers(regs)
        THEN WireBytes(ERR_ARG, <<r.reg, SecondByte(n)>>)
        ELSE WireBytes(REPLY,
                <<IF r.cmd = SET THEN r.reg ELSE Held(r.reg, n - 1), 0>>)

\* What the answer t leaves as the fifth byte of the slave's handle.
LeftBy(t) == IF Len(t) = proto_FRAME_MAXSIZE THEN t[5] ELSE 0
Left == IF answers = << >> THEN 0 ELSE LeftBy(answers[Len(answers)])

Idle ==
    /\ Len(issued) = Len(answers) /\ tx = << >>
    /\ Path = << >> /\ sh.nb = 0 /\ sh.frame[5] = Left
    /\ Table(Len(issued))
Asked ==
    /\ Len(issued) = Len(answers) + 1 /\ tx = << >>
    /\ Comes(sh, Path, RequestWire(issued[Len(issued)]))
    /\ sh.frame[5] = Left
    /\ Table(Len(answers))
Replied ==
    /\ Len(issued) = Len(answers) + 1 /\ tx = ExpectedAnswer(Len(issued))
    /\ Path = << >> /\ sh.nb = 0 /\ sh.frame[5] = LeftBy(tx)
    /\ Table(Len(issued))

AnswersOK == \A n \in 1 .. Len(answers) : answers[n] = ExpectedAnswer(n)

Progress == Idle \/ Asked \/ Replied

StepInv == inStep => HasRoom /\ RingInv /\ AnswersOK /\ Progress

(***************************************************************************)
(* What the register table holds after n requests.                         *)
(***************************************************************************)
Latest(T) == CHOOSE i \in T : \A j \in T : j <= i

LEMMA LatestIn ==
    ASSUME NEW n \in Nat, NEW T, T \subseteq 1 .. n, T # {}
    PROVE  Latest(T) \in T /\ \A j \in T : j <= Latest(T)
<1>1. \E x \in T : \A y \in T : y <= x
  BY LargestBelow
<1> QED
  BY <1>1 DEF Latest

LEMMA HeldIs ==
    ASSUME NEW reg, NEW n
    PROVE  Held(reg, n) = IF LastSet(reg, n) = {} THEN 0
                          ELSE issued[Latest(LastSet(reg, n))].val
BY DEF Held, Latest

LEMMA HeldNext ==
    ASSUME NEW reg, NEW n \in Nat
    PROVE  Held(reg, n + 1) =
              IF issued[n + 1].cmd = SET /\ issued[n + 1].reg = reg
              THEN issued[n + 1].val ELSE Held(reg, n)
<1> DEFINE T == LastSet(reg, n)
           U == LastSet(reg, n + 1)
           c == n + 1
           hit == issued[c].cmd = SET /\ issued[c].reg = reg
<1>1. T \subseteq 1 .. n /\ U \subseteq 1 .. c
  BY DEF LastSet
<1>2. CASE hit
  <2>1. c \in U
    <3>1. c \in 1 .. c
      OBVIOUS
    <3> HIDE DEF c
    <3> QED
      BY <1>2, <3>1 DEF LastSet, c
  <2>2. \A j \in U : j <= c
    BY <1>1
  <2> HIDE DEF U
  <2>3. Latest(U) \in U /\ \A j \in U : j <= Latest(U)
    <3>1. c \in Nat /\ U # {}
      BY <2>1
    <3> HIDE DEF c
    <3> QED
      BY <1>1, <3>1, LatestIn
  <2> DEFINE e == Latest(U)
  <2>4. e \in 1 .. c /\ e <= c /\ c <= e
    BY <1>1, <2>1, <2>2, <2>3
  <2> HIDE DEF e
  <2>5. e = c
    BY <2>4
  <2>6. Held(reg, c) = issued[Latest(U)].val
    BY <2>1, HeldIs DEF U
  <2> HIDE DEF c
  <2> QED
    BY <1>2, <2>5, <2>6 DEF e, c
<1>3. CASE ~hit
  <2>1. U = T
    <3>1. ASSUME NEW i PROVE i \in U <=> i \in T
      <4>1. i \in 1 .. c <=> i \in 1 .. n \/ i = c
        OBVIOUS
      <4> HIDE DEF c
      <4> QED
        BY <1>3, <4>1 DEF LastSet, c
    <3> QED
      BY <3>1
  <2> HIDE DEF T, U
  <2>2. Held(reg, c) = Held(reg, n)
    BY <2>1, HeldIs DEF T, U
  <2> QED
    BY <1>3, <2>2
<1> QED
  BY <1>2, <1>3

LEMMA HeldSame ==
    ASSUME NEW reg, NEW n \in Nat, \A i \in 1 .. n : issued'[i] = issued[i]
    PROVE  Held(reg, n)' = Held(reg, n)
<1> DEFINE T == LastSet(reg, n)
<1>1. LastSet(reg, n)' = T /\ T \subseteq 1 .. n
  BY DEF LastSet
<1> HIDE DEF T
<1>2. Held(reg, n) = IF T = {} THEN 0 ELSE issued[Latest(T)].val
  BY HeldIs DEF T
<1>3. Held(reg, n)' = IF T = {} THEN 0 ELSE issued'[Latest(T)].val
  BY <1>1 DEF Held, Latest
<1>4. ASSUME T # {} PROVE issued'[Latest(T)] = issued[Latest(T)]
  <2>1. Latest(T) \in 1 .. n
    BY <1>1, <1>4, LatestIn
  <2> QED
    BY <2>1
<1> QED
  BY <1>2, <1>3, <1>4

\* What is expected of an answer does not change later.
LEMMA ExpectedSame ==
    ASSUME TypeOK, TypeOK', NEW n \in Nat, n > 0,
           \A i \in 1 .. n : issued'[i] = issued[i],
           \A i \in 1 .. n - 1 : answers'[i] = answers[i]
    PROVE  ExpectedAnswer(n)' = ExpectedAnswer(n)
<1>1. DOMAIN regs = 0 .. NbRegs - 1 /\ DOMAIN regs' = 0 .. NbRegs - 1
  BY DEF TypeOK
<1>2. n \in 1 .. n /\ n - 1 \in Nat /\ \A i \in 1 .. n - 1 : i \in 1 .. n
  OBVIOUS
<1>3. issued'[n] = issued[n]
  BY <1>2
<1>4. \A reg : Held(reg, n - 1)' = Held(reg, n - 1)
  BY <1>2, HeldSame
<1>5. n > 1 => answers'[n - 1] = answers[n - 1]
  <2>1. n > 1 => n - 1 \in 1 .. n - 1
    OBVIOUS
  <2> QED
    BY <2>1
<1>6. SecondByte(n)' = SecondByte(n)
  BY <1>3, <1>5 DEF SecondByte
<1> QED
  BY <1>1, <1>3, <1>4, <1>6 DEF ExpectedAnswer, Registers

(***************************************************************************)
(* What is on its way to the slave.                                        *)
(***************************************************************************)
LEMMA PathParts ==
    ASSUME TypeOK, RingInv, HasRoom
    PROVE  /\ Path \in Seq(Byte)
           /\ Len(Path) = Len(got) + (backlog + Len(toTarget))
           /\ Unread \in Seq(Byte) /\ Len(Unread) = backlog
           /\ got \in Seq(Byte) /\ toTarget \in Seq(Byte)
<1> DEFINE u == Unread
<1>1. /\ u \in Seq(Byte) /\ Len(u) = backlog
      /\ got \in Seq(Byte) /\ toTarget \in Seq(Byte)
  BY UnreadIs DEF UnreadOK, TypeOK
<1> HIDE DEF u
<1> DEFINE v == u \o toTarget
<1>2. v \in Seq(Byte) /\ Len(v) = backlog + Len(toTarget)
  BY <1>1, ConcatProperties
<1> HIDE DEF v
<1>3. got \o v \in Seq(Byte) /\ Len(got \o v) = Len(got) + Len(v)
  BY <1>1, <1>2, ConcatProperties
<1> QED
  BY <1>1, <1>2, <1>3 DEF Path, u, v

LEMMA PathEmpty ==
    ASSUME TypeOK, RingInv, HasRoom, Path = << >>
    PROVE  got = << >> /\ toTarget = << >> /\ backlog = 0
<1>1. /\ Len(Path) = 0 /\ Len(Path) = Len(got) + (backlog + Len(toTarget))
      /\ got \in Seq(Byte) /\ toTarget \in Seq(Byte)
  BY PathParts
<1>2. backlog \in Nat
  BY DEF RingInv
<1> DEFINE a == Len(got)
           b == Len(toTarget)
<1>3. a \in Nat /\ b \in Nat /\ a + (backlog + b) = 0
  BY <1>1
<1> HIDE DEF a, b
<1>4. a = 0 /\ b = 0 /\ backlog = 0
  BY <1>2, <1>3
<1> QED
  BY <1>1, <1>4, EmptySeq DEF a, b

LEMMA PathSame ==
    ASSUME UNCHANGED <<got, toTarget, fifo>>
    PROVE  Path' = Path
<1>1. Unread' = Unread
  BY UnreadSame
<1> QED
  BY <1>1 DEF Path

LEMMA PathReceived ==
    ASSUME TypeOK, TypeOK', RingInv, HasRoom, HasRoom',
           NEW n \in 1 .. PacketSize, Receive(n)
    PROVE  Path' = Path
<1> DEFINE u == Unread
           t == toTarget
           b == SubSeq(t, 1, n)
           r == SubSeq(t, n + 1, Len(t))
<1>1. Stream!Receive
  BY ReceiveStream
<1>2. n \in 1 .. Len(t) /\ toTarget' = r /\ t \in Seq(Byte)
  BY DEF Receive, TypeOK
<1>3. PICK k \in 1 .. Len(t) :
         /\ toTarget' = SubSeq(t, k + 1, Len(t))
         /\ Unread' = Unread \o SubSeq(t, 1, k)
         /\ UNCHANGED got
  BY <1>1 DEF Stream!Receive
<1> DEFINE x == SubSeq(t, 1, k)
           y == SubSeq(t, k + 1, Len(t))
<1>4. x \in Seq(Byte) /\ y \in Seq(Byte) /\ x \o y = t
  <2>1. x \in Seq(Byte) /\ y \in Seq(Byte)
    BY <1>2, SplitType
  <2>2. x \o y = SubSeq(t, 1, Len(t))
    <3> DEFINE l == Len(t)
               m == 1
    <3>1. m \in 1 .. l + 1 /\ k \in m - 1 .. l /\ l \in k .. l /\ l \in Nat
          /\ l = Len(t)
      BY <1>2
    <3> HIDE DEF l, m
    <3>2. SubSeq(t, m, k) \o SubSeq(t, k + 1, l) = SubSeq(t, m, l)
      BY <1>2, <3>1, ConcatAdjacentSubSeq
    <3> QED
      BY <3>2 DEF l, m
  <2>3. SubSeq(t, 1, Len(t)) = t
    BY <1>2, SubSeqFull
  <2> QED
    BY <2>1, <2>2, <2>3
<1>5. u \in Seq(Byte)
  BY UnreadIs DEF UnreadOK
<1> HIDE DEF u, x, y
<1>6. (u \o x) \o y = u \o (x \o y)
  <2>1. x \in Seq(Byte) /\ y \in Seq(Byte)
    BY <1>4
  <2> QED
    BY <1>5, <2>1, ConcatAssociative
<1> QED
  BY <1>3, <1>4, <1>6 DEF Path, u, x, y

LEMMA PathPopped ==
    ASSUME TypeOK, TypeOK', RingInv, HasRoom, HasRoom', Pop
    PROVE  Path' = Path
<1> DEFINE u == Unread
           h == Head(u)
           r == Tail(u)
<1>1. u \in Seq(Byte) /\ got \in Seq(Byte) /\ toTarget \in Seq(Byte)
  BY UnreadIs DEF UnreadOK, TypeOK
<1>2. /\ u # << >> /\ got' = Append(got, h)
      /\ Unread' = r /\ toTarget' = toTarget
  <2>1. Stream!Take
    BY PopStream
  <2> QED
    BY <2>1 DEF Stream!Take
<1> HIDE DEF u
<1>3. h \in Byte /\ r \in Seq(Byte) /\ u = <<h>> \o r
  <2>1. /\ h \in Byte /\ r \in Seq(Byte) /\ Len(r) = Len(u) - 1
        /\ h = u[1] /\ \A i \in 1 .. Len(r) : r[i] = u[i + 1]
    BY <1>1, <1>2, HeadTailProperties, ElementOfSeq
  <2> DEFINE e == <<h>>
             v == e \o r
             l == Len(u)
  <2>2. e \in Seq(Byte) /\ Len(e) = 1 /\ e[1] = h /\ l \in Nat /\ l # 0
    BY <1>1, <1>2, <2>1
  <2> HIDE DEF e, h, r
  <2>3. /\ v \in Seq(Byte) /\ Len(v) = 1 + Len(r)
        /\ \A i \in 1 .. 1 + Len(r) : v[i] = IF i <= 1 THEN e[i] ELSE r[i - 1]
    <3>1. e \in Seq(Byte) /\ r \in Seq(Byte)
      BY <2>1, <2>2
    <3>2. /\ v \in Seq(Byte) /\ Len(v) = Len(e) + Len(r)
          /\ \A i \in 1 .. Len(e) + Len(r) :
                v[i] = IF i <= Len(e) THEN e[i] ELSE r[i - Len(e)]
      BY <3>1, ConcatProperties
    <3> QED
      BY <2>2, <3>2
  <2> HIDE DEF v
  <2>4. Len(v) = l /\ Len(r) = l - 1
    BY <2>1, <2>2, <2>3
  <2> HIDE DEF l
  <2>5. ASSUME NEW i \in 1 .. l PROVE v[i] = u[i]
    <3>1. CASE i = 1
      BY <2>1, <2>2, <2>3, <2>4, <3>1
    <3>2. CASE i # 1
      <4>1. /\ i \in 1 .. 1 + (l - 1) /\ ~(i <= 1) /\ i - 1 \in 1 .. l - 1
            /\ (i - 1) + 1 = i
        BY <2>2, <3>2
      <4> QED
        BY <2>1, <2>3, <2>4, <4>1
    <3> QED
      BY <3>1, <3>2
  <2>6. v = u
    BY <1>1, <2>3, <2>4, <2>5, SeqEqual DEF l
  <2> QED
    BY <2>1, <2>6 DEF v, e
<1> HIDE DEF h, r
<1>4. /\ <<h>> \in Seq(Byte)
      /\ Append(got, h) = got \o <<h>>
  BY <1>1, <1>3, AppendIsConcat
<1> DEFINE e == <<h>>
<1> HIDE DEF e
<1>5. (got \o e) \o (r \o toTarget) = got \o ((e \o r) \o toTarget)
  <2> DEFINE v == r \o toTarget
  <2>1. v \in Seq(Byte) /\ e \in Seq(Byte)
    BY <1>1, <1>3, <1>4, ConcatProperties DEF e
  <2>2. (e \o r) \o toTarget = e \o v
    BY <1>1, <1>3, <2>1, ConcatAssociative
  <2> HIDE DEF v
  <2>3. (got \o e) \o v = got \o (e \o v)
    BY <1>1, <2>1, ConcatAssociative
  <2> QED
    BY <2>2, <2>3 DEF v
<1> QED
  BY <1>2, <1>3, <1>4, <1>5 DEF Path, u, e

LEMMA LastRequest ==
    ASSUME TypeOK, Len(issued) = Len(answers) + 1
    PROVE  LET r == issued[Len(issued)]
           IN  /\ r \in Request /\ RequestWire(r) \in Seq(Byte)
               /\ Len(RequestWire(r)) = FrameLen(r.cmd)
               /\ Len(RequestWire(r)) \in 4 .. 5
               /\ RequestWire(r)[1] = proto_START_OF_FRAME
               /\ FrameLen(RequestWire(r)[3]) = Len(RequestWire(r))
<1> DEFINE n == Len(issued)
           r == issued[n]
<1>1. n \in Nat /\ n > 0
  <2>1. issued \in Seq(Request) /\ answers \in Seq(Seq(Byte))
    BY DEF TypeOK
  <2> DEFINE m == Len(answers)
  <2>2. m \in Nat /\ n = m + 1
    BY <2>1
  <2> HIDE DEF m, n
  <2> QED
    BY <2>2
<1>2. r \in Request
  <2>1. n \in 1 .. n /\ issued \in Seq(Request)
    BY <1>1 DEF TypeOK
  <2> QED
    BY <2>1, ElementOfSeq
<1> HIDE DEF r
<1>3. RequestArgs(r) \in Args /\ r.cmd \in 0 .. 4
  BY <1>2, RequestArgsType
<1> QED
  BY <1>2, <1>3, Wire DEF RequestWire, r, n

LEMMA SmallPath ==
    ASSUME TypeOK, HasRoom, RingInv, Progress
    PROVE  Len(Path) <= 5
<1> DEFINE l == Len(Path)
<1>1. l \in Nat
  BY PathParts
<1>2. CASE Idle \/ Replied
  <2>1. Path = << >>
    BY <1>2 DEF Idle, Replied
  <2> QED
    BY <2>1
<1>3. CASE Asked
  <2> DEFINE m == Len(RequestWire(issued[Len(issued)]))
             k == sh.nb
  <2>1. m \in 4 .. 5
    BY <1>3, LastRequest DEF Asked
  <2>2. k \in 0 .. 5
    BY DEF TypeOK, Handle, proto_FRAME_MAXSIZE
  <2>3. k + l = m
    BY <1>3 DEF Asked, Comes
  <2> HIDE DEF k, l, m
  <2>4. l <= 5
    BY <1>1, <2>1, <2>2, <2>3
  <2> QED
    BY <2>4 DEF l
<1> QED
  BY <1>2, <1>3 DEF Progress

LEMMA RoomNext ==
    ASSUME FifoSize > 5, TypeOK, HasRoom, RingInv, Progress, [Next]_vars
    PROVE  HasRoom'
<1> DEFINE a == Len(got)
           b == Len(toTarget)
<1>1. /\ a \in Nat /\ b \in Nat /\ backlog \in Nat
      /\ a + (backlog + b) <= 5 /\ FifoSize \in Nat
  BY PathParts, SmallPath, FifoSizeType DEF RingInv, Size
<1> HIDE DEF a
<1>2. \/ backlog' = backlog \/ backlog' = backlog - 1
      \/ \E n \in 1 .. b : backlog' = backlog + n
  <2>1. ASSUME NEW r \in Requests, Send(r) PROVE backlog' = backlog
    BY <2>1 DEF Send
  <2>2. ASSUME NEW n \in 1 .. PacketSize, Receive(n)
        PROVE  n \in 1 .. b /\ backlog' = backlog + n
    BY <2>2 DEF Receive
  <2>3. CASE DataIn
    BY <2>3 DEF DataIn
  <2>4. CASE Test
    BY <2>4 DEF Test
  <2>5. CASE Pop
    BY <2>5 DEF Pop
  <2>6. CASE Process
    BY <2>6 DEF Process
  <2>7. CASE UNCHANGED vars
    BY <2>7 DEF vars
  <2> HIDE DEF b
  <2> QED
    BY <2>1, <2>2, <2>3, <2>4, <2>5, <2>6, <2>7 DEF Next, MainLoop
<1> HIDE DEF b
<1>3. backlog' <= 5
  <2>1. ASSUME NEW n \in 1 .. b, backlog' = backlog + n PROVE backlog' <= 5
    BY <1>1, <2>1
  <2>2. CASE backlog' = backlog
    BY <1>1, <2>2
  <2>3. CASE backlog' = backlog - 1
    BY <1>1, <2>3
  <2> QED
    BY <1>2, <2>1, <2>2, <2>3
<1>4. backlog' \in Int
  BY <1>1, <1>2
<1> QED
  BY <1>1, <1>3, <1>4 DEF HasRoom

(***************************************************************************)
(* The steps that leave the exchange where it is.                          *)
(***************************************************************************)
LEMMA StaySame ==
    ASSUME TypeOK, TypeOK', AnswersOK, Progress, Path' = Path,
           UNCHANGED <<tx, sh, regs, issued, answers>>
    PROVE  AnswersOK' /\ Progress'
<1>1. issued \in Seq(Request) /\ answers \in Seq(Seq(Byte))
  BY DEF TypeOK
<1> DEFINE k == Len(issued)
           m == Len(answers)
<1>2. k \in Nat /\ m \in Nat
  BY <1>1
<1>3. \A n \in Nat : Table(n)' <=> Table(n)
  <2>1. \A reg : \A n \in Nat : Held(reg, n)' = Held(reg, n)
    BY HeldSame
  <2> QED
    BY <2>1 DEF Table
<1>4. \A n \in Nat : n > 0 => ExpectedAnswer(n)' = ExpectedAnswer(n)
  BY ExpectedSame
<1>5. Left' = Left
  BY DEF Left, LeftBy
<1>6. AnswersOK'
  <2>1. ASSUME NEW n \in 1 .. m PROVE answers'[n] = ExpectedAnswer(n)'
    <3>1. n \in Nat /\ n > 0
      BY <1>2
    <3> QED
      BY <1>4, <3>1 DEF AnswersOK
  <2> QED
    BY <2>1 DEF AnswersOK
<1>7. CASE Idle
  <2>1. Table(k)'
    BY <1>2, <1>3, <1>7 DEF Idle
  <2>2. Idle'
    BY <1>5, <1>7, <2>1 DEF Idle
  <2> QED
    BY <1>6, <2>2 DEF Progress
<1>8. CASE Asked
  <2>1. Table(m)'
    BY <1>2, <1>3, <1>8 DEF Asked
  <2>2. Asked'
    BY <1>5, <1>8, <2>1 DEF Asked, RequestWire
  <2> QED
    BY <1>6, <2>2 DEF Progress
<1>9. CASE Replied
  <2>1. Table(k)'
    BY <1>2, <1>3, <1>9 DEF Replied
  <2>2. k > 0
    BY <1>2, <1>9 DEF Replied
  <2>3. ExpectedAnswer(k)' = ExpectedAnswer(k)
    BY <1>2, <1>4, <2>2
  <2>4. Replied'
    BY <1>9, <2>1, <2>3 DEF Replied, LeftBy
  <2> QED
    BY <1>6, <2>4 DEF Progress
<1> QED
  BY <1>7, <1>8, <1>9 DEF Progress

(***************************************************************************)
(* The host sends a request, or collects an answer.                        *)
(***************************************************************************)
LEMMA SendStep ==
    ASSUME TypeOK, TypeOK', HasRoom, RingInv, AnswersOK, Progress,
           NEW r \in Requests, Send(r), inStep'
    PROVE  AnswersOK' /\ Progress'
<1> DEFINE w == RequestWire(r)
           k == Len(issued)
           m == Len(answers)
<1>1. /\ toTarget' = toTarget \o w /\ issued' = Append(issued, r)
      /\ k = m
      /\ UNCHANGED <<fifo, tx, got, sh, regs, answers>>
  BY DEF Send, RequestWire
<1>2. k \in Nat /\ m \in Nat /\ issued \in Seq(Request)
  BY DEF TypeOK
<1>3. /\ Len(issued') = k + 1 /\ issued'[k + 1] = r
      /\ \A i \in 1 .. k : issued'[i] = issued[i]
  BY <1>1, <1>2
<1>4. /\ tx = << >> /\ Path = << >> /\ sh.nb = 0 /\ sh.frame[5] = Left
      /\ Table(k)
  <2>1. k # m + 1
    BY <1>1, <1>2
  <2>2. Idle
    BY <2>1 DEF Progress, Asked, Replied
  <2> QED
    BY <2>2 DEF Idle
<1>5. ASSUME NEW reg PROVE Held(reg, m)' = Held(reg, m)
  <2>1. PICK n \in Nat : n = m
    BY <1>2
  <2>2. \A i \in 1 .. n : issued'[i] = issued[i]
    BY <1>1, <1>3, <2>1
  <2>3. Held(reg, n)' = Held(reg, n)
    BY <2>2, HeldSame
  <2> QED
    BY <1>1, <2>1, <2>3
<1>6. AnswersOK'
  <2>1. ASSUME NEW n \in 1 .. m PROVE answers'[n] = ExpectedAnswer(n)'
    <3>1. n \in Nat /\ n > 0 /\ \A i \in 1 .. n : i \in 1 .. k
      BY <1>1, <1>2
    <3>2. /\ \A i \in 1 .. n : issued'[i] = issued[i]
          /\ \A i \in 1 .. n - 1 : answers'[i] = answers[i]
      BY <1>1, <1>3, <3>1
    <3>3. ExpectedAnswer(n)' = ExpectedAnswer(n)
      BY <3>1, <3>2, ExpectedSame
    <3> QED
      BY <1>1, <3>3 DEF AnswersOK
  <2> QED
    BY <1>1, <2>1 DEF AnswersOK
<1>7. Table(m)'
  BY <1>1, <1>4, <1>5 DEF Table
<1>8. w \in Seq(Byte) /\ Len(w) \in Nat /\ Len(w) > 0
  BY RequestBytesType DEF RequestWire
<1> HIDE DEF w
<1>9. Path' = w
  <2>1. got = << >> /\ toTarget = << >> /\ Unread = << >>
    <3>1. got = << >> /\ toTarget = << >> /\ backlog = 0
      BY <1>4, PathEmpty
    <3>2. Unread \in Seq(Byte) /\ Len(Unread) = 0
      BY <3>1, PathParts
    <3> DEFINE u == Unread
    <3> HIDE DEF u
    <3>3. u \in Seq(Byte) /\ Len(u) = 0
      BY <3>2 DEF u
    <3>4. u = << >>
      BY <3>3, EmptySeq
    <3> QED
      BY <3>1, <3>4 DEF u
  <2>2. Unread' = << >>
    BY <1>1, <2>1, UnreadSame
  <2>3. << >> \o w = w /\ << >> \in Seq(Byte)
    BY <1>8, ConcatEmptySeq
  <2> QED
    BY <1>1, <2>1, <2>2, <2>3 DEF Path
<1>10. Comes(sh, w, w)
  <2>1. sh \in Handle
    BY DEF TypeOK
  <2>2. Holds(sh, w, 0)
    BY <1>4, <2>1 DEF Holds
  <2>3. \A i \in 1 .. Len(w) : 0 + i = i
    BY <1>8
  <2> QED
    BY <1>4, <1>8, <2>2, <2>3 DEF Comes
<1>11. Left' = Left
  BY <1>1 DEF Left, LeftBy
<1>12. Asked'
  BY <1>1, <1>3, <1>4, <1>7, <1>9, <1>10, <1>11 DEF Asked, w, RequestWire
<1> QED
  BY <1>6, <1>12 DEF Progress

LEMMA CollectStep ==
    ASSUME TypeOK, TypeOK', AnswersOK, Progress, DataIn
    PROVE  AnswersOK' /\ Progress'
<1> DEFINE k == Len(issued)
           m == Len(answers)
<1>1. /\ tx # << >> /\ answers' = Append(answers, tx) /\ tx' = << >>
      /\ UNCHANGED <<toTarget, fifo, got, sh, regs, issued>>
  BY DEF DataIn
<1>2. k \in Nat /\ m \in Nat /\ answers \in Seq(Seq(Byte))
  BY DEF TypeOK
<1>3. /\ Len(answers') = m + 1 /\ answers'[m + 1] = tx /\ answers' # << >>
      /\ \A i \in 1 .. m : answers'[i] = answers[i]
  BY <1>1, <1>2
<1>4. /\ k = m + 1 /\ tx = ExpectedAnswer(k)
      /\ Path = << >> /\ sh.nb = 0 /\ sh.frame[5] = LeftBy(tx)
      /\ Table(k)
  BY <1>1 DEF Progress, Idle, Asked, Replied
<1>5. ASSUME NEW n \in 1 .. k PROVE ExpectedAnswer(n)' = ExpectedAnswer(n)
  <2>1. n \in Nat /\ n > 0 /\ \A i \in 1 .. n - 1 : i \in 1 .. m
    BY <1>2, <1>4
  <2>2. \A i \in 1 .. n - 1 : answers'[i] = answers[i]
    BY <1>3, <2>1
  <2> QED
    BY <1>1, <2>1, <2>2, ExpectedSame
<1>6. AnswersOK'
  <2>1. ASSUME NEW n \in 1 .. k PROVE answers'[n] = ExpectedAnswer(n)'
    <3>1. n \in 1 .. m \/ n = k
      BY <1>2, <1>4
    <3> QED
      BY <1>3, <1>4, <1>5, <3>1 DEF AnswersOK
  <2> QED
    BY <1>3, <1>4, <2>1 DEF AnswersOK
<1>7. Table(k)'
  <2>1. \A reg : Held(reg, k)' = Held(reg, k)
    BY <1>1, <1>2, HeldSame
  <2> QED
    BY <1>1, <1>4, <2>1 DEF Table
<1>8. Left' = LeftBy(tx)
  BY <1>3 DEF Left, LeftBy
<1>9. Path' = Path
  BY <1>1, PathSame
<1>10. Idle'
  BY <1>1, <1>3, <1>4, <1>7, <1>8, <1>9 DEF Idle
<1> QED
  BY <1>6, <1>10 DEF Progress

(***************************************************************************)
(* The loop ends its iteration: it has read nothing, a part of the         *)
(* request, or the end of it, and then it serves it.                       *)
(***************************************************************************)
LEMMA AnswerExpected ==
    ASSUME TypeOK, Asked, NEW g,
           RefusedByte(issued[Len(issued)], g) = SecondByte(Len(issued))
    PROVE  LET r == issued[Len(issued)]
               t == AnswerTo(r, NbRegs, regs, g)
           IN  /\ t = ExpectedAnswer(Len(issued))
               /\ LeftBy(t) = IF r.reg \in 0 .. NbRegs - 1 THEN 0
                              ELSE RefusedByte(r, g)
<1> DEFINE k == Len(issued)
           r == issued[k]
           b == SecondByte(k)
           t == AnswerTo(r, NbRegs, regs, g)
<1>1. k = Len(answers) + 1 /\ Table(Len(answers)) /\ Len(answers) \in Nat
  BY DEF Asked, TypeOK
<1>2. r \in Request
  BY <1>1, LastRequest
<1>3. DOMAIN regs = 0 .. NbRegs - 1 /\ regs \in [0 .. NbRegs - 1 -> Byte]
  BY DEF TypeOK
<1>4. RefusedByte(r, g) = b
  OBVIOUS
<1>5. k - 1 = Len(answers)
  <2> DEFINE m == Len(answers)
  <2>1. m \in Nat /\ k = m + 1
    BY <1>1
  <2> HIDE DEF m, k
  <2> QED
    BY <2>1 DEF m
<1> HIDE DEF k, r, b
<1>6. CASE r.reg \in 0 .. NbRegs - 1
  <2> DEFINE v == IF r.cmd = SET THEN r.reg ELSE regs[r.reg]
  <2>1. regs[r.reg] = Held(r.reg, k - 1)
    BY <1>1, <1>5, <1>6 DEF Table
  <2>2. t = WireBytes(REPLY, <<v, 0>>)
    BY <1>6 DEF AnswerTo
  <2>3. t = ExpectedAnswer(k)
    BY <1>3, <1>6, <2>1, <2>2 DEF ExpectedAnswer, Registers, r
  <2>4. v \in Byte /\ 0 \in Byte
    BY <1>2, <1>3, <1>6 DEF Request, Byte
  <2> HIDE DEF v
  <2>5. <<v, 0>> \in Args /\ REPLY \in Byte
    <3>1. REPLY \in Byte
      BY DEF REPLY, Byte
    <3> QED
      BY <2>4, <3>1, ArgsDef
  <2>6. FrameLen(REPLY) = 4
    BY DEF FrameLen, proto_ARGS_OFFSET, REPLY, proto_getArgsSize, proto_LAST,
           ArgsLut
  <2>7. Len(WireBytes(REPLY, <<v, 0>>)) = 4
    BY <2>5, <2>6, WireBytesType
  <2>8. LeftBy(t) = 0
    BY <2>2, <2>7 DEF LeftBy, proto_FRAME_MAXSIZE
  <2> QED
    BY <1>6, <2>3, <2>8 DEF k, r
<1>7. CASE r.reg \notin 0 .. NbRegs - 1
  <2>1. t = WireBytes(ERR_ARG, <<r.reg, b>>)
    BY <1>4, <1>7 DEF AnswerTo
  <2>2. t = ExpectedAnswer(k)
    BY <1>3, <1>7, <2>1 DEF ExpectedAnswer, Registers, r, b
  <2>3. b \in Byte
    <3>1. CASE r.cmd = SET
      BY <1>2, <3>1 DEF b, SecondByte, r, Request
    <3>2. CASE r.cmd # SET
      <4>1. CASE k > 1 /\ Len(answers[k - 1]) = proto_FRAME_MAXSIZE
        <5> DEFINE a == answers[k - 1]
        <5>1. a \in Seq(Byte)
          <6>1. answers \in Seq(Seq(Byte)) /\ k - 1 \in 1 .. Len(answers)
            BY <1>1, <1>5, <4>1 DEF TypeOK
          <6> QED
            BY <6>1, ElementOfSeq
        <5>2. Len(a) = 5
          BY <4>1 DEF proto_FRAME_MAXSIZE
        <5> HIDE DEF a
        <5>3. 5 \in 1 .. Len(a)
          BY <5>2
        <5>4. a[5] \in Byte
          BY <5>1, <5>3, ElementOfSeq
        <5> QED
          BY <3>2, <4>1, <5>4 DEF b, SecondByte, r, a
      <4>2. CASE ~(k > 1 /\ Len(answers[k - 1]) = proto_FRAME_MAXSIZE)
        BY <3>2, <4>2 DEF b, SecondByte, r, Byte
      <4> QED
        BY <4>1, <4>2
    <3> QED
      BY <3>1, <3>2
  <2>4. <<r.reg, b>> \in Args /\ ERR_ARG \in Byte
    <3>1. ERR_ARG \in Byte /\ r.reg \in Byte
      BY <1>2 DEF Request, ERR_ARG, Byte
    <3> QED
      BY <2>3, <3>1, ArgsDef
  <2>5. FrameLen(ERR_ARG) = 5 /\ proto_getArgsSize(ERR_ARG) = 2
    BY DEF FrameLen, proto_ARGS_OFFSET, ERR_ARG, proto_getArgsSize,
           proto_LAST, ArgsLut
  <2> DEFINE args == <<r.reg, b>>
  <2>6. args \in Args /\ args[2] = b
    BY <2>4
  <2>7. t = WireBytes(ERR_ARG, args)
    BY <2>1
  <2> HIDE DEF args, t
  <2>8. Len(t) = 5 /\ t[5] = proto_makeFrame(ERR_ARG, args)[5]
    <3>1. 5 \in 1 .. 5
      OBVIOUS
    <3> QED
      BY <2>4, <2>5, <2>6, <2>7, <3>1, WireBytesType
  <2>9. proto_makeFrame(ERR_ARG, args)[5] = b
    BY <2>4, <2>5, <2>6, MakeFrameType
  <2>10. LeftBy(t) = b
    BY <2>8, <2>9 DEF LeftBy, proto_FRAME_MAXSIZE
  <2> QED
    BY <1>4, <1>7, <2>2, <2>10 DEF k, r, t
<1> QED
  BY <1>6, <1>7

LEMMA ProcessPart ==
    ASSUME TypeOK, TypeOK', HasRoom, RingInv, AnswersOK, Asked, Process,
           got # << >>
    PROVE  AnswersOK' /\ Progress'
<1> DEFINE k == Len(issued)
           r == issued[k]
           w == RequestWire(r)
           x == got
           y == Unread \o toTarget
           f == proto_readFrame(sh, x)
           g == f.hdle
           s == proto_slave_main(sh, regs, x)
<1>1. /\ sh' = s.hdle /\ regs' = s.regs /\ tx' = Transmit(s.reply)
      /\ got' = << >> /\ UNCHANGED <<toTarget, fifo, issued, answers>>
  BY DEF Process, host
<1>2. /\ r \in Request /\ w \in Seq(Byte) /\ Len(w) = FrameLen(r.cmd)
      /\ Len(w) \in 4 .. 5 /\ w[1] = proto_START_OF_FRAME
      /\ FrameLen(w[3]) = Len(w)
  BY LastRequest DEF Asked
<1>3. /\ k = Len(answers) + 1 /\ tx = << >> /\ sh.frame[5] = Left
      /\ Table(Len(answers)) /\ Comes(sh, x \o y, w)
  BY DEF Asked, Path
<1>4. Len(answers) \in Nat /\ x \in Seq(Byte) /\ sh \in Handle
      /\ regs \in [0 .. NbRegs - 1 -> Byte]
  BY DEF TypeOK
<1>5. y \in Seq(Byte) /\ Unread' = Unread
  <2>1. Unread \in Seq(Byte) /\ toTarget \in Seq(Byte)
    BY PathParts
  <2> QED
    BY <1>1, <2>1, UnreadSame, ConcatProperties
<1>6. Path' = y
  <2>1. << >> \o y = y
    BY <1>5, ConcatEmptySeq
  <2> QED
    BY <1>1, <1>5, <2>1 DEF Path
<1> HIDE DEF x, y, w, r
<1>7. \/ /\ Holds(g, w, Len(w)) /\ f.status = "NO_ERROR"
         /\ y = << >>
      \/ /\ \E m \in 0 .. Len(w) - 1 : Holds(g, w, m)
         /\ Comes(g, y, w)
  BY <1>2, <1>3, <1>4, <1>5, ComesRead DEF x
<1>8. g.nb < 5 => g.frame[5] = Left
  BY <1>3, <1>4, ReadKeeps
<1> HIDE DEF f, s
<1>9. Left' = Left
  BY <1>1 DEF Left, LeftBy
<1>10. \A reg : \A n \in Nat : Held(reg, n)' = Held(reg, n)
  BY <1>1, HeldSame
<1>11. ASSUME NEW n \in 1 .. k PROVE ExpectedAnswer(n)' = ExpectedAnswer(n)
  <2>1. n \in Nat /\ n > 0
    BY <1>3, <1>4
  <2> QED
    BY <1>1, <2>1, ExpectedSame
<1>12. k \in 1 .. k /\ k \in Nat /\ k' = k
       /\ \A n \in 1 .. Len(answers) : n \in 1 .. k
  <2> DEFINE m == Len(answers)
  <2>1. m \in Nat /\ k = m + 1 /\ k' = k
    BY <1>1, <1>3, <1>4
  <2> HIDE DEF k, m
  <2>2. k \in 1 .. k /\ k \in Nat /\ \A n \in 1 .. m : n \in 1 .. k
    BY <2>1
  <2> QED
    BY <2>1, <2>2 DEF m
<1>13. AnswersOK'
  <2>1. ASSUME NEW n \in 1 .. Len(answers)
        PROVE  answers'[n] = ExpectedAnswer(n)'
    BY <1>1, <1>11, <1>12 DEF AnswersOK
  <2> QED
    BY <1>1, <2>1 DEF AnswersOK
<1>14. r' = r /\ w' = w
  BY <1>1 DEF w, r
<1>15. CASE /\ \E m \in 0 .. Len(w) - 1 : Holds(g, w, m)
            /\ Comes(g, y, w)
  <2>1. PICK m \in 0 .. Len(w) - 1 : Holds(g, w, m)
    BY <1>15
  <2>2. g.nb < 5
    <3>1. g.nb = m
      BY <2>1 DEF Holds
    <3> QED
      BY <1>2, <2>1, <3>1
  <2>3. NoAnswer(s, g, regs)
    <3> DEFINE l == Len(w)
    <3>1. l \in 3 .. 5 /\ FrameLen(w[3]) = l /\ m \in 0 .. l - 1
      BY <1>2
    <3> HIDE DEF l
    <3>2. Holds(proto_readFrame(sh, x).hdle, w, m)
      BY <2>1 DEF f
    <3> QED
      BY <3>1, <3>2, SlaveWaits DEF f, s
  <2>4. sh' = g /\ regs' = regs /\ tx' = << >>
    BY <1>1, <1>3, <2>3 DEF NoAnswer, Transmit
  <2>5. Table(Len(answers))'
    <3>1. PICK n \in Nat : n = Len(answers)
      BY <1>4
    <3> QED
      BY <1>1, <1>3, <1>10, <2>4, <3>1 DEF Table
  <2>6. Comes(sh, Path, w)'
    BY <1>6, <1>14, <1>15, <2>4
  <2>7. Asked'
    BY <1>1, <1>3, <1>8, <1>9, <2>2, <2>4, <2>5, <2>6 DEF Asked, w, r
  <2> QED
    BY <1>13, <2>7 DEF Progress
<1>16. CASE /\ Holds(g, w, Len(w)) /\ f.status = "NO_ERROR"
            /\ y = << >>
  <2>1. /\ Holds(proto_readFrame(sh, x).hdle,
                 WireBytes(r.cmd, RequestArgs(r)), FrameLen(r.cmd))
        /\ proto_readFrame(sh, x).status = "NO_ERROR"
    BY <1>2, <1>16 DEF f, w, RequestWire
  <2>2. Serves(s, NbRegs, regs, r)
    BY <1>2, <1>4, <2>1, NbRegsType, SlaveEnds DEF s
  <2>3. /\ s.reply = AnswerTo(r, NbRegs, regs, g)
        /\ s.hdle.frame[5] = IF r.reg \in 0 .. NbRegs - 1 THEN 0
                             ELSE RefusedByte(r, g)
    <3>1. Answers(proto_slave_main(sh, regs, x),
                  proto_readFrame(sh, x).hdle, NbRegs, regs, r)
      BY <1>2, <1>4, <2>1, NbRegsType, SlaveAnswers
    <3> QED
      BY <3>1 DEF s, f, Answers
  <2>4. RefusedByte(r, g) = SecondByte(k)
    <3>1. CASE r.cmd = SET
      BY <3>1 DEF RefusedByte, SecondByte, r
    <3>2. CASE r.cmd # SET
      <4>1. r.cmd = GET /\ FrameLen(GET) = 4
        BY <1>2, <3>2, RequestArgsType
           DEF GET, SET, FrameLen, proto_ARGS_OFFSET, proto_getArgsSize,
               proto_LAST, ArgsLut
      <4>2. g.nb = 4
        BY <1>2, <1>16, <4>1 DEF Holds
      <4>3. g.frame[5] = Left
        BY <1>8, <4>2
      <4>4. (answers = << >>) = (~(k > 1)) /\ k - 1 = Len(answers)
        <5> DEFINE m == Len(answers)
        <5>1. m \in Nat /\ k = m + 1 /\ ((answers = << >>) = (m = 0))
          <6>1. answers \in Seq(Seq(Byte))
            BY DEF TypeOK
          <6>2. (answers = << >>) = (m = 0)
            BY <6>1, EmptySeq
          <6> QED
            BY <1>3, <1>4, <6>2
        <5> HIDE DEF m, k
        <5>2. k - 1 = m /\ (k > 1 <=> ~(m = 0))
          BY <5>1
        <5> QED
          BY <5>1, <5>2 DEF m
      <4>5. Left = IF k > 1 /\ Len(answers[k - 1]) = proto_FRAME_MAXSIZE
                   THEN answers[k - 1][5] ELSE 0
        <5> HIDE DEF k
        <5>1. CASE k > 1
          BY <4>4, <5>1 DEF Left, LeftBy
        <5>2. CASE ~(k > 1)
          BY <4>4, <5>2 DEF Left
        <5> QED
          BY <5>1, <5>2
      <4> HIDE DEF g, k
      <4> QED
        BY <3>2, <4>3, <4>5 DEF RefusedByte, SecondByte, r
    <3> QED
      BY <3>1, <3>2
  <2> DEFINE t == AnswerTo(r, NbRegs, regs, g)
  <2>5. /\ t = ExpectedAnswer(k)
        /\ LeftBy(t) = IF r.reg \in 0 .. NbRegs - 1 THEN 0
                       ELSE RefusedByte(r, g)
    <3> HIDE DEF g
    <3> QED
      BY <2>4, AnswerExpected DEF r
  <2> HIDE DEF t, g
  <2>6. tx' = ExpectedAnswer(k) /\ sh'.frame[5] = LeftBy(tx') /\ sh'.nb = 0
    <3>1. tx' = t
      BY <1>1, <1>3, <2>3 DEF Transmit, t
    <3>2. s.hdle.nb = 0
      BY <2>2 DEF Serves
    <3> QED
      BY <1>1, <2>3, <2>5, <3>1, <3>2
  <2>7. ExpectedAnswer(k)' = ExpectedAnswer(k)
    BY <1>11, <1>12
  <2>8. Table(k)'
    <3>1. PICK n \in Nat : n = Len(answers)
      BY <1>4
    <3>2. k = n + 1
      BY <1>3, <3>1
    <3>3. regs' = IF r.cmd = SET /\ r.reg \in 0 .. NbRegs - 1
                  THEN [regs EXCEPT ![r.reg] = r.val] ELSE regs
      BY <1>1, <2>2 DEF Serves
    <3>4. \A e \in 0 .. NbRegs - 1 : regs[e] = Held(e, n)
      BY <1>3, <3>1 DEF Table
    <3>5. ASSUME NEW e \in 0 .. NbRegs - 1 PROVE regs'[e] = Held(e, n + 1)'
      <4>1. Held(e, n + 1) = IF r.cmd = SET /\ r.reg = e
                             THEN r.val ELSE Held(e, n)
        BY <3>2, HeldNext DEF r
      <4>2. regs'[e] = IF r.cmd = SET /\ r.reg = e
                       THEN r.val ELSE regs[e]
        BY <1>4, <3>3
      <4>3. Held(e, n + 1)' = Held(e, n + 1)
        BY <1>10
      <4> QED
        BY <3>4, <4>1, <4>2, <4>3
    <3>6. Table(n + 1)'
      BY <3>5 DEF Table
    <3> QED
      BY <1>12, <3>2, <3>6 DEF Table
  <2>9. Path' = << >>
    BY <1>6, <1>16
  <2>10. k' = Len(answers') + 1
    BY <1>1, <1>3
  <2>11. Replied'
    <3>1. ExpectedAnswer(k)' = tx'
      BY <2>6, <2>7
    <3> QED
      BY <2>6, <2>8, <2>9, <2>10, <3>1 DEF Replied
  <2> QED
    BY <1>13, <2>11 DEF Progress
<1> QED
  BY <1>7, <1>15, <1>16

LEMMA ProcessStep ==
    ASSUME TypeOK, TypeOK', HasRoom, RingInv, AnswersOK, Progress, Process
    PROVE  AnswersOK' /\ Progress'
<1>1. CASE got = << >>
  <2> DEFINE s == proto_slave_main(sh, regs, got)
  <2>1. /\ sh' = s.hdle /\ regs' = s.regs /\ tx' = Transmit(s.reply)
        /\ got' = << >> /\ UNCHANGED <<toTarget, fifo, issued, answers>>
    BY DEF Process, host
  <2>2. NoAnswer(s, sh, regs)
    BY <1>1, SlaveSleeps
  <2> HIDE DEF s
  <2>3. sh' = sh /\ regs' = regs /\ tx' = tx
    BY <2>1, <2>2 DEF NoAnswer, Transmit
  <2>4. Path' = Path
    BY <1>1, <2>1, PathSame
  <2> QED
    BY <2>1, <2>3, <2>4, StaySame
<1>2. CASE got # << >>
  <2>1. Asked
    BY <1>2, PathEmpty DEF Progress, Idle, Replied
  <2> QED
    BY <1>2, <2>1, ProcessPart
<1> QED
  BY <1>1, <1>2

LEMMA StepInit == FifoSize > 5 /\ Init => StepInv
<1> SUFFICES ASSUME FifoSize > 5, Init
             PROVE  HasRoom /\ RingInv /\ AnswersOK /\ Progress
  BY DEF StepInv
<1>1. RingInv
  BY StreamInit
<1>2. HasRoom
  BY FifoSizeType DEF Init, HasRoom, Size
<1>3. Len(issued) = 0 /\ Len(answers) = 0
  BY DEF Init
<1>4. AnswersOK
  BY <1>3 DEF AnswersOK
<1>5. Path = << >>
  <2>1. Unread = << >>
    BY StreamInit DEF Stream!Init
  <2> QED
    BY <2>1 DEF Init, Path
<1>6. Table(0)
  <2>1. ASSUME NEW reg PROVE Held(reg, 0) = 0
    BY DEF Held, LastSet
  <2> QED
    BY <2>1 DEF Init, Table
<1>7. Idle
  <2>1. sh.nb = 0 /\ sh.frame[5] = 0
    BY DEF Init, proto_init, proto_FRAME_MAXSIZE
  <2>2. answers = << >> /\ tx = << >>
    BY DEF Init
  <2> QED
    BY <1>3, <1>5, <1>6, <2>1, <2>2 DEF Idle, Left
<1> QED
  BY <1>1, <1>2, <1>4, <1>7 DEF Progress

LEMMA StepNext ==
    FifoSize > 5 /\ TypeOK /\ TypeOK' /\ StepInv /\ [Next]_vars => StepInv'
<1> SUFFICES ASSUME FifoSize > 5, TypeOK, TypeOK', StepInv, [Next]_vars,
                    inStep'
             PROVE  HasRoom' /\ RingInv' /\ AnswersOK' /\ Progress'
  BY DEF StepInv
<1>1. inStep
  <2>1. ASSUME NEW r \in Requests, Send(r) PROVE inStep
    BY <2>1 DEF Send
  <2>2. ASSUME NEW n \in 1 .. PacketSize, Receive(n) PROVE inStep
    BY <2>2 DEF Receive, host
  <2>3. CASE DataIn
    BY <2>3 DEF DataIn
  <2>4. CASE Test
    BY <2>4 DEF Test, host
  <2>5. CASE Pop
    BY <2>5 DEF Pop, host
  <2>6. CASE Process
    BY <2>6 DEF Process, host
  <2>7. CASE UNCHANGED vars
    BY <2>7 DEF vars
  <2> QED
    BY <2>1, <2>2, <2>3, <2>4, <2>5, <2>6, <2>7 DEF Next, MainLoop
<1>2. HasRoom /\ RingInv /\ AnswersOK /\ Progress
  BY <1>1 DEF StepInv
<1>3. HasRoom'
  BY <1>2, RoomNext
<1>4. RingInv'
  BY <1>2, <1>3, StreamStep
<1>5. ASSUME NEW r \in Requests, Send(r) PROVE AnswersOK' /\ Progress'
  BY <1>2, <1>5, SendStep
<1>6. ASSUME NEW n \in 1 .. PacketSize, Receive(n)
      PROVE  AnswersOK' /\ Progress'
  <2>1. Path' = Path
    BY <1>2, <1>3, <1>6, PathReceived
  <2>2. UNCHANGED <<tx, sh, regs, issued, answers>>
    BY <1>6 DEF Receive, host
  <2> QED
    BY <1>2, <2>1, <2>2, StaySame
<1>7. CASE DataIn
  BY <1>2, <1>3, <1>4, <1>7, CollectStep
<1>8. CASE Test
  <2>1. /\ UNCHANGED <<tx, sh, regs, issued, answers>>
        /\ UNCHANGED <<got, toTarget, fifo>>
    BY <1>8 DEF Test, host
  <2> QED
    BY <1>2, <1>3, <1>4, <2>1, PathSame, StaySame
<1>9. CASE Pop
  <2>1. Path' = Path
    BY <1>2, <1>3, <1>9, PathPopped
  <2>2. UNCHANGED <<tx, sh, regs, issued, answers>>
    BY <1>9 DEF Pop, host
  <2> QED
    BY <1>2, <1>3, <1>4, <2>1, <2>2, StaySame
<1>10. CASE Process
  BY <1>2, <1>3, <1>4, <1>10, ProcessStep
<1>11. CASE UNCHANGED vars
  <2>1. /\ UNCHANGED <<tx, sh, regs, issued, answers>>
        /\ UNCHANGED <<got, toTarget, fifo>>
    BY <1>11 DEF vars, fifo
  <2> QED
    BY <1>2, <1>3, <1>4, <2>1, PathSame, StaySame
<1> QED
  BY <1>3, <1>4, <1>5, <1>6, <1>7, <1>8, <1>9, <1>10, <1>11
     DEF Next, MainLoop

LEMMA SecondByteType ==
    ASSUME TypeOK, NEW n \in DOMAIN answers, issued[n].cmd # SET
    PROVE  SecondByte(n) \in Byte
<1>1. CASE n > 1 /\ Len(answers[n - 1]) = proto_FRAME_MAXSIZE
  <2>1. n - 1 \in DOMAIN answers
    BY <1>1 DEF TypeOK
  <2>2. answers[n - 1] \in Seq(Byte)
    BY <2>1 DEF TypeOK
  <2>3. answers[n - 1][5] \in Byte
    BY <1>1, <2>2 DEF proto_FRAME_MAXSIZE
  <2> QED
    BY <1>1, <2>3 DEF SecondByte
<1>2. CASE ~(n > 1 /\ Len(answers[n - 1]) = proto_FRAME_MAXSIZE)
  BY <1>2 DEF SecondByte, Byte
<1> QED
  BY <1>1, <1>2

LEMMA StepAnswers == TypeOK /\ StepInv => AnswersAreExpected
<1> SUFFICES ASSUME TypeOK, StepInv, inStep, NEW n \in DOMAIN answers
             PROVE  answers[n] \in ExpectedAnswers(n)
  BY DEF AnswersAreExpected
<1>1. n \in 1 .. Len(answers)
  BY DEF TypeOK
<1>2. answers[n] = ExpectedAnswer(n)
  BY <1>1 DEF StepInv, AnswersOK
<1>3. CASE issued[n].reg \in Registers(regs)
  BY <1>2, <1>3 DEF ExpectedAnswer, ExpectedAnswers
<1>4. CASE issued[n].reg \notin Registers(regs)
  <2> DEFINE b == SecondByte(n)
  <2>1. b \in IF issued[n].cmd = SET THEN {issued[n].val} ELSE Byte
    <3>1. CASE issued[n].cmd = SET
      BY <3>1 DEF SecondByte
    <3>2. CASE issued[n].cmd # SET
      BY <3>2, SecondByteType
    <3> QED
      BY <3>1, <3>2
  <2>2. answers[n] = WireBytes(ERR_ARG, <<issued[n].reg, b>>)
    BY <1>2, <1>4 DEF ExpectedAnswer
  <2> HIDE DEF b
  <2> QED
    BY <1>4, <2>1, <2>2 DEF ExpectedAnswers
<1> QED
  BY <1>3, <1>4

(* A ring larger than a frame is enough for a host that waits: however its *)
(* requests are cut into packets, and wherever the interrupts cut the      *)
(* loop, each answer is the one of a register table to which its requests  *)
(* were applied in order (property AnswersAreExpected).                    *)
THEOREM AnswersExpected ==
    FifoSize > proto_FRAME_MAXSIZE => (Spec => []AnswersAreExpected)
<1> SUFFICES ASSUME FifoSize > proto_FRAME_MAXSIZE
             PROVE  Spec => []AnswersAreExpected
  OBVIOUS
<1>1. FifoSize > 5
  BY DEF proto_FRAME_MAXSIZE
<1>2. Init => StepInv
  BY <1>1, StepInit
<1>3. TypeOK /\ TypeOK' /\ StepInv /\ [Next]_vars => StepInv'
  BY <1>1, StepNext
<1> QED
  BY <1>2, <1>3, StepAnswers, TargetTypeCorrect, PTL DEF Spec

(* Such a host never fills the ring, whatever its size above a frame: the *)
(* hypothesis of RingIsStream is its discipline alone.                     *)
THEOREM WaitingHostKeepsStream ==
    FifoSize > proto_FRAME_MAXSIZE => (Spec /\ []inStep => FifoIsStream)
<1> SUFFICES ASSUME FifoSize > proto_FRAME_MAXSIZE
             PROVE  Spec /\ []inStep => FifoIsStream
  OBVIOUS
<1>1. FifoSize > 5
  BY DEF proto_FRAME_MAXSIZE
<1>2. Init => StepInv
  BY <1>1, StepInit
<1>3. TypeOK /\ TypeOK' /\ StepInv /\ [Next]_vars => StepInv'
  BY <1>1, StepNext
<1>4. StepInv /\ inStep => HasRoom
  BY DEF StepInv
<1> QED
  BY <1>2, <1>3, <1>4, TargetTypeCorrect, RingIsStream, PTL DEF Spec
=============================================================================
