--------------------------- MODULE CrcLoopProofs ----------------------------
(***************************************************************************)
(* The loop of getCRC computes the remainder of a polynomial division and  *)
(* what the table of the frame layer gives, and a change of one byte is    *)
(* always seen, for every payload of up to three bytes, the length of a    *)
(* frame's.                                                                *)
(***************************************************************************)
EXTENDS CrcLoop, ProtoPeersProofs

(***************************************************************************)
(* The CRC of one to three bytes, byte by byte.                            *)
(***************************************************************************)
PrefixCRC(d, n) ==
    CASE n = 0 -> 0
      [] n = 1 -> getCRC1(d[1])
      [] n = 2 -> getCRC2(d[1], d[2])
      [] OTHER -> getCRC3(d[1], d[2], d[3])

LEMMA PrefixNext ==
    ASSUME NEW d \in Seq(Byte), Len(d) \in 1 .. 3, NEW n \in 0 .. Len(d) - 1
    PROVE  /\ PrefixCRC(d, n) \in Byte /\ d[n + 1] \in Byte
           /\ PrefixCRC(d, n + 1) = CrcTable[Xor(PrefixCRC(d, n), d[n + 1])]
<1>1. n \in 0 .. 2 /\ n + 1 \in 1 .. Len(d) /\ d[n + 1] \in Byte
  OBVIOUS
<1>2. CASE n = 0
  <2>1. d[1] \in Byte /\ Xor(0, d[1]) = d[1]
    BY <1>1, <1>2, XorZero
  <2>2. PrefixCRC(d, 0) = 0 /\ PrefixCRC(d, 1) = CrcTable[d[1]]
    BY DEF PrefixCRC, getCRC1
  <2> QED
    BY <1>2, <2>1, <2>2 DEF Byte
<1>3. CASE n = 1
  <2>1. d[1] \in Byte
    BY <1>3
  <2> QED
    BY <1>1, <1>3, <2>1, TableByte DEF PrefixCRC, getCRC1, getCRC2
<1>4. CASE n = 2
  <2>1. d[1] \in Byte /\ d[2] \in Byte
    BY <1>4
  <2> QED
    BY <1>1, <1>4, <2>1, TableByte, XorType
       DEF PrefixCRC, getCRC1, getCRC2, getCRC3
<1> QED
  BY <1>1, <1>2, <1>3, <1>4

LEMMA PrefixWhole ==
    ASSUME NEW d \in Seq(Byte), Len(d) \in 1 .. 3
    PROVE  PrefixCRC(d, Len(d)) = TableCRC(d)
BY DEF PrefixCRC, TableCRC

\* Two payloads with different CRCs so far cannot meet again on equal bytes,
\* and two with equal CRCs part on different ones.
LEMMA PrefixParts ==
    ASSUME NEW d \in Seq(Byte), Len(d) \in 1 .. 3,
           NEW e \in Seq(Byte), Len(e) = Len(d),
           NEW n \in 0 .. Len(d) - 1,
           \/ PrefixCRC(d, n) # PrefixCRC(e, n) /\ d[n + 1] = e[n + 1]
           \/ PrefixCRC(d, n) = PrefixCRC(e, n) /\ d[n + 1] # e[n + 1]
    PROVE  PrefixCRC(d, n + 1) # PrefixCRC(e, n + 1)
<1> DEFINE p == PrefixCRC(d, n)
           q == PrefixCRC(e, n)
           b == d[n + 1]
           c == e[n + 1]
<1>1. /\ p \in Byte /\ b \in Byte
      /\ PrefixCRC(d, n + 1) = CrcTable[Xor(p, b)]
  BY PrefixNext
<1>2. /\ q \in Byte /\ c \in Byte
      /\ PrefixCRC(e, n + 1) = CrcTable[Xor(q, c)]
  BY PrefixNext
<1>3. \/ p # q /\ b = c
      \/ p = q /\ b # c
  OBVIOUS
<1> HIDE DEF p, q, b, c
<1>4. Xor(p, b) # Xor(q, c)
  <2>1. CASE p = q
    BY <2>1, <1>1, <1>2, <1>3, XorRight
  <2>2. CASE b = c
    BY <2>2, <1>1, <1>2, <1>3, XorLeft
  <2> QED
    BY <1>3, <2>1, <2>2
<1>5. Xor(p, b) \in Byte /\ Xor(q, c) \in Byte
  BY XorType
<1> QED
  BY <1>1, <1>2, <1>4, <1>5, TableKeepsApart

LEMMA OneByteParts ==
    ASSUME NEW d \in Seq(Byte), Len(d) \in 1 .. 3,
           NEW i \in 1 .. Len(d), NEW b \in Byte \ {d[i]}
    PROVE  TableCRC([d EXCEPT ![i] = b]) # TableCRC(d)
<1> DEFINE e == [d EXCEPT ![i] = b]
<1>1. /\ e \in Seq(Byte) /\ Len(e) = Len(d)
      /\ \A j \in 1 .. Len(d) : e[j] = IF j = i THEN b ELSE d[j]
  OBVIOUS
<1> HIDE DEF e
<1> DEFINE Same(n) == PrefixCRC(d, n) = PrefixCRC(e, n)
<1>2. Same(0)
  BY DEF PrefixCRC
<1>3. ASSUME NEW n \in 0 .. Len(d) - 1
      PROVE  /\ n + 1 # i /\ ~Same(n) => ~Same(n + 1)
             /\ n + 1 = i /\ Same(n) => ~Same(n + 1)
  <2>1. n + 1 \in 1 .. Len(d)
    OBVIOUS
  <2>2. CASE n + 1 # i /\ ~Same(n)
    <3>1. d[n + 1] = e[n + 1]
      BY <1>1, <2>1, <2>2
    <3>2. PrefixCRC(d, n) # PrefixCRC(e, n)
      BY <2>2
    <3> QED
      BY <1>1, <3>1, <3>2, PrefixParts
  <2>3. CASE n + 1 = i /\ Same(n)
    <3>1. d[n + 1] # e[n + 1]
      BY <1>1, <2>1, <2>3
    <3>2. PrefixCRC(d, n) = PrefixCRC(e, n)
      BY <2>3
    <3> QED
      BY <1>1, <3>1, <3>2, PrefixParts
  <2> QED
    BY <2>2, <2>3
<1>4. ASSUME NEW n \in 0 .. Len(d) - 1, n + 1 < i, Same(n)
      PROVE  Same(n + 1)
  <2>1. d[n + 1] = e[n + 1]
    BY <1>1, <1>4
  <2> QED
    BY <1>1, <1>4, <2>1, PrefixNext
<1> DEFINE l == Len(d)
<1>5. ~Same(l)
  <2>1. l \in 1 .. 3 /\ i \in 1 .. l
    OBVIOUS
  <2>2. \A n \in 0 .. l - 1 : /\ n + 1 # i /\ ~Same(n) => ~Same(n + 1)
                              /\ n + 1 = i /\ Same(n) => ~Same(n + 1)
                              /\ n + 1 < i /\ Same(n) => Same(n + 1)
    BY <1>3, <1>4
  <2> HIDE DEF Same, l
  <2>3. /\ i = 1 => ~Same(1)
        /\ i > 1 => Same(1)
    <3>1. 0 \in 0 .. l - 1 /\ 0 + 1 = 1
      BY <2>1
    <3> QED
      BY <1>2, <2>1, <2>2, <3>1
  <2>4. l > 1 => /\ i <= 2 => ~Same(2)
                 /\ i > 2 => Same(2)
    <3>1. l > 1 => 1 \in 0 .. l - 1 /\ 1 + 1 = 2
      BY <2>1
    <3> QED
      BY <2>1, <2>2, <2>3, <3>1
  <2>5. l > 2 => ~Same(3)
    <3>1. l > 2 => 2 \in 0 .. l - 1 /\ 2 + 1 = 3
      BY <2>1
    <3> QED
      BY <2>1, <2>2, <2>4, <3>1
  <2>6. l = 1 \/ l = 2 \/ l = 3
    BY <2>1
  <2> QED
    BY <2>1, <2>3, <2>4, <2>5, <2>6
<1>6. PrefixCRC(e, Len(d)) = TableCRC(e) /\ PrefixCRC(d, Len(d)) = TableCRC(d)
  BY <1>1, PrefixWhole
<1> QED
  BY <1>5, <1>6 DEF Same, e

-----------------------------------------------------------------------------
(***************************************************************************)
(* The division.                                                           *)
(***************************************************************************)
\* Counting down from m to 7, what holds at m and is handed down holds for all.
LEMMA DownToSeven ==
    ASSUME NEW m \in Nat, m >= 7, NEW S, m \in S,
           \A i \in 7 .. m - 1 : i + 1 \in S => i \in S
    PROVE  \A i \in 7 .. m : i \in S
<1> SUFFICES ASSUME NEW j \in 7 .. m, j \notin S PROVE FALSE
  OBVIOUS
<1> DEFINE T == { n \in Nat : n <= m /\ n >= 7 /\ m + 7 - n \notin S }
<1>1. T \subseteq Nat /\ m + 7 - j \in T
  BY m + 7 - (m + 7 - j) = j
<1>2. PICK x \in T : \A y \in T : x <= y
  BY <1>1, SmallestNat, Zenon
<1>3. x \in 7 .. m /\ m + 7 - x \notin S
  BY <1>2
<1>4. x # 7
  BY <1>3
<1>5. x - 1 \notin T
  BY <1>2, <1>3
<1>6. m + 7 - (x - 1) \in S
  BY <1>3, <1>4, <1>5
<1>7. m + 7 - x \in 7 .. m - 1 /\ (m + 7 - x) + 1 = m + 7 - (x - 1)
  BY <1>3, <1>4
<1> QED
  BY <1>3, <1>6, <1>7

\* The recursive definition of the division defines a function.
Divides(f, P, m) ==
    f = [i \in 7 .. m |-> IF i = m THEN P ELSE Cancel(f[i + 1], i + 1)]

LEMMA DivisionExists ==
    ASSUME NEW m \in Nat, m >= 7, NEW P
    PROVE  \E f : Divides(f, P, m)
<1> DEFINE Good(j, f) == f = [i \in j .. m |-> IF i = m THEN P
                                               ELSE Cancel(f[i + 1], i + 1)]
           S == { j \in 7 .. m : \E f : Good(j, f) }
<1>1. m \in S
  <2> DEFINE f == [i \in m .. m |-> P]
  <2>1. Good(m, f)
    <3>1. m .. m = {m}
      OBVIOUS
    <3> QED
      BY <3>1
  <2> HIDE DEF f, Good
  <2> QED
    BY <2>1
<1>2. ASSUME NEW j \in 7 .. m - 1, j + 1 \in S PROVE j \in S
  <2>1. PICK f : Good(j + 1, f)
    BY <1>2
  <2> DEFINE g == [i \in j .. m |-> IF i = j THEN Cancel(f[i + 1], i + 1)
                                    ELSE f[i]]
  <2>2. ASSUME NEW i \in j .. m
        PROVE  g[i] = IF i = m THEN P ELSE Cancel(g[i + 1], i + 1)
    <3>1. i # m => i + 1 \in j .. m /\ i + 1 # j /\ g[i + 1] = f[i + 1]
      OBVIOUS
    <3>2. CASE i = j
      BY <3>1, <3>2
    <3>3. CASE i # j
      <4>1. i \in j + 1 .. m /\ g[i] = f[i]
        BY <3>3
      <4>2. f[i] = IF i = m THEN P ELSE Cancel(f[i + 1], i + 1)
        BY <2>1, <4>1
      <4> QED
        BY <3>1, <4>1, <4>2
    <3> QED
      BY <3>2, <3>3
  <2>3. Good(j, g)
    <3>1. g = [i \in j .. m |-> g[i]]
      OBVIOUS
    <3> HIDE DEF g
    <3> QED
      BY <2>2, <3>1
  <2> HIDE DEF g, Good
  <2> QED
    BY <2>3
<1> HIDE DEF S
<1>3. 7 \in S
  BY <1>1, <1>2, DownToSeven
<1> QED
  BY <1>3 DEF S, Divides

LEMMA DivisionIs ==
    ASSUME NEW d, NEW n \in Nat
    PROVE  /\ Division(d, n)[8 * n + 7] = Poly(d, n)
           /\ \A i \in 7 .. 8 * n + 6 :
                 Division(d, n)[i] = Cancel(Division(d, n)[i + 1], i + 1)
<1> DEFINE m == 8 * n + 7
           q == Division(d, n)
<1>1. m \in Nat /\ m >= 7 /\ m - 1 = 8 * n + 6
  OBVIOUS
<1>2. \E f : Divides(f, Poly(d, n), m)
  <2> HIDE DEF m
  <2> QED
    BY <1>1, DivisionExists
<1>3. q = [i \in 7 .. m |-> IF i = m THEN Poly(d, n)
                            ELSE Cancel(q[i + 1], i + 1)]
  BY <1>2, Zenon DEF Division, Divides
<1> HIDE DEF m, q
<1>4. /\ q[m] = Poly(d, n)
      /\ \A i \in 7 .. m - 1 : q[i] = Cancel(q[i + 1], i + 1)
  BY <1>1, <1>3
<1> QED
  BY <1>1, <1>4 DEF m, q

LEMMA CancelIn ==
    ASSUME NEW P, P \subseteq Int, NEW c \in Int, NEW e
    PROVE  e \in Cancel(P, c) <=>
             IF c \in P /\ e \in {c, c - 3, c - 4, c - 8} THEN e \notin P
             ELSE e \in P
<1>1. Generator(c - 8) = {c, c - 3, c - 4, c - 8}
  <2>1. /\ c - 8 + 8 = c /\ c - 8 + 5 = c - 3 /\ c - 8 + 4 = c - 4
    OBVIOUS
  <2> QED
    BY <2>1 DEF Generator
<1> QED
  BY <1>1 DEF Cancel, SymDiff

(***************************************************************************)
(* Bytes as polynomials: exclusive or is subtraction, and a shift cancels  *)
(* the leading coefficient.                                                *)
(***************************************************************************)
Weights == {1, 2, 4, 8, 16, 32, 64, 128}

LEMMA BitsOfSum ==
    ASSUME NEW a \in 0 .. 1, NEW b \in 0 .. 1, NEW c \in 0 .. 1,
           NEW d \in 0 .. 1, NEW e \in 0 .. 1, NEW f \in 0 .. 1,
           NEW g \in 0 .. 1, NEW h \in 0 .. 1
    PROVE  LET x == Sum8(a, b, c, d, e, f, g, h) IN
           /\ Bit(x, 1) = a /\ Bit(x, 2) = b /\ Bit(x, 4) = c /\ Bit(x, 8) = d
           /\ Bit(x, 16) = e /\ Bit(x, 32) = f /\ Bit(x, 64) = g
           /\ Bit(x, 128) = h
BY DEF Sum8, Bit

LEMMA XorBits ==
    ASSUME NEW x \in Byte, NEW y \in Byte
    PROVE  \A w \in Weights : Bit(Xor(x, y), w) = Differs(Bit(x, w), Bit(y, w))
<1> DEFINE a(w) == Differs(Bit(x, w), Bit(y, w))
<1>1. \A w : a(w) \in 0 .. 1
  BY DEF Differs
<1>2. Xor(x, y) = Sum8(a(1), a(2), a(4), a(8), a(16), a(32), a(64), a(128))
  BY XorSum
<1> HIDE DEF a
<1>3. /\ Bit(Xor(x, y), 1) = a(1) /\ Bit(Xor(x, y), 2) = a(2)
      /\ Bit(Xor(x, y), 4) = a(4) /\ Bit(Xor(x, y), 8) = a(8)
      /\ Bit(Xor(x, y), 16) = a(16) /\ Bit(Xor(x, y), 32) = a(32)
      /\ Bit(Xor(x, y), 64) = a(64) /\ Bit(Xor(x, y), 128) = a(128)
  BY <1>1, <1>2, BitsOfSum
<1> QED
  BY <1>3 DEF a, Weights

LEMMA DoubleBits ==
    ASSUME NEW x \in Byte, NEW y, y = (2 * x) % 256
    PROVE  /\ y \in Byte /\ Bit(y, 1) = 0 /\ Bit(y, 2) = Bit(x, 1)
           /\ Bit(y, 4) = Bit(x, 2) /\ Bit(y, 8) = Bit(x, 4)
           /\ Bit(y, 16) = Bit(x, 8) /\ Bit(y, 32) = Bit(x, 16)
           /\ Bit(y, 64) = Bit(x, 32) /\ Bit(y, 128) = Bit(x, 64)
BY DEF Bit, Byte

LEMMA BytePolyBits ==
    ASSUME NEW x
    PROVE  /\ BytePoly(x) \subseteq 0 .. 7
           /\ 0 \in BytePoly(x) <=> Bit(x, 1) = 1
           /\ 1 \in BytePoly(x) <=> Bit(x, 2) = 1
           /\ 2 \in BytePoly(x) <=> Bit(x, 4) = 1
           /\ 3 \in BytePoly(x) <=> Bit(x, 8) = 1
           /\ 4 \in BytePoly(x) <=> Bit(x, 16) = 1
           /\ 5 \in BytePoly(x) <=> Bit(x, 32) = 1
           /\ 6 \in BytePoly(x) <=> Bit(x, 64) = 1
           /\ 7 \in BytePoly(x) <=> Bit(x, 128) = 1
<1>1. /\ 2 ^ 0 = 1 /\ 2 ^ 1 = 2 /\ 2 ^ 2 = 4 /\ 2 ^ 3 = 8
      /\ 2 ^ 4 = 16 /\ 2 ^ 5 = 32 /\ 2 ^ 6 = 64 /\ 2 ^ 7 = 128
  OBVIOUS
<1>2. /\ 0 \in 0 .. 7 /\ 1 \in 0 .. 7 /\ 2 \in 0 .. 7 /\ 3 \in 0 .. 7
      /\ 4 \in 0 .. 7 /\ 5 \in 0 .. 7 /\ 6 \in 0 .. 7 /\ 7 \in 0 .. 7
  OBVIOUS
<1>3. \A i : i \in BytePoly(x) <=> i \in 0 .. 7 /\ Bit(x, 2 ^ i) = 1
  BY DEF BytePoly
<1>4. /\ 0 \in BytePoly(x) <=> Bit(x, 2 ^ 0) = 1
      /\ 1 \in BytePoly(x) <=> Bit(x, 2 ^ 1) = 1
      /\ 2 \in BytePoly(x) <=> Bit(x, 2 ^ 2) = 1
      /\ 3 \in BytePoly(x) <=> Bit(x, 2 ^ 3) = 1
      /\ 4 \in BytePoly(x) <=> Bit(x, 2 ^ 4) = 1
      /\ 5 \in BytePoly(x) <=> Bit(x, 2 ^ 5) = 1
      /\ 6 \in BytePoly(x) <=> Bit(x, 2 ^ 6) = 1
      /\ 7 \in BytePoly(x) <=> Bit(x, 2 ^ 7) = 1
  BY <1>2, <1>3, Zenon
<1>5. BytePoly(x) \subseteq 0 .. 7
  BY <1>3, Zenon
<1> QED
  BY <1>1, <1>4, <1>5, Zenon

LEMMA BytePolyXor ==
    ASSUME NEW x \in Byte, NEW y \in Byte
    PROVE  BytePoly(Xor(x, y)) = SymDiff(BytePoly(x), BytePoly(y))
<1> DEFINE z == Xor(x, y)
<1>1. \A w \in Weights : Bit(z, w) = 1 <=> ~(Bit(x, w) = 1 <=> Bit(y, w) = 1)
  <2>1. \A w \in Weights : Bit(z, w) = Differs(Bit(x, w), Bit(y, w))
    BY XorBits
  <2>2. \A w \in Weights : Bit(x, w) \in 0 .. 1 /\ Bit(y, w) \in 0 .. 1
    BY DEF Bit, Byte, Weights
  <2> HIDE DEF z
  <2> QED
    BY <2>1, <2>2 DEF Differs
<1> HIDE DEF z
<1>2. ASSUME NEW i \in 0 .. 7
      PROVE  i \in BytePoly(z) <=> ~(i \in BytePoly(x) <=> i \in BytePoly(y))
  <2>1. i = 0 \/ i = 1 \/ i = 2 \/ i = 3 \/ i = 4 \/ i = 5 \/ i = 6 \/ i = 7
    OBVIOUS
  <2> QED
    BY <1>1, <2>1, BytePolyBits DEF Weights
<1>3. BytePoly(x) \subseteq 0 .. 7 /\ BytePoly(y) \subseteq 0 .. 7
      /\ BytePoly(z) \subseteq 0 .. 7
  BY BytePolyBits
<1>4. BytePoly(z) = SymDiff(BytePoly(x), BytePoly(y))
  BY <1>2, <1>3 DEF SymDiff
<1> QED
  BY <1>4 DEF z

\* A byte as the coefficients of x^(i-7) to x^i.
Placed(x, i) == { e \in i - 7 .. i : e - (i - 7) \in BytePoly(x) }

\* A shift cancels the leading coefficient.
LEMMA ShiftCancels ==
    ASSUME NEW x \in Byte, NEW i \in Nat
    PROVE  Cancel(Placed(x, i), i) = Placed(crcShift(x), i - 1)
<1> DEFINE y == crcShift(x)
           s == (2 * x) % 256
           p == Placed(x, i)
<1>1. /\ s \in Byte /\ Bit(s, 1) = 0 /\ Bit(s, 2) = Bit(x, 1)
      /\ Bit(s, 4) = Bit(x, 2) /\ Bit(s, 8) = Bit(x, 4)
      /\ Bit(s, 16) = Bit(x, 8) /\ Bit(s, 32) = Bit(x, 16)
      /\ Bit(s, 64) = Bit(x, 32) /\ Bit(s, 128) = Bit(x, 64)
  BY DoubleBits
<1>2. /\ 49 \in Byte /\ Bit(49, 1) = 1 /\ Bit(49, 2) = 0 /\ Bit(49, 4) = 0
      /\ Bit(49, 8) = 0 /\ Bit(49, 16) = 1 /\ Bit(49, 32) = 1
      /\ Bit(49, 64) = 0 /\ Bit(49, 128) = 0
  BY DEF Byte, Bit
<1>3. \A w \in Weights : Bit(x, w) \in 0 .. 1 /\ Bit(s, w) \in 0 .. 1
  BY DEF Bit, Byte, Weights
<1>4. y = IF Bit(x, 128) = 1 THEN Xor(s, 49) ELSE s
  BY DEF crcShift
<1> HIDE DEF s, y
<1>5. /\ Bit(y, 1) = 1 <=> Bit(x, 128) = 1
      /\ Bit(y, 2) = Bit(x, 1) /\ Bit(y, 4) = Bit(x, 2)
      /\ Bit(y, 8) = Bit(x, 4)
      /\ Bit(y, 16) = 1 <=> ~(Bit(x, 8) = 1 <=> Bit(x, 128) = 1)
      /\ Bit(y, 32) = 1 <=> ~(Bit(x, 16) = 1 <=> Bit(x, 128) = 1)
      /\ Bit(y, 64) = Bit(x, 32) /\ Bit(y, 128) = Bit(x, 64)
  <2>1. CASE Bit(x, 128) = 1
    <3>1. \A w \in Weights : Bit(y, w) = Differs(Bit(s, w), Bit(49, w))
      BY <2>1, <1>1, <1>2, <1>4, XorBits
    <3>2. /\ Bit(y, 1) = Differs(Bit(s, 1), Bit(49, 1))
          /\ Bit(y, 2) = Differs(Bit(s, 2), Bit(49, 2))
          /\ Bit(y, 4) = Differs(Bit(s, 4), Bit(49, 4))
          /\ Bit(y, 8) = Differs(Bit(s, 8), Bit(49, 8))
          /\ Bit(y, 16) = Differs(Bit(s, 16), Bit(49, 16))
          /\ Bit(y, 32) = Differs(Bit(s, 32), Bit(49, 32))
          /\ Bit(y, 64) = Differs(Bit(s, 64), Bit(49, 64))
          /\ Bit(y, 128) = Differs(Bit(s, 128), Bit(49, 128))
      BY <3>1 DEF Weights
    <3> QED
      BY <2>1, <3>2, <1>1, <1>2, <1>3 DEF Differs, Weights
  <2>2. CASE Bit(x, 128) # 1
    BY <2>2, <1>1, <1>3, <1>4 DEF Weights
  <2> QED
    BY <2>1, <2>2
<1>6. /\ 0 \in BytePoly(y) <=> 7 \in BytePoly(x)
      /\ 1 \in BytePoly(y) <=> 0 \in BytePoly(x)
      /\ 2 \in BytePoly(y) <=> 1 \in BytePoly(x)
      /\ 3 \in BytePoly(y) <=> 2 \in BytePoly(x)
      /\ 4 \in BytePoly(y) <=> ~(3 \in BytePoly(x) <=> 7 \in BytePoly(x))
      /\ 5 \in BytePoly(y) <=> ~(4 \in BytePoly(x) <=> 7 \in BytePoly(x))
      /\ 6 \in BytePoly(y) <=> 5 \in BytePoly(x)
      /\ 7 \in BytePoly(y) <=> 6 \in BytePoly(x)
  BY <1>5, BytePolyBits
<1>7. p \subseteq Int
      /\ \A e \in Int : e \in p <=> e \in i - 7 .. i /\ e - (i - 7) \in BytePoly(x)
  BY DEF Placed
<1>8. \A e \in Int : e \in Placed(y, i - 1)
         <=> e \in i - 8 .. i - 1 /\ e - (i - 8) \in BytePoly(y)
  BY DEF Placed
<1>9. i \in p <=> 7 \in BytePoly(x)
  BY <1>7
<1>10. \A e : e \in Cancel(p, i) <=>
             IF i \in p /\ e \in {i, i - 3, i - 4, i - 8} THEN e \notin p
             ELSE e \in p
  <2> HIDE DEF p
  <2>1. i \in Int
    OBVIOUS
  <2> QED
    BY <1>7, <2>1, CancelIn
<1> HIDE DEF p
<1>11. ASSUME NEW e \in i - 8 .. i
       PROVE  e \in Cancel(p, i) <=> e \in Placed(y, i - 1)
  <2> DEFINE j == i - e
  <2>1. \/ j = 0 \/ j = 1 \/ j = 2 \/ j = 3 \/ j = 4 \/ j = 5 \/ j = 6
        \/ j = 7 \/ j = 8
    OBVIOUS
  <2>2. e = i - j /\ e - (i - 7) = 7 - j /\ e - (i - 8) = 8 - j /\ e \in Int
    OBVIOUS
  <2> HIDE DEF j
  <2>3. e \in p <=> j <= 7 /\ 7 - j \in BytePoly(x)
    BY <1>7, <2>1, <2>2
  <2>4. e \in Placed(y, i - 1) <=> j >= 1 /\ 8 - j \in BytePoly(y)
    BY <1>8, <2>1, <2>2
  <2>5. e \in Cancel(p, i) <=>
          IF 7 \in BytePoly(x) /\ j \in {0, 3, 4, 8} THEN e \notin p ELSE e \in p
    BY <1>9, <1>10, <2>1, <2>2
  <2> QED
    BY <1>6, <2>1, <2>3, <2>4, <2>5
<1>12. \A e : e \in Cancel(p, i) \/ e \in Placed(y, i - 1) => e \in i - 8 .. i
  <2>1. \A e : e \in p => e \in i - 8 .. i
    BY DEF p, Placed
  <2>2. \A e : e \in Placed(y, i - 1) => e \in i - 8 .. i
    BY DEF Placed
  <2> QED
    BY <1>10, <2>1, <2>2
<1> QED
  BY <1>11, <1>12 DEF p, y

(***************************************************************************)
(* The division of n + 1 bytes is that of n bytes, eight exponents higher, *)
(* and then that of its remainder less the last byte.                      *)
(***************************************************************************)
LEMMA PolySplit ==
    ASSUME NEW d, NEW n \in Nat, NEW e \in Int
    PROVE  e \in Poly(d, n + 1) <=>
             \/ e \in 8 .. 15 /\ e - 8 \in BytePoly(d[n + 1])
             \/ e - 8 \in Poly(d, n)
<1>1. \A m \in Nat : \A a \in Int : a \in Poly(d, m) <=>
         /\ a \in 8 .. 8 * m + 7
         /\ (a - 8) % 8 \in BytePoly(d[m - ((a - 8) \div 8)])
  BY DEF Poly
<1>2. e \in Poly(d, n + 1) <=>
         /\ e \in 8 .. 8 * n + 15
         /\ (e - 8) % 8 \in BytePoly(d[n + 1 - ((e - 8) \div 8)])
  BY <1>1
<1>3. CASE e < 16
  <2>1. e - 8 \notin Poly(d, n)
    BY <1>1, <1>3
  <2>2. e \in 8 .. 15 => (e - 8) % 8 = e - 8 /\ n + 1 - ((e - 8) \div 8) = n + 1
    BY <1>3
  <2> QED
    BY <1>2, <1>3, <2>1, <2>2
<1>4. CASE e >= 16
  <2> DEFINE q == (e - 16) \div 8
             r == (e - 16) % 8
  <2>1. q \in Int /\ r \in 0 .. 7 /\ e = 8 * q + r + 16
    BY <1>4
  <2>2. (e - 8) % 8 = r /\ (e - 8) \div 8 = q + 1
    BY <1>4, <2>1
  <2>3. e - 8 \in Poly(d, n) <=>
          e - 8 \in 8 .. 8 * n + 7 /\ r \in BytePoly(d[n - q])
    <3>1. e - 8 - 8 = e - 16
      OBVIOUS
    <3> QED
      BY <1>1, <3>1
  <2> HIDE DEF q, r
  <2>4. n + 1 - (q + 1) = n - q
    BY <2>1
  <2> QED
    BY <1>2, <1>4, <2>2, <2>3, <2>4
<1> QED
  BY <1>3, <1>4

\* A byte more: the division of the bytes before it goes on eight exponents
\* higher, and the byte is carried along below.
LEMMA DivisionCarries ==
    ASSUME NEW d, NEW n \in Nat
    PROVE  \A i \in 7 .. 8 * n + 7 :
              /\ Division(d, n)[i] \subseteq Int
              /\ Division(d, n + 1)[i + 8] \subseteq Int
              /\ \A e \in Int : e \in Division(d, n + 1)[i + 8] <=>
                   ~(e - 8 \in Division(d, n)[i] <=>
                     e \in 8 .. 15 /\ e - 8 \in BytePoly(d[n + 1]))
<1> DEFINE m == 8 * n + 7
           A == Division(d, n)
           B == Division(d, n + 1)
           Low(e) == e \in 8 .. 15 /\ e - 8 \in BytePoly(d[n + 1])
           Carried(i) == /\ A[i] \subseteq Int /\ B[i + 8] \subseteq Int
                         /\ \A e \in Int : e \in B[i + 8] <=>
                                             ~(e - 8 \in A[i] <=> Low(e))
           S == { i \in 7 .. m : Carried(i) }
<1>1. /\ m \in Nat /\ m >= 7 /\ A[m] = Poly(d, n)
      /\ \A i \in 7 .. m - 1 : A[i] = Cancel(A[i + 1], i + 1)
  <2>1. m - 1 = 8 * n + 6
    OBVIOUS
  <2> QED
    BY <2>1, DivisionIs
<1>2. /\ B[m + 8] = Poly(d, n + 1)
      /\ \A i \in 7 .. m + 7 : B[i] = Cancel(B[i + 1], i + 1)
  <2>1. 8 * (n + 1) + 7 = m + 8 /\ 8 * (n + 1) + 6 = m + 7 /\ n + 1 \in Nat
    OBVIOUS
  <2>2. /\ B[8 * (n + 1) + 7] = Poly(d, n + 1)
        /\ \A i \in 7 .. 8 * (n + 1) + 6 : B[i] = Cancel(B[i + 1], i + 1)
    BY <2>1, DivisionIs
  <2> HIDE DEF m, B
  <2> QED
    BY <2>1, <2>2
<1>3. /\ Poly(d, n) \subseteq Int /\ Poly(d, n + 1) \subseteq Int
      /\ \A e \in Int : e - 8 \in Poly(d, n) => e > 15
  BY DEF Poly
<1>4. \A e \in Int : e \in Poly(d, n + 1) <=> Low(e) \/ e - 8 \in Poly(d, n)
  BY PolySplit
<1>5. \A e \in Int : Low(e) => e <= 15
  OBVIOUS
<1> HIDE DEF A, B, m, Low
<1>6. m \in S
  BY <1>1, <1>2, <1>3, <1>4, <1>5
<1>7. ASSUME NEW i \in 7 .. m - 1, i + 1 \in S PROVE i \in S
  <2> DEFINE c == i + 1
             a == A[i + 1]
             b == B[i + 9]
  <2>1. Carried(i + 1)
    BY <1>7
  <2>2. /\ a \subseteq Int /\ b \subseteq Int
        /\ \A e \in Int : e \in b <=> ~(e - 8 \in a <=> Low(e))
    <3>1. (i + 1) + 8 = i + 9
      BY <1>1
    <3> QED
      BY <2>1, <3>1
  <2>3. /\ c \in Int /\ c + 8 \in Int /\ c + 8 > 15
        /\ A[i] = Cancel(a, c) /\ B[i + 8] = Cancel(b, c + 8)
    <3>1. i + 8 \in 7 .. m + 7 /\ (i + 8) + 1 = i + 9 /\ c + 8 = i + 9
      BY <1>1
    <3>2. B[i + 8] = Cancel(B[(i + 8) + 1], (i + 8) + 1)
      BY <1>2, <3>1
    <3> QED
      BY <1>1, <3>1, <3>2
  <2> HIDE DEF a, b, c
  <2>4. \A e : e \in A[i] <=>
               IF c \in a /\ e \in {c, c - 3, c - 4, c - 8}
               THEN e \notin a ELSE e \in a
    <3>1. \A e : e \in Cancel(a, c) <=>
                  IF c \in a /\ e \in {c, c - 3, c - 4, c - 8}
                  THEN e \notin a ELSE e \in a
      <4>1. a \subseteq Int /\ c \in Int
        BY <2>2, <2>3
      <4> QED
        BY ONLY <4>1, CancelIn
    <3> QED
      BY <2>3, <3>1, Zenon
  <2> DEFINE x == c + 8
  <2>5. x = c + 8 /\ x \in Int /\ B[i + 8] = Cancel(b, x)
    BY <2>3
  <2> HIDE DEF x
  <2>6. \A e : e \in B[i + 8] <=>
               IF x \in b /\ e \in {x, x - 3, x - 4, x - 8}
               THEN e \notin b ELSE e \in b
    <3>1. \A e : e \in Cancel(b, x) <=>
                  IF x \in b /\ e \in {x, x - 3, x - 4, x - 8}
                  THEN e \notin b ELSE e \in b
      <4>1. b \subseteq Int /\ x \in Int
        BY <2>2, <2>5
      <4> QED
        BY ONLY <4>1, CancelIn
    <3> QED
      BY <2>5, <3>1, Zenon
  <2>7. x \in b <=> c \in a
    <3>1. x - 8 = c /\ ~Low(x)
      BY <1>5, <2>3, <2>5
    <3> QED
      BY <2>2, <2>5, <3>1
  <2>8. A[i] \subseteq Int /\ B[i + 8] \subseteq Int
    <3>1. a \subseteq Int /\ b \subseteq Int
      BY <2>2
    <3>2. {c, c - 3, c - 4, c - 8} \subseteq Int
      BY <2>3
    <3>3. {x, x - 3, x - 4, x - 8} \subseteq Int
      BY <2>5
    <3> QED
      BY <2>4, <2>6, <3>1, <3>2, <3>3, Zenon
  <2>9. ASSUME NEW e \in Int
        PROVE  e \in B[i + 8] <=> ~(e - 8 \in A[i] <=> Low(e))
    <3>1. e \in {x, x - 3, x - 4, x - 8}
            <=> e - 8 \in {c, c - 3, c - 4, c - 8}
      BY <2>3, <2>5
    <3>2. e \in b <=> ~(e - 8 \in a <=> Low(e))
      BY <2>2
    <3> QED
      BY <2>4, <2>6, <2>7, <3>1, <3>2
  <2>10. i \in 7 .. m
    BY <1>1
  <2> QED
    BY <2>8, <2>9, <2>10
<1> HIDE DEF S
<1>8. \A i \in 7 .. m : i \in S
  BY <1>1, <1>6, <1>7, DownToSeven
<1> QED
  BY <1>8 DEF S, A, B, m, Low

LEMMA RemainderNext ==
    ASSUME NEW d, NEW n \in Nat, d[n + 1] \in Byte,
           NEW p \in Byte, Remainder(d, n) = BytePoly(p)
    PROVE  Remainder(d, n + 1) = BytePoly(CrcTable[Xor(p, d[n + 1])])
<1> DEFINE b == d[n + 1]
           z == Xor(p, b)
           D == Division(d, n + 1)
<1>1. Division(d, n)[7] = BytePoly(p)
  BY DEF Remainder
<1>2. /\ D[15] \subseteq Int
      /\ \A e \in Int : e \in D[15] <=>
           ~(e - 8 \in BytePoly(p) <=> e \in 8 .. 15 /\ e - 8 \in BytePoly(b))
  <2>1. 7 \in 7 .. 8 * n + 7 /\ 7 + 8 = 15
    OBVIOUS
  <2> HIDE DEF D, b
  <2> QED
    BY <1>1, <2>1, DivisionCarries DEF D, b
<1>3. \A i \in 7 .. 14 : D[i] = Cancel(D[i + 1], i + 1)
  <2>1. n + 1 \in Nat /\ \A i \in 7 .. 14 : i \in 7 .. 8 * (n + 1) + 6
    OBVIOUS
  <2> QED
    BY <2>1, DivisionIs
<1>4. /\ p \in Byte /\ b \in Byte /\ z \in Byte
      /\ BytePoly(z) = SymDiff(BytePoly(p), BytePoly(b))
  BY XorType, BytePolyXor
<1>5. /\ BytePoly(p) \subseteq 0 .. 7 /\ BytePoly(b) \subseteq 0 .. 7
      /\ BytePoly(z) \subseteq 0 .. 7
  BY BytePolyBits
<1> HIDE DEF b, z, D
<1>6. D[15] = Placed(z, 15)
  <2>1. \A e \in Int : e \in Placed(z, 15) <=> e \in 8 .. 15 /\ e - 8 \in BytePoly(z)
    BY DEF Placed
  <2>2. \A e : e \in BytePoly(z) <=> ~(e \in BytePoly(p) <=> e \in BytePoly(b))
    BY <1>4 DEF SymDiff
  <2>3. \A e \in Int : e - 8 \in BytePoly(p) => e \in 8 .. 15
    BY <1>5
  <2>4. \A e \in Int : e \in D[15] <=> e \in Placed(z, 15)
    BY <1>2, <2>1, <2>2, <2>3
  <2>5. Placed(z, 15) \subseteq Int
    BY DEF Placed
  <2> QED
    BY <1>2, <2>4, <2>5
<1> DEFINE T(x, i) == x \in Byte /\ D[i] = Placed(x, i)
<1>7. ASSUME NEW i \in 7 .. 14, NEW x, T(x, i + 1)
      PROVE  T(crcShift(x), i)
  <2>1. i + 1 \in Nat /\ (i + 1) - 1 = i
    OBVIOUS
  <2> QED
    BY <1>3, <1>7, <2>1, ShiftCancels, ShiftType
<1>8. T(z, 15)
  BY <1>4, <1>6
<1> HIDE DEF T
<1>9. T(crcShift(crcShift(crcShift(crcShift(z)))), 11)
  <2>1. T(crcShift(z), 14)
    BY <1>7, <1>8
  <2>2. T(crcShift(crcShift(z)), 13)
    BY <1>7, <2>1
  <2>3. T(crcShift(crcShift(crcShift(z))), 12)
    BY <1>7, <2>2
  <2> QED
    BY <1>7, <2>3
<1>10. T(crcByte(z), 7)
  <2> DEFINE y == crcShift(crcShift(crcShift(crcShift(z))))
  <2> HIDE DEF y
  <2>1. T(crcShift(y), 10)
    BY <1>7, <1>9 DEF y
  <2>2. T(crcShift(crcShift(y)), 9)
    BY <1>7, <2>1
  <2>3. T(crcShift(crcShift(crcShift(y))), 8)
    BY <1>7, <2>2
  <2>4. T(crcShift(crcShift(crcShift(crcShift(y)))), 7)
    BY <1>7, <2>3
  <2> QED
    BY <2>4 DEF y, crcByte
<1>11. Placed(crcByte(z), 7) = BytePoly(crcByte(z))
  <2>1. BytePoly(crcByte(z)) \subseteq 0 .. 7
    BY BytePolyBits
  <2>2. \A e \in Int : e - (7 - 7) = e
    OBVIOUS
  <2> QED
    BY <2>1, <2>2 DEF Placed
<1>12. CrcTable[z] = crcByte(z)
  BY <1>4, TableByte
<1> QED
  BY <1>10, <1>11, <1>12 DEF T, z, b, D, Remainder

LEMMA NothingLeftOfNothing ==
    ASSUME NEW d
    PROVE  Remainder(d, 0) = BytePoly(0)
<1>1. Division(d, 0)[7] = Poly(d, 0)
  <2>1. 8 * 0 + 7 = 7
    OBVIOUS
  <2> QED
    BY <2>1, DivisionIs
<1>2. Poly(d, 0) = {}
  BY DEF Poly
<1>3. BytePoly(0) = {}
  <2>1. \A w \in Weights : Bit(0, w) = 0
    BY DEF Bit, Weights
  <2>2. ASSUME NEW i \in 0 .. 7 PROVE i \notin BytePoly(0)
    <3>1. i = 0 \/ i = 1 \/ i = 2 \/ i = 3 \/ i = 4 \/ i = 5 \/ i = 6 \/ i = 7
      OBVIOUS
    <3> QED
      BY <2>1, <3>1, BytePolyBits DEF Weights
  <2> QED
    BY <2>2, BytePolyBits
<1> QED
  BY <1>1, <1>2, <1>3 DEF Remainder

LEMMA PrefixIsRemainder ==
    ASSUME NEW d \in Seq(Byte), Len(d) \in 1 .. 3
    PROVE  \A n \in 0 .. Len(d) : Remainder(d, n) = BytePoly(PrefixCRC(d, n))
<1> DEFINE l == Len(d)
           Same(n) == Remainder(d, n) = BytePoly(PrefixCRC(d, n))
<1>1. Same(0)
  BY NothingLeftOfNothing DEF PrefixCRC
<1>2. ASSUME NEW n \in 0 .. l - 1, Same(n) PROVE Same(n + 1)
  <2>1. /\ PrefixCRC(d, n) \in Byte /\ d[n + 1] \in Byte
        /\ PrefixCRC(d, n + 1) = CrcTable[Xor(PrefixCRC(d, n), d[n + 1])]
    BY PrefixNext
  <2> QED
    BY <1>2, <2>1, RemainderNext
<1>3. l \in 1 .. 3
  OBVIOUS
<1> HIDE DEF l, Same
<1>4. Same(0 + 1)
  BY <1>1, <1>2, <1>3
<1>5. l > 1 => Same(1 + 1)
  BY <1>2, <1>3, <1>4
<1>6. l > 2 => Same(2 + 1)
  BY <1>2, <1>3, <1>5
<1>7. \A n \in 0 .. l : n = 0 \/ n = 1 \/ (n = 2 /\ l > 1) \/ (n = 3 /\ l > 2)
  BY <1>3
<1>8. \A n \in 0 .. l : Same(n)
  BY <1>1, <1>4, <1>5, <1>6, <1>7
<1> QED
  BY <1>8 DEF l, Same

-----------------------------------------------------------------------------
(***************************************************************************)
(* The loop.  Only the low byte of the accumulator matters to the shifts,  *)
(* however wide it is: after the shifts still to come it is the CRC of the *)
(* bytes taken.                                                            *)
(***************************************************************************)
Shifted(c, n) ==
    CASE n = 0 -> c
      [] n = 1 -> crcShift(c)
      [] n = 2 -> crcShift(crcShift(c))
      [] n = 3 -> crcShift(crcShift(crcShift(c)))
      [] n = 4 -> crcShift(crcShift(crcShift(crcShift(c))))
      [] n = 5 -> crcShift(crcShift(crcShift(crcShift(crcShift(c)))))
      [] n = 6 -> crcShift(crcShift(crcShift(crcShift(crcShift(crcShift(c))))))
      [] n = 7 -> crcShift(crcShift(crcShift(crcShift(
                  crcShift(crcShift(crcShift(c)))))))
      [] OTHER -> crcByte(c)

LEMMA ShiftedNext ==
    ASSUME NEW c, NEW n \in 0 .. 7
    PROVE  Shifted(c, n + 1) = Shifted(crcShift(c), n)
<1>1. n = 0 \/ n = 1 \/ n = 2 \/ n = 3 \/ n = 4 \/ n = 5 \/ n = 6 \/ n = 7
  OBVIOUS
<1> QED
  BY <1>1 DEF Shifted, crcByte

LoopInv ==
    /\ data \in Payloads /\ pos \in 0 .. Len(data) /\ k \in 0 .. 8
    /\ crc \in Nat
    /\ pos = 0 => k = 8
    /\ Shifted(crc % 256, 8 - k) = PrefixCRC(data, pos)

LEMMA LowAndHigh ==
    ASSUME NEW x \in Nat
    PROVE  /\ x \div 256 \in Nat /\ x % 256 \in Byte
           /\ x = 256 * (x \div 256) + (x % 256)
<1>1. x \div 256 \in Nat /\ x % 256 \in 0 .. 255
  OBVIOUS
<1>2. x = 256 * (x \div 256) + (x % 256)
  OBVIOUS
<1> QED
  BY <1>1, <1>2 DEF Byte

LEMMA LowByte ==
    ASSUME NEW x \in Nat, NEW b
    PROVE  XorLow(x, b) \in Nat /\ XorLow(x, b) % 256 = Xor(x % 256, b)
<1> DEFINE r == Xor(x % 256, b)
           q == x \div 256
<1>1. r \in 0 .. 255
  BY XorType DEF Byte
<1>2. q \in Nat
  BY LowAndHigh
<1>3. XorLow(x, b) = 256 * q + r
  BY <1>1, <1>2 DEF XorLow
<1> HIDE DEF r, q
<1>4. 256 * q + r \in Nat /\ (256 * q + r) % 256 = r
  BY <1>1, <1>2
<1> QED
  BY <1>3, <1>4 DEF r

LEMMA ShiftLow ==
    ASSUME NEW x \in Nat, NEW y,
           y = LET s == (2 * x) % AccWidth
               IN  IF Bit(x, 128) = 1 THEN XorLow(s, 49) ELSE s
    PROVE  y \in Nat /\ y % 256 = crcShift(x % 256)
<1> DEFINE s == (2 * x) % AccWidth
           q == x \div 256
           r == x % 256
<1>1. s \in Nat /\ s % 256 = (2 * r) % 256
  BY DEF AccWidth
<1>2. q \in Nat /\ r \in 0 .. 255 /\ x = 256 * q + r
  BY LowAndHigh DEF Byte
<1>3. y = IF Bit(x, 128) = 1 THEN XorLow(s, 49) ELSE s
  OBVIOUS
<1>4. crcShift(r) = IF Bit(r, 128) = 1 THEN Xor((2 * r) % 256, 49)
                    ELSE (2 * r) % 256
  BY DEF crcShift
<1> HIDE DEF s, q, r
<1>5. Bit(x, 128) = Bit(r, 128)
  <2>1. x \div 128 = 2 * q + (r \div 128)
    BY <1>2
  <2>2. r \div 128 \in Nat
    BY <1>2
  <2>3. (x \div 128) % 2 = (r \div 128) % 2
    BY <1>2, <2>1, <2>2
  <2> QED
    BY <2>3 DEF Bit
<1>6. XorLow(s, 49) \in Nat /\ XorLow(s, 49) % 256 = Xor(s % 256, 49)
  BY <1>1, LowByte
<1>7. y \in Nat /\ y % 256 = crcShift(r)
  <2>1. CASE Bit(r, 128) = 1
    BY <2>1, <1>1, <1>3, <1>4, <1>5, <1>6
  <2>2. CASE Bit(r, 128) # 1
    BY <2>2, <1>1, <1>3, <1>4, <1>5
  <2> QED
    BY <2>1, <2>2
<1> QED
  BY <1>7 DEF r

LEMMA LoopInit == Init => LoopInv
<1> SUFFICES ASSUME Init PROVE LoopInv
  OBVIOUS
<1>1. data \in Seq(Byte) /\ Len(data) \in Nat
  BY PayloadsAssumption DEF Init
<1>2. Shifted(crc % 256, 8 - k) = PrefixCRC(data, pos)
  BY DEF Init, Shifted, PrefixCRC
<1> QED
  BY <1>1, <1>2 DEF Init, LoopInv

LEMMA LoopNext == LoopInv /\ [Next]_vars => LoopInv'
<1> SUFFICES ASSUME LoopInv, [Next]_vars PROVE LoopInv'
  OBVIOUS
<1>1. data \in Seq(Byte) /\ Len(data) \in 1 .. 3
  BY PayloadsAssumption DEF LoopInv
<1>2. CASE TakeByte
  <2> DEFINE low == PrefixCRC(data, pos)
  <2>1. /\ pos \in 0 .. Len(data) - 1 /\ k = 8 /\ data' = data
        /\ pos' = pos + 1 /\ k' = 0 /\ crc' = XorLow(crc, data[pos + 1])
    BY <1>1, <1>2 DEF TakeByte, LoopInv
  <2>2. crc % 256 = low
    BY <2>1 DEF LoopInv, Shifted
  <2>3. PrefixCRC(data, pos + 1) = CrcTable[Xor(low, data[pos + 1])]
    BY <1>1, <2>1, PrefixNext
  <2>4. crc' \in Nat /\ crc' % 256 = Xor(low, data[pos + 1])
    BY <2>1, <2>2, LowByte DEF LoopInv
  <2>5. Xor(low, data[pos + 1]) \in Byte
    BY XorType
  <2> HIDE DEF low
  <2>6. Shifted(crc' % 256, 8) = PrefixCRC(data, pos + 1)
    BY <2>3, <2>4, <2>5, TableByte DEF Shifted
  <2> QED
    BY <1>1, <2>1, <2>4, <2>6 DEF LoopInv
<1>3. CASE ShiftBit
  <2>1. /\ k \in 0 .. 7 /\ k' = k + 1 /\ data' = data /\ pos' = pos
        /\ crc' \in Nat /\ crc' % 256 = crcShift(crc % 256)
    <3>1. k \in 0 .. 7 /\ k' = k + 1 /\ data' = data /\ pos' = pos
      BY <1>3 DEF ShiftBit, LoopInv
    <3>2. crc' = LET s == (2 * crc) % AccWidth
                 IN  IF Bit(crc, 128) = 1 THEN XorLow(s, 49) ELSE s
      BY <1>3 DEF ShiftBit
    <3>3. crc \in Nat
      BY DEF LoopInv
    <3>4. crc' \in Nat /\ crc' % 256 = crcShift(crc % 256)
      BY <3>2, <3>3, ShiftLow
    <3> QED
      BY <3>1, <3>4
  <2>2. Shifted(crc % 256, (7 - k) + 1) = Shifted(crcShift(crc % 256), 7 - k)
    BY <2>1, ShiftedNext
  <2>3. Shifted(crc' % 256, 8 - k') = PrefixCRC(data, pos)
    <3>1. 8 - k = (7 - k) + 1 /\ 8 - k' = 7 - k
      BY <2>1
    <3> QED
      BY <2>1, <2>2, <3>1 DEF LoopInv
  <2> QED
    BY <2>1, <2>3 DEF LoopInv
<1>4. CASE UNCHANGED vars
  BY <1>4 DEF vars, LoopInv
<1> QED
  BY <1>2, <1>3, <1>4 DEF Next

(* Whenever the loop has absorbed whole bytes, its accumulator's low byte  *)
(* is the remainder of dividing their polynomial by x^8 + x^5 + x^4 + 1,   *)
(* for every payload (property LoopComputesRemainder).                     *)
THEOREM LoopIsRemainder == Spec => []LoopComputesRemainder
<1>1. LoopInv => LoopComputesRemainder
  <2> SUFFICES ASSUME LoopInv, k = 8, pos > 0
               PROVE  BytePoly(Result) = Remainder(data, pos)
    BY DEF LoopComputesRemainder
  <2>1. data \in Seq(Byte) /\ Len(data) \in 1 .. 3 /\ pos \in 0 .. Len(data)
    BY PayloadsAssumption DEF LoopInv
  <2>2. crc % 256 = PrefixCRC(data, pos)
    BY DEF LoopInv, Shifted
  <2> QED
    BY <2>1, <2>2, PrefixIsRemainder DEF Result
<1> QED
  BY <1>1, LoopInit, LoopNext, PTL DEF Spec

(* When the loop of getCRC ends, its accumulator's low byte is what the    *)
(* table gives, for every payload: the frame layer of the other modules    *)
(* has the CRC of the code (property TableAgreesWithLoop).                 *)
THEOREM LoopIsTable == Spec => []TableAgreesWithLoop
<1>1. LoopInv => TableAgreesWithLoop
  <2> SUFFICES ASSUME LoopInv, Done PROVE Result = TableCRC(data)
    BY DEF TableAgreesWithLoop
  <2>1. data \in Seq(Byte) /\ Len(data) \in 1 .. 3
    BY PayloadsAssumption DEF LoopInv
  <2>2. crc % 256 = PrefixCRC(data, Len(data))
    BY DEF LoopInv, Done, Shifted
  <2> QED
    BY <2>1, <2>2, PrefixWhole DEF Result
<1> QED
  BY <1>1, LoopInit, LoopNext, PTL DEF Spec

(* The CRC that the loop computes differs from that of every payload       *)
(* changed in one byte, so that getFrameCRC sees the change, whichever     *)
(* byte and however many of its bits (property SingleByteErrorsDetected).  *)
THEOREM ChangedByteIsSeen == Spec => []SingleByteErrorsDetected
<1>1. LoopInv /\ TableAgreesWithLoop => SingleByteErrorsDetected
  <2> SUFFICES ASSUME LoopInv, Done, Result = TableCRC(data),
                      NEW i \in 1 .. Len(data), NEW b \in Byte \ {data[i]}
               PROVE  TableCRC([data EXCEPT ![i] = b]) # Result
    BY DEF TableAgreesWithLoop, SingleByteErrorsDetected
  <2>1. data \in Seq(Byte) /\ Len(data) \in 1 .. 3
    BY PayloadsAssumption DEF LoopInv
  <2> QED
    BY <2>1, OneByteParts
<1> QED
  BY <1>1, LoopInit, LoopNext, LoopIsTable, PTL DEF Spec
=============================================================================
