------------------------------ MODULE CrcLoop -------------------------------
(***************************************************************************)
(* The loop of getCRC (libcomm/protocomm_ll.c) run shift by shift, checked *)
(* against polynomial division over GF(2): the reference the comment in    *)
(* the code points at.                                                     *)
(***************************************************************************)
EXTENDS ProtoCrc, Sequences, FiniteSets, FiniteSetsExt

CONSTANT Payloads \* the inputs explored: sequences of 1 to 3 bytes

ASSUME PayloadsAssumption ==
    \A p \in Payloads : p \in Seq(Byte) /\ Len(p) \in 1 .. 3

VARIABLES data, crc, k, pos
vars == <<data, crc, k, pos>>

AccWidth == 65536 \* the accumulator's kept width: 16 of its 32 bits

XorLow(x, b) == (x \div 256) * 256 + Xor(x % 256, b)

Init ==
    /\ data \in Payloads
    /\ crc = 0
    /\ k = 8
    /\ pos = 0

\* Mutant: the count of bytes left is not decremented.
TakeByteForEver ==
    /\ k = 8
    /\ pos < Len(data)
    /\ crc' = XorLow(crc, data[pos + 1])
    /\ k' = 0
    /\ UNCHANGED <<data, pos>>

\* "crc ^= *data++": only the low eight bits of the accumulator change.
TakeByte ==
    /\ k = 8
    /\ pos < Len(data)
    /\ pos' = pos + 1
    /\ crc' = XorLow(crc, data[pos + 1])
    /\ k' = 0
    /\ UNCHANGED data

\* Mutant: the bit is tested after the shift.
ShiftBitThenTest ==
    /\ k < 8
    /\ k' = k + 1
    /\ LET s == (2 * crc) % AccWidth
       IN  crc' = IF Bit(s, 128) = 1 THEN XorLow(s, 49) ELSE s
    /\ UNCHANGED <<data, pos>>

\* One shift; the polynomial is subtracted when the tested bit was set.
ShiftBit ==
    /\ k < 8
    /\ k' = k + 1
    /\ LET s == (2 * crc) % AccWidth
       IN  crc' = IF Bit(crc, 128) = 1 THEN XorLow(s, 49) ELSE s
    /\ UNCHANGED <<data, pos>>

Done == k = 8 /\ pos = Len(data)
Result == crc % 256

Next == TakeByte \/ ShiftBit
Spec == Init /\ [][Next]_vars /\ WF_vars(Next)

-----------------------------------------------------------------------------
\* The reference.  A polynomial is the set of its exponents, subtraction is
\* symmetric difference, the generator is x^8 + x^5 + x^4 + 1.
Generator(n) == {n + 8, n + 5, n + 4, n}

\* The byte as a polynomial.
BytePoly(b) == { i \in 0 .. 7 : Bit(b, 2 ^ i) = 1 }

\* The first n bytes as a polynomial, times x^8.
Poly(d, n) ==
    { e \in 8 .. 8 * n + 7 : (e - 8) % 8 \in BytePoly(d[n - ((e - 8) \div 8)]) }

\* The generator is subtracted where the exponent e is there to cancel.
Cancel(P, e) == IF e \in P THEN SymDiff(P, Generator(e - 8)) ELSE P

\* The division: [i] is what is left when the exponents above i are cancelled.
Division(d, n) ==
    LET left[i \in 7 .. 8 * n + 7] ==
            IF i = 8 * n + 7 THEN Poly(d, n)
            ELSE Cancel(left[i + 1], i + 1)
    IN  left

Remainder(d, n) == Division(d, n)[7]

\* The CRC as the frame layer computes it.
TableCRC(d) ==
    CASE Len(d) = 1 -> getCRC1(d[1])
      [] Len(d) = 2 -> getCRC2(d[1], d[2])
      [] OTHER      -> getCRC3(d[1], d[2], d[3])

-----------------------------------------------------------------------------
\* Whenever getCRC has absorbed a whole number of bytes, its accumulator's
\* low byte is the remainder of the division of those bytes' polynomial.
LoopComputesRemainder ==
    k = 8 /\ pos > 0 => BytePoly(Result) = Remainder(data, pos)

\* When the loop of getCRC ends, the tabulated form used by the frame layer
\* gives the same byte: the models built on it use the code's CRC.
TableAgreesWithLoop == Done => Result = TableCRC(data)

\* The CRC that getFrameCRC compares sees any change confined to one byte
\* of the payload, whichever byte and whatever the change.
SingleByteErrorsDetected ==
    Done => \A i \in 1 .. Len(data) : \A b \in Byte \ {data[i]} :
                TableCRC([data EXCEPT ![i] = b]) # Result

\* getCRC terminates on every payload.
LoopTerminates == <>Done

=============================================================================
