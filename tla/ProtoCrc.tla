------------------------------ MODULE ProtoCrc ------------------------------
(***************************************************************************)
(* The CRC-8 of the register protocol (libcomm/protocomm_ll.c, getCRC):    *)
(* polynomial 0x31, initial value 0, most significant bit first, one pass  *)
(* of eight shifts per byte.  Written without recursion, so that modules   *)
(* with theorems can use it: a byte's eight shifts are tabulated, and a    *)
(* frame never has more than three bytes under its CRC.                    *)
(***************************************************************************)
EXTENDS Integers

Byte == 0 .. 255

\* The bit of x that has the given weight, a power of two.
Bit(x, weight) == (x \div weight) % 2

\* Exclusive or of two bytes, bit by bit.
BitXor(a, b, weight) == IF Bit(a, weight) = Bit(b, weight) THEN 0 ELSE weight
Xor(a, b) ==   BitXor(a, b, 1)  + BitXor(a, b, 2)
             + BitXor(a, b, 4)  + BitXor(a, b, 8)
             + BitXor(a, b, 16) + BitXor(a, b, 32)
             + BitXor(a, b, 64) + BitXor(a, b, 128)

\* Mutant: the polynomial is never subtracted.
crcShiftOnly(c) == (2 * c) % 256

\* One turn of the inner loop.  The C accumulator is an unsigned int whose
\* bits above the eighth are never tested and are masked off at the end.
crcShift(c) == IF Bit(c, 128) = 1 THEN Xor((2 * c) % 256, 49) ELSE (2 * c) % 256

crcByte(c) == crcShift(crcShift(crcShift(crcShift(
              crcShift(crcShift(crcShift(crcShift(c))))))))

CrcTable == [b \in Byte |-> crcByte(b)]

\* The CRC of one, two and three bytes: the command and its arguments.
getCRC1(c) == CrcTable[c]
getCRC2(c, a) == CrcTable[Xor(getCRC1(c), a)]
\* Mutant: the last byte is left out.
getCRC3Short(c, a, b) == getCRC2(c, a)
getCRC3(c, a, b) == CrcTable[Xor(getCRC2(c, a), b)]
=============================================================================
