----------------------------- MODULE BitStream -----------------------------
(***************************************************************************)
(* The bit streams of bs.h, as sequences of bits, and the codes that are   *)
(* read from and written to them.  A position is the number of bits before *)
(* it.  Everything is a value: there is no state here.                     *)
(***************************************************************************)
EXTENDS Integers, Sequences

Bits == {0, 1}

Bytes == 0 .. 255

Least(a, b) == IF a <= b THEN a ELSE b

\* Bit k of a value, the lowest is 0.  Values are taken to be below 2^31, so that
\* bit 31 is 0.
BitOf(v, k) == IF k = 31 THEN 0 ELSE (v \div 2^k) % 2

\* The number that bits stand for, the first of them being the highest.
ValueOf(bits) ==
    LET upTo[i \in 0 .. Len(bits)] == IF i = 0 THEN 0 ELSE 2 * upTo[i - 1] + bits[i]
    IN  upTo[Len(bits)]

\* The bits of a sequence of bytes, and back; bits that do not fill a byte are
\* not in it (bs_pos_byte).
BitsOf(bytes) == [i \in 1 .. 8 * Len(bytes) |-> BitOf(bytes[(i + 7) \div 8], 7 - ((i - 1) % 8))]

BytesOf(bits) ==
    [i \in 1 .. Len(bits) \div 8 |-> ValueOf(SubSeq(bits, 8 * i - 7, 8 * i))]

-----------------------------------------------------------------------------
(* Reading: what is read, and the position after it *)

\* Bits after the end count as 0, and the position stops there.
bs_read(s, pos, n) ==
    [val |-> ValueOf([i \in 1 .. n |-> IF pos + i <= Len(s) THEN s[pos + i] ELSE 0]),
     pos |-> Least(pos + n, Len(s))]

\* The 0s before the next 1.  The count stops at the end of the stream, and
\* with the bit that reaches it; Len(s) - pos - 1 of them are counted then.
\* Codes with 32 zeros, where it stops too, are left out.
LeadingZeros(s, pos) ==
    LET ones == {i \in pos + 1 .. Len(s) : s[i] = 1}
    IN  IF ones # {} THEN (CHOOSE i \in ones : \A j \in ones : i <= j) - pos - 1
        ELSE IF pos < Len(s) THEN Len(s) - pos - 1 ELSE 0

bs_read_ue(s, pos) ==
    LET zeros == LeadingZeros(s, pos)
        rest  == bs_read(s, Least(pos + zeros + 1, Len(s)), zeros)
    IN  [val |-> 2^zeros - 1 + rest.val, pos |-> rest.pos]

\* Odd codes are positive, even ones are not.
SignedOf(ue) ==
    [ue EXCEPT !.val = IF @ % 2 = 1 THEN (@ + 1) \div 2 ELSE -(@ \div 2)]

bs_read_se(s, pos) == SignedOf(bs_read_ue(s, pos))

-----------------------------------------------------------------------------
(* Writing: the bits that are written *)

\* bs_write shifts a 32 bit value by the number of the bit.  By 32 or more
\* that is undefined, and the processor takes the number modulo 32.
bs_write(n, v) == [i \in 1 .. n |-> BitOf(v, (n - i) % 32)]

\* The bits of the value, leading zeros not counted.
Width(v) == CHOOSE n \in 1 .. 31 : (n = 31 \/ v < 2^n) /\ (n = 1 \/ ~(v < 2^(n - 1)))

\* Mutant of bs_write_ue: one zero too few in front.
bs_write_ue_short(v) ==
    IF v < 2 THEN bs_write(2 * Width(v + 1) - 1, v + 1)
    ELSE bs_write(2 * Width(v + 1) - 2, v + 1)

bs_write_ue(v) == bs_write(2 * Width(v + 1) - 1, v + 1)

bs_write_se(v) == bs_write_ue(IF v <= 0 THEN -2 * v ELSE 2 * v - 1)

\* A 1, and then 0s up to the next byte.
write_rbsp_trailing_bits(bits) ==
    bits \o <<1>> \o [i \in 1 .. 7 - (Len(bits) % 8) |-> 0]

-----------------------------------------------------------------------------
(* The codes of H.264 themselves (clause 9.1), which know no width *)

ExpGolomb(v) ==
    LET width == Width(v + 1)
    IN  [i \in 1 .. 2 * width - 1 |->
            IF i < width THEN 0 ELSE BitOf(v + 1, 2 * width - 1 - i)]

SignedExpGolomb(v) == ExpGolomb(IF v <= 0 THEN -2 * v ELSE 2 * v - 1)
=============================================================================
