-------------------------------- MODULE Crc --------------------------------
(***************************************************************************)
(* software/crc.c: the most-significant-bit-first remainders that the      *)
(* controllers' formats use.  A word is a sequence of bits, the most       *)
(* significant first; crc48_msb and crc56_msb compute in 64 bits, where    *)
(* what is shifted out of the remainder stays until the final mask.        *)
(***************************************************************************)
EXTENDS BitAlign

Xor(a, b) == [i \in DOMAIN a |-> (a[i] + b[i]) % 2]
LowBits(word, n) == SubSeq(word, Len(word) - n + 1, Len(word))
Widened(bits, width) == Zeros(width - Len(bits)) \o bits

\* The degree of the polynomial is Len(poly): its leading term is not written.
\* (Seeded fault: ShiftTopOfWord tests the top of the word, not of the remainder.)
ShiftTopOfWord(remainder, poly) ==
    LET shifted == Append(Tail(remainder), 0) IN
    IF Head(remainder) = 1 THEN Xor(shifted, Widened(poly, Len(remainder))) ELSE shifted
Shift(remainder, poly) ==
    LET shifted == Append(Tail(remainder), 0) IN
    IF remainder[Len(remainder) - Len(poly) + 1] = 1
    THEN Xor(shifted, Widened(poly, Len(remainder))) ELSE shifted

Shifted(remainder, poly) ==
    LET after[n \in 0 .. ByteBits] == IF n = 0 THEN remainder ELSE Shift(after[n - 1], poly)
    IN  after[ByteBits]

CrcMsb(bytes, poly, init, width) ==
    LET aligned(byte) == Widened(byte \o Zeros(Len(poly) - ByteBits), width)
        after[n \in 0 .. Len(bytes)] ==
            IF n = 0 THEN Widened(init, width)
            ELSE Shifted(Xor(after[n - 1], aligned(bytes[n])), poly)
    IN  LowBits(after[Len(bytes)], Len(poly))

-----------------------------------------------------------------------------
(* What it has to be: the remainder, modulo the polynomial, of the message  *)
(* times x^n plus the initial value times x^(length of the message).        *)

TimesX(r, poly) == IF Head(r) = 1 THEN Xor(Append(Tail(r), 0), poly) ELSE Append(Tail(r), 0)

\* <<x^0, x^1, ..., x^upTo>> modulo the polynomial.
Powers(poly, upTo) ==
    LET first[k \in 0 .. upTo] ==
            IF k = 0 THEN <<Append(Zeros(Len(poly) - 1), 1)>>
            ELSE LET before == first[k - 1] IN Append(before, TimesX(Last(before), poly))
    IN  first[upTo]

\* Each bit of message and initial value stands for a power; one that is in both
\* cancels.
Division(bits, init, powers) ==
    LET all == Len(bits) + Len(init)
        terms == SymDiff({all - i : i \in {j \in DOMAIN bits : bits[j] = 1}},
                         {all - i : i \in {j \in DOMAIN init : init[j] = 1}})
    IN  [i \in DOMAIN init |-> Cardinality({k \in terms : powers[k + 1][i] = 1}) % 2]
=============================================================================
