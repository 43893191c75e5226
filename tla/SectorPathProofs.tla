-------------------------- MODULE SectorPathProofs --------------------------
(***************************************************************************)
(* Proofs about SectorPath and the formats and checks below it: what the   *)
(* loops of crc.c leave is the remainder of a division of polynomials, an  *)
(* area that went into a slot of an emulation file comes out of it, and a  *)
(* block that is decoded out of undamaged areas is the sector's own.       *)
(*                                                                         *)
(* Remainders.  A set of exponents stands for the sum of these powers of   *)
(* x, modulo the polynomial (Sum); two sums added are the sum of the       *)
(* symmetric difference, and times x is one exponent up.  After i bytes    *)
(* the low bits of the register are the sum of the exponents that the      *)
(* bytes so far and the initial value stand for (RegisterIs); what a loop  *)
(* of 64 bits keeps above the low bits never comes down again.             *)
(*                                                                         *)
(* Slots.  An area taken out of a packet begins with its sync byte and was *)
(* all in its window (InPlace), so the byte of the slot that it is put at  *)
(* is in the window that the slot is read with; nothing but zeros comes    *)
(* before it there, and a sync byte begins with a one: the first place     *)
(* where findbyte sees a sync byte is the area's (AreaAlone).  A window of *)
(* zeros has no area (NoAreaAlone).                                        *)
(*                                                                         *)
(* Blocks.  What the formatter appends leaves a remainder of zero          *)
(* (WithRemainder), so each area on the disk passes its check.  Out of a   *)
(* packet, read_track_sg takes the area where it began, since only zeros   *)
(* come before it; the end of the window may have cut its last byte        *)
(* (FoundInPacket).  Two areas that pass and agree but for the last byte   *)
(* are the same, because every polynomial has a constant term              *)
(* (PassesOnce): so what is decoded is the sector's own.  Its header is    *)
(* read as the numbers it was made of (GoodHeader) or found to be marked   *)
(* (MarkedHeader), and a block's number is on one track's list only        *)
(* (ExpectedIs).                                                           *)
(*                                                                         *)
(* The numbers of the formats, widths of polynomials and the order of the  *)
(* windows, enter through FormatsAre, AllWide, ChecksAre and AddressIs.    *)
(***************************************************************************)
EXTENDS SectorPath, SequenceTheorems, FiniteSetTheorems, WellFoundedInduction, TLAPS

-----------------------------------------------------------------------------
(* Induction, and words of bits.                                            *)

LEMMA Larger == \A M, a \in Int : M > 0 /\ a >= 1 => M * a >= M
OBVIOUS

\* Division by a constant that is only known to be positive.
LEMMA DivUnique ==
    ASSUME NEW M \in Nat, M > 0, NEW q \in Int, NEW r \in 0 .. M - 1
    PROVE  (q * M + r) \div M = q /\ (q * M + r) % M = r
<1> DEFINE x == q * M + r
           d == x \div M
           m == x % M
<1>1. x \in Int /\ d \in Int /\ m \in 0 .. M - 1 /\ x = M * d + m
  OBVIOUS
<1> HIDE DEF d, m
<1>2. q * M = M * q
  OBVIOUS
<1>3. M * d + m = M * q + r
  BY <1>1, <1>2
<1>4. d = q
  <2>1. M * (d - q) = r - m
    BY <1>1, <1>3
  <2>2. CASE d - q >= 1
    <3>1. M * (d - q) >= M
      BY <1>1, <2>2, Larger
    <3> QED BY <1>1, <2>1, <3>1
  <2>3. CASE q - d >= 1
    <3>1. M * (q - d) >= M /\ M * (q - d) = m - r
      BY <1>1, <1>3, <2>3, Larger
    <3> QED BY <1>1, <3>1
  <2> QED BY <1>1, <2>2, <2>3
<1>5. m = r
  BY <1>1, <1>3, <1>4
<1> QED BY <1>4, <1>5 DEF d, m

\* Induction, as a statement about a set: the least number outside of it.
LEMMA Induction ==
    ASSUME NEW G, 0 \in G, \A n \in Nat : n \in G => n + 1 \in G
    PROVE  Nat \subseteq G
<1> DEFINE R == {ss \in Nat \X Nat : ss[1] < ss[2]}
           T == Nat \ G
<1> SUFFICES ASSUME T # {} PROVE FALSE
  OBVIOUS
<1>1. IsWellFoundedOn(R, Nat)
  BY NatLessThanWellFounded DEF OpToRel
<1>2. PICK m \in T : \A k \in T : <<k, m>> \notin R
  <2> HIDE DEF R
  <2> QED BY <1>1, WFMin
<1>3. m # 0 /\ m - 1 \in Nat /\ m - 1 < m
  OBVIOUS
<1>4. m - 1 \in G
  BY <1>2, <1>3
<1>5. (m - 1) + 1 \in G
  BY <1>3, <1>4
<1> QED BY <1>5

BitWord(n) == [1 .. n -> Bit]

LEMMA WordIsSeq ==
    ASSUME NEW n \in Nat, NEW word \in BitWord(n)
    PROVE  word \in Seq(Bit) /\ Len(word) = n /\ DOMAIN word = 1 .. n
<1>1. word \in Seq(Bit)
  BY SeqDef DEF BitWord
<1>2. DOMAIN word = 1 .. n
  BY DEF BitWord
<1> QED BY <1>1, <1>2, LenProperties

LEMMA SameWord ==
    ASSUME NEW n, NEW a \in BitWord(n), NEW b \in BitWord(n), \A i \in 1 .. n : a[i] = b[i]
    PROVE  a = b
<1>1. a = [i \in 1 .. n |-> a[i]] /\ b = [i \in 1 .. n |-> b[i]]
  BY DEF BitWord
<1>2. [i \in 1 .. n |-> a[i]] = [i \in 1 .. n |-> b[i]]
  OBVIOUS
<1> QED BY <1>1, <1>2

LEMMA ZerosAre ==
    ASSUME NEW n \in Nat
    PROVE  Zeros(n) \in BitWord(n) /\ \A i \in 1 .. n : Zeros(n)[i] = 0
BY DEF Zeros, BitWord, Bit

LEMMA Joined ==
    ASSUME NEW n \in Nat, NEW a \in BitWord(n), NEW m \in Nat, NEW b \in BitWord(m)
    PROVE  /\ a \o b \in BitWord(n + m)
           /\ \A i \in 1 .. n + m : (a \o b)[i] = IF i <= n THEN a[i] ELSE b[i - n]
<1>1. a \in Seq(Bit) /\ b \in Seq(Bit) /\ Len(a) = n /\ Len(b) = m
  BY WordIsSeq
<1>2. /\ a \o b \in Seq(Bit) /\ Len(a \o b) = n + m
      /\ \A i \in 1 .. n + m : (a \o b)[i] = IF i <= n THEN a[i] ELSE b[i - n]
  BY <1>1, ConcatProperties
<1> QED BY <1>2, LenProperties DEF BitWord

LEMMA XorIs ==
    ASSUME NEW n \in Nat, NEW a \in BitWord(n), NEW b \in BitWord(n)
    PROVE  /\ Xor(a, b) \in BitWord(n)
           /\ \A i \in 1 .. n : Xor(a, b)[i] = (a[i] + b[i]) % 2
<1>1. \A i \in 1 .. n : a[i] \in {0, 1} /\ b[i] \in {0, 1}
  BY DEF BitWord, Bit
<1>2. \A x, y \in {0, 1} : (x + y) % 2 \in {0, 1}
  OBVIOUS
<1>3. Xor(a, b) = [i \in 1 .. n |-> (a[i] + b[i]) % 2]
  BY DEF Xor, BitWord
<1> QED BY <1>1, <1>2, <1>3 DEF BitWord, Bit

LEMMA UpIs ==
    ASSUME NEW n \in Nat, n > 0, NEW word \in BitWord(n)
    PROVE  /\ Append(Tail(word), 0) \in BitWord(n) /\ Head(word) = word[1]
           /\ \A i \in 1 .. n : Append(Tail(word), 0)[i] = IF i = n THEN 0 ELSE word[i + 1]
<1>1. word \in Seq(Bit) /\ Len(word) = n /\ word # <<>>
  BY WordIsSeq, EmptySeq
<1>2. /\ Tail(word) \in Seq(Bit) /\ Len(Tail(word)) = n - 1
      /\ \A i \in 1 .. n - 1 : Tail(word)[i] = word[i + 1]
  BY <1>1, HeadTailProperties
<1>3. Head(word) = word[1]
  BY <1>1
<1>4. /\ Append(Tail(word), 0) \in Seq(Bit) /\ Len(Append(Tail(word), 0)) = n
      /\ \A i \in 1 .. n : Append(Tail(word), 0)[i] = IF i = n THEN 0 ELSE Tail(word)[i]
  <2>1. 0 \in Bit
    BY DEF Bit
  <2> QED BY <1>2, <2>1, AppendProperties
<1>5. Append(Tail(word), 0) \in BitWord(n)
  BY <1>4, LenProperties DEF BitWord
<1> QED BY <1>2, <1>3, <1>4, <1>5

LEMMA WidenedIs ==
    ASSUME NEW width \in Nat, NEW n \in 0 .. width, NEW bits \in BitWord(n)
    PROVE  /\ Widened(bits, width) \in BitWord(width)
           /\ \A i \in 1 .. width : Widened(bits, width)[i] =
                  IF i <= width - n THEN 0 ELSE bits[i - (width - n)]
<1>1. Len(bits) = n /\ width - n \in Nat /\ (width - n) + n = width
  BY WordIsSeq
<1>2. Zeros(width - n) \in BitWord(width - n)
  BY <1>1, ZerosAre
<1>3. Widened(bits, width) = Zeros(width - n) \o bits
  BY <1>1 DEF Widened
<1>4. /\ Zeros(width - n) \o bits \in BitWord(width)
      /\ \A i \in 1 .. width : (Zeros(width - n) \o bits)[i] =
             IF i <= width - n THEN Zeros(width - n)[i] ELSE bits[i - (width - n)]
  <2>1. PICK m \in Nat : m = width - n
    BY <1>1
  <2>2. m + n = width /\ Zeros(m) \in BitWord(m) /\ n \in Nat
    BY <1>1, <1>2, <2>1
  <2>3. /\ Zeros(m) \o bits \in BitWord(m + n)
        /\ \A i \in 1 .. m + n : (Zeros(m) \o bits)[i] =
               IF i <= m THEN Zeros(m)[i] ELSE bits[i - m]
    BY <2>2, Joined
  <2> QED BY <2>1, <2>2, <2>3
<1>5. \A i \in 1 .. width : i <= width - n => Zeros(width - n)[i] = 0
  BY <1>1, ZerosAre
<1> QED BY <1>3, <1>4, <1>5

LEMMA LowIs ==
    ASSUME NEW width \in Nat, NEW word \in BitWord(width), NEW n \in 0 .. width
    PROVE  /\ LowBits(word, n) \in BitWord(n)
           /\ \A i \in 1 .. n : LowBits(word, n)[i] = word[(width - n) + i]
<1>1. Len(word) = width
  BY WordIsSeq
<1>2. LowBits(word, n) = SubSeq(word, width - n + 1, width)
  BY <1>1 DEF LowBits
<1>3. \A i \in (width - n + 1) .. width : word[i] \in Bit
  BY DEF BitWord
<1>4. /\ SubSeq(word, width - n + 1, width) \in Seq(Bit)
      /\ Len(SubSeq(word, width - n + 1, width)) = n
      /\ \A i \in 1 .. n : SubSeq(word, width - n + 1, width)[i] = word[(width - n + 1) + i - 1]
  BY <1>3, SubSeqProperties
<1>5. \A i \in 1 .. n : (width - n + 1) + i - 1 = (width - n) + i
  OBVIOUS
<1> QED BY <1>2, <1>4, <1>5, LenProperties DEF BitWord

-----------------------------------------------------------------------------
(* A step of the register.                                                  *)

LEMMA TimesXIs ==
    ASSUME NEW n \in Nat, n > 0, NEW r \in BitWord(n), NEW poly \in BitWord(n)
    PROVE  /\ TimesX(r, poly) \in BitWord(n)
           /\ \A i \in 1 .. n : TimesX(r, poly)[i] =
                  ((IF i = n THEN 0 ELSE r[i + 1]) + r[1] * poly[i]) % 2
<1>1. PICK up : up = Append(Tail(r), 0)
  OBVIOUS
<1>2. /\ up \in BitWord(n) /\ Head(r) = r[1]
      /\ \A i \in 1 .. n : up[i] = IF i = n THEN 0 ELSE r[i + 1]
  BY <1>1, UpIs
<1>3. /\ Xor(up, poly) \in BitWord(n)
      /\ \A i \in 1 .. n : Xor(up, poly)[i] = (up[i] + poly[i]) % 2
  BY <1>2, XorIs
<1>4. TimesX(r, poly) = IF r[1] = 1 THEN Xor(up, poly) ELSE up
  BY <1>1, <1>2 DEF TimesX
<1>5. r[1] \in {0, 1} /\ \A i \in 1 .. n : up[i] \in {0, 1} /\ poly[i] \in {0, 1}
  BY <1>2 DEF BitWord, Bit
<1>6. CASE r[1] = 1
  <2>1. \A i \in 1 .. n : r[1] * poly[i] = poly[i]
    BY <1>5, <1>6
  <2> QED BY <1>2, <1>3, <1>4, <1>6, <2>1
<1>7. CASE r[1] = 0
  <2>1. \A i \in 1 .. n : r[1] * poly[i] = 0
    BY <1>5, <1>7
  <2>2. \A x \in {0, 1} : (x + 0) % 2 = x
    OBVIOUS
  <2>3. TimesX(r, poly) = up
    BY <1>4, <1>7
  <2>4. \A i \in 1 .. n : TimesX(r, poly)[i] = (up[i] + r[1] * poly[i]) % 2
    BY <1>5, <2>1, <2>2, <2>3
  <2> QED BY <1>2, <2>3, <2>4
<1> QED BY <1>5, <1>6, <1>7

\* A step of the wide register is a step of its low bits.
LEMMA ShiftIs ==
    ASSUME NEW width \in Nat, NEW n \in 1 .. width,
           NEW r \in BitWord(width), NEW poly \in BitWord(n)
    PROVE  /\ Shift(r, poly) \in BitWord(width)
           /\ LowBits(Shift(r, poly), n) = TimesX(LowBits(r, n), poly)
<1>1. PICK up, wide, low :
         up = Append(Tail(r), 0) /\ wide = Widened(poly, width) /\ low = LowBits(r, n)
  OBVIOUS
<1>2. /\ up \in BitWord(width)
      /\ \A i \in 1 .. width : up[i] = IF i = width THEN 0 ELSE r[i + 1]
  <2>1. width > 0
    OBVIOUS
  <2> QED BY <1>1, <2>1, UpIs
<1>3. /\ wide \in BitWord(width)
      /\ \A i \in 1 .. width : wide[i] = IF i <= width - n THEN 0 ELSE poly[i - (width - n)]
  BY <1>1, WidenedIs
<1>4. low \in BitWord(n) /\ \A i \in 1 .. n : low[i] = r[(width - n) + i]
  BY <1>1, LowIs
<1>5. Len(r) = width /\ Len(poly) = n /\ width - n + 1 = (width - n) + 1
  BY WordIsSeq
<1>6. Shift(r, poly) = IF low[1] = 1 THEN Xor(up, wide) ELSE up
  BY <1>1, <1>4, <1>5 DEF Shift
<1>7. /\ Xor(up, wide) \in BitWord(width)
      /\ \A i \in 1 .. width : Xor(up, wide)[i] = (up[i] + wide[i]) % 2
  BY <1>2, <1>3, XorIs
<1>8. PICK next : next = Shift(r, poly)
  OBVIOUS
<1>9. next \in BitWord(width)
  BY <1>2, <1>6, <1>7, <1>8
<1>10. LowBits(next, n) \in BitWord(n) /\ \A i \in 1 .. n : LowBits(next, n)[i] = next[(width - n) + i]
  BY <1>9, LowIs
<1>11. /\ TimesX(low, poly) \in BitWord(n)
       /\ \A i \in 1 .. n : TimesX(low, poly)[i] =
              ((IF i = n THEN 0 ELSE low[i + 1]) + low[1] * poly[i]) % 2
  BY <1>4, TimesXIs
<1>12. ASSUME NEW i \in 1 .. n PROVE LowBits(next, n)[i] = TimesX(low, poly)[i]
  <2>1. PICK j : j = (width - n) + i
    OBVIOUS
  <2>2. j \in 1 .. width /\ (j = width <=> i = n) /\ ~(j <= width - n) /\ j - (width - n) = i
        /\ j + 1 = (width - n) + (i + 1)
    BY <2>1
  <2>3. up[j] = (IF i = n THEN 0 ELSE low[i + 1]) /\ wide[j] = poly[i]
    <3>1. up[j] = IF i = n THEN 0 ELSE r[j + 1]
      BY <1>2, <2>2
    <3>2. i # n => i + 1 \in 1 .. n
      OBVIOUS
    <3>3. wide[j] = poly[i]
      BY <1>3, <2>2
    <3> QED BY <1>4, <2>2, <3>1, <3>2, <3>3
  <2>4. up[j] \in {0, 1} /\ poly[i] \in {0, 1} /\ low[1] \in {0, 1}
    BY <1>2, <1>4, <2>2 DEF BitWord, Bit
  <2>5. TimesX(low, poly)[i] = (up[j] + low[1] * poly[i]) % 2
    BY <1>11, <2>3
  <2>6. next[j] = IF low[1] = 1 THEN (up[j] + poly[i]) % 2 ELSE up[j]
    BY <1>6, <1>7, <1>8, <2>2, <2>3
  <2>7. \A x, y, b \in {0, 1} : (IF b = 1 THEN (x + y) % 2 ELSE x) = (x + b * y) % 2
    OBVIOUS
  <2>8. LowBits(next, n)[i] = next[j]
    BY <1>10, <2>1
  <2> QED BY <2>4, <2>5, <2>6, <2>7, <2>8
<1>13. LowBits(next, n) = TimesX(low, poly)
  BY <1>10, <1>11, <1>12 DEF BitWord
<1> QED BY <1>1, <1>8, <1>9, <1>13

-----------------------------------------------------------------------------
(* Sums of powers of x.                                                     *)

LEMMA ParityOfDifference ==
    ASSUME NEW A, NEW B, IsFiniteSet(A), IsFiniteSet(B)
    PROVE  /\ IsFiniteSet(SymDiff(A, B))
           /\ Cardinality(A) \in Nat /\ Cardinality(B) \in Nat /\ Cardinality(SymDiff(A, B)) \in Nat
           /\ Cardinality(SymDiff(A, B)) % 2 = ((Cardinality(A) % 2) + (Cardinality(B) % 2)) % 2
<1>1. /\ IsFiniteSet(A \ B) /\ Cardinality(A \ B) = Cardinality(A) - Cardinality(A \cap B)
      /\ IsFiniteSet(B \ A) /\ Cardinality(B \ A) = Cardinality(B) - Cardinality(B \cap A)
      /\ IsFiniteSet(A \cap B)
  BY FS_Difference, FS_Intersection
<1>2. (A \ B) \cap (B \ A) = {} /\ B \cap A = A \cap B
  OBVIOUS
<1>3. /\ IsFiniteSet(SymDiff(A, B))
      /\ Cardinality(SymDiff(A, B)) =
             Cardinality(A \ B) + Cardinality(B \ A) - Cardinality((A \ B) \cap (B \ A))
  BY <1>1, FS_Union DEF SymDiff
<1>4. Cardinality((A \ B) \cap (B \ A)) = 0
  BY <1>2, FS_EmptySet
<1>5. PICK a, b, c, d : /\ a = Cardinality(A) /\ b = Cardinality(B) /\ c = Cardinality(A \cap B)
                        /\ d = Cardinality(SymDiff(A, B))
  OBVIOUS
<1>6. a \in Nat /\ b \in Nat /\ c \in Nat /\ d \in Nat
  BY <1>1, <1>3, <1>5, FS_CardinalityType
<1>7. d = (a - c) + (b - c)
  <2>1. /\ Cardinality(A \ B) = a - c /\ Cardinality(B \ A) = b - c
    BY <1>1, <1>2, <1>5
  <2> QED BY <1>3, <1>4, <1>5, <1>6, <2>1
<1>8. d % 2 = ((a % 2) + (b % 2)) % 2
  BY <1>6, <1>7
<1> QED BY <1>3, <1>5, <1>6, <1>8

\* The exponents in T whose power has bit i, and the sum of the powers.
Having(T, powers, i) == {k \in T : powers[k + 1][i] = 1}
Sum(T, powers, n) == [i \in 1 .. n |-> Cardinality(Having(T, powers, i)) % 2]

LEMMA SumIs ==
    ASSUME NEW T, IsFiniteSet(T), NEW powers, NEW n \in Nat
    PROVE  /\ Sum(T, powers, n) \in BitWord(n)
           /\ \A i \in 1 .. n : /\ Sum(T, powers, n)[i] = Cardinality(Having(T, powers, i)) % 2
                                /\ IsFiniteSet(Having(T, powers, i))
                                /\ Cardinality(Having(T, powers, i)) \in Nat
<1>1. ASSUME NEW i PROVE /\ IsFiniteSet(Having(T, powers, i))
                         /\ Cardinality(Having(T, powers, i)) \in Nat
  <2>1. Having(T, powers, i) \in SUBSET T
    BY DEF Having
  <2> QED BY <2>1, FS_Subset, FS_CardinalityType
<1>2. \A c \in Nat : c % 2 \in {0, 1}
  OBVIOUS
<1>3. \A i \in 1 .. n : Cardinality(Having(T, powers, i)) % 2 \in {0, 1}
  BY <1>1, <1>2
<1> QED BY <1>1, <1>3 DEF Sum, BitWord, Bit

LEMMA SumOfDifference ==
    ASSUME NEW A, NEW B, IsFiniteSet(A), IsFiniteSet(B), NEW powers, NEW n \in Nat
    PROVE  Sum(SymDiff(A, B), powers, n) = Xor(Sum(A, powers, n), Sum(B, powers, n))
<1>1. IsFiniteSet(SymDiff(A, B))
  BY ParityOfDifference
<1>2. ASSUME NEW i \in 1 .. n
      PROVE  Sum(SymDiff(A, B), powers, n)[i] = (Sum(A, powers, n)[i] + Sum(B, powers, n)[i]) % 2
  <2>1. Having(SymDiff(A, B), powers, i) = SymDiff(Having(A, powers, i), Having(B, powers, i))
    BY DEF Having, SymDiff
  <2>2. IsFiniteSet(Having(A, powers, i)) /\ IsFiniteSet(Having(B, powers, i))
    BY SumIs
  <2>3. Cardinality(Having(SymDiff(A, B), powers, i)) % 2 =
            ((Cardinality(Having(A, powers, i)) % 2) + (Cardinality(Having(B, powers, i)) % 2)) % 2
    BY <2>1, <2>2, ParityOfDifference
  <2> QED BY <1>1, <2>3, SumIs
<1>3. /\ Sum(A, powers, n) \in BitWord(n) /\ Sum(B, powers, n) \in BitWord(n)
      /\ Sum(SymDiff(A, B), powers, n) \in BitWord(n)
  BY <1>1, SumIs
<1>4. /\ Xor(Sum(A, powers, n), Sum(B, powers, n)) \in BitWord(n)
      /\ \A i \in 1 .. n : Xor(Sum(A, powers, n), Sum(B, powers, n))[i] =
                               (Sum(A, powers, n)[i] + Sum(B, powers, n)[i]) % 2
  BY <1>3, XorIs
<1> QED BY <1>2, <1>3, <1>4 DEF BitWord

\* The powers of x up to one, modulo a polynomial of degree n.
ArePowers(powers, poly, n, upTo) ==
    /\ \A k \in 0 .. upTo : powers[k + 1] \in BitWord(n)
    /\ \A i \in 1 .. n : powers[1][i] = IF i = n THEN 1 ELSE 0
    /\ \A k \in 0 .. upTo - 1 : powers[k + 2] = TimesX(powers[k + 1], poly)

Up(T, m) == {e + m : e \in T}

LEMMA UpIsAsLarge ==
    ASSUME NEW T \in SUBSET Nat, IsFiniteSet(T), NEW m \in Nat
    PROVE  Up(T, m) \in SUBSET Nat /\ IsFiniteSet(Up(T, m)) /\ Cardinality(Up(T, m)) = Cardinality(T)
<1> DEFINE f == [e \in T |-> e + m]
<1>1. f \in [T -> Up(T, m)] /\ \A e \in T : f[e] = e + m
  BY DEF Up
<1>2. \A a, b \in T : f[a] = f[b] => a = b
  BY <1>1
<1>3. \A t \in Up(T, m) : \E e \in T : f[e] = t
  BY <1>1 DEF Up
<1> HIDE DEF f
<1>4. f \in Bijection(T, Up(T, m))
  BY <1>1, <1>2, <1>3 DEF Bijection, Injection, Surjection, IsInjective
<1>5. ExistsBijection(T, Up(T, m))
  BY <1>4 DEF ExistsBijection
<1>6. Up(T, m) \in SUBSET Nat
  BY DEF Up
<1> QED BY <1>5, <1>6, FS_Bijection

\* The sum of the powers one higher is x times the sum.
LEMMA SumUp ==
    ASSUME NEW n \in Nat, n > 0, NEW poly \in BitWord(n), NEW upTo \in Nat,
           NEW powers, ArePowers(powers, poly, n, upTo),
           NEW T \in SUBSET (0 .. upTo - 1), IsFiniteSet(T)
    PROVE  Sum(Up(T, 1), powers, n) = TimesX(Sum(T, powers, n), poly)
<1>1. T \in SUBSET Nat
  OBVIOUS
<1>2. IsFiniteSet(Up(T, 1))
  BY <1>1, UpIsAsLarge
<1>3. /\ Sum(T, powers, n) \in BitWord(n) /\ Sum(Up(T, 1), powers, n) \in BitWord(n)
  BY <1>2, SumIs
<1>4. /\ TimesX(Sum(T, powers, n), poly) \in BitWord(n)
      /\ \A i \in 1 .. n : TimesX(Sum(T, powers, n), poly)[i] =
             ((IF i = n THEN 0 ELSE Sum(T, powers, n)[i + 1]) + Sum(T, powers, n)[1] * poly[i]) % 2
  BY <1>3, TimesXIs
<1>5. ASSUME NEW i \in 1 .. n
      PROVE  Sum(Up(T, 1), powers, n)[i] = TimesX(Sum(T, powers, n), poly)[i]
  <2>1. PICK A, B, C : /\ A = (IF i = n THEN {} ELSE Having(T, powers, i + 1))
                       /\ B = (IF poly[i] = 1 THEN Having(T, powers, 1) ELSE {})
                       /\ C = {e \in T : powers[e + 2][i] = 1}
    OBVIOUS
  <2>2. poly[i] \in {0, 1} /\ 1 \in 1 .. n /\ (i # n => i + 1 \in 1 .. n)
    BY DEF BitWord, Bit
  <2>3. C = SymDiff(A, B)
    <3>1. ASSUME NEW e \in T PROVE e \in C <=> e \in SymDiff(A, B)
      <4>1. e \in 0 .. upTo - 1 /\ e \in 0 .. upTo
        OBVIOUS
      <4>2. PICK p : p = powers[e + 1]
        OBVIOUS
      <4>3. p \in BitWord(n) /\ powers[e + 2] = TimesX(p, poly)
        BY <4>1, <4>2 DEF ArePowers
      <4>4. powers[e + 2][i] = ((IF i = n THEN 0 ELSE p[i + 1]) + p[1] * poly[i]) % 2
        BY <4>3, TimesXIs
      <4>5. p[1] \in {0, 1} /\ (i # n => p[i + 1] \in {0, 1})
        BY <2>2, <4>3 DEF BitWord, Bit
      <4>6. e \in A <=> i # n /\ p[i + 1] = 1
        BY <2>1, <4>2 DEF Having
      <4>7. e \in B <=> poly[i] = 1 /\ p[1] = 1
        BY <2>1, <4>2 DEF Having
      <4>8. PICK q \in {0, 1} : q = IF i = n THEN 0 ELSE p[i + 1]
        BY <4>5
      <4>9. \A x, y, z \in {0, 1} : (x + y * z) % 2 = 1 <=> ((x = 1) # (y = 1 /\ z = 1))
        OBVIOUS
      <4>10. powers[e + 2][i] = 1 <=> ((q = 1) # (p[1] = 1 /\ poly[i] = 1))
        BY <2>2, <4>4, <4>5, <4>8, <4>9
      <4>11. e \in C <=> powers[e + 2][i] = 1
        BY <2>1
      <4>12. e \in A <=> q = 1
        BY <4>6, <4>8
      <4>13. e \in SymDiff(A, B) <=> ((e \in A) # (e \in B))
        BY DEF SymDiff
      <4> QED BY <4>7, <4>10, <4>11, <4>12, <4>13
    <3>2. A \subseteq T /\ B \subseteq T /\ C \subseteq T
      BY <2>1 DEF Having
    <3> QED BY <3>1, <3>2 DEF SymDiff
  <2>4. Having(Up(T, 1), powers, i) = Up(C, 1)
    <3>1. \A e \in T : (e + 1) + 1 = e + 2
      OBVIOUS
    <3> QED BY <2>1, <3>1 DEF Having, Up
  <2>5. C \in SUBSET Nat /\ IsFiniteSet(C) /\ IsFiniteSet(A) /\ IsFiniteSet(B)
    <3>1. C \in SUBSET T /\ A \in SUBSET T /\ B \in SUBSET T
      BY <2>1 DEF Having
    <3> QED BY <1>1, <3>1, FS_Subset
  <2>6. Cardinality(Up(C, 1)) = Cardinality(C)
    BY <2>5, UpIsAsLarge
  <2>7. /\ Cardinality(C) % 2 = ((Cardinality(A) % 2) + (Cardinality(B) % 2)) % 2
        /\ Cardinality(A) \in Nat /\ Cardinality(B) \in Nat
    BY <2>3, <2>5, ParityOfDifference
  <2>8. Cardinality(A) % 2 = IF i = n THEN 0 ELSE Sum(T, powers, n)[i + 1]
    <3>1. CASE i = n
      BY <2>1, <3>1, FS_EmptySet
    <3>2. CASE i # n
      BY <2>1, <2>2, <3>2, SumIs
    <3> QED BY <3>1, <3>2
  <2>9. Cardinality(B) % 2 = Sum(T, powers, n)[1] * poly[i]
    <3>1. Sum(T, powers, n)[1] \in {0, 1}
      BY <1>3, <2>2 DEF BitWord, Bit
    <3>2. CASE poly[i] = 1
      <4>1. Cardinality(B) % 2 = Sum(T, powers, n)[1]
        BY <2>1, <2>2, <3>2, SumIs
      <4> QED BY <3>1, <3>2, <4>1
    <3>3. CASE poly[i] = 0
      <4>1. Cardinality(B) = 0
        BY <2>1, <3>3, FS_EmptySet
      <4> QED BY <3>1, <3>3, <4>1
    <3> QED BY <2>2, <3>2, <3>3
  <2>10. Sum(Up(T, 1), powers, n)[i] = Cardinality(Up(C, 1)) % 2
    BY <1>2, <2>4, SumIs
  <2> QED BY <1>4, <2>6, <2>7, <2>8, <2>9, <2>10
<1> QED BY <1>3, <1>4, <1>5 DEF BitWord

\* The first powers are single bits, so that a word is a sum of powers.
LEMMA FirstPowers ==
    ASSUME NEW n \in Nat, n > 0, NEW poly \in BitWord(n), NEW upTo \in Nat, upTo >= n - 1,
           NEW powers, ArePowers(powers, poly, n, upTo)
    PROVE  \A k \in 0 .. n - 1 : \A i \in 1 .. n : powers[k + 1][i] = IF i = n - k THEN 1 ELSE 0
<1> DEFINE G == {k \in Nat : k <= n - 1 =>
                    \A i \in 1 .. n : powers[k + 1][i] = IF i = n - k THEN 1 ELSE 0}
<1>1. 0 \in G
  BY DEF ArePowers
<1>2. ASSUME NEW k \in Nat, k \in G PROVE k + 1 \in G
  <2> SUFFICES ASSUME k + 1 <= n - 1, NEW i \in 1 .. n
               PROVE  powers[(k + 1) + 1][i] = IF i = n - (k + 1) THEN 1 ELSE 0
    OBVIOUS
  <2>1. k \in 0 .. upTo - 1 /\ k \in 0 .. upTo /\ (k + 1) + 1 = k + 2 /\ 1 \in 1 .. n
    OBVIOUS
  <2>2. PICK p : p = powers[k + 1]
    OBVIOUS
  <2>3. p \in BitWord(n) /\ powers[k + 2] = TimesX(p, poly)
    BY <2>1, <2>2 DEF ArePowers
  <2>4. powers[k + 2][i] = ((IF i = n THEN 0 ELSE p[i + 1]) + p[1] * poly[i]) % 2
    BY <2>3, TimesXIs
  <2>5. \A j \in 1 .. n : p[j] = IF j = n - k THEN 1 ELSE 0
    BY <1>2, <2>2
  <2>6. p[1] = 0
    BY <2>1, <2>5
  <2>7. poly[i] \in {0, 1}
    BY DEF BitWord, Bit
  <2>8. (IF i = n THEN 0 ELSE p[i + 1]) = IF i = n - (k + 1) THEN 1 ELSE 0
    <3>1. CASE i = n
      BY <3>1
    <3>2. CASE i # n
      <4>1. i + 1 \in 1 .. n /\ (i + 1 = n - k <=> i = n - (k + 1))
        BY <3>2
      <4> QED BY <2>5, <3>2, <4>1
    <3> QED BY <3>1, <3>2
  <2>9. \A x \in {0, 1}, y \in {0, 1} : (x + 0 * y) % 2 = x
    OBVIOUS
  <2> QED BY <2>1, <2>4, <2>6, <2>7, <2>8, <2>9
<1>3. Nat \subseteq G
  <2> HIDE DEF G
  <2> QED BY <1>1, <1>2, Induction
<1> QED BY <1>3

\* The exponents of a word of m bits that begins at the top of n.
Top(word, m, n) == {n - j : j \in {i \in 1 .. m : word[i] = 1}}

LEMMA TopIs ==
    ASSUME NEW n \in Nat, n > 0, NEW poly \in BitWord(n), NEW upTo \in Nat, upTo >= n - 1,
           NEW powers, ArePowers(powers, poly, n, upTo),
           NEW m \in 0 .. n, NEW word \in BitWord(m)
    PROVE  /\ Top(word, m, n) \in SUBSET (0 .. n - 1) /\ IsFiniteSet(Top(word, m, n))
           /\ \A i \in 1 .. n : Sum(Top(word, m, n), powers, n)[i] = IF i <= m THEN word[i] ELSE 0
<1>1. Top(word, m, n) \in SUBSET (0 .. n - 1)
  BY DEF Top
<1>2. IsFiniteSet(0 .. n - 1)
  BY FS_Interval
<1>3. IsFiniteSet(Top(word, m, n))
  BY <1>1, <1>2, FS_Subset
<1>4. ASSUME NEW i \in 1 .. n
      PROVE  Sum(Top(word, m, n), powers, n)[i] = IF i <= m THEN word[i] ELSE 0
  <2>1. \A k \in 0 .. n - 1 : powers[k + 1][i] = 1 <=> k = n - i
    <3>1. \A k \in 0 .. n - 1 : i = n - k <=> k = n - i
      OBVIOUS
    <3> QED BY <3>1, FirstPowers
  <2>2. n - i \in Top(word, m, n) <=> i <= m /\ word[i] = 1
    <3>1. n - i \in Top(word, m, n) <=> \E j \in 1 .. m : word[j] = 1 /\ n - i = n - j
      BY DEF Top
    <3>2. \A j \in 1 .. m : n - i = n - j <=> j = i
      OBVIOUS
    <3> QED BY <3>1, <3>2
  <2>3. Having(Top(word, m, n), powers, i) = IF i <= m /\ word[i] = 1 THEN {n - i} ELSE {}
    BY <1>1, <2>1, <2>2 DEF Having
  <2>4. i <= m => word[i] \in {0, 1}
    BY DEF BitWord, Bit
  <2>5. Sum(Top(word, m, n), powers, n)[i] = Cardinality(Having(Top(word, m, n), powers, i)) % 2
    BY <1>3, SumIs
  <2>6. CASE i <= m /\ word[i] = 1
    <3>1. Cardinality(Having(Top(word, m, n), powers, i)) = 1
      BY <2>3, <2>6, FS_Singleton
    <3> QED BY <2>5, <2>6, <3>1
  <2>7. CASE ~(i <= m /\ word[i] = 1)
    <3>1. Cardinality(Having(Top(word, m, n), powers, i)) = 0
      BY <2>3, <2>7, FS_EmptySet
    <3>2. i <= m => word[i] = 0
      BY <2>4, <2>7
    <3> QED BY <2>5, <3>1, <3>2
  <2> QED BY <2>6, <2>7
<1> QED BY <1>1, <1>3, <1>4

-----------------------------------------------------------------------------
(* The register, byte by byte.                                              *)

\* What a recursion of this form computes stays in its set.
Chain(f, first, m, poly) ==
    \A i \in 0 .. m : f[i] = IF i = 0 THEN first ELSE Shift(f[i - 1], poly)

LEMMA ShiftedIs ==
    ASSUME NEW width \in Nat, NEW n \in 1 .. width,
           NEW r \in BitWord(width), NEW poly \in BitWord(n)
    PROVE  /\ Shifted(r, poly) \in BitWord(width)
           /\ \E f : Chain(f, r, ByteBits, poly) /\ Shifted(r, poly) = f[ByteBits]
<1>1. ByteBits \in Nat
  BY ByteAssumption
<1> DEFINE G == {m \in Nat : \E f \in [0 .. m -> BitWord(width)] : Chain(f, r, m, poly)}
<1>2. 0 \in G
  <2> DEFINE f == [i \in 0 .. 0 |-> r]
  <2>1. f \in [0 .. 0 -> BitWord(width)] /\ Chain(f, r, 0, poly)
    BY DEF Chain
  <2> QED BY <2>1
<1>3. ASSUME NEW m \in Nat, m \in G PROVE m + 1 \in G
  <2>1. PICK g \in [0 .. m -> BitWord(width)] : Chain(g, r, m, poly)
    BY <1>3
  <2>2. g[m] \in BitWord(width)
    OBVIOUS
  <2>3. PICK next : next = Shift(g[m], poly)
    OBVIOUS
  <2>4. next \in BitWord(width)
    BY <2>2, <2>3, ShiftIs
  <2> DEFINE f == [i \in 0 .. m + 1 |-> IF i = m + 1 THEN next ELSE g[i]]
  <2>5. f \in [0 .. m + 1 -> BitWord(width)]
    BY <2>4
  <2>6. Chain(f, r, m + 1, poly)
    <3> SUFFICES ASSUME NEW i \in 0 .. m + 1
                 PROVE  f[i] = IF i = 0 THEN r ELSE Shift(f[i - 1], poly)
      BY DEF Chain
    <3>1. CASE i = m + 1
      <4>1. f[i] = next /\ f[i - 1] = g[m] /\ i # 0
        BY <3>1
      <4> HIDE DEF f
      <4> QED BY <2>3, <4>1
    <3>2. CASE i # m + 1
      <4>1. i \in 0 .. m /\ f[i] = g[i] /\ (i # 0 => f[i - 1] = g[i - 1])
        BY <3>2
      <4>2. g[i] = IF i = 0 THEN r ELSE Shift(g[i - 1], poly)
        BY <2>1, <4>1 DEF Chain
      <4> HIDE DEF f
      <4> QED BY <4>1, <4>2
    <3> QED BY <3>1, <3>2
  <2> QED BY <2>5, <2>6
<1>4. Nat \subseteq G
  <2> HIDE DEF G
  <2> QED BY <1>2, <1>3, Induction
<1>5. PICK g \in [0 .. ByteBits -> BitWord(width)] : Chain(g, r, ByteBits, poly)
  BY <1>1, <1>4
<1> DEFINE after == CHOOSE f : f = [i \in 0 .. ByteBits |->
                                       IF i = 0 THEN r ELSE Shift(f[i - 1], poly)]
<1>6. g = [i \in 0 .. ByteBits |-> IF i = 0 THEN r ELSE Shift(g[i - 1], poly)]
  BY <1>5 DEF Chain
<1>7. after = [i \in 0 .. ByteBits |-> IF i = 0 THEN r ELSE Shift(after[i - 1], poly)]
  BY <1>6
<1>8. Shifted(r, poly) = after[ByteBits]
  BY DEF Shifted
<1> HIDE DEF after
<1>9. Chain(after, r, ByteBits, poly)
  BY <1>7 DEF Chain
<1>10. after[ByteBits] \in BitWord(width)
  <2> DEFINE H == {i \in Nat : i <= ByteBits => after[i] \in BitWord(width)}
  <2>1. 0 \in H
    BY <1>1, <1>9 DEF Chain
  <2>2. ASSUME NEW i \in Nat, i \in H PROVE i + 1 \in H
    <3> SUFFICES ASSUME i + 1 <= ByteBits PROVE after[i + 1] \in BitWord(width)
      OBVIOUS
    <3>1. after[i + 1] = Shift(after[i], poly)
      <4>1. i + 1 \in 0 .. ByteBits /\ i + 1 # 0 /\ (i + 1) - 1 = i
        BY <1>1
      <4> QED BY <1>9, <4>1 DEF Chain
    <3>2. after[i] \in BitWord(width)
      BY <2>2, <1>1
    <3> QED BY <3>1, <3>2, ShiftIs
  <2>3. Nat \subseteq H
    <3> HIDE DEF H
    <3> QED BY <2>1, <2>2, Induction
  <2> QED BY <1>1, <2>3
<1> QED BY <1>8, <1>9, <1>10

\* Shifting a byte's bits through multiplies by x ^ ByteBits.
LEMMA ShiftedSum ==
    ASSUME NEW width \in Nat, NEW n \in 1 .. width,
           NEW r \in BitWord(width), NEW poly \in BitWord(n), NEW upTo \in Nat,
           NEW powers, ArePowers(powers, poly, n, upTo),
           NEW T \in SUBSET (0 .. upTo - ByteBits), IsFiniteSet(T),
           LowBits(r, n) = Sum(T, powers, n)
    PROVE  LowBits(Shifted(r, poly), n) = Sum(Up(T, ByteBits), powers, n)
<1>1. ByteBits \in Nat /\ n \in Nat /\ n > 0 /\ T \in SUBSET Nat
  BY ByteAssumption
<1>2. PICK f : Chain(f, r, ByteBits, poly) /\ Shifted(r, poly) = f[ByteBits]
  BY ShiftedIs
<1> DEFINE G == {m \in Nat : m <= ByteBits =>
                    /\ f[m] \in BitWord(width)
                    /\ LowBits(f[m], n) = Sum(Up(T, m), powers, n)}
<1>3. 0 \in G
  <2>1. f[0] = r
    BY <1>1, <1>2 DEF Chain
  <2>2. Up(T, 0) = T
    <3>1. \A e \in T : e + 0 = e
      BY <1>1
    <3> QED BY <3>1 DEF Up
  <2> QED BY <2>1, <2>2
<1>4. ASSUME NEW m \in Nat, m \in G PROVE m + 1 \in G
  <2> SUFFICES ASSUME m + 1 <= ByteBits
               PROVE  /\ f[m + 1] \in BitWord(width)
                      /\ LowBits(f[m + 1], n) = Sum(Up(T, m + 1), powers, n)
    OBVIOUS
  <2>1. f[m + 1] = Shift(f[m], poly)
    <3>1. m + 1 \in 0 .. ByteBits /\ m + 1 # 0 /\ (m + 1) - 1 = m
      BY <1>1
    <3> QED BY <1>2, <3>1 DEF Chain
  <2>2. f[m] \in BitWord(width) /\ LowBits(f[m], n) = Sum(Up(T, m), powers, n)
    BY <1>1, <1>4
  <2>3. /\ f[m + 1] \in BitWord(width)
        /\ LowBits(f[m + 1], n) = TimesX(Sum(Up(T, m), powers, n), poly)
    <3>1. PICK before : before = f[m]
      OBVIOUS
    <3>2. before \in BitWord(width)
      BY <2>2, <3>1
    <3>3. /\ Shift(before, poly) \in BitWord(width)
          /\ LowBits(Shift(before, poly), n) = TimesX(LowBits(before, n), poly)
      BY <3>2, ShiftIs
    <3> QED BY <2>1, <2>2, <3>1, <3>3
  <2>4. Up(T, m) \in SUBSET (0 .. upTo - 1) /\ IsFiniteSet(Up(T, m))
    <3>1. \A e \in T : e \in Nat /\ e + m \in 0 .. upTo - 1
      BY <1>1
    <3>2. Up(T, m) \in SUBSET (0 .. upTo - 1)
      BY <3>1 DEF Up
    <3> QED BY <1>1, <3>2, UpIsAsLarge
  <2>5. Up(Up(T, m), 1) = Up(T, m + 1)
    <3>1. \A e \in T : (e + m) + 1 = e + (m + 1)
      BY <1>1
    <3> QED BY <3>1 DEF Up
  <2>6. Sum(Up(Up(T, m), 1), powers, n) = TimesX(Sum(Up(T, m), powers, n), poly)
    BY <1>1, <2>4, SumUp
  <2> QED BY <2>3, <2>5, <2>6
<1>5. Nat \subseteq G
  <2> HIDE DEF G
  <2> QED BY <1>3, <1>4, Induction
<1> QED BY <1>1, <1>2, <1>5

LEMMA LowOfXor ==
    ASSUME NEW width \in Nat, NEW n \in 0 .. width, NEW a \in BitWord(width), NEW b \in BitWord(width)
    PROVE  LowBits(Xor(a, b), n) = Xor(LowBits(a, n), LowBits(b, n))
<1>1. PICK c : c = Xor(a, b)
  OBVIOUS
<1>2. c \in BitWord(width) /\ \A i \in 1 .. width : c[i] = (a[i] + b[i]) % 2
  BY <1>1, XorIs
<1>3. /\ LowBits(a, n) \in BitWord(n) /\ \A i \in 1 .. n : LowBits(a, n)[i] = a[(width - n) + i]
      /\ LowBits(b, n) \in BitWord(n) /\ \A i \in 1 .. n : LowBits(b, n)[i] = b[(width - n) + i]
      /\ LowBits(c, n) \in BitWord(n) /\ \A i \in 1 .. n : LowBits(c, n)[i] = c[(width - n) + i]
  BY <1>2, LowIs
<1>4. n \in Nat /\ \A i \in 1 .. n : (width - n) + i \in 1 .. width
  OBVIOUS
<1>5. /\ Xor(LowBits(a, n), LowBits(b, n)) \in BitWord(n)
      /\ \A i \in 1 .. n : Xor(LowBits(a, n), LowBits(b, n))[i] =
                               (LowBits(a, n)[i] + LowBits(b, n)[i]) % 2
  BY <1>3, <1>4, XorIs
<1>6. \A i \in 1 .. n : LowBits(c, n)[i] = Xor(LowBits(a, n), LowBits(b, n))[i]
  BY <1>2, <1>3, <1>4, <1>5
<1> QED BY <1>1, <1>3, <1>5, <1>6 DEF BitWord

LEMMA LowOfWidened ==
    ASSUME NEW width \in Nat, NEW n \in 0 .. width, NEW word \in BitWord(n)
    PROVE  Widened(word, width) \in BitWord(width) /\ LowBits(Widened(word, width), n) = word
<1>1. PICK wide : wide = Widened(word, width)
  OBVIOUS
<1>2. /\ wide \in BitWord(width)
      /\ \A i \in 1 .. width : wide[i] = IF i <= width - n THEN 0 ELSE word[i - (width - n)]
  BY <1>1, WidenedIs
<1>3. LowBits(wide, n) \in BitWord(n) /\ \A i \in 1 .. n : LowBits(wide, n)[i] = wide[(width - n) + i]
  BY <1>2, LowIs
<1>4. \A i \in 1 .. n : /\ (width - n) + i \in 1 .. width /\ ~((width - n) + i <= width - n)
                        /\ ((width - n) + i) - (width - n) = i
  OBVIOUS
<1>5. \A i \in 1 .. n : LowBits(wide, n)[i] = word[i]
  BY <1>2, <1>3, <1>4
<1> QED BY <1>1, <1>2, <1>3, <1>5 DEF BitWord

Aligned(byte, n, width) == Widened(byte \o Zeros(n - ByteBits), width)

LEMMA AlignedIs ==
    ASSUME NEW width \in Nat, NEW n \in 1 .. width, ByteBits <= n,
           NEW poly \in BitWord(n), NEW upTo \in Nat, upTo >= n - 1,
           NEW powers, ArePowers(powers, poly, n, upTo), NEW byte \in Byte
    PROVE  /\ Aligned(byte, n, width) \in BitWord(width)
           /\ LowBits(Aligned(byte, n, width), n) = Sum(Top(byte, ByteBits, n), powers, n)
           /\ Top(byte, ByteBits, n) \in SUBSET (0 .. n - 1) /\ IsFiniteSet(Top(byte, ByteBits, n))
<1>1. /\ ByteBits \in Nat /\ byte \in BitWord(ByteBits) /\ n \in 0 .. width /\ n \in Nat /\ n > 0
      /\ ByteBits \in 0 .. n
  BY ByteAssumption DEF Byte, BitWord
<1>2. PICK m \in Nat : m = n - ByteBits
  BY <1>1
<1>3. ByteBits + m = n
  BY <1>1, <1>2
<1>4. PICK word : word = byte \o Zeros(m)
  OBVIOUS
<1>5. /\ word \in BitWord(n)
      /\ \A i \in 1 .. n : word[i] = IF i <= ByteBits THEN byte[i] ELSE 0
  <2>1. Zeros(m) \in BitWord(m) /\ \A i \in 1 .. m : Zeros(m)[i] = 0
    BY ZerosAre
  <2>2. /\ word \in BitWord(ByteBits + m)
        /\ \A i \in 1 .. ByteBits + m : word[i] = IF i <= ByteBits THEN byte[i] ELSE Zeros(m)[i - ByteBits]
    <3>1. PICK zeros, size : zeros = Zeros(m) /\ size = ByteBits
      OBVIOUS
    <3>2. zeros \in BitWord(m) /\ size \in Nat /\ byte \in BitWord(size)
      BY <1>1, <2>1, <3>1
    <3>3. /\ byte \o zeros \in BitWord(size + m)
          /\ \A i \in 1 .. size + m : (byte \o zeros)[i] = IF i <= size THEN byte[i] ELSE zeros[i - size]
      BY <3>2, Joined
    <3> QED BY <1>4, <3>1, <3>3
  <2>3. \A i \in 1 .. n : ~(i <= ByteBits) => i - ByteBits \in 1 .. m
    BY <1>1, <1>3
  <2> QED BY <1>3, <2>1, <2>2, <2>3
<1>6. Aligned(byte, n, width) = Widened(word, width)
  BY <1>2, <1>4 DEF Aligned
<1>7. Widened(word, width) \in BitWord(width) /\ LowBits(Widened(word, width), n) = word
  BY <1>1, <1>5, LowOfWidened
<1>8. /\ Top(byte, ByteBits, n) \in SUBSET (0 .. n - 1) /\ IsFiniteSet(Top(byte, ByteBits, n))
      /\ \A i \in 1 .. n : Sum(Top(byte, ByteBits, n), powers, n)[i] = IF i <= ByteBits THEN byte[i] ELSE 0
  BY <1>1, TopIs
<1>9. Sum(Top(byte, ByteBits, n), powers, n) \in BitWord(n)
  BY <1>1, <1>8, SumIs
<1>10. word = Sum(Top(byte, ByteBits, n), powers, n)
  BY <1>5, <1>8, <1>9 DEF BitWord
<1> QED BY <1>6, <1>7, <1>8, <1>10

\* The exponents of a message of length bits and of an initial value of n bits.
Exponents(bits, length, init, n) ==
    SymDiff({(length + n) - i : i \in {j \in 1 .. length : bits[j] = 1}},
            {(length + n) - i : i \in {j \in 1 .. n : init[j] = 1}})

LEMMA ExponentsAre ==
    ASSUME NEW bits, NEW length \in Nat, NEW init, NEW n \in Nat
    PROVE  /\ Exponents(bits, length, init, n) \in SUBSET (0 .. (length + n) - 1)
           /\ IsFiniteSet(Exponents(bits, length, init, n))
           /\ \A e \in Int : e \in Exponents(bits, length, init, n) <=>
                 (((length + n) - e \in 1 .. length /\ bits[(length + n) - e] = 1)
                  # ((length + n) - e \in 1 .. n /\ init[(length + n) - e] = 1))
<1> DEFINE A == {(length + n) - i : i \in {j \in 1 .. length : bits[j] = 1}}
           B == {(length + n) - i : i \in {j \in 1 .. n : init[j] = 1}}
<1>1. ASSUME NEW e \in Int
      PROVE  /\ e \in A <=> (length + n) - e \in 1 .. length /\ bits[(length + n) - e] = 1
             /\ e \in B <=> (length + n) - e \in 1 .. n /\ init[(length + n) - e] = 1
  <2>1. e \in A <=> \E i \in 1 .. length : bits[i] = 1 /\ e = (length + n) - i
    OBVIOUS
  <2>2. e \in B <=> \E i \in 1 .. n : init[i] = 1 /\ e = (length + n) - i
    OBVIOUS
  <2>3. \A i \in Int : e = (length + n) - i <=> i = (length + n) - e
    OBVIOUS
  <2> HIDE DEF A, B
  <2> QED BY <2>1, <2>2, <2>3
<1>2. A \subseteq 0 .. (length + n) - 1 /\ B \subseteq 0 .. (length + n) - 1
  OBVIOUS
<1>3. Exponents(bits, length, init, n) = SymDiff(A, B)
  BY DEF Exponents
<1> HIDE DEF A, B
<1>4. Exponents(bits, length, init, n) \in SUBSET (0 .. (length + n) - 1)
  BY <1>2, <1>3 DEF SymDiff
<1>5. IsFiniteSet(Exponents(bits, length, init, n))
  <2>1. IsFiniteSet(0 .. (length + n) - 1)
    BY FS_Interval
  <2> QED BY <1>4, <2>1, FS_Subset
<1>6. ASSUME NEW e \in Int
      PROVE  e \in Exponents(bits, length, init, n) <=>
                 (((length + n) - e \in 1 .. length /\ bits[(length + n) - e] = 1)
                  # ((length + n) - e \in 1 .. n /\ init[(length + n) - e] = 1))
  <2>1. e \in SymDiff(A, B) <=> ((e \in A) # (e \in B))
    BY DEF SymDiff
  <2> QED BY <1>1, <1>3, <2>1
<1> QED BY <1>4, <1>5, <1>6

\* A word of m bits more of the message.
Continues(bits, length, word, m) == \A j \in 1 .. m : bits[length + j] = word[j]

LEMMA NextExponents ==
    ASSUME NEW bits, NEW length \in Nat, NEW init, NEW n \in Nat, NEW m \in Nat, m <= n,
           NEW word, Continues(bits, length, word, m)
    PROVE  Exponents(bits, length + m, init, n) =
               Up(SymDiff(Exponents(bits, length, init, n), Top(word, m, n)), m)
<1>1. m \in Nat /\ length + m \in Nat
  OBVIOUS
<1> DEFINE old == Exponents(bits, length, init, n)
           top == Top(word, m, n)
           new == Exponents(bits, length + m, init, n)
<1>2. new \subseteq Int /\ old \subseteq Int /\ top \subseteq Int
  <2>1. top \subseteq Int
    BY <1>1 DEF Top
  <2>2. new \in SUBSET (0 .. ((length + m) + n) - 1) /\ old \in SUBSET (0 .. (length + n) - 1)
    BY <1>1, ExponentsAre
  <2> QED BY <1>1, <2>1, <2>2
<1>3. ASSUME NEW e \in Int
      PROVE  e + m \in new <=> e \in SymDiff(old, top)
  <2>1. PICK i \in Int : i = (length + n) - e
    OBVIOUS
  <2>2. ((length + m) + n) - (e + m) = i /\ e + m \in Int
    BY <1>1, <2>1
  <2>3. e + m \in new <=> ((i \in 1 .. length + m /\ bits[i] = 1)
                                  # (i \in 1 .. n /\ init[i] = 1))
    <3>1. e + m \in new <=>
             ((((length + m) + n) - (e + m) \in 1 .. length + m
               /\ bits[((length + m) + n) - (e + m)] = 1)
              # (((length + m) + n) - (e + m) \in 1 .. n
                 /\ init[((length + m) + n) - (e + m)] = 1))
      BY <1>1, <2>2, ExponentsAre
    <3> HIDE DEF new
    <3> QED BY <2>2, <3>1
  <2>4. e \in old <=> ((i \in 1 .. length /\ bits[i] = 1) # (i \in 1 .. n /\ init[i] = 1))
    <3>1. e \in old <=> (((length + n) - e \in 1 .. length /\ bits[(length + n) - e] = 1)
                         # ((length + n) - e \in 1 .. n /\ init[(length + n) - e] = 1))
      BY ExponentsAre
    <3> HIDE DEF old
    <3> QED BY <2>1, <3>1
  <2>5. e \in top <=> i \in length + 1 .. length + m /\ bits[i] = 1
    <3>1. e \in top <=> \E j \in 1 .. m : word[j] = 1 /\ e = n - j
      BY DEF Top
    <3>2. \A j \in Int : e = n - j <=> i = length + j
      BY <2>1
    <3>3. \A j \in 1 .. m : i = length + j => word[j] = bits[i]
      BY DEF Continues
    <3>4. i \in length + 1 .. length + m <=> \E j \in 1 .. m : i = length + j
      <4>1. i \in length + 1 .. length + m => i - length \in 1 .. m /\ i = length + (i - length)
        BY <1>1
      <4>2. \A j \in 1 .. m : length + j \in length + 1 .. length + m
        BY <1>1
      <4> QED BY <4>1, <4>2
    <3> HIDE DEF top
    <3>5. e \in top <=> \E j \in 1 .. m : word[j] = 1 /\ i = length + j
      BY <1>1, <3>1, <3>2
    <3>6. e \in top <=> \E j \in 1 .. m : bits[i] = 1 /\ i = length + j
      BY <3>3, <3>5
    <3> QED BY <3>4, <3>6
  <2>6. /\ i \in 1 .. length + m <=> i \in 1 .. length \/ i \in length + 1 .. length + m
        /\ ~(i \in 1 .. length /\ i \in length + 1 .. length + m)
    BY <1>1
  <2>7. e \in SymDiff(old, top) <=> ((e \in old) # (e \in top))
    BY DEF SymDiff
  <2> HIDE DEF old, top, new
  <2> QED BY <2>3, <2>4, <2>5, <2>6, <2>7
<1> HIDE DEF old, top, new
<1>4. ASSUME NEW t \in Int PROVE t \in new <=> t \in Up(SymDiff(old, top), m)
  <2>1. t - m \in Int /\ (t - m) + m = t
    BY <1>1
  <2>2. t \in Up(SymDiff(old, top), m) <=> \E e \in SymDiff(old, top) : t = e + m
    BY DEF Up
  <2>3. \A e \in Int : t = e + m <=> e = t - m
    BY <1>1
  <2>4. SymDiff(old, top) \subseteq Int
    BY <1>2 DEF SymDiff
  <2> QED BY <1>3, <2>1, <2>2, <2>3, <2>4
<1>5. Up(SymDiff(old, top), m) \subseteq Int
  BY <1>1, <1>2 DEF Up, SymDiff
<1> QED BY <1>2, <1>4, <1>5 DEF old, top, new

\* What holds of the register after i bytes.
RegisterIs(r, bits, i, init, n, width, powers) ==
    /\ r \in BitWord(width)
    /\ LowBits(r, n) = Sum(Exponents(bits, ByteBits * i, init, n), powers, n)

LEMMA NextRegister ==
    ASSUME NEW width \in Nat, NEW n \in 1 .. width, ByteBits <= n,
           NEW poly \in BitWord(n), NEW init \in BitWord(n), NEW upTo \in Nat,
           NEW powers, ArePowers(powers, poly, n, upTo),
           NEW bits, NEW i \in Nat, ByteBits * (i + 1) + n <= upTo + 1,
           NEW byte \in Byte, Continues(bits, ByteBits * i, byte, ByteBits),
           NEW r, RegisterIs(r, bits, i, init, n, width, powers)
    PROVE  RegisterIs(Shifted(Xor(r, Aligned(byte, n, width)), poly), bits, i + 1, init, n, width, powers)
<1>1. PICK length : length = ByteBits * i
  OBVIOUS
<1>2. /\ length \in Nat /\ ByteBits * (i + 1) = length + ByteBits /\ ByteBits \in Nat
      /\ n \in Nat /\ n > 0 /\ n \in 0 .. width
  <2>1. \A a, b \in Nat : a * b \in Nat /\ a * (b + 1) = a * b + a
    OBVIOUS
  <2> QED BY <1>1, <2>1, ByteAssumption
<1>3. upTo >= n - 1 /\ (length + n) - 1 <= upTo - ByteBits
  BY <1>2
<1>4. PICK old, top, aligned : /\ old = Exponents(bits, length, init, n)
                               /\ top = Top(byte, ByteBits, n) /\ aligned = Aligned(byte, n, width)
  OBVIOUS
<1>5. /\ aligned \in BitWord(width) /\ LowBits(aligned, n) = Sum(top, powers, n)
      /\ top \in SUBSET (0 .. n - 1) /\ IsFiniteSet(top)
  BY <1>3, <1>4, AlignedIs
<1>6. old \in SUBSET (0 .. (length + n) - 1) /\ IsFiniteSet(old)
  BY <1>2, <1>4, ExponentsAre
<1>7. r \in BitWord(width) /\ LowBits(r, n) = Sum(old, powers, n)
  BY <1>1, <1>4 DEF RegisterIs
<1>8. PICK mixed, both : mixed = Xor(r, aligned) /\ both = SymDiff(old, top)
  OBVIOUS
<1>9. mixed \in BitWord(width) /\ LowBits(mixed, n) = Sum(both, powers, n)
  <2>1. mixed \in BitWord(width)
    BY <1>5, <1>7, <1>8, XorIs
  <2>2. LowBits(mixed, n) = Xor(LowBits(r, n), LowBits(aligned, n))
    BY <1>2, <1>5, <1>7, <1>8, LowOfXor
  <2>3. Sum(both, powers, n) = Xor(Sum(old, powers, n), Sum(top, powers, n))
    BY <1>2, <1>5, <1>6, <1>8, SumOfDifference
  <2> QED BY <1>5, <1>7, <2>1, <2>2, <2>3
<1>10. both \in SUBSET (0 .. upTo - ByteBits) /\ IsFiniteSet(both)
  <2>1. IsFiniteSet(both)
    BY <1>5, <1>6, <1>8, ParityOfDifference
  <2>2. 0 .. (length + n) - 1 \subseteq 0 .. upTo - ByteBits /\ 0 .. n - 1 \subseteq 0 .. upTo - ByteBits
    BY <1>2, <1>3
  <2> QED BY <1>5, <1>6, <1>8, <2>1, <2>2 DEF SymDiff
<1>11. /\ Shifted(mixed, poly) \in BitWord(width)
       /\ LowBits(Shifted(mixed, poly), n) = Sum(Up(both, ByteBits), powers, n)
  <2>1. Shifted(mixed, poly) \in BitWord(width)
    BY <1>9, ShiftedIs
  <2>2. LowBits(Shifted(mixed, poly), n) = Sum(Up(both, ByteBits), powers, n)
    BY <1>9, <1>10, ShiftedSum
  <2> QED BY <2>1, <2>2
<1>12. Exponents(bits, length + ByteBits, init, n) = Up(both, ByteBits)
  <2>1. Continues(bits, length, byte, ByteBits)
    BY <1>1
  <2>2. Exponents(bits, length + ByteBits, init, n) =
            Up(SymDiff(Exponents(bits, length, init, n), Top(byte, ByteBits, n)), ByteBits)
    <3>1. ByteBits \in Nat /\ length \in Nat /\ n \in Nat /\ ByteBits <= n
      BY <1>2
    <3> QED BY <2>1, <3>1, NextExponents
  <2> QED BY <1>4, <1>8, <2>2
<1> QED BY <1>2, <1>4, <1>8, <1>11, <1>12 DEF RegisterIs

\* Nothing but the initial value yet.
LEMMA FirstRegister ==
    ASSUME NEW width \in Nat, NEW n \in 1 .. width,
           NEW poly \in BitWord(n), NEW init \in BitWord(n), NEW upTo \in Nat, upTo >= n - 1,
           NEW powers, ArePowers(powers, poly, n, upTo), NEW bits
    PROVE  RegisterIs(Widened(init, width), bits, 0, init, n, width, powers)
<1>1. ByteBits * 0 = 0 /\ n \in Nat /\ n > 0 /\ n \in 0 .. width /\ n \in 0 .. n
  BY ByteAssumption
<1>2. Widened(init, width) \in BitWord(width) /\ LowBits(Widened(init, width), n) = init
  BY <1>1, LowOfWidened
<1>3. Exponents(bits, 0, init, n) = Top(init, n, n)
  <2>1. {(0 + n) - i : i \in {j \in 1 .. 0 : bits[j] = 1}} = {}
    OBVIOUS
  <2>2. \A i \in 1 .. n : (0 + n) - i = n - i
    BY <1>1
  <2>3. {(0 + n) - i : i \in {j \in 1 .. n : init[j] = 1}} = Top(init, n, n)
    BY <2>2 DEF Top
  <2> QED BY <2>1, <2>3 DEF Exponents, SymDiff
<1>4. /\ IsFiniteSet(Top(init, n, n))
      /\ \A i \in 1 .. n : Sum(Top(init, n, n), powers, n)[i] = init[i]
  BY <1>1, TopIs
<1>5. Sum(Top(init, n, n), powers, n) \in BitWord(n)
  BY <1>1, <1>4, SumIs
<1>6. Sum(Top(init, n, n), powers, n) = init
  BY <1>4, <1>5 DEF BitWord
<1> QED BY <1>1, <1>2, <1>3, <1>6 DEF RegisterIs

LEMMA BitOf1 ==
    ASSUME NEW bytes, Len(bytes) \in Nat, NEW i \in 1 .. Len(bytes), NEW j \in 1 .. ByteBits
    PROVE  Bits(bytes)[ByteBits * (i - 1) + j] = bytes[i][j]
<1>1. PICK m \in Nat, k \in Nat : m = i - 1 /\ k = j - 1
  BY ByteAssumption
<1>2. PICK n : n = ByteBits * m + j
  OBVIOUS
<1>3. ByteBits \in Nat /\ ByteBits > 0 /\ ByteBits * m \in Nat /\ n - 1 = m * ByteBits + k /\ k \in 0 .. ByteBits - 1
  <2>1. \A a, b \in Nat : a * b \in Nat /\ a * b = b * a
    OBVIOUS
  <2>2. ByteBits \in Nat /\ ByteBits > 0
    BY ByteAssumption
  <2> QED BY <1>1, <1>2, <2>1, <2>2
<1>4. (n - 1) \div ByteBits = m /\ (n - 1) % ByteBits = k
  BY <1>1, <1>3, DivUnique
<1>5. n \in 1 .. ByteBits * Len(bytes)
  <2>1. ByteBits * (m + 1) <= ByteBits * Len(bytes) /\ ByteBits * (m + 1) = ByteBits * m + ByteBits
        /\ ByteBits * Len(bytes) \in Nat
    <3>1. \A a, b, c \in Nat : b <= c => a * b <= a * c
      OBVIOUS
    <3>2. \A a, b \in Nat : a * (b + 1) = a * b + a /\ a * b \in Nat
      OBVIOUS
    <3>3. m + 1 \in Nat /\ m + 1 <= Len(bytes)
      BY <1>1
    <3> QED BY <1>3, <3>1, <3>2, <3>3
  <2> QED BY <1>2, <1>3, <2>1
<1>6. Bits(bytes)[n] = bytes[m + 1][k + 1]
  <2>1. Bits(bytes)[n] = bytes[(n - 1) \div ByteBits + 1][((n - 1) % ByteBits) + 1]
    BY <1>5 DEF Bits
  <2> QED BY <1>4, <2>1
<1> QED BY <1>1, <1>2, <1>6

LEMMA BitsContinue ==
    ASSUME NEW bytes, Len(bytes) \in Nat, NEW i \in 0 .. Len(bytes) - 1
    PROVE  Continues(Bits(bytes), ByteBits * i, bytes[i + 1], ByteBits)
<1>1. i + 1 \in 1 .. Len(bytes) /\ (i + 1) - 1 = i
  OBVIOUS
<1>2. PICK k : k = i + 1
  OBVIOUS
<1>3. \A j \in 1 .. ByteBits : Bits(bytes)[ByteBits * (k - 1) + j] = bytes[k][j]
  BY <1>1, <1>2, BitOf1
<1> QED BY <1>1, <1>2, <1>3 DEF Continues

\* crc.c computes the remainder of the division, of any message and any polynomial.
LEMMA CrcDivides ==
    ASSUME NEW width \in Nat, NEW n \in 1 .. width, ByteBits <= n,
           NEW poly \in BitWord(n), NEW init \in BitWord(n), NEW bytes \in Seq(Byte),
           NEW upTo \in Nat, ByteBits * Len(bytes) + n <= upTo + 1,
           NEW powers, ArePowers(powers, poly, n, upTo)
    PROVE  /\ CrcMsb(bytes, poly, init, width) \in BitWord(n)
           /\ CrcMsb(bytes, poly, init, width) = Division(Bits(bytes), init, powers)
<1> DEFINE N == Len(bytes)
           bits == Bits(bytes)
           first == Widened(init, width)
           step(r, i) == Shifted(Xor(r, Aligned(bytes[i], Len(poly), width)), poly)
<1>1. N \in Nat /\ \A i \in 1 .. N : bytes[i] \in Byte
  BY LenProperties, ElementOfSeq
<1>2. Len(poly) = n /\ n \in Nat /\ n > 0 /\ n \in 0 .. width
  BY WordIsSeq
<1>3. /\ ByteBits \in Nat /\ ByteBits * N \in Nat
      /\ \A i \in 0 .. N - 1 : ByteBits * (i + 1) + n <= upTo + 1
  <2>1. \A a, b, c \in Nat : b <= c => a * b <= a * c
    OBVIOUS
  <2>2. \A a, b \in Nat : a * b \in Nat
    OBVIOUS
  <2>3. ByteBits \in Nat
    BY ByteAssumption
  <2>4. ASSUME NEW i \in 0 .. N - 1 PROVE ByteBits * (i + 1) + n <= upTo + 1
    <3>1. i + 1 \in Nat /\ i + 1 <= N
      BY <1>1
    <3>2. ByteBits * (i + 1) <= ByteBits * N /\ ByteBits * (i + 1) \in Nat /\ ByteBits * N \in Nat
      BY <1>1, <2>1, <2>2, <2>3, <3>1
    <3> QED BY <1>2, <3>2
  <2> QED BY <1>1, <2>2, <2>3, <2>4
<1>4. RegisterIs(first, bits, 0, init, n, width, powers)
  <2>1. upTo >= n - 1
    BY <1>2, <1>3
  <2> QED BY <2>1, FirstRegister
<1>5. ASSUME NEW i \in 0 .. N - 1, NEW r, RegisterIs(r, bits, i, init, n, width, powers)
      PROVE  RegisterIs(step(r, i + 1), bits, i + 1, init, n, width, powers)
  <2>1. i \in Nat /\ ByteBits * (i + 1) + n <= upTo + 1 /\ bytes[i + 1] \in Byte
    BY <1>1, <1>3
  <2>2. PICK byte : byte = bytes[i + 1]
    OBVIOUS
  <2>3. byte \in Byte /\ Continues(bits, ByteBits * i, byte, ByteBits)
    BY <1>1, <2>1, <2>2, BitsContinue
  <2>4. RegisterIs(Shifted(Xor(r, Aligned(byte, n, width)), poly), bits, i + 1, init, n, width, powers)
    <3> HIDE DEF bits
    <3> QED BY <1>5, <2>1, <2>3, NextRegister
  <2>5. step(r, i + 1) = Shifted(Xor(r, Aligned(byte, n, width)), poly)
    BY <1>2, <2>2
  <2> HIDE DEF step, bits
  <2> QED BY <2>4, <2>5
<1> DEFINE G == {m \in Nat : m <= N =>
                    \E f : /\ f = [i \in 0 .. m |-> f[i]]
                           /\ \A i \in 0 .. m : /\ f[i] = IF i = 0 THEN first ELSE step(f[i - 1], i)
                                                /\ RegisterIs(f[i], bits, i, init, n, width, powers)}
<1> HIDE DEF step, bits, first, N
<1>6. 0 \in G
  <2> DEFINE f == [i \in 0 .. 0 |-> first]
  <2>1. \A i \in 0 .. 0 : /\ f[i] = IF i = 0 THEN first ELSE step(f[i - 1], i)
                          /\ RegisterIs(f[i], bits, i, init, n, width, powers)
    BY <1>4
  <2>2. f = [i \in 0 .. 0 |-> f[i]]
    OBVIOUS
  <2> HIDE DEF f
  <2> QED BY <2>1, <2>2
<1>7. ASSUME NEW m \in Nat, m \in G PROVE m + 1 \in G
  <2> SUFFICES ASSUME m + 1 <= N
               PROVE  \E f : /\ f = [i \in 0 .. m + 1 |-> f[i]]
                             /\ \A i \in 0 .. m + 1 :
                                    /\ f[i] = IF i = 0 THEN first ELSE step(f[i - 1], i)
                                    /\ RegisterIs(f[i], bits, i, init, n, width, powers)
    OBVIOUS
  <2>1. PICK g : \A i \in 0 .. m : /\ g[i] = IF i = 0 THEN first ELSE step(g[i - 1], i)
                                   /\ RegisterIs(g[i], bits, i, init, n, width, powers)
    BY <1>1, <1>7
  <2> DEFINE next == step(g[m], m + 1)
             f == [i \in 0 .. m + 1 |-> IF i = m + 1 THEN next ELSE g[i]]
  <2>2. RegisterIs(next, bits, m + 1, init, n, width, powers)
    <3>1. m \in 0 .. N - 1 /\ m \in 0 .. m
      BY <1>1
    <3>2. RegisterIs(g[m], bits, m, init, n, width, powers)
      BY <2>1, <3>1
    <3> QED BY <1>5, <3>1, <3>2
  <2>3. ASSUME NEW i \in 0 .. m + 1
        PROVE  /\ f[i] = IF i = 0 THEN first ELSE step(f[i - 1], i)
               /\ RegisterIs(f[i], bits, i, init, n, width, powers)
    <3>1. CASE i = m + 1
      <4>1. f[i] = next /\ f[i - 1] = g[m] /\ i # 0
        BY <3>1
      <4>2. f[i] = step(f[i - 1], i)
        BY <3>1, <4>1
      <4> HIDE DEF f, next
      <4> QED BY <2>2, <3>1, <4>1, <4>2
    <3>2. CASE i # m + 1
      <4>1. i \in 0 .. m /\ f[i] = g[i] /\ (i # 0 => f[i - 1] = g[i - 1])
        BY <3>2
      <4> HIDE DEF f
      <4> QED BY <2>1, <4>1
    <3> QED BY <3>1, <3>2
  <2>4. f = [i \in 0 .. m + 1 |-> f[i]]
    OBVIOUS
  <2> HIDE DEF f
  <2> QED BY <2>3, <2>4
<1>8. Nat \subseteq G
  <2> HIDE DEF G
  <2> QED BY <1>6, <1>7, Induction
<1>9. PICK g : /\ g = [i \in 0 .. N |-> g[i]]
               /\ \A i \in 0 .. N : g[i] = IF i = 0 THEN first ELSE step(g[i - 1], i)
  <2>1. N \in G
    <3> HIDE DEF G
    <3> QED BY <1>1, <1>8
  <2>2. N <= N
    BY <1>1
  <2> QED BY <2>1, <2>2
<1> DEFINE after == CHOOSE f : f = [i \in 0 .. N |-> IF i = 0 THEN first ELSE step(f[i - 1], i)]
<1>10. g = [i \in 0 .. N |-> IF i = 0 THEN first ELSE step(g[i - 1], i)]
  <2>1. [i \in 0 .. N |-> g[i]] = [i \in 0 .. N |-> IF i = 0 THEN first ELSE step(g[i - 1], i)]
    BY <1>9
  <2> QED BY <1>9, <2>1
<1>11. after = [i \in 0 .. N |-> IF i = 0 THEN first ELSE step(after[i - 1], i)]
  BY <1>10
<1>12. CrcMsb(bytes, poly, init, width) = LowBits(after[N], n)
  BY <1>2 DEF CrcMsb, N, first, step, Aligned
<1> HIDE DEF after
<1>13. \A i \in 0 .. N : after[i] = IF i = 0 THEN first ELSE step(after[i - 1], i)
  BY <1>11
<1>14. RegisterIs(after[N], bits, N, init, n, width, powers)
  <2> DEFINE H == {i \in Nat : i <= N => RegisterIs(after[i], bits, i, init, n, width, powers)}
  <2>1. 0 \in H
    BY <1>1, <1>4, <1>13
  <2>2. ASSUME NEW i \in Nat, i \in H PROVE i + 1 \in H
    <3> SUFFICES ASSUME i + 1 <= N
                 PROVE  RegisterIs(after[i + 1], bits, i + 1, init, n, width, powers)
      OBVIOUS
    <3>1. i \in 0 .. N - 1 /\ i + 1 \in 0 .. N /\ i + 1 # 0 /\ (i + 1) - 1 = i
      BY <1>1
    <3>2. RegisterIs(after[i], bits, i, init, n, width, powers)
      BY <1>1, <2>2
    <3>3. after[i + 1] = step(after[i], i + 1)
      BY <1>13, <3>1
    <3> QED BY <1>5, <3>1, <3>2, <3>3
  <2>3. Nat \subseteq H
    <3> HIDE DEF H
    <3> QED BY <2>1, <2>2, Induction
  <2> QED BY <1>1, <2>3
<1>15. LowBits(after[N], n) \in BitWord(n)
  BY <1>2, <1>14, LowIs DEF RegisterIs
<1>16. Division(Bits(bytes), init, powers) = Sum(Exponents(bits, ByteBits * N, init, n), powers, n)
  <2>1. bits = [i \in 1 .. ByteBits * N |-> Bits(bytes)[i]] /\ bits = Bits(bytes)
    BY DEF bits, Bits, N
  <2>2. Len(bits) = ByteBits * N /\ DOMAIN bits = 1 .. ByteBits * N
    BY <1>3, <2>1
  <2>3. Len(init) = n /\ DOMAIN init = 1 .. n
    BY <1>2, WordIsSeq
  <2> DEFINE all == Len(bits) + Len(init)
             terms == SymDiff({all - i : i \in {j \in DOMAIN bits : bits[j] = 1}},
                              {all - i : i \in {j \in DOMAIN init : init[j] = 1}})
  <2>4. Division(bits, init, powers)
            = [i \in DOMAIN init |-> Cardinality({k \in terms : powers[k + 1][i] = 1}) % 2]
    BY DEF Division
  <2>5. terms = Exponents(bits, ByteBits * N, init, n)
    BY <2>2, <2>3 DEF Exponents, Top
  <2> HIDE DEF terms, all
  <2>6. Sum(terms, powers, n)
            = [i \in DOMAIN init |-> Cardinality({k \in terms : powers[k + 1][i] = 1}) % 2]
    BY <2>3 DEF Sum, Having
  <2> QED BY <2>1, <2>4, <2>5, <2>6
<1> QED BY <1>12, <1>14, <1>15, <1>16 DEF RegisterIs

\* The table of the powers is one.
Table(s, poly, n, k) ==
    s \in Seq(BitWord(n)) /\ Len(s) = k + 1 /\ ArePowers(s, poly, n, k)

LEMMA FirstTable ==
    ASSUME NEW n \in Nat, n > 0, NEW poly
    PROVE  Table(<<Append(Zeros(n - 1), 1)>>, poly, n, 0)
<1>1. PICK m : m = n - 1
  OBVIOUS
<1>2. m \in Nat /\ m + 1 = n /\ 1 \in Bit
  BY <1>1 DEF Bit
<1>3. Zeros(m) \in Seq(Bit) /\ Len(Zeros(m)) = m /\ \A i \in 1 .. m : Zeros(m)[i] = 0
  BY <1>2, ZerosAre, WordIsSeq
<1>4. PICK one : one = Append(Zeros(m), 1)
  OBVIOUS
<1>5. one \in Seq(Bit) /\ Len(one) = n /\ \A i \in 1 .. n : one[i] = IF i = n THEN 1 ELSE 0
  BY <1>2, <1>3, <1>4, AppendProperties
<1>6. one \in BitWord(n)
  BY <1>5, LenProperties DEF BitWord
<1>7. PICK s : s = <<one>>
  OBVIOUS
<1>8. s \in Seq(BitWord(n)) /\ Len(s) = 1 /\ s[1] = one
  BY <1>6, <1>7
<1>9. ArePowers(s, poly, n, 0)
  BY <1>5, <1>6, <1>8 DEF ArePowers
<1> QED BY <1>1, <1>4, <1>7, <1>8, <1>9 DEF Table

LEMMA NextTable ==
    ASSUME NEW n \in Nat, n > 0, NEW poly \in BitWord(n), NEW k \in Nat, NEW s, Table(s, poly, n, k)
    PROVE  Table(Append(s, TimesX(Last(s), poly)), poly, n, k + 1)
<1>1. s \in Seq(BitWord(n)) /\ Len(s) = k + 1 /\ ArePowers(s, poly, n, k)
  BY DEF Table
<1>2. Last(s) = s[k + 1] /\ s[k + 1] \in BitWord(n)
  BY <1>1 DEF Last, ArePowers
<1>3. PICK next : next = TimesX(Last(s), poly)
  OBVIOUS
<1>4. next \in BitWord(n) /\ next = TimesX(s[k + 1], poly)
  BY <1>2, <1>3, TimesXIs
<1>5. PICK t : t = Append(s, next)
  OBVIOUS
<1>6. /\ t \in Seq(BitWord(n)) /\ Len(t) = k + 2
      /\ \A i \in 1 .. k + 1 : t[i] = s[i]
      /\ t[k + 2] = next
  BY <1>1, <1>4, <1>5, AppendProperties
<1>7. ArePowers(t, poly, n, k + 1)
  <2>1. ASSUME NEW i \in 0 .. k + 1 PROVE t[i + 1] \in BitWord(n)
    <3>1. CASE i = k + 1
      BY <1>4, <1>6, <3>1
    <3>2. CASE i # k + 1
      <4>1. i \in 0 .. k /\ i + 1 \in 1 .. k + 1
        BY <3>2
      <4> QED BY <1>1, <1>6, <4>1 DEF ArePowers
    <3> QED BY <3>1, <3>2
  <2>2. ASSUME NEW i \in 0 .. (k + 1) - 1 PROVE t[i + 2] = TimesX(t[i + 1], poly)
    <3>1. CASE i = k
      <4>1. t[i + 1] = s[k + 1] /\ t[i + 2] = next
        BY <1>6, <3>1
      <4> QED BY <1>4, <4>1
    <3>2. CASE i # k
      <4>1. i \in 0 .. k - 1 /\ i + 1 \in 1 .. k + 1 /\ i + 2 \in 1 .. k + 1
        BY <3>2
      <4>2. s[i + 2] = TimesX(s[i + 1], poly)
        BY <1>1, <4>1 DEF ArePowers
      <4> QED BY <1>6, <4>1, <4>2
    <3> QED BY <3>1, <3>2
  <2>3. \A i \in 1 .. n : t[1][i] = IF i = n THEN 1 ELSE 0
    <3>1. t[1] = s[1]
      BY <1>6
    <3> QED BY <1>1, <3>1 DEF ArePowers
  <2> QED BY <2>1, <2>2, <2>3 DEF ArePowers
<1> QED BY <1>3, <1>5, <1>6, <1>7 DEF Table

LEMMA PowersAre ==
    ASSUME NEW n \in Nat, n > 0, NEW poly \in BitWord(n), NEW upTo \in Nat
    PROVE  ArePowers(Powers(poly, upTo), poly, n, upTo)
<1> DEFINE one == <<Append(Zeros(n - 1), 1)>>
           step(s) == Append(s, TimesX(Last(s), poly))
           G == {m \in Nat : \E f : /\ f = [i \in 0 .. m |-> f[i]]
                                    /\ \A i \in 0 .. m : f[i] = IF i = 0 THEN one ELSE step(f[i - 1])}
<1>1. Len(poly) = n
  BY WordIsSeq
<1>2. Table(one, poly, n, 0)
  BY FirstTable
<1>3. \A s : \A k \in Nat : Table(s, poly, n, k) => Table(step(s), poly, n, k + 1)
  BY NextTable
<1> DEFINE first == CHOOSE f : f = [i \in 0 .. upTo |-> IF i = 0 THEN one ELSE step(f[i - 1])]
<1>4. Powers(poly, upTo) = first[upTo]
  BY <1>1 DEF Powers
<1> HIDE DEF one, step
<1>5. 0 \in G
  <2> DEFINE f == [i \in 0 .. 0 |-> one]
  <2>1. f = [i \in 0 .. 0 |-> f[i]] /\ \A i \in 0 .. 0 : f[i] = IF i = 0 THEN one ELSE step(f[i - 1])
    OBVIOUS
  <2> HIDE DEF f
  <2> QED BY <2>1
<1>6. ASSUME NEW m \in Nat, m \in G PROVE m + 1 \in G
  <2>1. PICK g : \A i \in 0 .. m : g[i] = IF i = 0 THEN one ELSE step(g[i - 1])
    BY <1>6
  <2> DEFINE f == [i \in 0 .. m + 1 |-> IF i = m + 1 THEN step(g[m]) ELSE g[i]]
  <2>2. ASSUME NEW i \in 0 .. m + 1 PROVE f[i] = IF i = 0 THEN one ELSE step(f[i - 1])
    <3>1. CASE i = m + 1
      <4>1. f[i] = step(g[m]) /\ f[i - 1] = g[m] /\ i # 0
        BY <3>1
      <4> HIDE DEF f
      <4> QED BY <4>1
    <3>2. CASE i # m + 1
      <4>1. i \in 0 .. m /\ f[i] = g[i] /\ (i # 0 => f[i - 1] = g[i - 1])
        BY <3>2
      <4> HIDE DEF f
      <4> QED BY <2>1, <4>1
    <3> QED BY <3>1, <3>2
  <2>3. f = [i \in 0 .. m + 1 |-> f[i]]
    OBVIOUS
  <2> HIDE DEF f
  <2>4. \A i \in 0 .. m + 1 : f[i] = IF i = 0 THEN one ELSE step(f[i - 1])
    BY <2>2
  <2>5. m + 1 \in Nat
    OBVIOUS
  <2> QED BY <2>3, <2>4, <2>5
<1>7. upTo \in G
  <2> HIDE DEF G
  <2> QED BY <1>5, <1>6, Induction
<1>8. PICK g : /\ g = [i \in 0 .. upTo |-> g[i]]
               /\ \A i \in 0 .. upTo : g[i] = IF i = 0 THEN one ELSE step(g[i - 1])
  BY <1>7
<1>9. g = [i \in 0 .. upTo |-> IF i = 0 THEN one ELSE step(g[i - 1])]
  <2>1. [i \in 0 .. upTo |-> g[i]] = [i \in 0 .. upTo |-> IF i = 0 THEN one ELSE step(g[i - 1])]
    BY <1>8
  <2> QED BY <1>8, <2>1
<1>10. first = [i \in 0 .. upTo |-> IF i = 0 THEN one ELSE step(first[i - 1])]
  BY <1>9
<1> HIDE DEF first
<1>11. \A i \in 0 .. upTo : first[i] = IF i = 0 THEN one ELSE step(first[i - 1])
  BY <1>10
<1>12. Table(first[upTo], poly, n, upTo)
  <2> DEFINE H == {i \in Nat : i <= upTo => Table(first[i], poly, n, i)}
  <2>1. 0 \in H
    BY <1>2, <1>11
  <2>2. ASSUME NEW i \in Nat, i \in H PROVE i + 1 \in H
    <3> SUFFICES ASSUME i + 1 <= upTo PROVE Table(first[i + 1], poly, n, i + 1)
      OBVIOUS
    <3>1. i + 1 \in 0 .. upTo /\ i + 1 # 0 /\ (i + 1) - 1 = i /\ i <= upTo
      OBVIOUS
    <3>2. Table(first[i], poly, n, i)
      BY <2>2, <3>1
    <3>3. first[i + 1] = step(first[i])
      BY <1>11, <3>1
    <3> QED BY <1>3, <3>2, <3>3
  <2>3. Nat \subseteq H
    <3> HIDE DEF H
    <3> QED BY <2>1, <2>2, Induction
  <2> QED BY <2>3
<1> QED BY <1>4, <1>12 DEF Table

-----------------------------------------------------------------------------
(* Bits and bytes of eight bits.                                            *)

LEMMA Eight == ByteBits = 8 /\ Byte = BitWord(8)
BY FormatAssumption DEF Byte, BitWord

LEMMA TwoTo == \A e \in 0 .. 7 : 2 ^ e \in Nat /\ 2 ^ e > 0
<1> TAKE e \in 0 .. 7
<1>1. \/ e = 0 \/ e = 1 \/ e = 2 \/ e = 3 \/ e = 4 \/ e = 5 \/ e = 6 \/ e = 7
  OBVIOUS
<1>2. 2 ^ 0 = 1 /\ 2 ^ 1 = 2 /\ 2 ^ 2 = 4 /\ 2 ^ 3 = 8
  OBVIOUS
<1>3. 2 ^ 4 = 16 /\ 2 ^ 5 = 32 /\ 2 ^ 6 = 64 /\ 2 ^ 7 = 128
  OBVIOUS
<1>4. PICK d : d = 2 ^ e
  OBVIOUS
<1>5. d \in {1, 2, 4, 8, 16, 32, 64, 128}
  <2>1. CASE e \in 0 .. 3
    <3>1. e = 0 \/ e = 1 \/ e = 2 \/ e = 3
      BY <2>1
    <3> QED BY <1>2, <1>4, <3>1, Zenon
  <2>2. CASE e \in 4 .. 7
    <3>1. e = 4 \/ e = 5 \/ e = 6 \/ e = 7
      BY <2>2
    <3>2. CASE e = 4 BY <1>3, <1>4, <3>2, Zenon
    <3>3. CASE e = 5 BY <1>3, <1>4, <3>3, Zenon
    <3>4. CASE e = 6 BY <1>3, <1>4, <3>4, Zenon
    <3>5. CASE e = 7 BY <1>3, <1>4, <3>5, Zenon
    <3> QED BY <3>1, <3>2, <3>3, <3>4, <3>5
  <2> QED BY <1>1, <2>1, <2>2
<1>6. d \in Nat /\ d > 0
  BY <1>5
<1> QED BY <1>4, <1>6

LEMMA BitOfNumber == \A n \in Int, e \in 0 .. 7 : (n \div 2 ^ e) % 2 \in Bit
<1> TAKE n \in Int, e \in 0 .. 7
<1>1. PICK d : d = 2 ^ e
  OBVIOUS
<1>2. d \in Nat /\ d > 0
  BY <1>1, TwoTo
<1>3. PICK q : q = n \div d
  OBVIOUS
<1>4. q \in Int
  BY <1>2, <1>3
<1>5. q % 2 \in {0, 1}
  BY <1>4
<1> QED BY <1>1, <1>3, <1>5 DEF Bit

LEMMA ByteOfIs == \A n \in Int : ByteOf(n) \in Byte
<1> TAKE n \in Int
<1>1. \A j \in 1 .. 8 : 8 - j \in 0 .. 7
  OBVIOUS
<1>2. \A j \in 1 .. 8 : (n \div 2 ^ (8 - j)) % 2 \in Bit
  BY <1>1, BitOfNumber
<1> QED BY <1>2, Eight DEF ByteOf, BitWord

LEMMA WordIs ==
    ASSUME NEW nibbles \in Seq(Nat), NEW m \in Nat, m = 4 * Len(nibbles)
    PROVE  Word(nibbles) \in BitWord(m)
<1>1. ASSUME NEW n \in 1 .. m PROVE (nibbles[(n + 3) \div 4] \div 2 ^ ((m - n) % 4)) % 2 \in Bit
  <2>1. (n + 3) \div 4 \in 1 .. Len(nibbles) /\ (m - n) % 4 \in 0 .. 7
    <3>1. PICK l \in Nat : l = Len(nibbles)
      BY LenProperties
    <3>2. (n + 3) \div 4 \in 1 .. l /\ (m - n) % 4 \in 0 .. 7
      BY <3>1
    <3> QED BY <3>1, <3>2
  <2>2. nibbles[(n + 3) \div 4] \in Int
    BY <2>1, ElementOfSeq
  <2> QED BY <2>1, <2>2, BitOfNumber
<1> QED BY <1>1 DEF Word, BitWord

LEMMA OnesAre == \A n \in Nat : Ones(n) \in BitWord(n)
BY DEF Ones, BitWord, Bit

LEMMA BytesAre ==
    ASSUME NEW bytes \in Seq(Byte)
    PROVE  /\ Len(bytes) \in Nat /\ 8 * Len(bytes) \in Nat
           /\ \A i \in 1 .. Len(bytes) : bytes[i] \in BitWord(8)
           /\ Bits(bytes) \in BitWord(8 * Len(bytes))
           /\ \A i \in 1 .. Len(bytes), j \in 1 .. 8 : Bits(bytes)[8 * (i - 1) + j] = bytes[i][j]
<1>1. Len(bytes) \in Nat /\ 8 * Len(bytes) \in Nat
  BY LenProperties
<1>2. \A i \in 1 .. Len(bytes) : bytes[i] \in BitWord(8)
  BY ElementOfSeq, Eight
<1>3. ASSUME NEW n \in 1 .. 8 * Len(bytes) PROVE Bits(bytes)[n] \in Bit
  <2>1. Bits(bytes)[n] = bytes[(n - 1) \div 8 + 1][((n - 1) % 8) + 1]
    BY Eight DEF Bits
  <2>2. (n - 1) \div 8 + 1 \in 1 .. Len(bytes) /\ ((n - 1) % 8) + 1 \in 1 .. 8
    BY <1>1
  <2> QED BY <1>2, <2>1, <2>2 DEF BitWord
<1>4. Bits(bytes) \in BitWord(8 * Len(bytes))
  BY <1>3, Eight DEF Bits, BitWord
<1>5. ASSUME NEW i \in 1 .. Len(bytes), NEW j \in 1 .. 8
      PROVE  Bits(bytes)[8 * (i - 1) + j] = bytes[i][j]
  BY <1>1, Eight, BitOf1
<1> QED BY <1>1, <1>2, <1>4, <1>5

\* Byte i of an area is made of the bits from place on.
CopiedFrom(bytes, length, bits, place) ==
    /\ bytes \in [1 .. length -> Byte]
    /\ \A i \in 1 .. length, j \in 1 .. 8 : bytes[i][j] = bits[place + 8 * (i - 1) + j]

LEMMA CopyIs ==
    ASSUME NEW buffer \in Seq(Byte), NEW length \in Nat, NEW place \in Nat,
           Fits(buffer, place, length)
    PROVE  LET copied == CopyStartAt(buffer, Offset(place) + Spare(place) + length,
                                     Offset(place), BitOf(place))
           IN  /\ copied \in Seq(Byte) /\ Len(copied) = length + Spare(place)
               /\ CopiedFrom(SubSeq(copied, 1, length), length, Bits(buffer), place)
<1> DEFINE offset == Offset(place)
           bit == BitOf(place)
           total == offset + Spare(place) + length
           first == SubSeq(buffer, 1, total)
           stream == Bits(first) \o Zeros(8)
<1>1. /\ offset \in Nat /\ bit \in 0 .. 7 /\ place = 8 * offset + bit
      /\ Spare(place) \in 0 .. 1 /\ (bit # 0 => Spare(place) = 1) /\ total \in Nat
  BY Eight DEF Offset, BitOf, Spare
<1>2. total <= Len(buffer) /\ Len(buffer) \in Nat
  BY LenProperties DEF Fits
<1>3. \A i \in 1 .. total : buffer[i] \in Byte
  BY <1>1, <1>2, ElementOfSeq
<1> HIDE DEF total, offset, bit
<1>4. first \in Seq(Byte) /\ Len(first) = total /\ \A i \in 1 .. total : first[i] = buffer[i]
  BY <1>1, <1>3, SubSeqProperties
<1> HIDE DEF first
<1>5. /\ Bits(first) \in BitWord(8 * total) /\ 8 * total \in Nat
      /\ \A n \in 1 .. 8 * total : Bits(first)[n] = Bits(buffer)[n]
  <2>1. ASSUME NEW n \in 1 .. 8 * total PROVE Bits(first)[n] = Bits(buffer)[n]
    <3>1. /\ Bits(first)[n] = first[(n - 1) \div 8 + 1][((n - 1) % 8) + 1]
          /\ Bits(buffer)[n] = buffer[(n - 1) \div 8 + 1][((n - 1) % 8) + 1]
      BY <1>1, <1>2, <1>4, Eight DEF Bits
    <3>2. (n - 1) \div 8 + 1 \in 1 .. total
      BY <1>1
    <3> QED BY <1>4, <3>1, <3>2
  <2> QED BY <1>4, <2>1, BytesAre
<1>6. /\ stream \in BitWord(8 * total + 8)
      /\ \A n \in 1 .. 8 * total : stream[n] = Bits(buffer)[n]
      /\ 8 * total + 8 \in Nat
  <2>1. PICK m \in Nat : m = 8 * total
    BY <1>5
  <2>2. Zeros(8) \in BitWord(8) /\ 8 \in Nat
    BY ZerosAre
  <2>3. /\ stream \in BitWord(m + 8)
        /\ \A i \in 1 .. m + 8 : stream[i] = IF i <= m THEN Bits(first)[i] ELSE Zeros(8)[i - m]
    BY <1>5, <2>1, <2>2, Joined
  <2>4. \A n \in 1 .. m : n \in 1 .. m + 8 /\ n <= m
    OBVIOUS
  <2>5. \A n \in 1 .. m : stream[n] = Bits(first)[n]
    BY <2>3, <2>4
  <2> HIDE DEF stream
  <2> QED BY <1>5, <2>1, <2>3, <2>5
<1> HIDE DEF stream
<1>7. ASSUME NEW i \in 1 .. length
      PROVE  LET byte == SubSeq(stream, (offset + i - 1) * 8 + bit + 1, (offset + i) * 8 + bit)
             IN  byte \in BitWord(8) /\ \A j \in 1 .. 8 : byte[j] = Bits(buffer)[place + 8 * (i - 1) + j]
  <2>1. PICK a, b : a = (offset + i - 1) * 8 + bit + 1 /\ b = (offset + i) * 8 + bit
    OBVIOUS
  <2>2. a \in Int /\ b \in Int /\ a = place + 8 * (i - 1) + 1 /\ b = a + 7 /\ a >= 1
    BY <1>1, <2>1
  <2>3. b <= 8 * total
    BY <1>1, <2>1 DEF total
  <2>4. \A n \in a .. b : stream[n] \in Bit
    BY <1>1, <1>6, <2>2, <2>3 DEF BitWord
  <2>5. /\ SubSeq(stream, a, b) \in Seq(Bit) /\ Len(SubSeq(stream, a, b)) = 8
        /\ \A j \in 1 .. 8 : SubSeq(stream, a, b)[j] = stream[a + j - 1]
    BY <2>2, <2>4, SubSeqProperties
  <2>6. \A j \in 1 .. 8 : /\ a + j - 1 \in 1 .. 8 * total
                          /\ a + j - 1 = place + 8 * (i - 1) + j
    BY <1>1, <2>2, <2>3
  <2>7. \A j \in 1 .. 8 : SubSeq(stream, a, b)[j] = Bits(buffer)[place + 8 * (i - 1) + j]
    BY <1>6, <2>5, <2>6
  <2>8. SubSeq(stream, a, b) \in BitWord(8)
    BY <2>5, LenProperties DEF BitWord
  <2> QED BY <2>1, <2>7, <2>8
<1> DEFINE copied == CopyStartAt(buffer, total, offset, bit)
<1>8. /\ copied = [i \in 1 .. total - offset |->
                     SubSeq(stream, (offset + i - 1) * 8 + bit + 1, (offset + i) * 8 + bit)]
      /\ \A i \in 1 .. length :
             copied[i] = SubSeq(stream, (offset + i - 1) * 8 + bit + 1, (offset + i) * 8 + bit)
  <2>1. total - offset \in Nat /\ length <= total - offset
    BY <1>1 DEF total
  <2>2. copied = [i \in 1 .. total - offset |->
                     SubSeq(stream, (offset + i - 1) * 8 + bit + 1, (offset + i) * 8 + bit)]
    BY Eight DEF CopyStartAt, stream, first
  <2>3. \A i \in 1 .. length : i \in 1 .. total - offset
    BY <1>1, <2>1
  <2> QED BY <2>2, <2>3
<1> HIDE DEF copied
<1>9. \A i \in 1 .. length : copied[i] \in Byte
  BY <1>7, <1>8, Eight
<1>10. /\ SubSeq(copied, 1, length) \in Seq(Byte) /\ Len(SubSeq(copied, 1, length)) = length
       /\ \A i \in 1 .. length : SubSeq(copied, 1, length)[i] = copied[i]
  BY <1>9, SubSeqProperties
<1>11. SubSeq(copied, 1, length) \in [1 .. length -> Byte]
  BY <1>10, LenProperties
<1>12. CopiedFrom(SubSeq(copied, 1, length), length, Bits(buffer), place)
  <2>1. ASSUME NEW i \in 1 .. length, NEW j \in 1 .. 8
        PROVE  SubSeq(copied, 1, length)[i][j] = Bits(buffer)[place + 8 * (i - 1) + j]
    <3>1. SubSeq(copied, 1, length)[i] =
              SubSeq(stream, (offset + i - 1) * 8 + bit + 1, (offset + i) * 8 + bit)
      BY <1>8, <1>10
    <3> QED BY <1>7, <3>1
  <2> QED BY <1>11, <2>1 DEF CopiedFrom
\* The byte behind the area too.
<1>13. ASSUME NEW i \in 1 .. total - offset
       PROVE  SubSeq(stream, (offset + i - 1) * 8 + bit + 1, (offset + i) * 8 + bit) \in Byte
  <2>1. PICK a, b : a = (offset + i - 1) * 8 + bit + 1 /\ b = (offset + i) * 8 + bit
    OBVIOUS
  <2>2. a \in Int /\ b \in Int /\ b = a + 7 /\ a >= 1 /\ b <= 8 * total + 8
    BY <1>1, <2>1
  <2>3. \A n \in a .. b : stream[n] \in Bit
    BY <1>6, <2>2 DEF BitWord
  <2>4. SubSeq(stream, a, b) \in Seq(Bit) /\ Len(SubSeq(stream, a, b)) = 8
    BY <2>2, <2>3, SubSeqProperties
  <2> QED BY <2>1, <2>4, LenProperties, Eight DEF BitWord
<1>14. copied \in Seq(Byte) /\ Len(copied) = length + Spare(place)
  <2>1. PICK m \in Nat : m = total - offset /\ m = length + Spare(place)
    BY <1>1 DEF total
  <2>2. copied \in [1 .. m -> Byte]
    BY <1>8, <1>13, <2>1
  <2> QED BY <2>1, <2>2, SeqDef, LenProperties
<1> QED BY <1>12, <1>14 DEF copied, total, offset, bit

LEMMA FirstIs ==
    ASSUME NEW places \in SUBSET Nat, places # {}
    PROVE  First(places) \in places /\ \A q \in places : First(places) <= q
<1> DEFINE R == {ss \in Nat \X Nat : ss[1] < ss[2]}
<1>1. IsWellFoundedOn(R, Nat)
  BY NatLessThanWellFounded DEF OpToRel
<1>2. PICK p \in places : \A q \in places : <<q, p>> \notin R
  <2> HIDE DEF R
  <2> QED BY <1>1, WFMin
<1>3. ASSUME NEW q \in places PROVE p <= q
  <2>1. q \in Nat /\ p \in Nat
    OBVIOUS
  <2>2. ~(q < p)
    BY <1>2, <2>1
  <2> QED BY <2>1, <2>2
<1> QED BY <1>3 DEF First

\* What findbyte and the copy make of a buffer: the area is as much of the copy as fits
\* the memory allocated for it.
Wanted(area, length) == SubSeq(area.bytes, 1, length)
AreaFound(area, buffer, sync, length) ==
    /\ area.status = "found"
    /\ area.place \in Places(buffer, sync) /\ area.place \in Nat
    /\ \A p \in Places(buffer, sync) : area.place <= p
    /\ Fits(buffer, area.place, length)
    /\ area.bytes \in Seq(Byte) /\ Len(area.bytes) = length + Spare(area.place)
    /\ CopiedFrom(Wanted(area, length), length, Bits(buffer), area.place)
    /\ Wanted(area, length)[1] = sync

LEMMA AreaIs ==
    ASSUME NEW buffer \in Seq(Byte), NEW sync \in Byte, NEW length \in Nat, length > 0
    PROVE  IF Places(buffer, sync) = {} \/ ~Fits(buffer, First(Places(buffer, sync)), length)
           THEN Area(buffer, sync, length).status # "found"
           ELSE AreaFound(Area(buffer, sync, length), buffer, sync, length)
<1> DEFINE places == Places(buffer, sync)
           place == First(places)
           area == Area(buffer, sync, length)
<1>1. places \in SUBSET Nat
  <2>1. \A p \in 0 .. (Len(buffer) - 1) * ByteBits : p \in Nat
    BY Eight, LenProperties
  <2> QED BY <2>1 DEF Places
<1>2. CASE places = {}
  BY <1>2 DEF Area
<1>3. CASE places # {} /\ ~Fits(buffer, place, length)
  BY <1>3 DEF Area
<1>4. CASE places # {} /\ Fits(buffer, place, length)
  <2>1. place \in places /\ \A p \in places : place <= p
    BY <1>1, <1>4, FirstIs
  <2> DEFINE copied == CopyStartAt(buffer, Offset(place) + Spare(place) + length,
                                   Offset(place), BitOf(place))
  <2>2. area = [status |-> "found", bytes |-> copied, place |-> place]
    BY <1>4 DEF Area
  <2>3. place \in Nat
    BY <1>1, <2>1
  <2> HIDE DEF place
  <2>4. /\ copied \in Seq(Byte) /\ Len(copied) = length + Spare(place)
        /\ CopiedFrom(SubSeq(copied, 1, length), length, Bits(buffer), place)
    BY <1>4, <2>3, CopyIs
  <2>5. \A j \in 1 .. 8 : Bits(buffer)[place + j] = sync[j]
    BY <2>1, Eight DEF Places
  <2> HIDE DEF copied, area
  <2>6. /\ area.place = place /\ area.status = "found"
        /\ area.bytes \in Seq(Byte) /\ Len(area.bytes) = length + Spare(area.place)
        /\ CopiedFrom(Wanted(area, length), length, Bits(buffer), area.place)
    BY <2>2, <2>4 DEF Wanted
  <2>7. Wanted(area, length)[1] = sync
    <3>1. 1 \in 1 .. length /\ \A j \in 1 .. 8 : place + 8 * (1 - 1) + j = place + j
      BY <2>3
    <3>2. /\ Wanted(area, length)[1] \in BitWord(8)
          /\ \A j \in 1 .. 8 : Wanted(area, length)[1][j] = Bits(buffer)[place + j]
      BY <2>6, <3>1, Eight DEF CopiedFrom
    <3>3. sync \in BitWord(8)
      BY Eight
    <3> QED BY <2>5, <3>2, <3>3 DEF BitWord
  <2> QED BY <1>4, <2>1, <2>3, <2>6, <2>7 DEF AreaFound, area, place
<1> QED BY <1>2, <1>3, <1>4

-----------------------------------------------------------------------------
(* The formats.                                                             *)

CheckIs(check, area) ==
    /\ check.skip \in 0 .. 1
    /\ \E n \in {16, 32, 48, 56} : /\ check.poly \in BitWord(n) /\ check.init \in BitWord(n)
                                   /\ 8 * area + n <= 8 * (SectorSize + 16) + 1

FormatIs(k) ==
    LET f == controllers[k] IN
    /\ f.addrLength \in Nat /\ f.addrLength > 0
    /\ DataLength(k) \in Nat /\ DataLength(k) > f.dataAt + SectorSize
    /\ LeftOut(k) \in Int
    /\ f.dataAt \in 1 .. 2
    /\ f.addrSync \in 128 .. 255 /\ f.dataSync \in 128 .. 255
    /\ CheckIs(f.addrCheck, f.addrLength) /\ CheckIs(f.dataCheck, DataLength(k))

\* The last bit of a polynomial is the last of its last digit.
LEMMA LastBitIs ==
    ASSUME NEW nibbles \in Seq(Nat), NEW m \in Nat, m = 4 * Len(nibbles), m > 0
    PROVE  Word(nibbles) \in BitWord(m) /\ Word(nibbles)[m] = nibbles[Len(nibbles)] % 2
<1>1. PICK l \in Nat : l = Len(nibbles) /\ m = 4 * l /\ l > 0
  BY LenProperties
<1>2. PICK last \in Nat : last = nibbles[l]
  <2>1. l \in 1 .. l
    BY <1>1
  <2>2. nibbles[l] \in Nat
    BY <1>1, <2>1, ElementOfSeq
  <2> QED BY <2>2
<1>3. Word(nibbles)[m] = (nibbles[(m + 3) \div 4] \div 2 ^ ((m - m) % 4)) % 2
  BY <1>1 DEF Word
<1>4. (m + 3) \div 4 = l /\ (m - m) % 4 = 0
  BY <1>1
<1>5. 2 ^ 0 = 1
  OBVIOUS
<1>6. last \div 1 = last
  BY <1>2
<1>7. Word(nibbles)[m] = last % 2
  BY <1>2, <1>3, <1>4, <1>5, <1>6, Zenon
<1> QED BY <1>1, <1>2, <1>7, WordIs

\* The polynomials of data areas, as wide as their digits and with a constant term.
LEMMA LongPolynomialsAre ==
    /\ LET poly == Word(<<1, 8, 1, 8, 1, 4, 5, 0, 3, 0, 1, 1>>) IN poly \in BitWord(48) /\ poly[48] = 1
    /\ LET poly == Word(<<1, 0, 0, 11, 0, 0, 0, 1, 1, 0, 0, 11>>) IN poly \in BitWord(48) /\ poly[48] = 1
    /\ LET poly == Word(<<1, 4, 0, 10, 0, 4, 4, 5, 0, 0, 0, 1, 0, 1>>) IN poly \in BitWord(56) /\ poly[56] = 1
<1>1. PICK nibbles : nibbles = <<1, 8, 1, 8, 1, 4, 5, 0, 3, 0, 1, 1>>
  OBVIOUS
<1>2. nibbles \in Seq(Nat) /\ 48 = 4 * Len(nibbles) /\ nibbles[Len(nibbles)] = 1
  BY <1>1
<1>3. PICK others : others = <<1, 0, 0, 11, 0, 0, 0, 1, 1, 0, 0, 11>>
  OBVIOUS
<1>4. others \in Seq(Nat) /\ 48 = 4 * Len(others) /\ others[Len(others)] = 11
  BY <1>3
<1>5. PICK most : most = <<1, 4, 0, 10, 0, 4, 4, 5, 0, 0, 0, 1, 0, 1>>
  OBVIOUS
<1>6. most \in Seq(Nat) /\ 56 = 4 * Len(most) /\ most[Len(most)] = 1
  BY <1>5
<1>7. 1 % 2 = 1 /\ 11 % 2 = 1
  OBVIOUS
<1>8. Word(nibbles) \in BitWord(48) /\ Word(nibbles)[48] = 1
  BY <1>2, <1>7, LastBitIs
<1>9. Word(others) \in BitWord(48) /\ Word(others)[48] = 1
  BY <1>4, <1>7, LastBitIs
<1>10. Word(most) \in BitWord(56) /\ Word(most)[56] = 1
  BY <1>6, <1>7, LastBitIs
<1> QED BY <1>1, <1>3, <1>5, <1>8, <1>9, <1>10

\* So are the two that several controllers share.
LEMMA CommonPolynomialsAre == Ccitt \in BitWord(16) /\ Ccitt[16] = 1 /\ Ibm32 \in BitWord(32) /\ Ibm32[32] = 1
<1>1. PICK nibbles : nibbles = <<1, 0, 2, 1>>
  OBVIOUS
<1>2. nibbles \in Seq(Nat) /\ 16 = 4 * Len(nibbles) /\ nibbles[Len(nibbles)] = 1
  BY <1>1
<1>3. PICK others : others = <<4, 1, 0, 4, 4, 1, 8, 5>>
  OBVIOUS
<1>4. others \in Seq(Nat) /\ 32 = 4 * Len(others) /\ others[Len(others)] = 5
  BY <1>3
<1>5. 1 % 2 = 1 /\ 5 % 2 = 1
  OBVIOUS
<1>6. Word(nibbles) \in BitWord(16) /\ Word(nibbles)[16] = 1
  BY <1>2, <1>5, LastBitIs
<1>7. Word(others) \in BitWord(32) /\ Word(others)[32] = 1
  BY <1>4, <1>5, LastBitIs
<1> QED BY <1>1, <1>3, <1>6, <1>7 DEF Ccitt, Ibm32

\* A record with these fields is a format.
RecordIs(f, n, m) ==
    /\ f.addrLength \in 8 .. 10 /\ f.dataAt \in 1 .. 2 /\ f.size \in {256, 512}
    /\ f.addrSync \in 128 .. 255 /\ f.dataSync \in 128 .. 255
    /\ f.addrCheck.skip \in 0 .. 1 /\ f.addrCheck.poly \in BitWord(n) /\ f.addrCheck.init \in BitWord(n)
    /\ f.dataCheck.skip \in 0 .. 1 /\ f.dataCheck.poly \in BitWord(m) /\ f.dataCheck.init \in BitWord(m)

LEMMA FormatFrom ==
    ASSUME NEW k, NEW n \in {16, 32}, NEW m \in {32, 48, 56}, RecordIs(controllers[k], n, m)
    PROVE  FormatIs(k)
<1>1. SectorSize \in Nat /\ SectorSize > 0 /\ n \in Nat /\ m \in Nat
  BY FormatAssumption
<1>2. PICK f : f = controllers[k]
  OBVIOUS
<1>3. RecordIs(f, n, m)
  BY <1>2
<1>4. Len(f.dataCheck.poly) = m
  BY <1>1, <1>3, WordIsSeq DEF RecordIs
<1>5. /\ f.addrLength \in 8 .. 10 /\ f.dataAt \in 1 .. 2 /\ f.size \in {256, 512}
      /\ f.addrSync \in 128 .. 255 /\ f.dataSync \in 128 .. 255
  BY <1>3 DEF RecordIs
<1>6. DataLength(k) = f.dataAt + SectorSize + m \div 8
  BY <1>2, <1>4, Eight DEF DataLength
<1>7. LeftOut(k) \in Int
  BY <1>1, <1>2, <1>5 DEF LeftOut
<1>8. PICK length : length = DataLength(k)
  OBVIOUS
<1>9. /\ length \in Nat /\ length > f.dataAt + SectorSize
      /\ 8 * length + m <= 8 * (SectorSize + 16) + 1
  <2>1. m = 32 \/ m = 48 \/ m = 56
    OBVIOUS
  <2>2. m \div 8 \in 4 .. 7 /\ 8 * (m \div 8) = m
    BY <2>1
  <2> QED BY <1>1, <1>5, <1>6, <1>8, <2>2
<1>10. 8 * f.addrLength + n <= 8 * (SectorSize + 16) + 1
  BY <1>1, <1>5
<1>11. CheckIs(f.addrCheck, f.addrLength)
  BY <1>3, <1>10 DEF CheckIs, RecordIs
<1>12. CheckIs(f.dataCheck, length)
  BY <1>3, <1>9 DEF CheckIs, RecordIs
<1>13. f.addrLength \in Nat /\ f.addrLength > 0
  BY <1>5
<1> QED BY <1>2, <1>5, <1>7, <1>8, <1>9, <1>11, <1>12, <1>13 DEF FormatIs

\* The controllers' records.
LEMMA RecordsAre ==
    /\ RecordIs(adaptec_acb2322, 16, 48) /\ RecordIs(ibm_5364, 16, 48)
    /\ RecordIs(ibm_ps2, 32, 32) /\ RecordIs(ibm_rt_enhanced, 32, 32)
    /\ RecordIs(ultrastor_12f, 16, 56)
<1>1. /\ Zeros(16) \in BitWord(16) /\ Zeros(32) \in BitWord(32) /\ Zeros(48) \in BitWord(48)
      /\ Ones(16) \in BitWord(16) /\ Ones(48) \in BitWord(48) /\ Ones(56) \in BitWord(56)
  BY ZerosAre, OnesAre
<1>2. RecordIs(adaptec_acb2322, 16, 48)
  BY <1>1, LongPolynomialsAre, CommonPolynomialsAre DEF RecordIs, adaptec_acb2322
<1>3. RecordIs(ibm_5364, 16, 48)
  BY <1>1, LongPolynomialsAre, CommonPolynomialsAre DEF RecordIs, ibm_5364
<1>4. RecordIs(ibm_ps2, 32, 32)
  BY <1>1, CommonPolynomialsAre DEF RecordIs, ibm_ps2
<1>5. RecordIs(ibm_rt_enhanced, 32, 32)
  BY <1>1, CommonPolynomialsAre DEF RecordIs, ibm_rt_enhanced
<1>6. RecordIs(ultrastor_12f, 16, 56)
  BY <1>1, LongPolynomialsAre, CommonPolynomialsAre DEF RecordIs, ultrastor_12f
<1> QED BY <1>2, <1>3, <1>4, <1>5, <1>6

LEMMA ControllersAre ==
    Controller = {"ADAPTEC_ACB2322", "IBM_5364", "IBM_PS2", "IBM_RT_ENHANCED", "ULTRASTOR_12F"}
BY DEF Controller, controllers

LEMMA FormatsAre == \A k \in Controller : FormatIs(k)
<1>1. FormatIs("ADAPTEC_ACB2322") /\ FormatIs("IBM_5364")
  BY RecordsAre, FormatFrom DEF controllers
<1>2. FormatIs("IBM_PS2") /\ FormatIs("IBM_RT_ENHANCED")
  BY RecordsAre, FormatFrom DEF controllers
<1>3. FormatIs("ULTRASTOR_12F")
  BY RecordsAre, FormatFrom DEF controllers
<1> QED BY <1>1, <1>2, <1>3, ControllersAre

-----------------------------------------------------------------------------
(* The remainders of areas.                                                 *)

\* crc.c for a format's check: any number of bytes, and a table of powers as long
\* as they need.
LEMMA RemainderIs ==
    ASSUME NEW check, NEW n \in {16, 32, 48, 56}, check.poly \in BitWord(n), check.init \in BitWord(n),
           check.skip \in 0 .. 1, NEW area \in Seq(Byte), check.skip <= Len(area),
           NEW upTo \in Nat, 8 * Len(area) + n <= upTo + 1
    PROVE  /\ Remainder(area, check) \in BitWord(n)
           /\ Remainder(area, check) = Division(Bits(SubSeq(area, check.skip + 1, Len(area))),
                                                check.init, Powers(check.poly, upTo))
<1>1. PICK poly, init, skip : poly = check.poly /\ init = check.init /\ skip = check.skip
  OBVIOUS
<1>2. PICK powers : powers = Powers(poly, upTo)
  OBVIOUS
<1>3. n \in Nat /\ n > 0 /\ poly \in BitWord(n) /\ init \in BitWord(n) /\ skip \in 0 .. 1
  BY <1>1
<1>4. ArePowers(powers, poly, n, upTo)
  BY <1>2, <1>3, PowersAre
<1>5. PICK covered : covered = SubSeq(area, skip + 1, Len(area))
  OBVIOUS
<1>6. covered \in Seq(Byte) /\ Len(covered) \in Nat /\ Len(covered) <= Len(area) /\ Len(area) \in Nat
  <2>1. PICK length \in Nat : length = Len(area)
    BY LenProperties
  <2>2. \A i \in skip + 1 .. length : area[i] \in Byte
    BY <1>3, <2>1, ElementOfSeq
  <2>3. skip + 1 \in Int /\ length \in Int
    BY <1>3
  <2>4. /\ covered \in Seq(Byte)
        /\ Len(covered) = IF skip + 1 <= length THEN length - (skip + 1) + 1 ELSE 0
    BY <1>5, <2>1, <2>2, <2>3, SubSeqProperties
  <2> QED BY <1>3, <2>1, <2>4
<1>7. PICK width : width = WordWidth(n)
  OBVIOUS
<1>8. width \in Nat /\ n \in 1 .. width /\ ByteBits <= n
  BY <1>3, <1>7, Eight DEF WordWidth
<1>9. ByteBits * Len(covered) + n <= upTo + 1
  BY <1>3, <1>6, Eight
<1>10. /\ CrcMsb(covered, poly, init, width) \in BitWord(n)
       /\ CrcMsb(covered, poly, init, width) = Division(Bits(covered), init, powers)
  BY <1>3, <1>4, <1>6, <1>8, <1>9, CrcDivides
<1>11. Len(poly) = n
  BY <1>3, WordIsSeq
<1>12. Remainder(area, check) = CrcMsb(covered, poly, init, width)
  BY <1>1, <1>5, <1>7, <1>11 DEF Remainder
<1> QED BY <1>1, <1>2, <1>5, <1>10, <1>12

-----------------------------------------------------------------------------
(* A message with its remainder behind it.                                  *)

\* One power of x and another are their product.
LEMMA UpTwice == \A T \in SUBSET Int : \A a, b \in Nat : Up(Up(T, a), b) = Up(T, a + b) /\ Up(T, 0) = T
<1> TAKE T \in SUBSET Int
<1> TAKE a, b \in Nat
<1>1. \A e \in T : (e + a) + b = e + (a + b) /\ e + 0 = e
  OBVIOUS
<1>2. Up(Up(T, a), b) = Up(T, a + b)
  <2>1. Up(T, a) = {e + a : e \in T}
    BY DEF Up
  <2>2. \A t : t \in Up(Up(T, a), b) <=> \E e \in T : t = (e + a) + b
    BY <2>1 DEF Up
  <2>3. \A t : t \in Up(T, a + b) <=> \E e \in T : t = e + (a + b)
    BY DEF Up
  <2> QED BY <1>1, <2>2, <2>3
<1>3. ASSUME NEW t PROVE t \in Up(T, 0) <=> t \in T
  BY <1>1 DEF Up
<1> QED BY <1>2, <1>3

\* A sum that is zero stays zero times any power of x.
LEMMA ZeroUp ==
    ASSUME NEW n \in Nat, n > 0, NEW poly \in BitWord(n), NEW upTo \in Nat,
           NEW powers, ArePowers(powers, poly, n, upTo),
           NEW m \in Nat, NEW T \in SUBSET (0 .. upTo - m), IsFiniteSet(T),
           Sum(T, powers, n) = Zeros(n)
    PROVE  Sum(Up(T, m), powers, n) = Zeros(n)
<1> DEFINE G == {j \in Nat : j <= m => Sum(Up(T, j), powers, n) = Zeros(n)}
<1>1. T \in SUBSET Nat /\ T \in SUBSET Int
  OBVIOUS
<1>2. 0 \in G
  BY <1>1, UpTwice
<1>3. ASSUME NEW j \in Nat, j \in G PROVE j + 1 \in G
  <2> SUFFICES ASSUME j + 1 <= m PROVE Sum(Up(T, j + 1), powers, n) = Zeros(n)
    OBVIOUS
  <2>1. Up(T, j + 1) = Up(Up(T, j), 1)
    BY <1>1, UpTwice
  <2>2. Up(T, j) \in SUBSET (0 .. upTo - 1)
    <3>1. \A e \in T : e + j \in 0 .. upTo - 1
      OBVIOUS
    <3> QED BY <3>1 DEF Up
  <2>3. IsFiniteSet(Up(T, j))
    BY <1>1, UpIsAsLarge
  <2>4. Sum(Up(T, j + 1), powers, n) = TimesX(Zeros(n), poly)
    BY <1>3, <2>1, <2>2, <2>3, SumUp
  <2>5. /\ TimesX(Zeros(n), poly) \in BitWord(n)
        /\ \A i \in 1 .. n : TimesX(Zeros(n), poly)[i] =
               ((IF i = n THEN 0 ELSE Zeros(n)[i + 1]) + Zeros(n)[1] * poly[i]) % 2
    BY ZerosAre, TimesXIs
  <2>6. ASSUME NEW i \in 1 .. n PROVE TimesX(Zeros(n), poly)[i] = 0
    <3>1. Zeros(n)[1] = 0 /\ (i # n => Zeros(n)[i + 1] = 0)
      BY ZerosAre
    <3>2. poly[i] \in {0, 1}
      BY DEF BitWord, Bit
    <3>3. \A x \in {0, 1} : (0 + 0 * x) % 2 = 0
      OBVIOUS
    <3> QED BY <2>5, <3>1, <3>2, <3>3
  <2> QED BY <2>4, <2>5, <2>6, ZerosAre DEF BitWord
<1>4. Nat \subseteq G
  <2> HIDE DEF G
  <2> QED BY <1>2, <1>3, Induction
<1> QED BY <1>4

\* Exponents depend on the bits of the message only.
LEMMA SameExponents ==
    ASSUME NEW a, NEW b, NEW length \in Nat, NEW init, NEW n \in Nat,
           \A i \in 1 .. length : a[i] = b[i]
    PROVE  Exponents(a, length, init, n) = Exponents(b, length, init, n)
<1>1. {j \in 1 .. length : a[j] = 1} = {j \in 1 .. length : b[j] = 1}
  OBVIOUS
<1> QED BY <1>1 DEF Exponents

\* The remainder of a message followed by its own remainder is zero.
LEMMA WithRemainder ==
    ASSUME NEW n \in Nat, n > 0, NEW poly \in BitWord(n), NEW init \in BitWord(n), NEW upTo \in Nat,
           NEW powers, ArePowers(powers, poly, n, upTo),
           NEW bits, NEW length \in Nat, (length + n) + n <= upTo + 1,
           NEW r, r = Sum(Exponents(bits, length, init, n), powers, n), Continues(bits, length, r, n)
    PROVE  Sum(Exponents(bits, length + n, init, n), powers, n) = Zeros(n)
<1>1. PICK old, top : old = Exponents(bits, length, init, n) /\ top = Top(r, n, n)
  OBVIOUS
<1>2. old \in SUBSET (0 .. (length + n) - 1) /\ IsFiniteSet(old)
  BY <1>1, ExponentsAre
<1>3. r \in BitWord(n) /\ r = Sum(old, powers, n)
  BY <1>1, <1>2, SumIs
<1>4. /\ top \in SUBSET (0 .. n - 1) /\ IsFiniteSet(top)
      /\ \A i \in 1 .. n : Sum(top, powers, n)[i] = r[i]
  <2>1. n \in 0 .. n /\ upTo >= n - 1
    OBVIOUS
  <2> QED BY <1>1, <1>3, <2>1, TopIs
<1>5. Sum(top, powers, n) = r
  <2>1. Sum(top, powers, n) \in BitWord(n)
    BY <1>4, SumIs
  <2> QED BY <1>3, <1>4, <2>1 DEF BitWord
<1>6. PICK both : both = SymDiff(old, top)
  OBVIOUS
<1>7. both \in SUBSET (0 .. upTo - n) /\ IsFiniteSet(both)
  <2>1. both \in SUBSET (0 .. (length + n) - 1)
    BY <1>2, <1>4, <1>6 DEF SymDiff
  <2> QED BY <1>2, <1>4, <1>6, <2>1, ParityOfDifference
<1>8. Sum(both, powers, n) = Zeros(n)
  <2>1. Sum(both, powers, n) = Xor(r, r)
    BY <1>2, <1>3, <1>4, <1>5, <1>6, SumOfDifference
  <2>2. Xor(r, r) \in BitWord(n) /\ \A i \in 1 .. n : Xor(r, r)[i] = (r[i] + r[i]) % 2
    BY <1>3, XorIs
  <2>3. \A i \in 1 .. n : r[i] \in {0, 1}
    BY <1>3 DEF BitWord, Bit
  <2>4. \A x \in {0, 1} : (x + x) % 2 = 0
    OBVIOUS
  <2>5. \A i \in 1 .. n : Xor(r, r)[i] = 0
    BY <2>2, <2>3, <2>4
  <2> QED BY <2>1, <2>2, <2>5, ZerosAre DEF BitWord
<1>9. Sum(Up(both, n), powers, n) = Zeros(n)
  BY <1>7, <1>8, ZeroUp
<1>10. Exponents(bits, length + n, init, n) = Up(both, n)
  <2>1. n <= n
    OBVIOUS
  <2> QED BY <1>1, <1>6, <2>1, NextExponents
<1> QED BY <1>9, <1>10

\* Eight steps that leave the last eight bits zero have shifted out zeros, if the
\* polynomial has a constant term: it is seen in the last bit whether it was added.
LEMMA TopIsZero ==
    ASSUME NEW n \in Nat, n >= 8, NEW poly \in BitWord(n), poly[n] = 1,
           NEW y, \A j \in 0 .. 8 : y[j] \in BitWord(n),
           \A j \in 0 .. 7 : y[j + 1] = TimesX(y[j], poly),
           \A i \in n - 7 .. n : y[8][i] = 0
    PROVE  \A i \in 1 .. 8 : y[0][i] = 0
<1> DEFINE G == {m \in Nat : m <= 8 => /\ \A i \in 1 .. m : y[8 - m][i] = 0
                                       /\ \A i \in (n - 7) + m .. n : y[8 - m][i] = 0}
<1>1. 0 \in G
  OBVIOUS
<1>2. ASSUME NEW m \in Nat, m \in G PROVE m + 1 \in G
  <2> SUFFICES ASSUME m + 1 <= 8
               PROVE  /\ \A i \in 1 .. m + 1 : y[8 - (m + 1)][i] = 0
                      /\ \A i \in (n - 7) + (m + 1) .. n : y[8 - (m + 1)][i] = 0
    OBVIOUS
  <2>1. PICK j \in 0 .. 7 : j = 8 - (m + 1) /\ j + 1 = 8 - m
    OBVIOUS
  <2>2. PICK before, after : before = y[j] /\ after = y[j + 1]
    OBVIOUS
  <2>3. before \in BitWord(n) /\ after = TimesX(before, poly)
    BY <2>2
  <2>4. \A i \in 1 .. n : after[i] = ((IF i = n THEN 0 ELSE before[i + 1]) + before[1] * poly[i]) % 2
    BY <2>3, TimesXIs
  <2>5. /\ \A i \in 1 .. m : after[i] = 0
        /\ \A i \in (n - 7) + m .. n : after[i] = 0
    BY <1>2, <2>1, <2>2
  <2>6. \A i \in 1 .. n : before[i] \in {0, 1} /\ poly[i] \in {0, 1}
    BY <2>3 DEF BitWord, Bit
  <2>7. before[1] = 0
    <3>1. n \in 1 .. n /\ 1 \in 1 .. n /\ n \in (n - 7) + m .. n
      OBVIOUS
    <3>2. after[n] = (0 + before[1] * 1) % 2 /\ after[n] = 0
      BY <2>4, <2>5, <3>1
    <3>3. \A x \in {0, 1} : (0 + x * 1) % 2 = 0 => x = 0
      OBVIOUS
    <3> QED BY <2>6, <3>1, <3>2, <3>3
  <2>8. ASSUME NEW i \in 1 .. n - 1 PROVE before[i + 1] = after[i]
    <3>1. i \in 1 .. n /\ i + 1 \in 1 .. n /\ i # n
      OBVIOUS
    <3>2. after[i] = (before[i + 1] + 0 * poly[i]) % 2
      BY <2>4, <2>7, <3>1
    <3>3. \A x, z \in {0, 1} : (x + 0 * z) % 2 = x
      OBVIOUS
    <3> QED BY <2>6, <3>1, <3>2, <3>3
  <2>9. ASSUME NEW i \in 1 .. m + 1 PROVE before[i] = 0
    <3>1. CASE i = 1
      BY <2>7, <3>1
    <3>2. CASE i # 1
      <4>1. PICK k \in 1 .. n - 1 : k + 1 = i /\ k \in 1 .. m
        <5>1. i - 1 \in 1 .. n - 1 /\ (i - 1) + 1 = i /\ i - 1 \in 1 .. m
          BY <3>2
        <5> QED BY <5>1
      <4>2. before[k + 1] = after[k] /\ after[k] = 0
        BY <2>5, <2>8, <4>1
      <4> QED BY <4>1, <4>2
    <3> QED BY <3>1, <3>2
  <2>10. ASSUME NEW i \in (n - 7) + (m + 1) .. n PROVE before[i] = 0
    <3>1. PICK k \in 1 .. n - 1 : k + 1 = i /\ k \in (n - 7) + m .. n
      <4>1. i - 1 \in 1 .. n - 1 /\ (i - 1) + 1 = i /\ i - 1 \in (n - 7) + m .. n
        OBVIOUS
      <4> QED BY <4>1
    <3>2. before[k + 1] = after[k] /\ after[k] = 0
      BY <2>5, <2>8, <3>1
    <3> QED BY <3>1, <3>2
  <2> QED BY <2>1, <2>2, <2>9, <2>10
<1>3. Nat \subseteq G
  <2> HIDE DEF G
  <2> QED BY <1>1, <1>2, Induction
<1>4. 8 \in G
  BY <1>3
<1>5. 8 - 8 = 0
  OBVIOUS
<1> QED BY <1>4, <1>5

\* The last byte of a message whose remainder ends in eight zeros is what the register
\* held on top before it.
LEMMA LastByte ==
    ASSUME NEW n \in Nat, n >= 8, NEW poly \in BitWord(n), poly[n] = 1, NEW init \in BitWord(n),
           NEW upTo \in Nat, NEW powers, ArePowers(powers, poly, n, upTo),
           NEW bits, NEW length \in Nat, (length + 8) + n <= upTo + 1,
           NEW byte \in BitWord(8), Continues(bits, length, byte, 8),
           \A i \in n - 7 .. n : Sum(Exponents(bits, length + 8, init, n), powers, n)[i] = 0
    PROVE  \A j \in 1 .. 8 : byte[j] = Sum(Exponents(bits, length, init, n), powers, n)[j]
<1>1. PICK old, top : old = Exponents(bits, length, init, n) /\ top = Top(byte, 8, n)
  OBVIOUS
<1>2. old \in SUBSET (0 .. (length + n) - 1) /\ IsFiniteSet(old)
  BY <1>1, ExponentsAre
<1>3. /\ top \in SUBSET (0 .. n - 1) /\ IsFiniteSet(top)
      /\ \A i \in 1 .. n : Sum(top, powers, n)[i] = IF i <= 8 THEN byte[i] ELSE 0
  <2>1. 8 \in 0 .. n /\ upTo >= n - 1 /\ n > 0
    OBVIOUS
  <2> QED BY <1>1, <2>1, TopIs
<1>4. PICK both : both = SymDiff(old, top)
  OBVIOUS
<1>5. both \in SUBSET (0 .. upTo - 8) /\ IsFiniteSet(both) /\ both \in SUBSET Int /\ both \in SUBSET Nat
  <2>1. both \in SUBSET (0 .. (length + n) - 1)
    BY <1>2, <1>3, <1>4 DEF SymDiff
  <2> QED BY <1>2, <1>3, <1>4, <2>1, ParityOfDifference
<1>6. PICK y : y = [j \in 0 .. 8 |-> Sum(Up(both, j), powers, n)]
  OBVIOUS
<1>7. \A j \in 0 .. 8 : IsFiniteSet(Up(both, j)) /\ y[j] = Sum(Up(both, j), powers, n)
  BY <1>5, <1>6, UpIsAsLarge
<1>8. \A j \in 0 .. 8 : y[j] \in BitWord(n)
  BY <1>7, SumIs
<1>9. ASSUME NEW j \in 0 .. 7 PROVE y[j + 1] = TimesX(y[j], poly)
  <2>1. Up(both, j) \in SUBSET (0 .. upTo - 1)
    <3>1. \A e \in both : e + j \in 0 .. upTo - 1
      BY <1>5
    <3> QED BY <3>1 DEF Up
  <2>2. j \in 0 .. 8 /\ j + 1 \in 0 .. 8 /\ n > 0 /\ j \in Nat
    OBVIOUS
  <2>3. Up(both, j + 1) = Up(Up(both, j), 1)
    BY <1>5, <2>2, UpTwice
  <2>4. Sum(Up(Up(both, j), 1), powers, n) = TimesX(Sum(Up(both, j), powers, n), poly)
    BY <1>7, <2>1, <2>2, SumUp
  <2> QED BY <1>7, <2>2, <2>3, <2>4
<1>10. Exponents(bits, length + 8, init, n) = Up(both, 8)
  <2>1. 8 \in Nat /\ 8 <= n
    OBVIOUS
  <2> QED BY <1>1, <1>4, <2>1, NextExponents
<1>11. \A i \in n - 7 .. n : y[8][i] = 0
  BY <1>7, <1>10
<1>12. \A i \in 1 .. 8 : y[0][i] = 0
  BY <1>8, <1>9, <1>11, TopIsZero
<1>13. y[0] = Sum(both, powers, n)
  <2>1. 0 \in 0 .. 8 /\ 0 \in Nat
    OBVIOUS
  <2>2. Up(both, 0) = both
    BY <1>5, <2>1, UpTwice
  <2> QED BY <1>7, <2>1, <2>2
<1>14. ASSUME NEW j \in 1 .. 8 PROVE byte[j] = Sum(old, powers, n)[j]
  <2>1. Sum(both, powers, n) = Xor(Sum(old, powers, n), Sum(top, powers, n))
    BY <1>2, <1>3, <1>4, SumOfDifference
  <2>2. PICK a, b : a = Sum(old, powers, n) /\ b = Sum(top, powers, n)
    OBVIOUS
  <2>3. a \in BitWord(n) /\ b \in BitWord(n) /\ j \in 1 .. n
    BY <1>2, <1>3, <2>2, SumIs
  <2>4. (a[j] + b[j]) % 2 = 0
    BY <1>12, <1>13, <2>1, <2>2, <2>3, XorIs
  <2>5. a[j] \in {0, 1} /\ b[j] \in {0, 1}
    BY <2>3 DEF BitWord, Bit
  <2>6. b[j] = byte[j]
    BY <1>3, <2>2, <2>3
  <2>7. \A x, z \in {0, 1} : (x + z) % 2 = 0 => x = z
    OBVIOUS
  <2> QED BY <2>2, <2>4, <2>5, <2>6, <2>7
<1> QED BY <1>1, <1>14

-----------------------------------------------------------------------------
(* The checks.                                                              *)

\* The bytes that a check covers.
Covered(area, skip) == SubSeq(area, skip + 1, Len(area))

\* They are all of the area's bytes, or all but the sync byte.
LEMMA CoveredIs ==
    ASSUME NEW area \in Seq(Byte), NEW skip \in 0 .. 1, skip <= Len(area)
    PROVE  /\ Covered(area, skip) \in Seq(Byte)
           /\ Len(Covered(area, skip)) = Len(area) - skip
           /\ \A i \in 1 .. Len(area) - skip : Covered(area, skip)[i] = area[skip + i]
<1>1. PICK length \in Nat : length = Len(area)
  BY LenProperties
<1>2. \A i \in skip + 1 .. length : area[i] \in Byte
  BY <1>1, ElementOfSeq
<1>3. skip + 1 \in Int /\ length \in Int
  OBVIOUS
<1>4. /\ Covered(area, skip) \in Seq(Byte)
      /\ Len(Covered(area, skip)) = IF skip + 1 <= length THEN length - (skip + 1) + 1 ELSE 0
      /\ \A i \in 1 .. length - (skip + 1) + 1 : Covered(area, skip)[i] = area[(skip + 1) + i - 1]
  BY <1>1, <1>2, <1>3, SubSeqProperties DEF Covered
<1>5. \A i \in 1 .. length - skip : i \in 1 .. length - (skip + 1) + 1 /\ (skip + 1) + i - 1 = skip + i
  BY <1>1
<1> QED BY <1>1, <1>4, <1>5

\* The division of a message is a sum of powers.
LEMMA DivisionIsSum ==
    ASSUME NEW n \in Nat, NEW init \in BitWord(n), NEW length \in Nat, NEW bits \in BitWord(length),
           NEW powers
    PROVE  Division(bits, init, powers) = Sum(Exponents(bits, length, init, n), powers, n)
<1>1. Len(bits) = length /\ DOMAIN bits = 1 .. length /\ Len(init) = n /\ DOMAIN init = 1 .. n
  BY WordIsSeq
<1> DEFINE all == Len(bits) + Len(init)
           terms == SymDiff({all - i : i \in {j \in DOMAIN bits : bits[j] = 1}},
                            {all - i : i \in {j \in DOMAIN init : init[j] = 1}})
<1>2. Division(bits, init, powers)
          = [i \in DOMAIN init |-> Cardinality({k \in terms : powers[k + 1][i] = 1}) % 2]
  BY DEF Division
<1>3. terms = Exponents(bits, length, init, n)
  BY <1>1 DEF Exponents
<1> HIDE DEF terms, all
<1>4. Sum(terms, powers, n)
          = [i \in DOMAIN init |-> Cardinality({k \in terms : powers[k + 1][i] = 1}) % 2]
  BY <1>1 DEF Sum, Having
<1> QED BY <1>2, <1>3, <1>4

\* A check of so many bits; its polynomial has a constant term.
CheckHas(check, n) ==
    /\ n \in {16, 32, 48, 56} /\ check.poly \in BitWord(n) /\ check.poly[n] = 1
    /\ check.init \in BitWord(n) /\ check.skip \in 0 .. 1

\* A remainder as a sum of powers.
LEMMA RemainderIsSum ==
    ASSUME NEW check, NEW n, CheckHas(check, n), NEW area \in Seq(Byte), check.skip <= Len(area),
           NEW upTo \in Nat, 8 * Len(area) + n <= upTo + 1
    PROVE  /\ Remainder(area, check) \in BitWord(n)
           /\ Remainder(area, check) =
                  Sum(Exponents(Bits(Covered(area, check.skip)), 8 * (Len(area) - check.skip),
                                check.init, n), Powers(check.poly, upTo), n)
<1>1. /\ n \in {16, 32, 48, 56} /\ check.poly \in BitWord(n)
       /\ check.init \in BitWord(n) /\ check.skip \in 0 .. 1
  BY DEF CheckHas
<1>2. PICK skip, init : skip = check.skip /\ init = check.init /\ skip \in 0 .. 1
  BY <1>1
<1>3. PICK covered : covered = Covered(area, skip)
  OBVIOUS
<1>4. covered \in Seq(Byte) /\ Len(covered) = Len(area) - skip
  BY <1>2, <1>3, CoveredIs
<1>5. PICK length \in Nat : length = 8 * (Len(area) - skip) /\ length = 8 * Len(covered)
  BY <1>4, BytesAre
<1>6. Bits(covered) \in BitWord(length)
  BY <1>4, <1>5, BytesAre
<1>7. PICK powers : powers = Powers(check.poly, upTo)
  OBVIOUS
<1>8. n \in Nat /\ init \in BitWord(n)
  BY <1>2, <1>1
<1>9. Division(Bits(covered), init, powers) = Sum(Exponents(Bits(covered), length, init, n), powers, n)
  BY <1>6, <1>8, DivisionIsSum
<1>10. /\ Remainder(area, check) \in BitWord(n)
      /\ Remainder(area, check) = Division(Bits(Covered(area, check.skip)), check.init, Powers(check.poly, upTo))
  BY <1>1, RemainderIs DEF Covered
<1> QED BY <1>2, <1>3, <1>5, <1>7, <1>9, <1>10

\* A remainder whose last byte is zero: what every check that passes says at least.
EndsInZeros(r, n) == \A i \in n - 7 .. n : r[i] = 0

\* What a check that matches says, and when it does.
LEMMA PassesIs ==
    ASSUME NEW n, NEW area, NEW check, CheckHas(check, n), Remainder(area, check) \in BitWord(n)
    PROVE  /\ Remainder(area, check) = Zeros(n) => Passes(area, check)
           /\ Passes(area, check) => EndsInZeros(Remainder(area, check), n)
<1>1. n \in {16, 32, 48, 56}
  BY DEF CheckHas
<1>2. PICK r : r = Remainder(area, check)
  OBVIOUS
<1>3. PICK m : m = IF n > 32 THEN 32 ELSE n
  OBVIOUS
<1>4. n \in Nat /\ m \in Nat /\ m \in 0 .. n /\ m >= 8
  BY <1>3, <1>1
<1>5. r \in BitWord(n) /\ Len(r) = n
  BY <1>2, <1>4, WordIsSeq
<1>6. PICK t : t = Truncated(r)
  OBVIOUS
<1>7. t \in BitWord(m) /\ \A i \in 1 .. m : t[i] = r[(n - m) + i]
  <2>1. CASE n > 32
    <3>1. m = 32 /\ t = LowBits(r, 32)
      BY <1>3, <1>5, <1>6, <2>1 DEF Truncated
    <3> QED BY <1>4, <1>5, <3>1, LowIs
  <2>2. CASE ~(n > 32)
    <3>1. m = n /\ t = r
      BY <1>3, <1>5, <1>6, <2>2 DEF Truncated
    <3>2. \A i \in 1 .. n : (n - n) + i = i
      BY <1>4
    <3> QED BY <1>5, <3>1, <3>2
  <2> QED BY <2>1, <2>2
<1>8. Passes(area, check) <=> \A i \in 1 .. m : t[i] # 1
  BY <1>2, <1>6, <1>7 DEF Passes, Range, BitWord
<1>9. ASSUME r = Zeros(n) PROVE Passes(area, check)
  <2>1. \A i \in 1 .. m : (n - m) + i \in 1 .. n
    BY <1>4
  <2>2. \A i \in 1 .. m : t[i] = 0
    BY <1>4, <1>7, <1>9, <2>1, ZerosAre
  <2> QED BY <1>8, <2>2
<1>10. ASSUME Passes(area, check), NEW i \in n - 7 .. n PROVE r[i] = 0
  <2>1. PICK j \in 1 .. m : (n - m) + j = i
    <3>1. i - (n - m) \in 1 .. m /\ (n - m) + (i - (n - m)) = i
      BY <1>3, <1>1
    <3> QED BY <3>1
  <2>2. t[j] # 1 /\ t[j] = r[i]
    BY <1>7, <1>8, <1>10, <2>1
  <2>3. t[j] \in {0, 1}
    BY <1>7 DEF BitWord, Bit
  <2> QED BY <2>2, <2>3
<1> QED BY <1>2, <1>9, <1>10 DEF EndsInZeros

\* An area with its check: its numbers as bytes, and the bits of their remainder.
Made(area, numbers, check, n, bytes, r) ==
    /\ Len(bytes) = Len(numbers) /\ \A i \in 1 .. Len(numbers) : bytes[i] = ByteOf(numbers[i])
    /\ r = Remainder(bytes, check)
    /\ area \in Seq(Byte) /\ Len(area) = Len(numbers) + n \div 8
    /\ \A i \in 1 .. Len(numbers) : area[i] = bytes[i]
    /\ \A i \in 1 .. n \div 8, j \in 1 .. 8 : area[Len(numbers) + i][j] = r[8 * (i - 1) + j]

\* What the formatter appends to an area is the remainder's bytes.
LEMMA WithCheckIs ==
    ASSUME NEW numbers \in Seq(Int), Len(numbers) > 0, NEW check, NEW n, CheckHas(check, n)
    PROVE  \E bytes \in Seq(Byte), r \in BitWord(n) :
              Made(WithCheck(numbers, check), numbers, check, n, bytes, r)
<1> DEFINE bytes == [i \in DOMAIN numbers |-> ByteOf(numbers[i])]
           bits == Remainder(bytes, check)
           tail == [i \in 1 .. Len(bits) \div 8 |-> SubSeq(bits, 8 * i - 7, 8 * i)]
<1>1. n \in {16, 32, 48, 56} /\ check.skip \in 0 .. 1
  BY DEF CheckHas
<1>2. /\ bytes \in Seq(Byte) /\ Len(bytes) = Len(numbers) /\ Len(numbers) \in Nat
      /\ \A i \in 1 .. Len(numbers) : bytes[i] = ByteOf(numbers[i])
  <2>1. PICK m \in Nat : m = Len(numbers) /\ DOMAIN numbers = 1 .. m
    BY LenProperties
  <2>2. \A i \in 1 .. m : numbers[i] \in Int
    BY <2>1, ElementOfSeq
  <2>3. \A i \in 1 .. m : ByteOf(numbers[i]) \in Byte
    BY <2>2, ByteOfIs
  <2>4. bytes \in [1 .. m -> Byte]
    BY <2>1, <2>3
  <2>5. bytes \in Seq(Byte) /\ DOMAIN bytes = 1 .. m
    BY <2>4, SeqDef
  <2> QED BY <2>1, <2>5, LenProperties
<1> HIDE DEF bytes
<1>3. bits \in BitWord(n)
  <2>1. PICK upTo \in Nat : upTo = 8 * Len(bytes) + n
    BY <1>1, <1>2
  <2>2. check.skip <= Len(bytes) /\ 8 * Len(bytes) + n <= upTo + 1
    BY <1>1, <1>2, <2>1
  <2> QED BY <1>2, <2>2, RemainderIsSum
<1> HIDE DEF bits
<1>4. Len(bits) = n /\ n \in Nat
  BY <1>1, <1>3, WordIsSeq
<1>5. PICK m \in Nat : m = n \div 8 /\ 8 * m = n
  <2>1. n = 16 \/ n = 32 \/ n = 48 \/ n = 56
    BY <1>1
  <2> QED BY <2>1
<1>6. ASSUME NEW i \in 1 .. m
      PROVE  /\ SubSeq(bits, 8 * i - 7, 8 * i) \in Byte
             /\ \A j \in 1 .. 8 : SubSeq(bits, 8 * i - 7, 8 * i)[j] = bits[8 * (i - 1) + j]
  <2>1. PICK a, b : a = 8 * i - 7 /\ b = 8 * i
    OBVIOUS
  <2>2. a \in Int /\ b \in Int /\ b = a + 7 /\ a >= 1 /\ b <= n
    BY <1>5, <2>1
  <2>3. \A k \in a .. b : bits[k] \in Bit
    BY <1>3, <1>4, <2>2 DEF BitWord
  <2>4. /\ SubSeq(bits, a, b) \in Seq(Bit) /\ Len(SubSeq(bits, a, b)) = 8
        /\ \A j \in 1 .. b - a + 1 : SubSeq(bits, a, b)[j] = bits[a + j - 1]
    BY <2>2, <2>3, SubSeqProperties
  <2>5. SubSeq(bits, a, b) \in BitWord(8)
    BY <2>4, LenProperties DEF BitWord
  <2>6. \A j \in 1 .. 8 : j \in 1 .. b - a + 1 /\ a + j - 1 = 8 * (i - 1) + j
    BY <2>1
  <2> QED BY <2>1, <2>4, <2>5, <2>6, Eight
<1>7. /\ tail \in Seq(Byte) /\ Len(tail) = m
      /\ \A i \in 1 .. m, j \in 1 .. 8 : tail[i][j] = bits[8 * (i - 1) + j]
  <2>1. tail \in [1 .. m -> Byte] /\ tail = [i \in 1 .. m |-> SubSeq(bits, 8 * i - 7, 8 * i)]
    BY <1>4, <1>5, <1>6
  <2>2. \A i \in 1 .. m : tail[i] = SubSeq(bits, 8 * i - 7, 8 * i)
    BY <2>1, Zenon
  <2> HIDE DEF tail
  <2>3. tail \in Seq(Byte)
    BY <2>1, SeqDef
  <2>4. Len(tail) = m
    BY <2>1, <2>3, LenProperties
  <2>5. \A i \in 1 .. m : \A j \in 1 .. 8 : tail[i][j] = bits[8 * (i - 1) + j]
    BY <1>6, <2>2
  <2> QED BY <2>3, <2>4, <2>5
<1>8. WithCheck(numbers, check) = bytes \o tail
  BY DEF WithCheck, bytes, bits
<1> HIDE DEF tail
<1>9. /\ bytes \o tail \in Seq(Byte) /\ Len(bytes \o tail) = Len(numbers) + m
       /\ \A i \in 1 .. Len(numbers) + m :
              (bytes \o tail)[i] = IF i <= Len(numbers) THEN bytes[i] ELSE tail[i - Len(numbers)]
  <2>1. bytes \o tail \in Seq(Byte) /\ Len(bytes \o tail) = Len(bytes) + Len(tail)
    BY <1>2, <1>7, ConcatProperties
  <2>2. \A i \in 1 .. Len(bytes) + Len(tail) :
            (bytes \o tail)[i] = IF i <= Len(bytes) THEN bytes[i] ELSE tail[i - Len(bytes)]
    <3>1. bytes \in Seq(Byte) /\ tail \in Seq(Byte)
      BY <1>2, <1>7
    <3> QED BY <3>1, ConcatProperties
  <2> QED BY <1>2, <1>7, <2>1, <2>2
<1>10. \A i \in 1 .. Len(numbers) : (bytes \o tail)[i] = bytes[i]
  <2>1. \A i \in 1 .. Len(numbers) : i \in 1 .. Len(numbers) + m /\ i <= Len(numbers)
    BY <1>2
  <2> QED BY <1>9, <2>1
<1>11. \A i \in 1 .. m : (bytes \o tail)[Len(numbers) + i] = tail[i]
  <2>1. PICK l \in Nat : l = Len(numbers)
    BY <1>2
  <2>2. \A i \in 1 .. m : l + i \in 1 .. l + m /\ ~(l + i <= l) /\ (l + i) - l = i
    OBVIOUS
  <2> QED BY <1>9, <2>1, <2>2
<1>12. \A i \in 1 .. m : \A j \in 1 .. 8 : (bytes \o tail)[Len(numbers) + i][j] = bits[8 * (i - 1) + j]
  <2> TAKE i \in 1 .. m
  <2> TAKE j \in 1 .. 8
  <2>1. tail[i][j] = bits[8 * (i - 1) + j]
    BY <1>7
  <2>2. (bytes \o tail)[Len(numbers) + i] = tail[i]
    BY <1>11
  <2> QED BY <2>1, <2>2
<1>13. bits = Remainder(bytes, check)
  BY DEF bits
<1>14. PICK area : area = WithCheck(numbers, check)
  OBVIOUS
<1>15. /\ area \in Seq(Byte) /\ Len(area) = Len(numbers) + n \div 8
       /\ \A i \in 1 .. Len(numbers) : area[i] = bytes[i]
       /\ \A i \in 1 .. n \div 8, j \in 1 .. 8 : area[Len(numbers) + i][j] = bits[8 * (i - 1) + j]
  <2>1. area = bytes \o tail /\ m = n \div 8
    BY <1>5, <1>8, <1>14
  <2>2. area \in Seq(Byte) /\ Len(area) = Len(numbers) + m
    BY <1>9, <2>1
  <2>3. \A i \in 1 .. Len(numbers) : area[i] = bytes[i]
    BY <1>10, <2>1
  <2>4. \A i \in 1 .. m, j \in 1 .. 8 : area[Len(numbers) + i][j] = bits[8 * (i - 1) + j]
    BY <1>12, <2>1
  <2> HIDE DEF WithCheck
  <2> QED BY <2>1, <2>2, <2>3, <2>4
<1>16. Made(area, numbers, check, n, bytes, bits)
  BY <1>2, <1>13, <1>15 DEF Made
<1> QED BY <1>2, <1>3, <1>14, <1>16

\* A bit is one of a byte.
LEMMA BitAt == \A i \in Nat : i > 0 =>
    \E q \in Nat, j \in 1 .. 8 : q > 0 /\ i = 8 * (q - 1) + j
<1> TAKE i \in Nat
<1> HAVE i > 0
<1>1. PICK q, j : q = ((i - 1) \div 8) + 1 /\ j = ((i - 1) % 8) + 1
  OBVIOUS
<1>2. q \in Nat /\ j \in 1 .. 8 /\ q > 0 /\ i = 8 * (q - 1) + j
  BY <1>1
<1> QED BY <1>2

\* The same bytes have the same bits.
LEMMA SameBits ==
    ASSUME NEW a \in Seq(Byte), NEW b \in Seq(Byte), NEW m \in Nat, m <= Len(a), m <= Len(b),
           \A i \in 1 .. m : a[i] = b[i]
    PROVE  \A i \in 1 .. 8 * m : Bits(a)[i] = Bits(b)[i]
<1> TAKE i \in 1 .. 8 * m
<1>1. PICK q \in Nat, j \in 1 .. 8 : q > 0 /\ i = 8 * (q - 1) + j
  <2>1. i \in Nat /\ i > 0
    OBVIOUS
  <2> QED BY <2>1, BitAt
<1>2. Len(a) \in Nat /\ Len(b) \in Nat
  BY LenProperties
<1>3. q \in 1 .. m /\ q \in 1 .. Len(a) /\ q \in 1 .. Len(b)
  BY <1>1, <1>2
<1>4. Bits(a)[8 * (q - 1) + j] = a[q][j] /\ Bits(b)[8 * (q - 1) + j] = b[q][j]
  BY <1>3, BytesAre
<1> QED BY <1>1, <1>3, <1>4

\* An area with its check behind it passes: the remainder of all of it is zero.
LEMMA PassesWithCheck ==
    ASSUME NEW numbers \in Seq(Int), Len(numbers) > 0, NEW check, NEW n, CheckHas(check, n)
    PROVE  Passes(WithCheck(numbers, check), check)
<1>1. /\ n \in {16, 32, 48, 56} /\ check.poly \in BitWord(n)
       /\ check.init \in BitWord(n) /\ check.skip \in 0 .. 1
  BY DEF CheckHas
<1>2. PICK N \in Nat, extra \in Nat : N = Len(numbers) /\ extra = n \div 8
  <2>1. Len(numbers) \in Nat /\ n \div 8 \in Nat
    BY <1>1, LenProperties
  <2> QED BY <2>1
<1>3. n \in Nat /\ n > 0 /\ N > 0 /\ 8 * extra = n
  BY <1>2, <1>1
<1>4. PICK area : area = WithCheck(numbers, check)
  OBVIOUS
<1>5. PICK bytes \in Seq(Byte), r \in BitWord(n) :
          /\ Len(bytes) = N /\ r = Remainder(bytes, check)
          /\ area \in Seq(Byte) /\ Len(area) = N + extra
          /\ \A i \in 1 .. N : area[i] = bytes[i]
          /\ \A i \in 1 .. extra, j \in 1 .. 8 : area[N + i][j] = r[8 * (i - 1) + j]
  <2>1. \E bytes \in Seq(Byte), r \in BitWord(n) : Made(area, numbers, check, n, bytes, r)
    BY <1>4, WithCheckIs
  <2> QED BY <1>2, <2>1 DEF Made
<1>6. Len(bytes) = N /\ Len(area) = N + extra /\ bytes \in Seq(Byte) /\ area \in Seq(Byte)
  BY <1>5
<1>7. PICK skip \in 0 .. 1, poly \in BitWord(n), init \in BitWord(n) :
          skip = check.skip /\ poly = check.poly /\ init = check.init
  BY <1>1
<1>8. PICK m \in Nat : m = N - skip
  BY <1>3
<1>9. PICK upTo \in Nat : upTo = 8 * (N + extra) + n
  BY <1>3
<1>10. PICK powers : powers = Powers(poly, upTo)
  OBVIOUS
<1>11. ArePowers(powers, poly, n, upTo)
  BY <1>3, <1>10, PowersAre
<1>12. PICK short, long : short = Covered(bytes, skip) /\ long = Covered(area, skip)
  OBVIOUS
<1>13. /\ short \in Seq(Byte) /\ Len(short) = m /\ \A i \in 1 .. m : short[i] = bytes[skip + i]
       /\ long \in Seq(Byte) /\ Len(long) = m + extra
       /\ \A i \in 1 .. m + extra : long[i] = area[skip + i]
  <2>1. skip <= Len(bytes) /\ skip <= Len(area) /\ (N + extra) - skip = m + extra
    BY <1>3, <1>5, <1>8
  <2>2. /\ short \in Seq(Byte) /\ Len(short) = m /\ \A i \in 1 .. m : short[i] = bytes[skip + i]
    BY <1>5, <1>8, <1>12, <2>1, CoveredIs
  <2>3. /\ long \in Seq(Byte) /\ Len(long) = (N + extra) - skip
        /\ \A i \in 1 .. (N + extra) - skip : long[i] = area[skip + i]
    <3>1. /\ long \in Seq(Byte) /\ Len(long) = Len(area) - skip
          /\ \A i \in 1 .. Len(area) - skip : long[i] = area[skip + i]
      BY <1>5, <1>12, <2>1, CoveredIs
    <3> QED BY <1>5, <3>1
  <2> QED BY <2>1, <2>2, <2>3
<1>14. PICK length \in Nat : length = 8 * m
  OBVIOUS
<1>15. PICK b, c : b = Bits(short) /\ c = Bits(long)
  OBVIOUS
<1>16. r = Sum(Exponents(b, length, init, n), powers, n)
  <2>1. check.skip <= Len(bytes) /\ 8 * Len(bytes) + n <= upTo + 1
    <3>1. skip <= N /\ skip <= N + extra /\ 8 * N + n <= upTo + 1 /\ 8 * (N + extra) + n <= upTo + 1
      BY <1>3, <1>9
    <3> QED BY <1>7, <1>6, <3>1
  <2>2. r = Sum(Exponents(Bits(Covered(bytes, check.skip)), 8 * (Len(bytes) - check.skip),
                          check.init, n), Powers(check.poly, upTo), n)
    <3>1. Remainder(bytes, check) = 
              Sum(Exponents(Bits(Covered(bytes, check.skip)), 8 * (Len(bytes) - check.skip),
                            check.init, n), Powers(check.poly, upTo), n)
      BY <1>6, <2>1, RemainderIsSum
    <3> QED BY <1>5, <3>1
  <2> QED BY <1>5, <1>7, <1>8, <1>10, <1>12, <1>14, <1>15, <2>2
<1>17. \A i \in 1 .. length : c[i] = b[i]
  <2>1. \A i \in 1 .. m : long[i] = short[i]
    <3> TAKE i \in 1 .. m
    <3>1. i \in 1 .. m + extra /\ skip + i \in 1 .. N
      BY <1>8
    <3> QED BY <1>5, <1>13, <3>1
  <2>2. m <= Len(long) /\ m <= Len(short)
    BY <1>13
  <2> QED BY <1>13, <1>14, <1>15, <2>1, <2>2, SameBits
<1>18. Continues(c, length, r, n)
  <2> SUFFICES ASSUME NEW k \in 1 .. n PROVE c[length + k] = r[k]
    BY DEF Continues
  <2>1. PICK q \in Nat, j \in 1 .. 8 : q > 0 /\ k = 8 * (q - 1) + j
    <3>1. k \in Nat /\ k > 0
      BY <1>3
    <3> QED BY <3>1, BitAt
  <2>2. q \in 1 .. extra
    BY <1>3, <2>1
  <2>3. PICK i : i = m + q
    OBVIOUS
  <2>4. i \in 1 .. m + extra /\ length + k = 8 * (i - 1) + j /\ skip + i = N + q
    BY <1>8, <1>14, <2>1, <2>2, <2>3
  <2>5. c[8 * (i - 1) + j] = long[i][j]
    <3>1. long \in Seq(Byte) /\ i \in 1 .. Len(long)
      BY <1>13, <2>4
    <3> QED BY <1>15, <3>1, BytesAre
  <2>6. long[i] = area[N + q]
    BY <1>13, <2>4
  <2>7. area[N + q][j] = r[8 * (q - 1) + j]
    BY <1>5, <2>2
  <2> QED BY <2>1, <2>4, <2>5, <2>6, <2>7
<1>19. Exponents(c, length, init, n) = Exponents(b, length, init, n)
  <2>1. n \in Nat /\ length \in Nat
    BY <1>3
  <2> QED BY <1>17, <2>1, SameExponents
<1>20. Sum(Exponents(c, length + n, init, n), powers, n) = Zeros(n)
  <2>1. (length + n) + n <= upTo + 1
    BY <1>3, <1>8, <1>9, <1>14
  <2>2. r = Sum(Exponents(c, length, init, n), powers, n)
    BY <1>16, <1>19
  <2> QED BY <1>3, <1>11, <1>18, <2>1, <2>2, WithRemainder
<1>21. /\ Remainder(area, check) \in BitWord(n)
       /\ Remainder(area, check) = Sum(Exponents(c, length + n, init, n), powers, n)
  <2>1. check.skip <= Len(area) /\ 8 * Len(area) + n <= upTo + 1
    <3>1. skip <= N /\ skip <= N + extra /\ 8 * N + n <= upTo + 1 /\ 8 * (N + extra) + n <= upTo + 1
      BY <1>3, <1>9
    <3> QED BY <1>7, <1>6, <3>1
  <2>2. /\ Remainder(area, check) \in BitWord(n)
        /\ Remainder(area, check) =
               Sum(Exponents(Bits(Covered(area, check.skip)), 8 * (Len(area) - check.skip),
                             check.init, n), Powers(check.poly, upTo), n)
    BY <1>6, <2>1, RemainderIsSum
  <2>3. 8 * ((N + extra) - skip) = length + n
    BY <1>3, <1>8, <1>14
  <2> QED BY <1>5, <1>7, <1>10, <1>12, <1>14, <1>15, <2>2, <2>3
<1> QED BY <1>4, <1>20, <1>21, PassesIs

\* Two areas that pass and agree but for the last byte are the same area.
LEMMA PassesOnce ==
    ASSUME NEW check, NEW n, CheckHas(check, n),
           NEW a \in Seq(Byte), NEW b \in Seq(Byte), NEW length \in Nat, length > 1,
           Len(a) = length, Len(b) = length, \A i \in 1 .. length - 1 : a[i] = b[i],
           Passes(a, check), Passes(b, check)
    PROVE  a = b
<1>1. /\ n \in {16, 32, 48, 56} /\ check.poly \in BitWord(n) /\ check.poly[n] = 1
       /\ check.init \in BitWord(n) /\ check.skip \in 0 .. 1
  BY DEF CheckHas
<1>2. PICK skip \in 0 .. 1, poly \in BitWord(n), init \in BitWord(n) :
          skip = check.skip /\ poly = check.poly /\ init = check.init
  BY <1>1
<1>3. n \in Nat /\ n >= 8 /\ n > 0 /\ poly[n] = 1
  BY <1>2, <1>1
<1>4. PICK m \in Nat : m = (length - skip) - 1
  <2>1. (length - skip) - 1 \in Nat
    OBVIOUS
  <2> QED BY <2>1
<1>5. PICK upTo \in Nat : upTo = 8 * length + n
  BY <1>3
<1>6. PICK powers : powers = Powers(poly, upTo)
  OBVIOUS
<1>7. ArePowers(powers, poly, n, upTo)
  BY <1>3, <1>6, PowersAre
<1>8. PICK before \in Nat : before = 8 * m
  OBVIOUS
<1>9. ASSUME NEW area \in Seq(Byte), Len(area) = length, Passes(area, check)
      PROVE  \A j \in 1 .. 8 : area[length][j] =
                 Sum(Exponents(Bits(Covered(area, skip)), before, init, n), powers, n)[j]
  <2>1. PICK covered, bits : covered = Covered(area, skip) /\ bits = Bits(covered)
    OBVIOUS
  <2>2. skip <= length /\ 8 * length + n <= upTo + 1 /\ (before + 8) + n <= upTo + 1
        /\ 8 * (length - skip) = before + 8 /\ length - skip = m + 1
    BY <1>3, <1>4, <1>5, <1>8
  <2>3. /\ covered \in Seq(Byte) /\ Len(covered) = length - skip
        /\ \A i \in 1 .. length - skip : covered[i] = area[skip + i]
    <3>1. skip <= Len(area)
      BY <1>9, <2>2
    <3>2. /\ covered \in Seq(Byte) /\ Len(covered) = Len(area) - skip
          /\ \A i \in 1 .. Len(area) - skip : covered[i] = area[skip + i]
      BY <2>1, <3>1, CoveredIs
    <3> QED BY <1>9, <3>2
  <2>4. /\ Remainder(area, check) \in BitWord(n)
        /\ Remainder(area, check) =
               Sum(Exponents(Bits(Covered(area, check.skip)), 8 * (Len(area) - check.skip),
                             check.init, n), Powers(check.poly, upTo), n)
    <3>1. check.skip <= Len(area) /\ 8 * Len(area) + n <= upTo + 1
      BY <1>2, <1>9, <2>2
    <3> QED BY <3>1, RemainderIsSum
  <2>5. Remainder(area, check) = Sum(Exponents(bits, before + 8, init, n), powers, n)
    BY <1>2, <1>6, <1>9, <2>1, <2>2, <2>4
  <2>6. \A i \in n - 7 .. n : Sum(Exponents(bits, before + 8, init, n), powers, n)[i] = 0
    <3>1. Passes(area, check) /\ Remainder(area, check) \in BitWord(n)
      BY <1>9, <2>4
    <3>2. \A i \in n - 7 .. n : Remainder(area, check)[i] = 0
      <4>1. Passes(area, check) => \A i \in n - 7 .. n : Remainder(area, check)[i] = 0
        BY <3>1, PassesIs DEF EndsInZeros
      <4> QED BY <3>1, <4>1
    <3> QED BY <2>5, <3>2
  <2>7. area[length] \in BitWord(8)
    BY <1>9, BytesAre
  <2>8. Continues(bits, before, area[length], 8)
    <3> SUFFICES ASSUME NEW j \in 1 .. 8 PROVE bits[before + j] = area[length][j]
      BY DEF Continues
    <3>1. PICK i : i = m + 1
      OBVIOUS
    <3>2. i \in 1 .. length - skip /\ skip + i = length /\ before + j = 8 * (i - 1) + j
      BY <1>4, <1>8, <3>1
    <3>3. bits[8 * (i - 1) + j] = covered[i][j]
      BY <2>1, <2>3, <3>2, BytesAre
    <3> QED BY <2>3, <3>2, <3>3
  <2>9. \A j \in 1 .. 8 : area[length][j] = Sum(Exponents(bits, before, init, n), powers, n)[j]
    <3>1. n \in Nat /\ n >= 8 /\ poly[n] = 1 /\ (before + 8) + n <= upTo + 1
      BY <1>3, <2>2
    <3>2. PICK byte : byte = area[length]
      OBVIOUS
    <3>3. byte \in BitWord(8) /\ Continues(bits, before, byte, 8)
      BY <2>7, <2>8, <3>2
    <3>4. \A j \in 1 .. 8 : byte[j] = Sum(Exponents(bits, before, init, n), powers, n)[j]
      BY <1>7, <2>6, <3>1, <3>3, LastByte
    <3> QED BY <3>2, <3>4
  <2> QED BY <2>1, <2>9
<1>10. PICK ca, cb : ca = Bits(Covered(a, skip)) /\ cb = Bits(Covered(b, skip))
  OBVIOUS
<1>11. \A i \in 1 .. before : ca[i] = cb[i]
  <2>1. /\ Covered(a, skip) \in Seq(Byte) /\ Len(Covered(a, skip)) = length - skip
        /\ \A i \in 1 .. length - skip : Covered(a, skip)[i] = a[skip + i]
    <3>1. skip <= Len(a) /\ Len(a) = length
      OBVIOUS
    <3>2. /\ Covered(a, skip) \in Seq(Byte) /\ Len(Covered(a, skip)) = Len(a) - skip
          /\ \A i \in 1 .. Len(a) - skip : Covered(a, skip)[i] = a[skip + i]
      BY <3>1, CoveredIs
    <3> QED BY <3>1, <3>2
  <2>2. /\ Covered(b, skip) \in Seq(Byte) /\ Len(Covered(b, skip)) = length - skip
        /\ \A i \in 1 .. length - skip : Covered(b, skip)[i] = b[skip + i]
    <3>1. skip <= Len(b) /\ Len(b) = length
      OBVIOUS
    <3>2. /\ Covered(b, skip) \in Seq(Byte) /\ Len(Covered(b, skip)) = Len(b) - skip
          /\ \A i \in 1 .. Len(b) - skip : Covered(b, skip)[i] = b[skip + i]
      BY <3>1, CoveredIs
    <3> QED BY <3>1, <3>2
  <2>3. \A i \in 1 .. m : Covered(a, skip)[i] = Covered(b, skip)[i]
    <3> TAKE i \in 1 .. m
    <3>1. i \in 1 .. length - skip /\ skip + i \in 1 .. length - 1
      BY <1>4
    <3> QED BY <2>1, <2>2, <3>1
  <2>4. m <= length - skip
    BY <1>4
  <2> QED BY <1>8, <1>10, <2>1, <2>2, <2>3, <2>4, SameBits
<1>12. Exponents(ca, before, init, n) = Exponents(cb, before, init, n)
  BY <1>3, <1>11, SameExponents
<1>13. \A j \in 1 .. 8 : a[length][j] = b[length][j]
  BY <1>9, <1>10, <1>12
<1>14. a[length] = b[length]
  <2>1. length \in 1 .. length
    OBVIOUS
  <2>2. a[length] \in BitWord(8) /\ b[length] \in BitWord(8)
    BY <2>1, BytesAre
  <2> QED BY <1>13, <2>2, SameWord
<1>15. \A i \in 1 .. length : a[i] = b[i]
  <2> TAKE i \in 1 .. length
  <2>1. i = length \/ i \in 1 .. length - 1
    OBVIOUS
  <2> QED BY <1>14, <2>1
<1> QED BY <1>15, SeqEqual

-----------------------------------------------------------------------------
(* What the formatter writes.                                               *)

\* A controller's check, sync byte and length for an area.
CheckFor(k, part) == IF part = "address" THEN controllers[k].addrCheck ELSE controllers[k].dataCheck
SyncFor(k, part) == IF part = "address" THEN controllers[k].addrSync ELSE controllers[k].dataSync
LengthFor(k, part) == IF part = "address" THEN controllers[k].addrLength ELSE DataLength(k)

\* The checks' widths in bits.
Width(k, part) ==
    CASE k \in {"ADAPTEC_ACB2322", "IBM_5364"} -> IF part = "address" THEN 16 ELSE 48
      [] k \in {"IBM_PS2", "IBM_RT_ENHANCED"} -> 32
      [] k = "ULTRASTOR_12F" -> IF part = "address" THEN 16 ELSE 56

\* The checks of the controllers are as their widths say.
LEMMA ChecksAre == \A k \in Controller, part \in Part : CheckHas(CheckFor(k, part), Width(k, part))
<1> TAKE k \in Controller, part \in Part
<1>1. part = "address" \/ part = "data"
  BY DEF Part
<1>2. /\ Zeros(16) \in BitWord(16) /\ Zeros(32) \in BitWord(32) /\ Zeros(48) \in BitWord(48)
      /\ Ones(16) \in BitWord(16) /\ Ones(48) \in BitWord(48) /\ Ones(56) \in BitWord(56)
  BY ZerosAre, OnesAre
<1>3. CASE k = "ADAPTEC_ACB2322"
  BY <1>1, <1>2, <1>3, CommonPolynomialsAre, LongPolynomialsAre
  DEF CheckHas, CheckFor, Width, controllers, adaptec_acb2322
<1>4. CASE k = "IBM_5364"
  BY <1>1, <1>2, <1>4, CommonPolynomialsAre, LongPolynomialsAre
  DEF CheckHas, CheckFor, Width, controllers, ibm_5364
<1>5. CASE k = "IBM_PS2"
  BY <1>1, <1>2, <1>5, CommonPolynomialsAre
  DEF CheckHas, CheckFor, Width, controllers, ibm_ps2
<1>6. CASE k = "IBM_RT_ENHANCED"
  BY <1>1, <1>2, <1>6, CommonPolynomialsAre
  DEF CheckHas, CheckFor, Width, controllers, ibm_rt_enhanced
<1>7. CASE k = "ULTRASTOR_12F"
  BY <1>1, <1>2, <1>7, CommonPolynomialsAre, LongPolynomialsAre
  DEF CheckHas, CheckFor, Width, controllers, ultrastor_12f
<1> QED BY <1>3, <1>4, <1>5, <1>6, <1>7, ControllersAre

-----------------------------------------------------------------------------
(* Blocks, and the bytes of headers.                                        *)

\* Where a sector can be.
LEMMA PositionIs ==
    ASSUME NEW p \in Positions
    PROVE  /\ p[1] \in Nat /\ p[1] < Cylinders /\ p[1] < 4096
           /\ p[2] \in Nat /\ p[2] < Heads /\ p[2] < 16
           /\ p[3] \in Nat /\ p[3] < Sectors /\ p[3] < 255
<1>1. p[1] \in 0 .. Cylinders - 1 /\ p[2] \in 0 .. Heads - 1 /\ p[3] \in 0 .. Sectors - 1
  BY PathAssumption
<1>2. Cylinders \in Nat /\ Heads \in Nat /\ Sectors \in Nat
  BY FormatAssumption
<1>3. Cylinders <= 4096 /\ Heads <= 16 /\ Sectors <= 255
  BY AddressAssumption
<1> QED BY <1>1, <1>2, <1>3

\* Products of natural numbers.
LEMMA Product == \A a, b \in Nat : a * b \in Nat
OBVIOUS

LEMMA Monotonic == \A a, b, c \in Nat : a <= b => a * c <= b * c
OBVIOUS

\* The numbers of blocks of a track and a cylinder, and a sector's place in both.
LEMMA SizesAre ==
    ASSUME NEW k \in Controllers, NEW p \in Positions
    PROVE  /\ TrackSize(k) \in Nat /\ TrackSize(k) > 0 /\ TrackSize(k) <= 255
           /\ CylinderSize(k) \in Nat /\ CylinderSize(k) > 0 /\ CylinderSize(k) <= 4080
           /\ BlockNumber(k, p) = CylinderSize(k) * p[1] + (TrackSize(k) * p[2] + p[3])
           /\ TrackSize(k) * p[2] \in Nat /\ CylinderSize(k) * p[1] \in Nat
           /\ TrackSize(k) * p[2] <= 3825 /\ CylinderSize(k) * p[1] <= 16707600
<1>1. /\ p[1] \in Nat /\ p[1] <= 4095 /\ p[2] \in Nat /\ p[2] <= 15 /\ p[3] \in Nat
  BY PositionIs
<1>2. Heads \in Nat /\ Sectors \in Nat /\ Heads > 0 /\ Sectors > 4 /\ Heads <= 16 /\ Sectors <= 255
  BY FormatAssumption, AddressAssumption
<1>3. PICK t : t = TrackSize(k)
  OBVIOUS
<1>4. t \in Nat /\ t > 0 /\ t <= 255
  BY <1>2, <1>3 DEF TrackSize
<1>5. PICK full, tracks : full = Heads * Sectors /\ tracks = Heads * t
  OBVIOUS
<1>6. full \in Nat /\ full > 4 /\ full <= 4080
  <2>1. 1 * Sectors <= Heads * Sectors /\ Heads * Sectors <= 16 * Sectors /\ Heads * Sectors \in Nat
    BY <1>2, Monotonic, Product
  <2> QED BY <1>2, <1>5, <2>1
<1>7. tracks \in Nat /\ tracks > 0 /\ tracks <= 4080
  <2>1. 1 * t <= Heads * t /\ Heads * t <= 16 * t /\ Heads * t \in Nat
    BY <1>2, <1>4, Monotonic, Product
  <2> QED BY <1>4, <1>5, <2>1
<1>8. PICK c : c = CylinderSize(k)
  OBVIOUS
<1>9. c \in Nat /\ c > 0 /\ c <= 4080
  <2>1. c = IF k = "IBM_PS2" THEN full - 4 ELSE tracks
    BY <1>3, <1>5, <1>8 DEF CylinderSize
  <2> QED BY <1>6, <1>7, <2>1
<1>10. t * p[2] \in Nat /\ t * p[2] <= 3825
  <2>1. t * p[2] <= 255 * p[2] /\ t * p[2] \in Nat
    BY <1>1, <1>4, Monotonic, Product
  <2> QED BY <1>1, <2>1
<1>11. c * p[1] \in Nat /\ c * p[1] <= 16707600
  <2>1. c * p[1] <= 4080 * p[1] /\ c * p[1] \in Nat
    BY <1>1, <1>9, Monotonic, Product
  <2> QED BY <1>1, <2>1
<1>12. BlockNumber(k, p) = c * p[1] + (t * p[2] + p[3])
  <2>1. \A x, y, z \in Nat : (x + y) + z = x + (y + z)
    OBVIOUS
  <2> QED BY <1>1, <1>3, <1>8, <1>10, <1>11, <2>1 DEF BlockNumber
<1> QED BY <1>3, <1>4, <1>8, <1>9, <1>10, <1>11, <1>12

\* The PS/2's headers have 24 bits for a block, and a number that says spare.
Blocks24 == 16777216
SpareBlock == 260013951

\* A sector's block has a number of 24 bits.
LEMMA BlockIs ==
    ASSUME NEW k \in Controllers, NEW p \in Positions
    PROVE  BlockNumber(k, p) \in Nat /\ BlockNumber(k, p) < Blocks24
<1>1. PICK x, y, n : x = CylinderSize(k) * p[1] /\ y = TrackSize(k) * p[2] /\ n = BlockNumber(k, p)
  OBVIOUS
<1>2. x \in Nat /\ y \in Nat /\ x <= 16707600 /\ y <= 3825 /\ n = x + (y + p[3])
  BY <1>1, SizesAre
<1>3. p[3] \in Nat /\ p[3] < 255
  BY PositionIs
<1> QED BY <1>1, <1>2, <1>3, SMT DEF Blocks24

\* A number is twice its half, and a bit.
LEMMA HalfOf == \A n \in Nat : \E d \in Nat, b \in Nat : d = n \div 2 /\ b = n % 2 /\ n = 2 * d + b
<1> TAKE n \in Nat
<1>1. PICK d : d = n \div 2
  OBVIOUS
<1>2. PICK b : b = n % 2
  OBVIOUS
<1>3. d \in Nat
  BY <1>1
<1>4. b \in Nat
  BY <1>2
<1>5. n = 2 * d + b
  BY <1>1, <1>2
<1> QED BY <1>1, <1>2, <1>3, <1>4, <1>5

\* Halves of halves.
LEMMA Halves ==
    \A n \in Nat : /\ n \div 4 = (n \div 2) \div 2 /\ n \div 8 = (n \div 4) \div 2
                   /\ n \div 16 = (n \div 8) \div 2 /\ n \div 32 = (n \div 16) \div 2
                   /\ n \div 64 = (n \div 32) \div 2 /\ n \div 128 = (n \div 64) \div 2
<1> TAKE n \in Nat
<1>1. n \div 4 = (n \div 2) \div 2
  OBVIOUS
<1>2. n \div 8 = (n \div 4) \div 2
  OBVIOUS
<1>3. n \div 16 = (n \div 8) \div 2
  OBVIOUS
<1>4. n \div 32 = (n \div 16) \div 2
  OBVIOUS
<1>5. n \div 64 = (n \div 32) \div 2
  OBVIOUS
<1>6. n \div 128 = (n \div 64) \div 2
  OBVIOUS
<1> QED BY <1>1, <1>2, <1>3, <1>4, <1>5, <1>6

\* The bits of a byte make up its number again.
LEMMA ValueOfByte == \A n \in 0 .. 255 : Value(ByteOf(n)) = n
<1> TAKE n \in 0 .. 255
<1>1. n \in Nat
  OBVIOUS
<1>2. PICK d1 \in Nat, b0 \in Nat : d1 = n \div 2 /\ b0 = n % 2 /\ n = 2 * d1 + b0
  BY <1>1, HalfOf
<1>3. PICK d2 \in Nat, b1 \in Nat : d2 = d1 \div 2 /\ b1 = d1 % 2 /\ d1 = 2 * d2 + b1
  BY HalfOf
<1>4. PICK d3 \in Nat, b2 \in Nat : d3 = d2 \div 2 /\ b2 = d2 % 2 /\ d2 = 2 * d3 + b2
  BY HalfOf
<1>5. PICK d4 \in Nat, b3 \in Nat : d4 = d3 \div 2 /\ b3 = d3 % 2 /\ d3 = 2 * d4 + b3
  BY HalfOf
<1>6. PICK d5 \in Nat, b4 \in Nat : d5 = d4 \div 2 /\ b4 = d4 % 2 /\ d4 = 2 * d5 + b4
  BY HalfOf
<1>7. PICK d6 \in Nat, b5 \in Nat : d6 = d5 \div 2 /\ b5 = d5 % 2 /\ d5 = 2 * d6 + b5
  BY HalfOf
<1>8. PICK d7 \in Nat, b6 \in Nat : d7 = d6 \div 2 /\ b6 = d6 % 2 /\ d6 = 2 * d7 + b6
  BY HalfOf
<1>9. /\ d2 = n \div 4 /\ d3 = n \div 8 /\ d4 = n \div 16
      /\ d5 = n \div 32 /\ d6 = n \div 64 /\ d7 = n \div 128
  <2>1. d2 = n \div 4
    BY <1>1, <1>2, <1>3, Halves, Zenon
  <2>2. d3 = n \div 8
    BY <1>1, <1>4, <2>1, Halves, Zenon
  <2>3. d4 = n \div 16
    BY <1>1, <1>5, <2>2, Halves, Zenon
  <2>4. d5 = n \div 32
    BY <1>1, <1>6, <2>3, Halves, Zenon
  <2>5. d6 = n \div 64
    BY <1>1, <1>7, <2>4, Halves, Zenon
  <2>6. d7 = n \div 128
    BY <1>1, <1>8, <2>5, Halves, Zenon
  <2> QED BY <2>1, <2>2, <2>3, <2>4, <2>5, <2>6
<1>10. \A j \in 1 .. 8 : ByteOf(n)[j] = (n \div 2 ^ (8 - j)) % 2
  BY DEF ByteOf
<1>11. /\ ByteOf(n)[1] = (n \div 2 ^ 7) % 2 /\ ByteOf(n)[2] = (n \div 2 ^ 6) % 2
      /\ ByteOf(n)[3] = (n \div 2 ^ 5) % 2 /\ ByteOf(n)[4] = (n \div 2 ^ 4) % 2
  <2>1. 1 \in 1 .. 8 /\ 2 \in 1 .. 8 /\ 3 \in 1 .. 8 /\ 4 \in 1 .. 8
    OBVIOUS
  <2>2. 8 - 1 = 7 /\ 8 - 2 = 6 /\ 8 - 3 = 5 /\ 8 - 4 = 4
    OBVIOUS
  <2> QED BY <1>10, <2>1, <2>2, Zenon
<1>12. /\ ByteOf(n)[5] = (n \div 2 ^ 3) % 2 /\ ByteOf(n)[6] = (n \div 2 ^ 2) % 2
      /\ ByteOf(n)[7] = (n \div 2 ^ 1) % 2 /\ ByteOf(n)[8] = (n \div 2 ^ 0) % 2
  <2>1. 5 \in 1 .. 8 /\ 6 \in 1 .. 8 /\ 7 \in 1 .. 8 /\ 8 \in 1 .. 8
    OBVIOUS
  <2>2. 8 - 5 = 3 /\ 8 - 6 = 2 /\ 8 - 7 = 1 /\ 8 - 8 = 0
    OBVIOUS
  <2> QED BY <1>10, <2>1, <2>2, Zenon
<1>13. 2 ^ 7 = 128 /\ 2 ^ 6 = 64 /\ 2 ^ 5 = 32 /\ 2 ^ 4 = 16
  OBVIOUS
<1>14. 2 ^ 3 = 8 /\ 2 ^ 2 = 4 /\ 2 ^ 1 = 2 /\ 2 ^ 0 = 1
  OBVIOUS
<1>15. n \div 1 = n
  OBVIOUS
<1>16. d7 % 2 = d7
  <2>1. n \div 128 \in {0, 1}
    OBVIOUS
  <2>2. \A d \in {0, 1} : d % 2 = d
    OBVIOUS
  <2> QED BY <1>9, <2>1, <2>2, Zenon
<1>17. /\ ByteOf(n)[1] = d7 /\ ByteOf(n)[2] = b6 /\ ByteOf(n)[3] = b5 /\ ByteOf(n)[4] = b4
  <2>1. ByteOf(n)[1] = d7 % 2 /\ ByteOf(n)[2] = d6 % 2 /\ ByteOf(n)[3] = d5 % 2
        /\ ByteOf(n)[4] = d4 % 2
    BY <1>9, <1>11, <1>13, Zenon
  <2> QED BY <1>16, <1>6, <1>7, <1>8, <2>1, Zenon
<1>18. /\ ByteOf(n)[5] = b3 /\ ByteOf(n)[6] = b2 /\ ByteOf(n)[7] = b1 /\ ByteOf(n)[8] = b0
  BY <1>9, <1>12, <1>14, <1>15, <1>2, <1>3, <1>4, <1>5, Zenon
<1>19. 128 * d7 + 64 * b6 + 32 * b5 + 16 * b4 + 8 * b3 + 4 * b2 + 2 * b1 + b0 = n
  <2>1. /\ n = 2 * d1 + b0 /\ d1 = 2 * d2 + b1 /\ d2 = 2 * d3 + b2 /\ d3 = 2 * d4 + b3
        /\ d4 = 2 * d5 + b4 /\ d5 = 2 * d6 + b5 /\ d6 = 2 * d7 + b6
    BY <1>2, <1>3, <1>4, <1>5, <1>6, <1>7, <1>8, Zenon
  <2> QED BY <2>1
<1>20. Value(ByteOf(n)) = 128 * d7 + 64 * b6 + 32 * b5 + 16 * b4 + 8 * b3 + 4 * b2 + 2 * b1 + b0
  BY <1>17, <1>18, Zenon DEF Value
<1> QED BY <1>19, <1>20

\* What an address area's numbers have in common.
AddressSays(numbers, k) ==
    /\ numbers \in Seq(Int) /\ Len(numbers) >= 5
    /\ Len(numbers) + Width(k, "address") \div 8 = LengthFor(k, "address")
    /\ numbers[1] = SyncFor(k, "address")
    /\ \A i \in 1 .. Len(numbers) : numbers[i] \in 0 .. 255

\* The parts of a header, and the bytes of the PS/2's block number.
High(p) == p[1] \div 256
Low(p) == p[1] % 256
Flag(kind) == IF kind = "bad" THEN 128 ELSE 0
LastOf(p, kind) == IF kind = "spare" THEN 255 ELSE p[3]
BlockOf(k, p, kind) == IF kind = "spare" THEN SpareBlock ELSE BlockNumber(k, p)
Byte1(n) == n % 256
Byte2(n) == (n \div 256) % 256
Byte3(n) == (n \div 65536) % 256
Byte4(n) == n \div Blocks24

\* Each of them is a byte.
LEMMA PartsAre ==
    ASSUME NEW p \in Positions, NEW kind
    PROVE  /\ High(p) \in 0 .. 255 /\ High(p) < 16 /\ Low(p) \in 0 .. 255
           /\ p[1] = 256 * High(p) + Low(p)
           /\ Flag(kind) \in {0, 128} /\ Flag(kind) \in 0 .. 255 /\ LastOf(p, kind) \in 0 .. 255
           /\ p[2] \in 0 .. 255 /\ p[2] < 16 /\ p[2] + Flag(kind) \in 0 .. 255
           /\ p[3] \in 0 .. 255 /\ p[3] + 1 \in 0 .. 255
<1>1. p[1] \in Nat /\ p[1] < 4096 /\ p[2] \in Nat /\ p[2] < 16 /\ p[3] \in Nat /\ p[3] < 255
  BY PositionIs
<1>2. PICK c \in Nat : c = p[1]
  BY <1>1
<1>3. PICK high : high = c \div 256
  OBVIOUS
<1>4. PICK low : low = c % 256
  OBVIOUS
<1>5. high \in 0 .. 15
  BY <1>1, <1>2, <1>3
<1>6. low \in 0 .. 255
  BY <1>4
<1>7. c = 256 * high + low
  BY <1>3, <1>4
<1>8. High(p) = high /\ Low(p) = low
  BY <1>2, <1>3, <1>4 DEF High, Low
<1>9. /\ Flag(kind) \in {0, 128} /\ LastOf(p, kind) \in 0 .. 255
  BY <1>1 DEF Flag, LastOf
<1>10. PICK flag \in {0, 128} : flag = Flag(kind)
  BY <1>9
<1>11. p[2] + flag \in 0 .. 255 /\ flag \in 0 .. 255
  BY <1>1
<1>12. p[2] \in 0 .. 255 /\ p[3] \in 0 .. 255 /\ p[3] + 1 \in 0 .. 255
  BY <1>1
<1>13. high \in 0 .. 255 /\ high < 16
  BY <1>5
<1>14. High(p) \in 0 .. 255 /\ High(p) < 16 /\ Low(p) \in 0 .. 255
  BY <1>6, <1>8, <1>13
<1>15. p[1] = 256 * High(p) + Low(p)
  BY <1>2, <1>7, <1>8
<1>16. Flag(kind) \in 0 .. 255 /\ p[2] + Flag(kind) \in 0 .. 255
  BY <1>10, <1>11
<1> QED BY <1>1, <1>9, <1>12, <1>14, <1>15, <1>16

\* Three bytes make up a block's number, and the fourth tells spare sectors.
LEMMA BlockBytesAre ==
    ASSUME NEW k \in Controllers, NEW p \in Positions, NEW kind
    PROVE  LET n == BlockOf(k, p, kind) IN
           /\ n \in Nat
           /\ Byte1(n) \in 0 .. 255 /\ Byte2(n) \in 0 .. 255 /\ Byte3(n) \in 0 .. 255
           /\ Byte4(n) \in 0 .. 15 /\ Byte4(n) + Flag(kind) \in 0 .. 255
           /\ kind = "spare" => Byte1(n) = 127 /\ Byte2(n) = 127 /\ Byte3(n) = 127 /\ Byte4(n) = 15
           /\ kind # "spare" => /\ n = BlockNumber(k, p) /\ Byte4(n) = 0
                                /\ n = Byte1(n) + 256 * Byte2(n) + 65536 * Byte3(n)
<1>1. PICK n : n = BlockOf(k, p, kind)
  OBVIOUS
<1>2. n \in Nat
  <2>1. SpareBlock \in Nat
    BY SMT DEF SpareBlock
  <2> QED BY <1>1, <2>1, BlockIs, SMT DEF BlockOf
<1>3. Byte1(n) \in 0 .. 255
  BY <1>2, SMT DEF Byte1
<1>4. Byte2(n) \in 0 .. 255
  BY <1>2, SMT DEF Byte2
<1>5. Byte3(n) \in 0 .. 255
  BY <1>2, SMT DEF Byte3
<1>6. ASSUME kind = "spare" PROVE Byte1(n) = 127 /\ Byte2(n) = 127 /\ Byte3(n) = 127 /\ Byte4(n) = 15
  BY <1>1, <1>6, SMT DEF BlockOf, SpareBlock, Blocks24, Byte1, Byte2, Byte3, Byte4
<1>7. ASSUME kind # "spare"
      PROVE  /\ n = BlockNumber(k, p) /\ Byte4(n) = 0
             /\ n = Byte1(n) + 256 * Byte2(n) + 65536 * Byte3(n)
  <2>1. n = BlockNumber(k, p)
    BY <1>1, <1>7, SMT DEF BlockOf
  <2>2. n < 16777216
    BY <2>1, BlockIs, SMT DEF Blocks24
  <2>3. Byte4(n) = 0
    BY <1>2, <2>2, SMT DEF Byte4, Blocks24
  <2>4. PICK a, b, d : a = n \div 256 /\ b = n \div 65536 /\ d = n % 256
    BY SMT
  <2>5. a \in Nat /\ d \in Nat /\ n = 256 * a + d
    BY <1>2, <2>4, SMT
  <2>6. b \in 0 .. 255
    BY <1>2, <2>2, <2>4, SMT
  <2>7. b = a \div 256
    BY <1>2, <2>4, SMT
  <2>8. PICK e : e = a % 256
    OBVIOUS
  <2>9. e \in Nat /\ a = 256 * b + e
    BY <2>5, <2>7, <2>8, SMT
  <2>10. n = d + 256 * e + 65536 * b
    BY <2>5, <2>6, <2>9, SMT
  <2>11. b % 256 = b
    BY <2>6, SMT
  <2>12. Byte1(n) = d /\ Byte2(n) = e /\ Byte3(n) = b
    BY <2>4, <2>8, <2>11, SMT DEF Byte1, Byte2, Byte3
  <2> QED BY <2>1, <2>3, <2>10, <2>12, SMT
<1>8. Byte4(n) \in 0 .. 15
  <2>1. 0 \in 0 .. 15 /\ 15 \in 0 .. 15
    OBVIOUS
  <2> QED BY <1>6, <1>7, <2>1, SMT
<1>9. Byte4(n) + Flag(kind) \in 0 .. 255
  <2>1. Flag(kind) \in {0, 128}
    BY PartsAre
  <2> QED BY <1>8, <2>1, SMT
<1> QED BY <1>1, <1>2, <1>3, <1>4, <1>5, <1>6, <1>7, <1>8, <1>9, SMT

\* The address areas of the controllers, in these parts.
LEMMA NumbersAre ==
    ASSUME NEW k \in Controllers, NEW p \in Positions, NEW kind, NEW numbers,
           numbers = AddressBytes(k, p, kind)
    PROVE  /\ k = "ADAPTEC_ACB2322" => numbers = <<254, High(p), Low(p), p[2], p[3] + 1, Flag(kind)>>
           /\ k = "IBM_5364" => numbers = <<254, High(p), Low(p), p[2], LastOf(p, kind), 0>>
           /\ k = "IBM_PS2" =>
                 LET n == BlockOf(k, p, kind) IN
                 numbers = <<161, Byte1(n), Byte2(n), Byte3(n), Byte4(n) + Flag(kind), 0>>
           /\ k = "IBM_RT_ENHANCED" =>
                 numbers = <<254, High(p), Low(p), p[2] + Flag(kind), p[3] + 1>>
           /\ k = "ULTRASTOR_12F" =>
                 numbers = <<161, cylinder_high_byte_map[High(p) + 1], Low(p), p[2], p[3] + 1, 0, 0>>
<1>1. CASE k = "ADAPTEC_ACB2322"
  BY <1>1, SMT DEF AddressBytes, High, Low, Flag
<1>2. CASE k = "IBM_5364"
  BY <1>2, SMT DEF AddressBytes, High, Low, LastOf
<1>3. CASE k = "IBM_PS2"
  <2>1. PICK n : n = BlockOf(k, p, kind)
    OBVIOUS
  <2>2. numbers = <<161, n % 256, (n \div 256) % 256, (n \div 65536) % 256, n \div 16777216 + Flag(kind), 0>>
    BY <1>3, <2>1, SMT DEF AddressBytes, BlockOf, SpareBlock, Flag
  <2> QED BY <1>3, <2>1, <2>2, SMT DEF Byte1, Byte2, Byte3, Byte4, Blocks24
<1>4. CASE k = "IBM_RT_ENHANCED"
  BY <1>4, SMT DEF AddressBytes, High, Low, Flag
<1>5. CASE k = "ULTRASTOR_12F"
  BY <1>5, SMT DEF AddressBytes, High, Low
<1>6. k \in Controller
  BY PathAssumption
<1> QED BY <1>1, <1>2, <1>3, <1>4, <1>5, <1>6, ControllersAre, SMT
\* What the ULTRASTOR writes for the upper part of a cylinder is a byte.
LEMMA HighBytesAre == \A i \in 1 .. 7 : cylinder_high_byte_map[i] \in 244 .. 255
<1> TAKE i \in 1 .. 7
<1>1. i = 1 \/ i = 2 \/ i = 3 \/ i = 4 \/ i = 5 \/ i = 6 \/ i = 7
  OBVIOUS
<1> QED BY <1>1 DEF cylinder_high_byte_map

\* The ULTRASTOR's headers number seven times 256 cylinders.
LEMMA HighIs ==
    ASSUME NEW p \in Positions, "ULTRASTOR_12F" \in Controllers
    PROVE  High(p) + 1 \in 1 .. 7
<1>1. Cylinders <= 7 * 256 /\ Cylinders \in Nat
  BY UltrastorAssumption, FormatAssumption
<1>2. p[1] < Cylinders /\ High(p) \in 0 .. 255 /\ Low(p) \in 0 .. 255 /\ p[1] = 256 * High(p) + Low(p)
  BY PositionIs, PartsAre
<1>3. PICK high \in 0 .. 255 : high = High(p)
  BY <1>2
<1>4. PICK low \in 0 .. 255 : low = Low(p)
  BY <1>2
<1>5. 256 * high + low < 7 * 256
  <2>1. PICK c : c = p[1]
    OBVIOUS
  <2>2. c \in Nat /\ c < Cylinders
    BY <2>1, PositionIs
  <2>3. c < 7 * 256
    BY <1>1, <2>2
  <2>4. c = 256 * high + low
    BY <1>2, <1>3, <1>4, <2>1
  <2> QED BY <2>3, <2>4
<1>6. high + 1 \in 1 .. 7
  BY <1>5
<1> QED BY <1>3, <1>6

\* An address area has its sync byte, is as long as its controller says and is of bytes.
LEMMA AddressIs ==
    ASSUME NEW k \in Controllers, NEW p \in Positions, NEW kind
    PROVE  AddressSays(AddressBytes(k, p, kind), k)
<1>1. PICK numbers : numbers = AddressBytes(k, p, kind)
  OBVIOUS
<1>2. /\ High(p) \in 0 .. 255 /\ Low(p) \in 0 .. 255 /\ Flag(kind) \in 0 .. 255
      /\ LastOf(p, kind) \in 0 .. 255 /\ p[2] \in 0 .. 255 /\ p[2] + Flag(kind) \in 0 .. 255
      /\ p[3] + 1 \in 0 .. 255
  BY PartsAre
<1>3. k \in Controller
  BY PathAssumption
<1>4. 16 \div 8 = 2 /\ 32 \div 8 = 4
  OBVIOUS
<1>5. CASE k = "ADAPTEC_ACB2322"
  <2>1. PICK b2, b3, b4, b5, b6 \in 0 .. 255 :
            b2 = High(p) /\ b3 = Low(p) /\ b4 = p[2] /\ b5 = p[3] + 1 /\ b6 = Flag(kind)
    BY <1>2
  <2>2. numbers = <<254, b2, b3, b4, b5, b6>>
    BY <1>1, <1>5, <2>1, NumbersAre
  <2>3. ASSUME NEW i \in 1 .. 6 PROVE numbers[i] \in 0 .. 255
    <3>1. i = 1 \/ i = 2 \/ i = 3 \/ i = 4 \/ i = 5 \/ i = 6
      OBVIOUS
    <3> QED BY <2>2, <3>1
  <2>4. numbers \in Seq(Int) /\ Len(numbers) = 6 /\ numbers[1] = 254
    BY <2>2
  <2>5. Width(k, "address") = 16 /\ LengthFor(k, "address") = 8 /\ SyncFor(k, "address") = 254
    BY <1>5 DEF Width, LengthFor, SyncFor, controllers, adaptec_acb2322
  <2> QED BY <1>1, <1>4, <2>3, <2>4, <2>5 DEF AddressSays
<1>6. CASE k = "IBM_5364"
  <2>1. PICK b2, b3, b4, b5 \in 0 .. 255 :
            b2 = High(p) /\ b3 = Low(p) /\ b4 = p[2] /\ b5 = LastOf(p, kind)
    BY <1>2
  <2>2. numbers = <<254, b2, b3, b4, b5, 0>>
    BY <1>1, <1>6, <2>1, NumbersAre
  <2>3. ASSUME NEW i \in 1 .. 6 PROVE numbers[i] \in 0 .. 255
    <3>1. i = 1 \/ i = 2 \/ i = 3 \/ i = 4 \/ i = 5 \/ i = 6
      OBVIOUS
    <3> QED BY <2>2, <3>1
  <2>4. numbers \in Seq(Int) /\ Len(numbers) = 6 /\ numbers[1] = 254
    BY <2>2
  <2>5. Width(k, "address") = 16 /\ LengthFor(k, "address") = 8 /\ SyncFor(k, "address") = 254
    BY <1>6 DEF Width, LengthFor, SyncFor, controllers, ibm_5364
  <2> QED BY <1>1, <1>4, <2>3, <2>4, <2>5 DEF AddressSays
<1>7. CASE k = "IBM_PS2"
  <2>1. PICK n : n = BlockOf(k, p, kind)
    OBVIOUS
  <2>2. PICK b2, b3, b4, b5 \in 0 .. 255 :
            b2 = Byte1(n) /\ b3 = Byte2(n) /\ b4 = Byte3(n) /\ b5 = Byte4(n) + Flag(kind)
    <3>1. /\ Byte1(n) \in 0 .. 255 /\ Byte2(n) \in 0 .. 255 /\ Byte3(n) \in 0 .. 255
          /\ Byte4(n) + Flag(kind) \in 0 .. 255
      BY <2>1, BlockBytesAre, SMT
    <3> QED BY <3>1, Zenon
  <2>3. numbers = <<161, b2, b3, b4, b5, 0>>
    BY <1>1, <1>7, <2>1, <2>2, NumbersAre
  <2>4. ASSUME NEW i \in 1 .. 6 PROVE numbers[i] \in 0 .. 255
    <3>1. i = 1 \/ i = 2 \/ i = 3 \/ i = 4 \/ i = 5 \/ i = 6
      OBVIOUS
    <3> QED BY <2>3, <3>1
  <2>5. numbers \in Seq(Int) /\ Len(numbers) = 6 /\ numbers[1] = 161
    BY <2>3
  <2>6. Width(k, "address") = 32 /\ LengthFor(k, "address") = 10 /\ SyncFor(k, "address") = 161
    BY <1>7 DEF Width, LengthFor, SyncFor, controllers, ibm_ps2
  <2> QED BY <1>1, <1>4, <2>4, <2>5, <2>6 DEF AddressSays
<1>8. CASE k = "IBM_RT_ENHANCED"
  <2>1. PICK b2, b3, b4, b5 \in 0 .. 255 :
            b2 = High(p) /\ b3 = Low(p) /\ b4 = p[2] + Flag(kind) /\ b5 = p[3] + 1
    BY <1>2
  <2>2. numbers = <<254, b2, b3, b4, b5>>
    BY <1>1, <1>8, <2>1, NumbersAre
  <2>3. ASSUME NEW i \in 1 .. 5 PROVE numbers[i] \in 0 .. 255
    <3>1. i = 1 \/ i = 2 \/ i = 3 \/ i = 4 \/ i = 5
      OBVIOUS
    <3> QED BY <2>2, <3>1
  <2>4. numbers \in Seq(Int) /\ Len(numbers) = 5 /\ numbers[1] = 254
    BY <2>2
  <2>5. Width(k, "address") = 32 /\ LengthFor(k, "address") = 9 /\ SyncFor(k, "address") = 254
    BY <1>8 DEF Width, LengthFor, SyncFor, controllers, ibm_rt_enhanced
  <2> QED BY <1>1, <1>4, <2>3, <2>4, <2>5 DEF AddressSays
<1>9. CASE k = "ULTRASTOR_12F"
  <2>1. cylinder_high_byte_map[High(p) + 1] \in 0 .. 255
    <3>1. PICK high : high = High(p) + 1
      OBVIOUS
    <3>2. high \in 1 .. 7
      BY <1>9, <3>1, HighIs
    <3>3. cylinder_high_byte_map[high] \in 244 .. 255
      BY <3>2, HighBytesAre
    <3> QED BY <3>1, <3>3
  <2>2. PICK b2, b3, b4, b5 \in 0 .. 255 :
            /\ b2 = cylinder_high_byte_map[High(p) + 1]
            /\ b3 = Low(p) /\ b4 = p[2] /\ b5 = p[3] + 1
    BY <1>2, <2>1
  <2>3. numbers = <<161, b2, b3, b4, b5, 0, 0>>
    BY <1>1, <1>9, <2>2, NumbersAre
  <2>4. ASSUME NEW i \in 1 .. 7 PROVE numbers[i] \in 0 .. 255
    <3>1. i = 1 \/ i = 2 \/ i = 3 \/ i = 4 \/ i = 5 \/ i = 6 \/ i = 7
      OBVIOUS
    <3> QED BY <2>3, <3>1
  <2>5. numbers \in Seq(Int) /\ Len(numbers) = 7 /\ numbers[1] = 161
    BY <2>3
  <2>6. Width(k, "address") = 16 /\ LengthFor(k, "address") = 9 /\ SyncFor(k, "address") = 161
    BY <1>9 DEF Width, LengthFor, SyncFor, controllers, ultrastor_12f
  <2> QED BY <1>1, <1>4, <2>4, <2>5, <2>6 DEF AddressSays
<1> QED BY <1>3, <1>5, <1>6, <1>7, <1>8, <1>9, ControllersAre

\* What is left of a controller's area when nothing is known of its numbers.
AreaHas(area, k, part) ==
    /\ area \in Seq(Byte) /\ Len(area) = LengthFor(k, part)
    /\ LengthFor(k, part) \in Nat /\ LengthFor(k, part) > 1
    /\ area[1] = ByteOf(SyncFor(k, part))
    /\ Passes(area, CheckFor(k, part))

\* Numbers that begin with the sync byte, with their check behind them, are such an area.
LEMMA AreaFrom ==
    ASSUME NEW k \in Controller, NEW part \in Part, NEW numbers \in Seq(Int),
           Len(numbers) + Width(k, part) \div 8 = LengthFor(k, part),
           Len(numbers) > 1, numbers[1] = SyncFor(k, part)
    PROVE  /\ AreaHas(WithCheck(numbers, CheckFor(k, part)), k, part)
           /\ \A i \in 1 .. Len(numbers) :
                 WithCheck(numbers, CheckFor(k, part))[i] = ByteOf(numbers[i])
<1>1. PICK check, n : check = CheckFor(k, part) /\ n = Width(k, part)
  OBVIOUS
<1>2. CheckHas(check, n)
  BY <1>1, ChecksAre
<1>3. n \in {16, 32, 48, 56}
  BY <1>2 DEF CheckHas
<1>4. PICK m \in Nat : m = Len(numbers) /\ m > 1
  BY LenProperties
<1>5. PICK area : area = WithCheck(numbers, check)
  OBVIOUS
<1>6. PICK bytes \in Seq(Byte), r \in BitWord(n) : Made(area, numbers, check, n, bytes, r)
  BY <1>2, <1>4, <1>5, WithCheckIs
<1>7. area \in Seq(Byte) /\ Len(area) = m + n \div 8 /\ \A i \in 1 .. m : area[i] = ByteOf(numbers[i])
  BY <1>4, <1>6 DEF Made
<1>8. Passes(area, check)
  BY <1>2, <1>4, <1>5, PassesWithCheck
<1>9. LengthFor(k, part) = m + n \div 8 /\ numbers[1] = SyncFor(k, part)
  BY <1>1, <1>4
<1>10. n \div 8 \in Nat /\ n \div 8 >= 2
  BY <1>3
<1>11. PICK q \in Nat : q = n \div 8
  BY <1>10
<1>12. LengthFor(k, part) = m + q /\ m + q \in Nat /\ m + q > 1
  BY <1>4, <1>9, <1>11
<1>13. area[1] = ByteOf(SyncFor(k, part))
  <2>1. 1 \in 1 .. m
    BY <1>4
  <2> QED BY <1>7, <1>9, <2>1
<1>14. AreaHas(area, k, part)
  BY <1>1, <1>7, <1>8, <1>11, <1>12, <1>13 DEF AreaHas
<1> QED BY <1>1, <1>4, <1>5, <1>7, <1>14

\* A data area has its sync byte and is as long as its controller says.
LEMMA DataIs ==
    ASSUME NEW k \in Controller
    PROVE  /\ DataBytes(k) \in Seq(Int) /\ Len(DataBytes(k)) > 1
           /\ Len(DataBytes(k)) + Width(k, "data") \div 8 = LengthFor(k, "data")
           /\ DataBytes(k)[1] = SyncFor(k, "data")
<1>1. PICK f : f = controllers[k]
  OBVIOUS
<1>2. FormatIs(k) /\ SectorSize \in Nat /\ SectorSize > 0
  BY FormatsAre, FormatAssumption
<1>3. PICK m \in Nat : m = f.dataAt - 1
  BY <1>1, <1>2 DEF FormatIs
<1>4. f.dataSync \in Int /\ f.dataAt = m + 1
  BY <1>1, <1>2, <1>3 DEF FormatIs
<1>5. PICK a, b, c : a = <<f.dataSync>> /\ b = Zeros(m) /\ c = [i \in 1 .. SectorSize |-> 37 * i]
  OBVIOUS
<1>6. a \in Seq(Int) /\ Len(a) = 1 /\ a[1] = f.dataSync
  BY <1>4, <1>5
<1>7. b \in Seq(Int) /\ Len(b) = m
  <2>1. b \in [1 .. m -> Int]
    BY <1>5 DEF Zeros
  <2> QED BY <2>1, SeqDef, LenProperties
<1>8. c \in Seq(Int) /\ Len(c) = SectorSize
  <2>1. c \in [1 .. SectorSize -> Int]
    BY <1>5
  <2>2. c \in Seq(Int)
    BY <1>2, <2>1, SeqDef
  <2>3. DOMAIN c = 1 .. SectorSize
    BY <2>1
  <2> QED BY <1>2, <2>2, <2>3, LenProperties
<1>9. a \o b \in Seq(Int) /\ Len(a \o b) = 1 + m /\ (a \o b)[1] = f.dataSync
  <2>1. a \o b \in Seq(Int) /\ Len(a \o b) = 1 + m
    <3>1. a \o b \in Seq(Int) /\ Len(a \o b) = Len(a) + Len(b)
      <4>1. a \in Seq(Int) /\ b \in Seq(Int)
        BY <1>6, <1>7
      <4> QED BY <4>1, ConcatProperties
    <3> QED BY <1>6, <1>7, <3>1
  <2>2. (a \o b)[1] = a[1]
    <3>1. 1 \in 1 .. 1 + m /\ 1 <= Len(a)
      BY <1>6
    <3> QED BY <1>6, <1>7, <3>1, ConcatProperties
  <2> QED BY <1>6, <2>1, <2>2
<1>10. PICK d : d = a \o b
  OBVIOUS
<1>11. d \o c \in Seq(Int) /\ Len(d \o c) = (1 + m) + SectorSize /\ (d \o c)[1] = f.dataSync
  <2>1. d \in Seq(Int) /\ Len(d) = 1 + m /\ d[1] = f.dataSync
    BY <1>9, <1>10
  <2>2. d \o c \in Seq(Int) /\ Len(d \o c) = (1 + m) + SectorSize
    BY <1>8, <2>1, ConcatProperties
  <2>3. 1 \in 1 .. (1 + m) + SectorSize /\ 1 <= 1 + m
    BY <1>2
  <2>4. (d \o c)[1] = d[1]
    BY <1>8, <2>1, <2>3, ConcatProperties
  <2> QED BY <2>1, <2>2, <2>4
<1>12. PICK all : all = DataBytes(k)
  OBVIOUS
<1>13. all = d \o c
  BY <1>1, <1>3, <1>5, <1>10, <1>12 DEF DataBytes
<1>14. all \in Seq(Int) /\ Len(all) = (1 + m) + SectorSize /\ all[1] = f.dataSync
  BY <1>11, <1>13
<1>15. SyncFor(k, "data") = f.dataSync /\ LengthFor(k, "data") = DataLength(k)
  BY <1>1 DEF SyncFor, LengthFor
<1>16. PICK w \in {32, 48, 56} : w = Width(k, "data") /\ Len(f.dataCheck.poly) = w
  <2>1. CheckHas(f.dataCheck, Width(k, "data"))
    <3>1. CheckFor(k, "data") = f.dataCheck /\ "data" \in Part
      BY <1>1 DEF CheckFor, Part
    <3> QED BY <3>1, ChecksAre
  <2>2. Width(k, "data") \in {32, 48, 56}
    BY ControllersAre DEF Width
  <2>3. PICK w \in {32, 48, 56} : w = Width(k, "data")
    BY <2>2
  <2>4. f.dataCheck.poly \in BitWord(w) /\ w \in Nat
    BY <2>1, <2>3 DEF CheckHas
  <2>5. Len(f.dataCheck.poly) = w
    BY <2>4, WordIsSeq
  <2> QED BY <2>3, <2>5
<1>17. DataLength(k) = (m + 1) + SectorSize + w \div 8
  BY <1>1, <1>4, <1>16, Eight DEF DataLength
<1>18. (m + 1) + SectorSize + w \div 8 = (1 + m) + SectorSize + w \div 8 /\ (1 + m) + SectorSize > 1
  BY <1>2
<1> QED BY <1>12, <1>14, <1>15, <1>16, <1>17, <1>18

\* Both areas of a sector pass the checks of their controller.
LEMMA FormattedHas ==
    ASSUME NEW k \in Controllers, NEW p \in Positions, NEW kind, NEW part \in Part
    PROVE  AreaHas(Formatted(k, p, kind)[part], k, part)
<1>1. k \in Controller
  BY PathAssumption
<1>2. CASE part = "address"
  <2>1. PICK numbers : numbers = AddressBytes(k, p, kind)
    OBVIOUS
  <2>2. AddressSays(numbers, k)
    BY <2>1, AddressIs
  <2>3. /\ numbers \in Seq(Int) /\ Len(numbers) > 1 /\ numbers[1] = SyncFor(k, part)
        /\ Len(numbers) + Width(k, part) \div 8 = LengthFor(k, part)
    <3>1. numbers \in Seq(Int) /\ Len(numbers) >= 5
      BY <2>2 DEF AddressSays
    <3>2. Len(numbers) > 1
      BY <3>1, LenProperties
    <3> QED BY <1>2, <2>2, <3>1, <3>2 DEF AddressSays
  <2>4. AreaHas(WithCheck(numbers, CheckFor(k, part)), k, part)
    BY <1>1, <2>3, AreaFrom
  <2>5. Formatted(k, p, kind)[part] = WithCheck(numbers, CheckFor(k, part))
    BY <1>2, <2>1 DEF Formatted, CheckFor
  <2> QED BY <2>4, <2>5
<1>3. CASE part = "data"
  <2>1. PICK numbers : numbers = DataBytes(k)
    OBVIOUS
  <2>2. /\ numbers \in Seq(Int) /\ Len(numbers) > 1 /\ numbers[1] = SyncFor(k, part)
        /\ Len(numbers) + Width(k, part) \div 8 = LengthFor(k, part)
    BY <1>1, <1>3, <2>1, DataIs
  <2>3. AreaHas(WithCheck(numbers, CheckFor(k, part)), k, part)
    BY <1>1, <2>2, AreaFrom
  <2>4. Formatted(k, p, kind)[part] = WithCheck(numbers, CheckFor(k, part))
    BY <1>3, <2>1 DEF Formatted, CheckFor
  <2> QED BY <2>3, <2>4
<1> QED BY <1>2, <1>3 DEF Part

\* The header is read as the numbers it was made of.
LEMMA HeaderIs ==
    ASSUME NEW k \in Controllers, NEW p \in Positions, NEW kind, NEW a,
           a = Header(Formatted(k, p, kind)["address"]), NEW numbers,
           numbers = AddressBytes(k, p, kind)
    PROVE  \A j \in Nat : j >= 1 /\ j < Len(numbers) => a[j] = numbers[j + 1]
<1>1. k \in Controller /\ "address" \in Part
  BY PathAssumption DEF Part
<1>2. AddressSays(numbers, k)
  BY AddressIs
<1>3. PICK area : area = WithCheck(numbers, CheckFor(k, "address"))
  OBVIOUS
<1>4. PICK m \in Nat : m = Len(numbers) /\ m >= 5 /\ numbers \in Seq(Int)
  <2>1. numbers \in Seq(Int) /\ Len(numbers) >= 5
    BY <1>2 DEF AddressSays
  <2> QED BY <2>1, LenProperties
<1>5. /\ AreaHas(area, k, "address") /\ \A i \in 1 .. m : area[i] = ByteOf(numbers[i])
  <2>1. /\ Len(numbers) > 1 /\ numbers[1] = SyncFor(k, "address")
        /\ Len(numbers) + Width(k, "address") \div 8 = LengthFor(k, "address")
    BY <1>2, <1>4 DEF AddressSays
  <2> QED BY <1>1, <1>3, <1>4, <2>1, AreaFrom
<1>6. Formatted(k, p, kind)["address"] = area
  BY <1>3 DEF Formatted, CheckFor
<1>7. a = [i \in 0 .. Len(area) - 1 |-> Value(area[i + 1])]
  BY <1>6 DEF Header
<1>8. PICK length \in Nat : length = Len(area) /\ m <= length
  <2>1. Len(area) = LengthFor(k, "address") /\ LengthFor(k, "address") \in Nat
    BY <1>5 DEF AreaHas
  <2>2. m + Width(k, "address") \div 8 = LengthFor(k, "address")
    BY <1>2, <1>4 DEF AddressSays
  <2>3. Width(k, "address") \div 8 \in Nat
    <3>1. Width(k, "address") \in {16, 32}
      BY <1>1, ControllersAre DEF Width
    <3> QED BY <3>1
  <2> QED BY <2>1, <2>2, <2>3
<1>9. ASSUME NEW j \in Nat, j >= 1, j < m PROVE a[j] = numbers[j + 1]
  <2>1. j \in 0 .. length - 1 /\ j + 1 \in 1 .. m
    BY <1>8, <1>9
  <2>2. a[j] = Value(area[j + 1])
    BY <1>7, <1>8, <2>1
  <2>3. numbers[j + 1] \in 0 .. 255
    BY <1>2, <1>4, <2>1 DEF AddressSays
  <2> QED BY <1>5, <2>1, <2>2, <2>3, ValueOfByte
<1> QED BY <1>4, <1>9

-----------------------------------------------------------------------------
(* What process_sector reads in a header.                                   *)

\* Cylinder, head and sector.
LEMMA PositionIsTuple == \A p \in Positions : p = <<p[1], p[2], p[3]>>
BY PathAssumption

\* What a good header's numbers are read as.
ReadsAs(k, p, a) ==
    /\ ~MarksSpare(k, a) /\ ~MarksBad(k, a) /\ HasCylinder(k, a)
    /\ k # "IBM_PS2" => Chs(k, a) = p
    /\ Lba(k, a) = BlockNumber(k, p)

\* The place on the drive gives the block.
LEMMA ChsReadsAs ==
    ASSUME NEW k, k # "IBM_PS2", NEW p \in Positions, NEW a, Chs(k, a) = p
    PROVE  Lba(k, a) = BlockNumber(k, p)
BY DEF Lba, BlockNumber, FirstLba

\* The ULTRASTOR's bytes for the upper part of a cylinder tell it.
LEMMA HighByteIs == \A i, j \in 1 .. 7 : cylinder_high_byte_map[i] = cylinder_high_byte_map[j] => i = j
<1> TAKE i \in 1 .. 7, j \in 1 .. 7
<1>1. i = 1 \/ i = 2 \/ i = 3 \/ i = 4 \/ i = 5 \/ i = 6 \/ i = 7
  OBVIOUS
<1>2. j = 1 \/ j = 2 \/ j = 3 \/ j = 4 \/ j = 5 \/ j = 6 \/ j = 7
  OBVIOUS
<1> QED BY <1>1, <1>2 DEF cylinder_high_byte_map

\* The header of a sector that holds a block: it is not marked, and says where it is.
LEMMA GoodHeader ==
    ASSUME NEW k \in Controllers, NEW p \in Positions, NEW a,
           a = Header(Formatted(k, p, "good")["address"])
    PROVE  ReadsAs(k, p, a)
<1>1. PICK numbers : numbers = AddressBytes(k, p, "good")
  OBVIOUS
<1>2. \A j \in Nat : j >= 1 /\ j < Len(numbers) => a[j] = numbers[j + 1]
  BY <1>1, HeaderIs
<1>3. k \in Controller
  BY PathAssumption
<1>4. PICK c \in Nat, h \in Nat, s \in Nat : p = <<c, h, s>> /\ h < 16 /\ s < 255
  BY PositionIs, PositionIsTuple
<1>5. PICK high \in 0 .. 15, low \in 0 .. 255 :
          high = High(p) /\ low = Low(p) /\ c = 256 * high + low
  <2>1. /\ High(p) \in 0 .. 255 /\ High(p) < 16 /\ Low(p) \in 0 .. 255
        /\ p[1] = 256 * High(p) + Low(p)
    BY PartsAre
  <2>2. High(p) \in 0 .. 15
    BY <2>1
  <2> QED BY <1>4, <2>1, <2>2
<1>6. Flag("good") = 0 /\ LastOf(p, "good") = s /\ BlockOf(k, p, "good") = BlockNumber(k, p)
  BY <1>4 DEF Flag, LastOf, BlockOf
<1>7. CASE k = "ADAPTEC_ACB2322"
  <2>1. numbers = <<254, high, low, h, s + 1, 0>>
    BY <1>1, <1>4, <1>5, <1>6, <1>7, NumbersAre
  <2>2. a[1] = high /\ a[2] = low /\ a[3] = h /\ a[4] = s + 1 /\ a[5] = 0
    BY <1>2, <2>1
  <2>3. Chs(k, a) = <<256 * high + low, h, (s + 1) - 1>>
    BY <1>7, <2>2 DEF Chs
  <2>4. Chs(k, a) = p
    BY <1>4, <1>5, <2>3
  <2>5. ~MarksSpare(k, a) /\ ~MarksBad(k, a) /\ HasCylinder(k, a)
    BY <1>7, <2>2 DEF MarksSpare, MarksBad, HasCylinder
  <2> QED BY <1>7, <2>4, <2>5, ChsReadsAs DEF ReadsAs
<1>8. CASE k = "IBM_5364"
  <2>1. numbers = <<254, high, low, h, s, 0>>
    BY <1>1, <1>4, <1>5, <1>6, <1>8, NumbersAre
  <2>2. a[1] = high /\ a[2] = low /\ a[3] = h /\ a[4] = s
    BY <1>2, <2>1
  <2>3. Chs(k, a) = <<256 * high + low, h, s>>
    BY <1>8, <2>2 DEF Chs
  <2>4. Chs(k, a) = p
    BY <1>4, <1>5, <2>3
  <2>5. ~MarksSpare(k, a) /\ ~MarksBad(k, a) /\ HasCylinder(k, a)
    BY <1>4, <1>8, <2>2 DEF MarksSpare, MarksBad, HasCylinder
  <2> QED BY <1>8, <2>4, <2>5, ChsReadsAs DEF ReadsAs
<1>9. CASE k = "IBM_PS2"
  <2>1. PICK n \in Nat : n = BlockNumber(k, p)
    BY BlockIs
  <2>2. n = Byte1(n) + 256 * Byte2(n) + 65536 * Byte3(n)
    BY <1>6, <2>1, BlockBytesAre, SMT
  <2>3. PICK b1, b2, b3 \in 0 .. 255 : b1 = Byte1(n) /\ b2 = Byte2(n) /\ b3 = Byte3(n)
    <3>1. Byte1(n) \in 0 .. 255 /\ Byte2(n) \in 0 .. 255 /\ Byte3(n) \in 0 .. 255
      BY <1>6, <2>1, BlockBytesAre, SMT
    <3> QED BY <3>1, Zenon
  <2>4. Byte4(n) = 0
    BY <1>6, <2>1, BlockBytesAre, SMT
  <2>5. numbers = <<161, b1, b2, b3, 0 + 0, 0>>
    BY <1>1, <1>6, <1>9, <2>1, <2>3, <2>4, NumbersAre
  <2>6. a[1] = b1 /\ a[2] = b2 /\ a[3] = b3 /\ a[4] = 0
    BY <1>2, <2>5
  <2>7. 0 % 16 = 0
    OBVIOUS
  <2>8. Lba(k, a) = n
    BY <1>9, <2>3, <2>6, <2>7, <2>2, SMT DEF Lba
  <2>9. ~MarksSpare(k, a)
    BY <1>9, <2>6, <2>7 DEF MarksSpare
  <2>10. ~MarksBad(k, a) /\ HasCylinder(k, a)
    BY <1>9, <2>6 DEF MarksBad, HasCylinder
  <2> QED BY <1>9, <2>1, <2>8, <2>9, <2>10 DEF ReadsAs
<1>10. CASE k = "IBM_RT_ENHANCED"
  <2>1. numbers = <<254, high, low, h + 0, s + 1>>
    BY <1>1, <1>4, <1>5, <1>6, <1>10, NumbersAre
  <2>2. a[1] = high /\ a[2] = low /\ a[3] = h /\ a[4] = s + 1
    BY <1>2, <1>4, <2>1
  <2>3. high % 16 = high /\ h % 16 = h
    BY <1>4
  <2>4. Chs(k, a) = <<256 * high + low, h, (s + 1) - 1>>
    BY <1>10, <2>2, <2>3 DEF Chs
  <2>5. Chs(k, a) = p
    BY <1>4, <1>5, <2>4
  <2>6. ~MarksSpare(k, a) /\ ~MarksBad(k, a) /\ HasCylinder(k, a)
    BY <1>4, <1>10, <2>2 DEF MarksSpare, MarksBad, HasCylinder
  <2> QED BY <1>10, <2>5, <2>6, ChsReadsAs DEF ReadsAs
<1>11. CASE k = "ULTRASTOR_12F"
  <2>1. high + 1 \in 1 .. 7
    BY <1>5, <1>11, HighIs
  <2>2. numbers = <<161, cylinder_high_byte_map[high + 1], low, h, s + 1, 0, 0>>
    BY <1>1, <1>4, <1>5, <1>6, <1>11, NumbersAre
  <2>3. a[1] = cylinder_high_byte_map[high + 1] /\ a[2] = low /\ a[3] = h /\ a[4] = s + 1
    BY <1>2, <2>2
  <2>4. HighByte(a) = {high + 1}
    BY <2>1, <2>3, HighByteIs DEF HighByte
  <2>5. (CHOOSE i \in HighByte(a) : TRUE) = high + 1
    BY <2>4
  <2>6. h % 32 = h /\ (high + 1) - 1 = high
    BY <1>4
  <2>7. Chs(k, a) = <<256 * high + low, h, (s + 1) - 1>>
    BY <1>11, <2>3, <2>5, <2>6 DEF Chs
  <2>8. Chs(k, a) = p
    BY <1>4, <1>5, <2>7
  <2>9. ~MarksSpare(k, a) /\ ~MarksBad(k, a) /\ HasCylinder(k, a)
    BY <1>11, <2>4 DEF MarksSpare, MarksBad, HasCylinder
  <2> QED BY <1>11, <2>8, <2>9, ChsReadsAs DEF ReadsAs
<1> QED BY <1>3, <1>7, <1>8, <1>9, <1>10, <1>11, ControllersAre

\* The header of a sector that holds none is marked.
LEMMA MarkedHeader ==
    ASSUME NEW k \in Controllers, NEW p \in Positions, NEW kind \in Kinds(k, p), kind # "good",
           NEW a, a = Header(Formatted(k, p, kind)["address"])
    PROVE  MarksSpare(k, a) \/ MarksBad(k, a)
<1>1. PICK numbers : numbers = AddressBytes(k, p, kind)
  OBVIOUS
<1>2. \A j \in Nat : j >= 1 /\ j < Len(numbers) => a[j] = numbers[j + 1]
  BY <1>1, HeaderIs
<1>3. \/ kind = "spare" /\ k \in {"IBM_5364", "IBM_PS2"}
      \/ kind = "bad" /\ k \in {"ADAPTEC_ACB2322", "IBM_PS2", "IBM_RT_ENHANCED"}
  BY DEF Kinds
<1>4. PICK high, low, h, s : high = High(p) /\ low = Low(p) /\ h = p[2] /\ s = p[3]
  OBVIOUS
<1>5. h \in Nat /\ s \in Nat
  BY <1>4, PositionIs
<1>6. CASE k = "ADAPTEC_ACB2322"
  <2>1. numbers = <<254, high, low, h, s + 1, 128>>
    BY <1>1, <1>3, <1>4, <1>6, NumbersAre DEF Flag
  <2>2. a[5] = 128
    BY <1>2, <2>1
  <2> QED BY <1>6, <2>2 DEF MarksBad
<1>7. CASE k = "IBM_5364"
  <2>1. numbers = <<254, high, low, h, 255, 0>>
    BY <1>1, <1>3, <1>4, <1>7, NumbersAre DEF LastOf
  <2>2. a[4] = 255
    BY <1>2, <2>1
  <2> QED BY <1>7, <2>2 DEF MarksSpare
<1>8. CASE k = "IBM_PS2"
  <2>1. PICK n : n = BlockOf(k, p, kind)
    OBVIOUS
  <2>2. PICK b1, b2, b3 : b1 = Byte1(n) /\ b2 = Byte2(n) /\ b3 = Byte3(n)
    OBVIOUS
  <2>3. numbers = <<161, b1, b2, b3, Byte4(n) + Flag(kind), 0>>
    BY <1>1, <1>8, <2>1, <2>2, NumbersAre
  <2>4. a[1] = b1 /\ a[2] = b2 /\ a[3] = b3 /\ a[4] = Byte4(n) + Flag(kind)
    BY <1>2, <2>3
  <2>5. CASE kind = "spare"
    <3>1. b1 = 127 /\ b2 = 127 /\ b3 = 127 /\ Byte4(n) = 15
      BY <2>1, <2>2, <2>5, BlockBytesAre, SMT
    <3>2. (15 + 0) % 16 = 15
      OBVIOUS
    <3>3. a[4] % 16 = 15
      BY <2>4, <2>5, <3>1, <3>2 DEF Flag
    <3> QED BY <1>8, <2>4, <3>1, <3>3 DEF MarksSpare
  <2>6. CASE kind = "bad"
    <3>1. Byte4(n) = 0
      BY <2>1, <2>6, BlockBytesAre, SMT
    <3>2. a[4] = 128
      BY <2>4, <2>6, <3>1 DEF Flag
    <3> QED BY <1>8, <3>2 DEF MarksBad
  <2> QED BY <1>3, <2>5, <2>6
<1>9. CASE k = "IBM_RT_ENHANCED"
  <2>1. numbers = <<254, high, low, h + 128, s + 1>>
    BY <1>1, <1>3, <1>4, <1>9, NumbersAre DEF Flag
  <2>2. a[3] = h + 128
    BY <1>2, <2>1
  <2> QED BY <1>5, <1>9, <2>2 DEF MarksBad
<1> QED BY <1>3, <1>6, <1>7, <1>8, <1>9

-----------------------------------------------------------------------------
(* What get_expected_lbas lists.                                            *)

\* ibm_ps2_get_expected_lbas takes head 6 for the last of a cylinder.
SevenHeads == "IBM_PS2" \in Controllers => Heads = 7

\* A sector that is in a cylinder's blocks.
LEMMA InCylinder ==
    ASSUME SevenHeads, NEW k \in Controllers, NEW h \in Nat, h < Heads,
           NEW i \in Nat, i < BlocksOnTrack(k, h), NEW T, T = TrackSize(k), NEW C, C = CylinderSize(k)
    PROVE  /\ T \in Nat /\ T > 0 /\ C \in Nat /\ C > 0 /\ i < T /\ T * h \in Nat /\ T * h + i < C
<1>1. Heads \in Nat /\ Sectors \in Nat /\ Heads > 0 /\ Sectors > 4
  BY FormatAssumption
<1>2. T \in Nat /\ T > 0
  BY <1>1 DEF TrackSize
<1>3. i < T
  BY <1>1, <1>2 DEF BlocksOnTrack, TrackSize
<1>4. T * h \in Nat
  BY <1>2, Product
<1>5. CASE k # "IBM_PS2"
  <2>1. C = Heads * T
    BY <1>5 DEF CylinderSize
  <2>2. (h + 1) * T <= Heads * T
    BY <1>1, <1>2, Monotonic
  <2>3. (h + 1) * T = T * h + T
    BY <1>2
  <2>4. Heads * T \in Nat
    BY <1>1, <1>2, Product
  <2> QED BY <1>2, <1>3, <1>4, <2>1, <2>2, <2>3, <2>4
<1>6. CASE k = "IBM_PS2"
  <2>1. Heads = 7 /\ T = Sectors /\ C = 7 * Sectors - 4
    BY <1>6 DEF SevenHeads, TrackSize, CylinderSize
  <2>2. C \in Nat /\ C > 0
    BY <1>1, <2>1
  <2>3. CASE h = 6
    <3>1. i < Sectors - 4
      BY <1>6, <2>3 DEF BlocksOnTrack
    <3> QED BY <1>1, <1>2, <1>3, <2>1, <2>2, <2>3, <3>1
  <2>4. CASE h <= 5
    <3>1. h * T <= 5 * T
      BY <1>2, <2>4, Monotonic
    <3>2. h * T = T * h
      BY <1>2
    <3>3. T * h + i < C
      BY <1>1, <1>2, <1>3, <1>4, <2>1, <3>1, <3>2
    <3> QED BY <1>2, <1>3, <1>4, <2>2, <3>3
  <2> QED BY <2>1, <2>3, <2>4
<1> QED BY <1>5, <1>6

\* The track of a position.
LEMMA FirstTwo == \A a, b, c \in Nat : SubSeq(<<a, b, c>>, 1, 2) = <<a, b>>
<1> TAKE a, b, c \in Nat
<1>1. PICK s : s = <<a, b, c>>
  OBVIOUS
<1>2. \A i \in 1 .. 2 : s[i] \in Nat
  BY <1>1
<1>3. SubSeq(s, 1, 2) \in Seq(Nat) /\ Len(SubSeq(s, 1, 2)) = 2
      /\ \A i \in 1 .. 2 : SubSeq(s, 1, 2)[i] = s[i]
  BY <1>2, SubSeqProperties
<1>4. PICK t \in Seq(Nat) : t = SubSeq(s, 1, 2)
  BY <1>3
<1>5. Len(t) = 2 /\ t[1] = a /\ t[2] = b
  BY <1>1, <1>3, <1>4
<1>6. t = <<a, b>>
  BY <1>5
<1> QED BY <1>1, <1>4, <1>6

\* No block is on two tracks.
LEMMA OneTrack ==
    ASSUME SevenHeads, NEW k \in Controllers,
           NEW c \in Nat, NEW h \in Nat, h < Heads, NEW i \in Nat, i < BlocksOnTrack(k, h),
           NEW d \in Nat, NEW g \in Nat, g < Heads, NEW j \in Nat, j < BlocksOnTrack(k, g),
           FirstLba(k, c, h) + i = FirstLba(k, d, g) + j
    PROVE  c = d /\ h = g
<1>1. PICK T, C : T = TrackSize(k) /\ C = CylinderSize(k)
  OBVIOUS
<1>2. /\ T \in Nat /\ T > 0 /\ C \in Nat /\ C > 0 /\ i < T /\ T * h \in Nat /\ T * h + i < C
  BY <1>1, InCylinder
<1>3. j < T /\ T * g \in Nat /\ T * g + j < C
  BY <1>1, InCylinder
<1>4. C * c \in Nat /\ C * d \in Nat
  BY <1>2, Product
<1>5. PICK x, y \in Nat : x = T * h + i /\ y = T * g + j
  BY <1>2, <1>3
<1>6. PICK e, f \in Nat : e = C * c /\ f = C * d
  BY <1>4
<1>7. e + x = f + y
  <2>1. (e + T * h) + i = (f + T * g) + j
    BY <1>1, <1>6 DEF FirstLba
  <2> QED BY <1>2, <1>3, <1>5, <2>1
<1>8. x \in 0 .. C - 1 /\ y \in 0 .. C - 1
  BY <1>2, <1>3, <1>5
<1>9. c * C = e /\ d * C = f
  BY <1>2, <1>6
<1>10. (e + x) \div C = c /\ (e + x) % C = x
  <2>1. (c * C + x) \div C = c /\ (c * C + x) % C = x
    BY <1>2, <1>8, DivUnique
  <2> QED BY <1>9, <2>1
<1>11. (f + y) \div C = d /\ (f + y) % C = y
  <2>1. (d * C + y) \div C = d /\ (d * C + y) % C = y
    BY <1>2, <1>8, DivUnique
  <2> QED BY <1>9, <2>1
<1>12. c = d /\ x = y
  BY <1>7, <1>10, <1>11
<1>13. i \in 0 .. T - 1 /\ j \in 0 .. T - 1
  BY <1>2, <1>3
<1>14. h * T = T * h /\ g * T = T * g
  BY <1>2
<1>15. (T * h + i) \div T = h
  <2>1. (h * T + i) \div T = h
    BY <1>2, <1>13, DivUnique
  <2> QED BY <1>14, <2>1
<1>16. (T * g + j) \div T = g
  <2>1. (g * T + j) \div T = g
    BY <1>2, <1>13, DivUnique
  <2> QED BY <1>14, <2>1
<1> QED BY <1>5, <1>12, <1>15, <1>16

\* get_expected_lbas lists a sector's block for its own track and for no other.
LEMMA ExpectedIs ==
    ASSUME SevenHeads, NEW k \in Controllers, NEW p \in Positions, "good" \in Kinds(k, p),
           p[1] < DataCylinders(k)
    PROVE  /\ BlockNumber(k, p) \in ExpectedLbas(k, p[1], p[2])
           /\ \A track \in NearbyTracks(p) : BlockNumber(k, p) \notin ExpectedLbas(k, track[1], track[2])
<1>1. PICK c \in Nat, h \in Nat, s \in Nat : p = <<c, h, s>> /\ c < Cylinders /\ h < Heads /\ s < Sectors
  BY PositionIs, PositionIsTuple
<1>2. Heads \in Nat /\ Sectors \in Nat /\ Cylinders \in Nat /\ Sectors > 4
  BY FormatAssumption
<1>3. k \in Controller
  BY PathAssumption
<1>4. s < BlocksOnTrack(k, h)
  <2>1. CASE k = "IBM_5364"
    BY <1>1, <1>2, <2>1 DEF Kinds, BlocksOnTrack, TrackSize
  <2>2. CASE k = "IBM_PS2"
    <3>1. Heads = 7
      BY <2>2 DEF SevenHeads
    <3>2. CASE h = 6
      BY <1>1, <1>2, <2>2, <3>1, <3>2 DEF Kinds, BlocksOnTrack, TrackSize
    <3>3. CASE h < 6
      BY <1>1, <1>2, <2>2, <3>3 DEF BlocksOnTrack, TrackSize
    <3> QED BY <1>1, <3>1, <3>2, <3>3
  <2>3. CASE k # "IBM_5364" /\ k # "IBM_PS2"
    BY <1>1, <2>3 DEF BlocksOnTrack, TrackSize
  <2> QED BY <2>1, <2>2, <2>3
<1>5. BlockNumber(k, p) = FirstLba(k, c, h) + s
  BY <1>1 DEF BlockNumber, FirstLba
<1>6. BlocksOnTrack(k, h) \in Int
  BY <1>2 DEF BlocksOnTrack, TrackSize
<1>7. BlockNumber(k, p) \in ExpectedLbas(k, p[1], p[2])
  <2>1. s \in 0 .. BlocksOnTrack(k, h) - 1
    BY <1>4, <1>6
  <2>2. ~(c >= DataCylinders(k))
    <3>1. DataCylinders(k) \in Int
      BY <1>2, <1>3, ControllersAre DEF DataCylinders
    <3> QED BY <1>1, <3>1
  <2> QED BY <1>1, <1>5, <2>1, <2>2 DEF ExpectedLbas
<1>8. ASSUME NEW track \in NearbyTracks(p), BlockNumber(k, p) \in ExpectedLbas(k, track[1], track[2])
      PROVE  FALSE
  <2>1. PICK d \in Int, g \in 0 .. Heads - 1 : track = <<d, g>> /\ d >= 0 /\ track # SubSeq(p, 1, 2)
    <3>1. track \in ((c - 1) .. (c + 1)) \X (0 .. Heads - 1) /\ track[1] >= 0 /\ track # SubSeq(p, 1, 2)
      BY <1>1, <1>8 DEF NearbyTracks
    <3>2. track = <<track[1], track[2]>> /\ track[1] \in (c - 1) .. (c + 1) /\ track[2] \in 0 .. Heads - 1
      BY <3>1
    <3>3. track[1] \in Int
      BY <3>2
    <3> QED BY <3>1, <3>2, <3>3
  <2>2. SubSeq(p, 1, 2) = <<c, h>>
    BY <1>1, FirstTwo
  <2>3. PICK j \in 0 .. BlocksOnTrack(k, g) - 1 : BlockNumber(k, p) = FirstLba(k, d, g) + j
    BY <1>8, <2>1 DEF ExpectedLbas
  <2>4. BlocksOnTrack(k, g) \in Int
    BY <1>2 DEF BlocksOnTrack, TrackSize
  <2>5. d \in Nat /\ g \in Nat /\ g < Heads /\ j \in Nat /\ j < BlocksOnTrack(k, g)
    BY <1>2, <2>1, <2>3, <2>4
  <2>6. c = d /\ h = g
    BY <1>1, <1>4, <1>5, <2>3, <2>5, OneTrack
  <2> QED BY <2>1, <2>2, <2>6
<1> QED BY <1>7, <1>8

-----------------------------------------------------------------------------
(* Windows and packets.                                                     *)

\* A window that a whole area of so many bytes fits into.
Rate(k) == IF k = "ULTRASTOR_12F" THEN 15 ELSE 10
Wide(window, rate, short, length) ==
    LET bits == ((window[2] - window[1]) * rate) \div 100 - 8 * short IN
    /\ window[1] \in Nat /\ window[2] \in Nat
    /\ bits \in Nat /\ bits \div 8 >= length

WindowsAreWide(k) ==
    /\ Wide(controllers[k].addrWindow, Rate(k), 0, controllers[k].addrLength)
    /\ Wide(controllers[k].dataWindow, Rate(k), LeftOut(k), DataLength(k))

LEMMA DataLengthIs ==
    ASSUME NEW k, NEW f, f = controllers[k], NEW n, NEW m \in {32, 48, 56}, RecordIs(f, n, m)
    PROVE  DataLength(k) = f.dataAt + SectorSize + m \div 8
<1>1. Len(f.dataCheck.poly) = m
  BY WordIsSeq DEF RecordIs
<1> QED BY <1>1, Eight DEF DataLength

LEMMA AllWide == \A k \in Controller : WindowsAreWide(k)
<1>1. SectorSize \in Nat
  BY FormatAssumption
<1>2. WindowsAreWide("ADAPTEC_ACB2322")
  <2>1. PICK f : f = controllers["ADAPTEC_ACB2322"]
    OBVIOUS
  <2>2. /\ f = adaptec_acb2322 /\ f.addrWindow = <<1308, 3180>> /\ f.addrLength = 8
        /\ f.dataWindow = <<3300, 45940>> /\ f.size = 512 /\ f.dataAt = 1
    BY <2>1 DEF controllers, adaptec_acb2322
  <2>3. PICK length, short : length = DataLength("ADAPTEC_ACB2322") /\ short = LeftOut("ADAPTEC_ACB2322")
    OBVIOUS
  <2>4. length = SectorSize + 7 /\ short = 512 - SectorSize
    <3>1. RecordIs(f, 16, 48)
      BY <2>2, RecordsAre
    <3>2. length = f.dataAt + SectorSize + 48 \div 8
      BY <2>1, <2>3, <3>1, DataLengthIs
    <3>3. short = f.size - SectorSize
      BY <2>1, <2>3 DEF LeftOut
    <3> HIDE <2>1
    <3> QED BY <1>1, <2>2, <3>2, <3>3
  <2>5. Wide(<<1308, 3180>>, 10, 0, 8)
    BY DEF Wide
  <2>6. Wide(<<3300, 45940>>, 10, short, length)
    BY <1>1, <2>4 DEF Wide
  <2>7. Rate("ADAPTEC_ACB2322") = 10
    BY DEF Rate
  <2> QED BY <2>1, <2>2, <2>3, <2>5, <2>6, <2>7 DEF WindowsAreWide
<1>3. WindowsAreWide("IBM_5364")
  <2>1. PICK f : f = controllers["IBM_5364"]
    OBVIOUS
  <2>2. /\ f = ibm_5364 /\ f.addrWindow = <<242, 2182>> /\ f.addrLength = 8
        /\ f.dataWindow = <<2270, 24408>> /\ f.size = 256 /\ f.dataAt = 1
    BY <2>1 DEF controllers, ibm_5364
  <2>3. PICK length, short : length = DataLength("IBM_5364") /\ short = LeftOut("IBM_5364")
    OBVIOUS
  <2>4. length = SectorSize + 7 /\ short = 256 - SectorSize
    <3>1. RecordIs(f, 16, 48)
      BY <2>2, RecordsAre
    <3>2. length = f.dataAt + SectorSize + 48 \div 8
      BY <2>1, <2>3, <3>1, DataLengthIs
    <3>3. short = f.size - SectorSize
      BY <2>1, <2>3 DEF LeftOut
    <3> HIDE <2>1
    <3> QED BY <1>1, <2>2, <3>2, <3>3
  <2>5. Wide(<<242, 2182>>, 10, 0, 8)
    BY DEF Wide
  <2>6. Wide(<<2270, 24408>>, 10, short, length)
    BY <1>1, <2>4 DEF Wide
  <2>7. Rate("IBM_5364") = 10
    BY DEF Rate
  <2> QED BY <2>1, <2>2, <2>3, <2>5, <2>6, <2>7 DEF WindowsAreWide
<1>4. WindowsAreWide("IBM_PS2")
  <2>1. PICK f : f = controllers["IBM_PS2"]
    OBVIOUS
  <2>2. /\ f = ibm_ps2 /\ f.addrWindow = <<408, 2280>> /\ f.addrLength = 10
        /\ f.dataWindow = <<2540, 45176>> /\ f.size = 512 /\ f.dataAt = 1
    BY <2>1 DEF controllers, ibm_ps2
  <2>3. PICK length, short : length = DataLength("IBM_PS2") /\ short = LeftOut("IBM_PS2")
    OBVIOUS
  <2>4. length = SectorSize + 5 /\ short = 512 - SectorSize
    <3>1. RecordIs(f, 32, 32)
      BY <2>2, RecordsAre
    <3>2. length = f.dataAt + SectorSize + 32 \div 8
      BY <2>1, <2>3, <3>1, DataLengthIs
    <3>3. short = f.size - SectorSize
      BY <2>1, <2>3 DEF LeftOut
    <3> HIDE <2>1
    <3> QED BY <1>1, <2>2, <3>2, <3>3
  <2>5. Wide(<<408, 2280>>, 10, 0, 10)
    BY DEF Wide
  <2>6. Wide(<<2540, 45176>>, 10, short, length)
    BY <1>1, <2>4 DEF Wide
  <2>7. Rate("IBM_PS2") = 10
    BY DEF Rate
  <2> QED BY <2>1, <2>2, <2>3, <2>5, <2>6, <2>7 DEF WindowsAreWide
<1>5. WindowsAreWide("IBM_RT_ENHANCED")
  <2>1. PICK f : f = controllers["IBM_RT_ENHANCED"]
    OBVIOUS
  <2>2. /\ f = ibm_rt_enhanced /\ f.addrWindow = <<242, 2182>> /\ f.addrLength = 9
        /\ f.dataWindow = <<2270, 45036>> /\ f.size = 512 /\ f.dataAt = 1
    BY <2>1 DEF controllers, ibm_rt_enhanced
  <2>3. PICK length, short : length = DataLength("IBM_RT_ENHANCED") /\ short = LeftOut("IBM_RT_ENHANCED")
    OBVIOUS
  <2>4. length = SectorSize + 5 /\ short = 512 - SectorSize
    <3>1. RecordIs(f, 32, 32)
      BY <2>2, RecordsAre
    <3>2. length = f.dataAt + SectorSize + 32 \div 8
      BY <2>1, <2>3, <3>1, DataLengthIs
    <3>3. short = f.size - SectorSize
      BY <2>1, <2>3 DEF LeftOut
    <3> HIDE <2>1
    <3> QED BY <1>1, <2>2, <3>2, <3>3
  <2>5. Wide(<<242, 2182>>, 10, 0, 9)
    BY DEF Wide
  <2>6. Wide(<<2270, 45036>>, 10, short, length)
    BY <1>1, <2>4 DEF Wide
  <2>7. Rate("IBM_RT_ENHANCED") = 10
    BY DEF Rate
  <2> QED BY <2>1, <2>2, <2>3, <2>5, <2>6, <2>7 DEF WindowsAreWide
<1>6. WindowsAreWide("ULTRASTOR_12F")
  <2>1. PICK f : f = controllers["ULTRASTOR_12F"]
    OBVIOUS
  <2>2. /\ f = ultrastor_12f /\ f.addrWindow = <<661, 1954>> /\ f.addrLength = 9
        /\ f.dataWindow = <<2013, 30683>> /\ f.size = 512 /\ f.dataAt = 2
    BY <2>1 DEF controllers, ultrastor_12f
  <2>3. PICK length, short : length = DataLength("ULTRASTOR_12F") /\ short = LeftOut("ULTRASTOR_12F")
    OBVIOUS
  <2>4. length = SectorSize + 9 /\ short = 512 - SectorSize
    <3>1. RecordIs(f, 16, 56)
      BY <2>2, RecordsAre
    <3>2. length = f.dataAt + SectorSize + 56 \div 8
      BY <2>1, <2>3, <3>1, DataLengthIs
    <3>3. short = f.size - SectorSize
      BY <2>1, <2>3 DEF LeftOut
    <3> HIDE <2>1
    <3> QED BY <1>1, <2>2, <3>2, <3>3
  <2>5. Wide(<<661, 1954>>, 15, 0, 9)
    BY DEF Wide
  <2>6. Wide(<<2013, 30683>>, 15, short, length)
    BY <1>1, <2>4 DEF Wide
  <2>7. Rate("ULTRASTOR_12F") = 15
    BY DEF Rate
  <2> QED BY <2>1, <2>2, <2>3, <2>5, <2>6, <2>7 DEF WindowsAreWide
<1> QED BY <1>2, <1>3, <1>4, <1>5, <1>6, ControllersAre

\* What the formats give for the sector that is looked at.
LEMMA PartIs ==
    ASSUME sector.controller \in Controllers, NEW part \in Part
    PROVE  /\ LengthOf(part) \in Nat /\ LengthOf(part) > 0
           /\ SyncOf(part) \in Byte /\ CheckIs(CheckOf(part), LengthOf(part))
           /\ AssertAt(part) \in Nat /\ DeassertAt(part) \in Nat
           /\ WindowBits(part) \in Nat /\ LastLead(part) \in Nat
<1>1. PICK k : k = sector.controller
  OBVIOUS
<1>2. k \in Controller /\ FormatIs(k) /\ WindowsAreWide(k)
  BY <1>1, PathAssumption, FormatsAre, AllWide
<1>3. PICK f : f = controllers[k]
  OBVIOUS
<1>4. SectorSize \in Nat
  BY FormatAssumption
<1>5. CASE part = "address"
  <2>1. /\ LengthOf(part) = f.addrLength /\ CheckOf(part) = f.addrCheck
        /\ AssertAt(part) = f.addrWindow[1] /\ DeassertAt(part) = f.addrWindow[2]
        /\ Shortened(part) = 0 /\ SyncOf(part) = ByteOf(f.addrSync)
    BY <1>1, <1>3, <1>5 DEF LengthOf, CheckOf, AssertAt, DeassertAt, Shortened, SyncOf, Format
  <2>2. LengthOf(part) \in Nat /\ LengthOf(part) > 0 /\ CheckIs(CheckOf(part), LengthOf(part))
    BY <1>2, <1>3, <2>1 DEF FormatIs
  <2>3. SyncOf(part) \in Byte
    BY <1>2, <1>3, <2>1, ByteOfIs DEF FormatIs
  <2>4. PICK bits : bits = ((f.addrWindow[2] - f.addrWindow[1]) * Rate(k)) \div 100 - 8 * 0
    OBVIOUS
  <2>5. /\ f.addrWindow[1] \in Nat /\ f.addrWindow[2] \in Nat
        /\ bits \in Nat /\ bits \div 8 >= f.addrLength
    BY <1>2, <1>3, <2>4 DEF WindowsAreWide, Wide
  <2>6. WindowBits(part) = bits
    BY <1>1, <2>1, <2>4 DEF WindowBits, BitRate, Rate
  <2> QED BY <2>1, <2>2, <2>3, <2>5, <2>6 DEF LastLead
<1>6. CASE part = "data"
  <2>1. /\ LengthOf(part) = DataLength(k) /\ CheckOf(part) = f.dataCheck
        /\ AssertAt(part) = f.dataWindow[1] /\ DeassertAt(part) = f.dataWindow[2]
        /\ Shortened(part) = LeftOut(k) /\ SyncOf(part) = ByteOf(f.dataSync)
    BY <1>1, <1>3, <1>6 DEF LengthOf, CheckOf, AssertAt, DeassertAt, Shortened, SyncOf, Format
  <2>2. LengthOf(part) \in Nat /\ LengthOf(part) > 0 /\ CheckIs(CheckOf(part), LengthOf(part))
    <3>1. PICK length : length = DataLength(k)
      OBVIOUS
    <3>2. length \in Nat /\ length > f.dataAt + SectorSize /\ f.dataAt \in 1 .. 2
          /\ CheckIs(f.dataCheck, length)
      BY <1>2, <1>3, <3>1 DEF FormatIs
    <3> QED BY <1>4, <2>1, <3>1, <3>2
  <2>3. SyncOf(part) \in Byte
    BY <1>2, <1>3, <2>1, ByteOfIs DEF FormatIs
  <2>4. PICK bits : bits = ((f.dataWindow[2] - f.dataWindow[1]) * Rate(k)) \div 100 - 8 * LeftOut(k)
    OBVIOUS
  <2>5. /\ f.dataWindow[1] \in Nat /\ f.dataWindow[2] \in Nat
        /\ bits \in Nat /\ bits \div 8 >= DataLength(k)
    BY <1>2, <1>3, <2>4 DEF WindowsAreWide, Wide
  <2>6. WindowBits(part) = bits
    BY <1>1, <2>1, <2>4 DEF WindowBits, BitRate, Rate
  <2> QED BY <2>1, <2>2, <2>3, <2>5, <2>6 DEF LastLead
<1> QED BY <1>5, <1>6 DEF Part

LEMMA BitsJoined ==
    ASSUME NEW a \in Seq(Bit), NEW b \in Seq(Bit)
    PROVE  a \o b \in Seq(Bit) /\ Len(a \o b) = Len(a) + Len(b)
BY ConcatProperties

\* The read datapath makes bytes of bits.
LEMMA PacketIs ==
    ASSUME NEW bits \in Seq(Bit)
    PROVE  /\ BytesOf(Zeros(8), bits) \in Seq(Byte)
           /\ Len(BytesOf(Zeros(8), bits)) = (Len(bits) + 7) \div 8
<1> DEFINE all == Zeros(8) \o bits
<1>1. PICK length \in Nat : length = Len(bits)
  BY LenProperties
<1>2. \A n \in 1 .. length : bits[n] \in Bit
  BY <1>1, ElementOfSeq
<1>3. PICK before : before = Zeros(8)
  OBVIOUS
<1>4. all \in Seq(Bit) /\ Len(all) = length + 8
  <2>1. before \in BitWord(8) /\ 8 \in Nat
    BY <1>3, ZerosAre
  <2>2. before \in Seq(Bit) /\ Len(before) = 8
    BY <2>1, WordIsSeq
  <2>3. before \o bits \in Seq(Bit) /\ Len(before \o bits) = 8 + length
    BY <1>1, <2>2, BitsJoined
  <2> QED BY <1>3, <2>3
<1>5. \A n \in 1 .. length + 8 : all[n] \in Bit
  BY <1>1, <1>4, ElementOfSeq
<1> HIDE DEF all
<1>6. ASSUME NEW s, NEW a \in Int, \A n \in a .. a + 7 : s[n] \in Bit
      PROVE  SubSeq(s, a, a + 7) \in Byte
  <2>1. PICK b \in Int : b = a + 7
    OBVIOUS
  <2>2. SubSeq(s, a, b) \in Seq(Bit) /\ Len(SubSeq(s, a, b)) = 8
    BY <1>6, <2>1, SubSeqProperties
  <2>3. SubSeq(s, a, b) \in BitWord(8)
    BY <2>2, LenProperties DEF BitWord
  <2> QED BY <2>1, <2>3, Eight
<1>7. PICK m \in Nat : m = (length + 7) \div 8
  BY <1>1
<1>8. ASSUME NEW i \in 1 .. m
      PROVE  (IF i * 8 <= length THEN SubSeq(bits, (i - 1) * 8 + 1, i * 8)
              ELSE SubSeq(all, Len(all) - 8 + 1, Len(all))) \in Byte
  <2>1. CASE i * 8 <= length
    <3>1. PICK a : a = (i - 1) * 8 + 1
      OBVIOUS
    <3>2. a \in Int /\ a >= 1 /\ i * 8 = a + 7 /\ a + 7 <= length
      BY <2>1, <3>1
    <3>3. \A n \in a .. a + 7 : bits[n] \in Bit
      BY <1>2, <3>2
    <3>4. SubSeq(bits, a, a + 7) \in Byte
      BY <1>6, <3>2, <3>3
    <3> QED BY <2>1, <3>1, <3>2, <3>4
  <2>2. CASE ~(i * 8 <= length)
    <3>1. PICK a : a = length + 1
      OBVIOUS
    <3>2. a \in Int /\ a >= 1 /\ Len(all) - 8 + 1 = a /\ Len(all) = a + 7
      BY <1>1, <1>4, <3>1
    <3>3. \A n \in a .. a + 7 : all[n] \in Bit
      BY <1>1, <1>5, <3>1, <3>2
    <3>4. SubSeq(all, a, a + 7) \in Byte
      BY <1>6, <3>2, <3>3
    <3> QED BY <2>2, <3>2, <3>4
  <2> QED BY <2>1, <2>2
<1>9. BytesOf(Zeros(8), bits) =
          [i \in 1 .. m |-> IF i * 8 <= length THEN SubSeq(bits, (i - 1) * 8 + 1, i * 8)
                            ELSE SubSeq(all, Len(all) - 8 + 1, Len(all))]
  BY <1>1, <1>7, Eight DEF BytesOf, all
<1>10. BytesOf(Zeros(8), bits) \in [1 .. m -> Byte]
  BY <1>8, <1>9
<1>11. BytesOf(Zeros(8), bits) \in Seq(Byte) /\ DOMAIN BytesOf(Zeros(8), bits) = 1 .. m
  BY <1>10, SeqDef
<1> QED BY <1>1, <1>7, <1>11, LenProperties

LEMMA WindowIs ==
    ASSUME NEW part, WindowBits(part) \in Nat, NEW lead \in Nat, NEW bits \in Seq(Bit)
    PROVE  Window(part, lead, bits) \in Seq(Bit) /\ Len(Window(part, lead, bits)) = WindowBits(part)
<1> DEFINE all == Zeros(lead) \o bits \o Zeros(WindowBits(part))
<1>1. PICK width \in Nat : width = WindowBits(part)
  OBVIOUS
<1>2. Zeros(lead) \in Seq(Bit) /\ Len(Zeros(lead)) = lead
  BY ZerosAre, WordIsSeq
<1>3. Zeros(width) \in Seq(Bit) /\ Len(Zeros(width)) = width
  BY ZerosAre, WordIsSeq
<1>4. PICK length \in Nat : length = Len(bits)
  BY LenProperties
<1>5. Zeros(lead) \o bits \in Seq(Bit) /\ Len(Zeros(lead) \o bits) = lead + length
  BY <1>2, <1>4, ConcatProperties
<1>6. all \in Seq(Bit) /\ Len(all) = (lead + length) + width
  <2>1. PICK a, b : a = Zeros(lead) \o bits /\ b = Zeros(width)
    OBVIOUS
  <2>2. a \in Seq(Bit) /\ b \in Seq(Bit) /\ Len(a) = lead + length /\ Len(b) = width
    BY <1>3, <1>5, <2>1
  <2>3. a \o b \in Seq(Bit) /\ Len(a \o b) = (lead + length) + width
    BY <2>2, BitsJoined
  <2> QED BY <1>1, <2>1, <2>3
<1> HIDE DEF all
<1>7. \A n \in 1 .. width : all[n] \in Bit
  BY <1>4, <1>6, ElementOfSeq
<1>8. SubSeq(all, 1, width) \in Seq(Bit) /\ Len(SubSeq(all, 1, width)) = width
  BY <1>7, SubSeqProperties
<1> QED BY <1>1, <1>8 DEF Window, all

-----------------------------------------------------------------------------
(* Areas and slots.                                                         *)

AreaType == [found : BOOLEAN, bytes : Seq(Byte), location : Nat]

\* There is an area in a buffer.
Holds(part, buffer) ==
    /\ Places(buffer, SyncOf(part)) # {}
    /\ Fits(buffer, First(Places(buffer, SyncOf(part))), LengthOf(part))

LEMMA TakenIs ==
    ASSUME sector.controller \in Controllers, NEW part \in Part, NEW buffer \in Seq(Byte),
           NEW before \in AreaType, EndsIn(before, part)
    PROVE  /\ Taken(part, buffer, before) \in AreaType
           /\ EndsIn(Taken(part, buffer, before), part)
           /\ Taken(part, buffer, before).found = Holds(part, buffer)
           /\ Holds(part, buffer) =>
                 \E area : /\ AreaFound(area, buffer, SyncOf(part), LengthOf(part))
                           /\ InBuffer(Taken(part, buffer, before), part) = Wanted(area, LengthOf(part))
                           /\ Taken(part, buffer, before).location = AssertAt(part) \div 10 + area.place
<1>1. PICK length : length = LengthOf(part)
  OBVIOUS
<1>2. PICK sync : sync = SyncOf(part)
  OBVIOUS
<1>3. length \in Nat /\ length > 0 /\ sync \in Byte /\ AssertAt(part) \in Nat
  BY <1>1, <1>2, PartIs
<1>4. PICK area : area = Area(buffer, sync, length)
  OBVIOUS
<1>5. PICK taken : taken = Taken(part, buffer, before)
  OBVIOUS
<1>6. taken = IF area.status = "found"
              THEN [found |-> TRUE, bytes |-> area.bytes,
                    location |-> AssertAt(part) \div 10 + area.place]
              ELSE [before EXCEPT !.found = FALSE]
  BY <1>1, <1>2, <1>4, <1>5 DEF Taken
<1>7. CASE Holds(part, buffer)
  <2>1. AreaFound(area, buffer, sync, length)
    BY <1>1, <1>2, <1>3, <1>4, <1>7, AreaIs DEF Holds
  <2>2. /\ area.status = "found" /\ area.place \in Nat
        /\ area.bytes \in Seq(Byte) /\ Len(area.bytes) = length + Spare(area.place)
    BY <2>1 DEF AreaFound
  <2>4. taken = [found |-> TRUE, bytes |-> area.bytes,
                 location |-> AssertAt(part) \div 10 + area.place]
    BY <1>6, <2>2
  <2>5. AssertAt(part) \div 10 + area.place \in Nat
    BY <1>3, <2>2
  <2>6. taken \in AreaType
    BY <2>2, <2>4, <2>5 DEF AreaType
  <2>7. /\ taken.found /\ InBuffer(taken, part) = Wanted(area, length)
        /\ taken.location = AssertAt(part) \div 10 + area.place
    BY <1>1, <2>4 DEF InBuffer, Wanted
  <2>8. EndsIn(taken, part)
    <3>1. PICK start \in Nat, place \in Nat, size \in Nat :
              start = AssertAt(part) \div 10 /\ place = area.place /\ size = length
      BY <1>3, <2>2
    <3>2. Spare(place) = IF place % 8 = 0 THEN 0 ELSE 1
      BY Eight DEF Spare, BitOf
    <3>3. /\ Len(taken.bytes) = size + (IF place % 8 = 0 THEN 0 ELSE 1)
          /\ taken.location - start = place
      BY <2>2, <2>4, <3>1, <3>2
    <3>4. /\ Len(taken.bytes) \in size .. size + 1
          /\ Len(taken.bytes) > size <=> (taken.location - start) % 8 # 0
      BY <3>3
    <3> QED BY <1>1, <3>1, <3>4 DEF EndsIn
  <2> QED BY <1>1, <1>2, <1>5, <1>7, <2>1, <2>6, <2>7, <2>8
<1>8. CASE ~Holds(part, buffer)
  <2>1. area.status # "found"
    BY <1>1, <1>2, <1>3, <1>4, <1>8, AreaIs DEF Holds
  <2>2. taken = [before EXCEPT !.found = FALSE]
    BY <1>6, <2>1
  <2>3. taken \in AreaType /\ taken.bytes = before.bytes /\ taken.found = FALSE
    BY <2>2 DEF AreaType
  <2>4. taken.found = Holds(part, buffer)
    <3>1. Holds(part, buffer) = FALSE
      BY <1>8 DEF Holds
    <3> QED BY <2>3, <3>1
  <2>5. EndsIn(taken, part)
    BY <2>3 DEF EndsIn
  <2> QED BY <1>5, <1>8, <2>3, <2>4, <2>5
<1> QED BY <1>7, <1>8

\* What a reader takes from an area's buffer is as long as the format says.
LEMMA BufferIs ==
    ASSUME sector.controller \in Controllers, NEW part \in Part,
           NEW area \in AreaType, EndsIn(area, part)
    PROVE  /\ InBuffer(area, part) \in Seq(Byte) /\ Len(InBuffer(area, part)) = LengthOf(part)
           /\ \A i \in 1 .. LengthOf(part) : InBuffer(area, part)[i] = area.bytes[i]
<1>1. PICK bytes \in Seq(Byte), length \in Nat : bytes = area.bytes /\ length = LengthOf(part)
  BY PartIs DEF AreaType
<1>2. Len(bytes) \in Nat /\ Len(bytes) >= length
  BY <1>1, LenProperties DEF EndsIn
<1>3. \A i \in 1 .. length : bytes[i] \in Byte
  BY <1>2, ElementOfSeq
<1>4. /\ SubSeq(bytes, 1, length) \in Seq(Byte) /\ Len(SubSeq(bytes, 1, length)) = length
      /\ \A i \in 1 .. length : SubSeq(bytes, 1, length)[i] = bytes[i]
  BY <1>3, SubSeqProperties
<1> QED BY <1>1, <1>4 DEF InBuffer

\* copy_buff_to_offset at a whole byte.
LEMMA PutIs ==
    ASSUME NEW dest \in Seq(Byte), NEW src \in Seq(Byte), NEW offset \in Nat
    PROVE  LET put == CopyToOffset(dest, src, offset, 0) IN
           /\ put \in Seq(Byte) /\ Len(put) = Len(dest)
           /\ \A i \in 1 .. Len(dest) :
                 put[i] = IF i > offset /\ i <= offset + Len(src) THEN src[i - offset] ELSE dest[i]
<1> DEFINE shifted == Zeros(0) \o Bits(src) \o Zeros(8)
<1>1. PICK length \in Nat : length = Len(src)
  BY LenProperties
<1>2. PICK size \in Nat : size = Len(dest) /\ DOMAIN dest = 1 .. size
  BY LenProperties
<1>3. /\ 8 * length \in Nat /\ Bits(src) \in BitWord(8 * length)
      /\ \A i \in 1 .. length, j \in 1 .. 8 : Bits(src)[8 * (i - 1) + j] = src[i][j]
  BY <1>1, BytesAre
<1>4. \A n \in 1 .. 8 * length : shifted[n] = Bits(src)[n]
  <2>1. PICK m \in Nat : m = 8 * length
    BY <1>3
  <2>2. Zeros(0) \in BitWord(0) /\ Zeros(8) \in BitWord(8) /\ 0 \in Nat /\ 8 \in Nat
    BY ZerosAre
  <2>3. PICK a, b, c : a = Zeros(0) /\ b = Bits(src) /\ c = Zeros(8)
    OBVIOUS
  <2>4. /\ a \o b \in BitWord(0 + m)
        /\ \A i \in 1 .. 0 + m : (a \o b)[i] = IF i <= 0 THEN a[i] ELSE b[i - 0]
    <3>1. a \in BitWord(0) /\ b \in BitWord(m) /\ 0 \in Nat
      BY <1>3, <2>1, <2>2, <2>3
    <3> QED BY <3>1, Joined
  <2>5. PICK ab : ab = a \o b
    OBVIOUS
  <2>6. ab \in BitWord(m) /\ \A i \in 1 .. m : ab[i] = b[i]
    <3>1. 0 + m = m /\ \A i \in 1 .. m : ~(i <= 0) /\ i - 0 = i
      OBVIOUS
    <3> QED BY <2>4, <2>5, <3>1
  <2>7. /\ ab \o c \in BitWord(m + 8)
        /\ \A i \in 1 .. m + 8 : (ab \o c)[i] = IF i <= m THEN ab[i] ELSE c[i - m]
    BY <2>2, <2>3, <2>6, Joined
  <2>8. \A i \in 1 .. m : i \in 1 .. m + 8 /\ i <= m
    OBVIOUS
  <2>9. shifted = ab \o c
    BY <2>3, <2>5
  <2> HIDE DEF shifted
  <2> QED BY <2>1, <2>3, <2>6, <2>7, <2>8, <2>9
<1> HIDE DEF shifted
<1>5. ASSUME NEW i \in 1 .. size, i > offset, i <= offset + length
      PROVE  SubSeq(shifted, (i - offset - 1) * 8 + 1, (i - offset) * 8) = src[i - offset]
  <2>1. PICK k : k = i - offset
    OBVIOUS
  <2>2. k \in 1 .. length
    BY <1>5, <2>1
  <2>3. PICK a : a = (k - 1) * 8 + 1
    OBVIOUS
  <2>4. a \in Int /\ a >= 1 /\ k * 8 = a + 7 /\ a + 7 <= 8 * length
    BY <2>2, <2>3
  <2>5. \A j \in 1 .. 8 : /\ a + j - 1 \in 1 .. 8 * length /\ a + j - 1 = 8 * (k - 1) + j
    BY <2>2, <2>3, <2>4
  <2>6. \A j \in 1 .. 8 : shifted[a + j - 1] = src[k][j]
    BY <1>3, <1>4, <2>2, <2>5
  <2>7. src[k] \in BitWord(8)
    BY <1>1, <2>2, BytesAre
  <2>8. \A n \in a .. a + 7 : shifted[n] \in Bit
    <3>1. \A n \in a .. a + 7 : n - a + 1 \in 1 .. 8 /\ a + (n - a + 1) - 1 = n
      BY <2>4
    <3>2. \A j \in 1 .. 8 : src[k][j] \in Bit
      BY <2>7 DEF BitWord
    <3> QED BY <2>6, <3>1, <3>2
  <2>9. PICK b \in Int : b = a + 7
    BY <2>4
  <2>10. PICK word : word = SubSeq(shifted, a, b)
    OBVIOUS
  <2>11. /\ word \in Seq(Bit) /\ Len(word) = 8
         /\ \A j \in 1 .. 8 : word[j] = shifted[a + j - 1]
    BY <2>4, <2>8, <2>9, <2>10, SubSeqProperties
  <2>12. word \in BitWord(8)
    BY <2>11, LenProperties DEF BitWord
  <2>13. word = src[k]
    <3>1. \A j \in 1 .. 8 : word[j] = src[k][j]
      BY <2>6, <2>11
    <3> QED BY <2>7, <2>12, <3>1, SameWord
  <2> QED BY <2>1, <2>3, <2>4, <2>9, <2>10, <2>13
<1>6. PICK put : put = CopyToOffset(dest, src, offset, 0)
  OBVIOUS
<1>7. put = [i \in 1 .. size |-> IF i > offset /\ i <= offset + length
                                 THEN SubSeq(shifted, (i - offset - 1) * 8 + 1, (i - offset) * 8)
                                 ELSE dest[i]]
  <2>1. Len(src) + 0 = length /\ ByteBits - 0 = 8 /\ ByteBits = 8
    BY <1>1, Eight
  <2> QED BY <1>1, <1>2, <1>6, <2>1 DEF CopyToOffset, shifted
<1>8. \A i \in 1 .. size :
         put[i] = IF i > offset /\ i <= offset + length THEN src[i - offset] ELSE dest[i]
  BY <1>5, <1>7
<1>9. put \in [1 .. size -> Byte]
  <2>1. ASSUME NEW i \in 1 .. size PROVE put[i] \in Byte
    <3>1. CASE i > offset /\ i <= offset + length
      <4>1. i - offset \in 1 .. length
        BY <3>1
      <4>2. src[i - offset] \in Byte
        BY <1>1, <4>1, ElementOfSeq
      <4> QED BY <1>8, <3>1, <4>2
    <3>2. CASE ~(i > offset /\ i <= offset + length)
      <4>1. dest[i] \in Byte
        BY <1>2, ElementOfSeq
      <4> QED BY <1>8, <3>2, <4>1
    <3> QED BY <3>1, <3>2
  <2> QED BY <1>7, <2>1
<1>10. put \in Seq(Byte) /\ DOMAIN put = 1 .. size
  BY <1>9, SeqDef
<1>11. Len(put) = size
  BY <1>10, LenProperties
<1> QED BY <1>1, <1>2, <1>6, <1>8, <1>10, <1>11

LEMMA ProcessIs ==
    ASSUME NEW k, NEW at0, NEW address, NEW data, NEW before, "status" \in DOMAIN before
    PROVE  /\ "status" \in DOMAIN Process(k, at0, address, data, before)
           /\ Process(k, at0, address, data, before).status \in {0, -1, -2, -3, -4}
<1> DEFINE f == controllers[k]
           a == Header(address)
           marked == Marked(k, a, before)
<1>1. "status" \in DOMAIN marked
  BY DEF Marked
<1> HIDE DEF f, a, marked
<1>2. \/ Process(k, at0, address, data, before) =
            [before EXCEPT !.status = -1,
                           !.marked_spare = IF k = "IBM_RT_ENHANCED" THEN FALSE ELSE @]
      \/ \E s \in {0, -2, -3, -4} :
            Process(k, at0, address, data, before) = [marked EXCEPT !.status = s]
      \/ Process(k, at0, address, data, before) =
            [marked EXCEPT !.status = 0, !.lba = Lba(k, a),
                           !.data = SubSeq(data, f.dataAt + 1, f.dataAt + SectorSize)]
  BY DEF Process, f, a, marked
<1> QED BY <1>1, <1>2

-----------------------------------------------------------------------------
(* An area in its packet.                                                   *)

\* What passes in a window: zeros, the bits, and zeros again.
LEMMA WindowBitsAre ==
    ASSUME NEW part, WindowBits(part) \in Nat, NEW lead \in Nat, NEW bits \in Seq(Bit)
    PROVE  \A i \in 1 .. WindowBits(part) :
               Window(part, lead, bits)[i] =
                   IF i > lead /\ i <= lead + Len(bits) THEN bits[i - lead] ELSE 0
<1>1. PICK width \in Nat, length \in Nat : width = WindowBits(part) /\ length = Len(bits)
  BY LenProperties
<1>2. PICK a, b : a = Zeros(lead) /\ b = Zeros(width)
  OBVIOUS
<1>3. /\ a \in Seq(Bit) /\ Len(a) = lead /\ \A i \in 1 .. lead : a[i] = 0
      /\ b \in Seq(Bit) /\ Len(b) = width /\ \A i \in 1 .. width : b[i] = 0
  BY <1>2, ZerosAre, WordIsSeq
<1>4. PICK c : c = a \o bits
  OBVIOUS
<1>5. /\ c \in Seq(Bit) /\ Len(c) = lead + length
      /\ \A i \in 1 .. lead + length : c[i] = IF i <= lead THEN a[i] ELSE bits[i - lead]
  BY <1>1, <1>3, <1>4, ConcatProperties
<1>6. PICK d : d = c \o b
  OBVIOUS
<1>7. /\ d \in Seq(Bit) /\ Len(d) = (lead + length) + width
      /\ \A i \in 1 .. (lead + length) + width :
            d[i] = IF i <= lead + length THEN c[i] ELSE b[i - (lead + length)]
  <2>1. PICK m \in Nat : m = lead + length
    OBVIOUS
  <2>2. Len(c) = m /\ Len(b) = width /\ c \in Seq(Bit) /\ b \in Seq(Bit)
    BY <1>3, <1>5, <2>1
  <2>3. /\ d \in Seq(Bit) /\ Len(d) = m + width
        /\ \A i \in 1 .. m + width : d[i] = IF i <= m THEN c[i] ELSE b[i - m]
    BY <1>6, <2>2, ConcatProperties
  <2> QED BY <2>1, <2>3
<1>8. Window(part, lead, bits) = SubSeq(d, 1, width)
  BY <1>1, <1>2, <1>4, <1>6 DEF Window
<1>9. \A i \in 1 .. width : SubSeq(d, 1, width)[i] = d[i]
  <2>1. \A i \in 1 .. width : d[i] \in Bit
    BY <1>7, ElementOfSeq
  <2>2. \A i \in 1 .. (width - 1) + 1 : SubSeq(d, 1, width)[i] = d[(1 + i) - 1]
    BY <2>1, SubSeqProperties
  <2> QED BY <2>2
<1>10. ASSUME NEW i \in 1 .. width
       PROVE  d[i] = IF i > lead /\ i <= lead + length THEN bits[i - lead] ELSE 0
  <2>1. i \in 1 .. (lead + length) + width
    OBVIOUS
  <2>2. CASE i <= lead
    <3>1. d[i] = c[i] /\ c[i] = a[i] /\ a[i] = 0
      BY <1>3, <1>5, <1>7, <2>1, <2>2
    <3> QED BY <2>2, <3>1
  <2>3. CASE i > lead /\ i <= lead + length
    BY <1>5, <1>7, <2>1, <2>3
  <2>4. CASE i > lead + length
    <3>1. i - (lead + length) \in 1 .. width
      BY <2>4
    <3>2. d[i] = b[i - (lead + length)]
      BY <1>7, <2>1, <2>4
    <3> QED BY <1>3, <2>4, <3>1, <3>2
  <2> QED BY <2>2, <2>3, <2>4
<1> QED BY <1>1, <1>8, <1>9, <1>10

\* The whole bytes of what passes are in the packet, bit for bit.
LEMMA PacketBitsAre ==
    ASSUME NEW bits \in Seq(Bit), NEW m \in Nat, m = Len(bits) \div 8
    PROVE  \A i \in 1 .. 8 * m : Bits(BytesOf(Zeros(8), bits))[i] = bits[i]
<1>1. PICK length \in Nat : length = Len(bits)
  BY LenProperties
<1>2. PICK packet : packet = BytesOf(Zeros(8), bits)
  OBVIOUS
<1>3. packet \in Seq(Byte) /\ Len(packet) = (length + 7) \div 8
  BY <1>1, <1>2, PacketIs
<1>4. PICK all : all = Zeros(8) \o bits
  OBVIOUS
<1>5. packet = [i \in 1 .. (length + 7) \div 8 |->
                   IF i * 8 <= length THEN SubSeq(bits, (i - 1) * 8 + 1, i * 8)
                   ELSE SubSeq(all, Len(all) - 8 + 1, Len(all))]
  BY <1>1, <1>2, <1>4, Eight DEF BytesOf
<1>6. ASSUME NEW i \in 1 .. 8 * m PROVE Bits(packet)[i] = bits[i]
  <2>1. PICK q \in Nat, j \in 1 .. 8 : q > 0 /\ i = 8 * (q - 1) + j
    <3>1. i \in Nat /\ i > 0
      OBVIOUS
    <3> QED BY <3>1, BitAt
  <2>2. q \in 1 .. m /\ 8 * m <= length /\ m <= (length + 7) \div 8
    BY <1>1, <2>1
  <2>3. q \in 1 .. (length + 7) \div 8 /\ q * 8 <= length
    BY <2>2
  <2>4. packet[q] = SubSeq(bits, (q - 1) * 8 + 1, q * 8)
    BY <1>5, <2>3
  <2>5. Bits(packet)[8 * (q - 1) + j] = packet[q][j]
    BY <1>3, <2>3, BytesAre
  <2>6. PICK a \in Nat, b \in Nat : a = (q - 1) * 8 + 1 /\ b = q * 8
    BY <2>1
  <2>7. \A n \in a .. b : bits[n] \in Bit
    <3>1. \A n \in a .. b : n \in 1 .. length
      BY <2>3, <2>6
    <3> QED BY <1>1, <3>1, ElementOfSeq
  <2>8. \A n \in 1 .. (b - a) + 1 : SubSeq(bits, a, b)[n] = bits[(a + n) - 1]
    BY <2>7, SubSeqProperties
  <2>9. j \in 1 .. (b - a) + 1 /\ (a + j) - 1 = i
    BY <2>1, <2>6
  <2> QED BY <2>1, <2>4, <2>5, <2>6, <2>8, <2>9
<1> QED BY <1>2, <1>6

\* A packet whose whole bytes hold an area after so many zero bits, as far as the window
\* was open.
Carries(packet, width, lead, area) ==
    /\ width \in Nat /\ packet \in Seq(Byte) /\ Len(packet) = (width + 7) \div 8
    /\ \A i \in 1 .. 8 * (width \div 8) :
          Bits(packet)[i] = IF i > lead /\ i <= lead + 8 * Len(area) THEN Bits(area)[i - lead] ELSE 0

\* A packet of a window in which an area passes.
LEMMA PacketCarries ==
    ASSUME sector.controller \in Controllers, NEW part \in Part, NEW lead \in Nat,
           NEW area \in Seq(Byte)
    PROVE  Carries(BytesOf(Zeros(8), Window(part, lead, Bits(area))), WindowBits(part), lead, area)
<1>1. PICK width \in Nat : width = WindowBits(part)
  BY PartIs
<1>2. PICK window : window = Window(part, lead, Bits(area))
  OBVIOUS
<1>3. Bits(area) \in Seq(Bit) /\ Len(Bits(area)) = 8 * Len(area)
  BY BytesAre, WordIsSeq
<1>4. window \in Seq(Bit) /\ Len(window) = width
  BY <1>1, <1>2, <1>3, WindowIs
<1>5. \A i \in 1 .. width :
          window[i] = IF i > lead /\ i <= lead + 8 * Len(area) THEN Bits(area)[i - lead] ELSE 0
  BY <1>1, <1>2, <1>3, WindowBitsAre
<1>6. PICK packet : packet = BytesOf(Zeros(8), window)
  OBVIOUS
<1>7. packet \in Seq(Byte) /\ Len(packet) = (width + 7) \div 8
  BY <1>4, <1>6, PacketIs
<1>8. PICK m \in Nat : m = width \div 8 /\ 8 * m <= width
  BY <1>1
<1>9. \A i \in 1 .. 8 * m : Bits(packet)[i] = window[i]
  BY <1>4, <1>6, <1>8, PacketBitsAre
<1>10. \A i \in 1 .. 8 * m : i \in 1 .. width
  BY <1>8
<1> QED BY <1>1, <1>2, <1>5, <1>6, <1>7, <1>8, <1>9, <1>10 DEF Carries

\* In such a packet no place before the area has its sync byte.
LEMMA NoneBefore ==
    ASSUME NEW packet, NEW width, NEW lead \in Nat, NEW area \in Seq(Byte),
           Carries(packet, width, lead, area), NEW sync \in Byte, sync[1] = 1,
           NEW p \in Places(packet, sync), p < lead
    PROVE  p \in Nat /\ p >= 8 * (width \div 8)
<1>1. width \in Nat /\ packet \in Seq(Byte)
  BY DEF Carries
<1>2. PICK size \in Nat : size = Len(packet)
  BY <1>1, LenProperties
<1>3. p \in 0 .. (size - 1) * 8 /\ Bits(packet)[p + 1] = 1
  BY <1>2, Eight DEF Places
<1>4. PICK m \in Nat : m = width \div 8
  BY <1>1
<1>5. p \in Nat
  BY <1>3
<1>6. ASSUME p < 8 * m PROVE FALSE
  <2>1. p + 1 \in 1 .. 8 * m /\ ~(p + 1 > lead)
    BY <1>5, <1>6
  <2>2. Bits(packet)[p + 1] = 0
    BY <1>4, <2>1 DEF Carries
  <2> QED BY <1>3, <2>2
<1> QED BY <1>4, <1>5, <1>6

\* Its area's place is one that has the sync byte.
LEMMA AreaPlace ==
    ASSUME NEW packet, NEW width, NEW lead \in Nat, NEW area \in Seq(Byte),
           Carries(packet, width, lead, area), NEW sync, Len(area) > 0, area[1] = sync,
           lead + 8 <= 8 * (width \div 8)
    PROVE  lead \in Places(packet, sync)
<1>1. width \in Nat /\ packet \in Seq(Byte) /\ Len(packet) = (width + 7) \div 8
  BY DEF Carries
<1>2. PICK m \in Nat, length \in Nat : m = width \div 8 /\ length = Len(area) /\ length > 0
  <2>1. width \div 8 \in Nat
    BY <1>1
  <2>2. Len(area) \in Nat
    BY LenProperties
  <2> QED BY <2>1, <2>2
<1>3. m <= (width + 7) \div 8
  BY <1>1, <1>2
<1>4. lead \in 0 .. (Len(packet) - 1) * 8
  <2>1. PICK size \in Nat : size = (width + 7) \div 8
    BY <1>1
  <2>2. lead \in 0 .. (size - 1) * 8
    BY <1>2, <1>3, <2>1
  <2> QED BY <1>1, <2>1, <2>2
<1>5. ASSUME NEW j \in 1 .. 8 PROVE Bits(packet)[lead + j] = sync[j]
  <2>1. PICK i \in Nat : i = lead + j
    OBVIOUS
  <2>2. i \in 1 .. 8 * m /\ i > lead /\ i <= lead + 8 * length /\ i - lead = 8 * (1 - 1) + j
    BY <1>2, <2>1
  <2>3. Bits(packet)[i] = Bits(area)[8 * (1 - 1) + j]
    BY <1>2, <2>2 DEF Carries
  <2>4. Bits(area)[8 * (1 - 1) + j] = area[1][j]
    <3>1. 1 \in 1 .. Len(area)
      BY <1>2
    <3> QED BY <3>1, BytesAre
  <2> QED BY <2>1, <2>3, <2>4
<1> QED BY <1>4, <1>5, Eight DEF Places

SameUpTo(some, area, n) == \A i \in 1 .. n : some[i] = area[i]

\* What the program finds in such a packet: the area, in its place, but for the last byte,
\* which may have come too late for the window.
LEMMA FoundInPacket ==
    ASSUME NEW packet, NEW width, NEW lead \in Nat, NEW area \in Seq(Byte),
           Carries(packet, width, lead, area), NEW sync \in Byte, sync[1] = 1,
           NEW length \in Nat, length = Len(area), length > 1, area[1] = sync,
           NEW found, AreaFound(found, packet, sync, length)
    PROVE  /\ SameUpTo(Wanted(found, length), area, length - 1)
           /\ lead <= 8 * (width \div 8 - length) => SameUpTo(Wanted(found, length), area, length)
<1>1. width \in Nat /\ packet \in Seq(Byte) /\ Len(packet) = (width + 7) \div 8
  BY DEF Carries
<1>2. PICK m \in Nat, size \in Nat : m = width \div 8 /\ size = (width + 7) \div 8 /\ size <= m + 1
  BY <1>1
<1>3. PICK place \in Nat : place = found.place
  BY DEF AreaFound
<1>4. place \div 8 + (IF place % 8 = 0 THEN 0 ELSE 1) + length <= size
  BY <1>1, <1>2, <1>3, Eight DEF AreaFound, Fits, Offset, Spare, BitOf
<1>5. place + 8 * length <= 8 * size
  BY <1>4
<1>6. place + 8 * (length - 1) <= 8 * m
  BY <1>2, <1>5
<1>7. place = lead
  <2>1. ~(place < lead)
    <3>1. ASSUME place < lead PROVE FALSE
      <4>1. place \in Places(packet, sync)
        BY <1>3 DEF AreaFound
      <4>2. place >= 8 * m
        BY <1>2, <3>1, <4>1, NoneBefore
      <4> QED BY <1>6, <4>2
    <3> QED BY <3>1
  <2>2. ~(place > lead)
    <3>1. ASSUME place > lead PROVE FALSE
      <4>1. lead + 8 <= 8 * m
        BY <1>6, <3>1
      <4>2. lead \in Places(packet, sync)
        BY <1>2, <4>1, AreaPlace
      <4>3. place <= lead
        BY <1>3, <4>2 DEF AreaFound
      <4> QED BY <3>1, <4>3
    <3> QED BY <3>1
  <2> QED BY <2>1, <2>2
<1>8. ASSUME NEW i \in 1 .. length, place + 8 * i <= 8 * m PROVE Wanted(found, length)[i] = area[i]
  <2>1. PICK a, b : a = Wanted(found, length)[i] /\ b = area[i]
    OBVIOUS
  <2>2. a \in BitWord(8) /\ b \in BitWord(8)
    <3>1. Wanted(found, length) \in [1 .. length -> Byte]
      BY DEF AreaFound, CopiedFrom
    <3>2. area[i] \in Byte
      BY ElementOfSeq
    <3> QED BY <2>1, <3>1, <3>2, Eight
  <2>3. ASSUME NEW j \in 1 .. 8 PROVE a[j] = b[j]
    <3>1. PICK n \in Nat : n = place + 8 * (i - 1) + j
      OBVIOUS
    <3>2. n \in 1 .. 8 * m /\ n > lead /\ n <= lead + 8 * length /\ n - lead = 8 * (i - 1) + j
      BY <1>7, <1>8, <3>1
    <3>3. a[j] = Bits(packet)[n]
      BY <1>3, <2>1, <3>1 DEF AreaFound, CopiedFrom
    <3>4. Bits(packet)[n] = Bits(area)[8 * (i - 1) + j]
      BY <1>2, <3>2 DEF Carries
    <3>5. Bits(area)[8 * (i - 1) + j] = b[j]
      BY <2>1, BytesAre
    <3> QED BY <3>3, <3>4, <3>5
  <2> QED BY <2>1, <2>2, <2>3, SameWord
<1>9. ASSUME NEW i \in 1 .. length - 1 PROVE Wanted(found, length)[i] = area[i]
  <2>1. i \in 1 .. length /\ place + 8 * i <= 8 * m
    BY <1>6
  <2> QED BY <1>8, <2>1
<1>10. ASSUME lead <= 8 * (m - length), NEW i \in 1 .. length PROVE Wanted(found, length)[i] = area[i]
  <2>1. place + 8 * i <= 8 * m
    BY <1>7, <1>10
  <2> QED BY <1>8, <2>1
<1>11. SameUpTo(Wanted(found, length), area, length - 1)
  BY <1>9 DEF SameUpTo
<1>12. lead <= 8 * (m - length) => SameUpTo(Wanted(found, length), area, length)
  BY <1>10 DEF SameUpTo
<1> QED BY <1>2, <1>11, <1>12

\* An area all of whose bytes end in whole bytes of the window is there to be found.
LEMMA HeldInPacket ==
    ASSUME NEW packet, NEW width, NEW lead \in Nat, NEW area \in Seq(Byte),
           Carries(packet, width, lead, area), NEW sync \in Byte, sync[1] = 1,
           NEW length \in Nat, length = Len(area), length > 1, area[1] = sync,
           lead <= 8 * (width \div 8 - length)
    PROVE  /\ Places(packet, sync) # {}
           /\ Fits(packet, First(Places(packet, sync)), length)
<1>1. width \in Nat /\ packet \in Seq(Byte) /\ Len(packet) = (width + 7) \div 8
  BY DEF Carries
<1>2. PICK m \in Nat, size \in Nat : m = width \div 8 /\ size = (width + 7) \div 8 /\ m <= size
  BY <1>1
<1>3. lead + 8 * length <= 8 * m
  BY <1>2
<1>4. lead \in Places(packet, sync)
  BY <1>2, <1>3, AreaPlace
<1>5. Places(packet, sync) \in SUBSET Nat
  <2>1. \A p \in 0 .. (Len(packet) - 1) * ByteBits : p \in Nat
    BY <1>1, <1>2, Eight
  <2> QED BY <2>1 DEF Places
<1>6. PICK place \in Nat : place = First(Places(packet, sync))
  BY <1>4, <1>5, FirstIs
<1>7. place \in Places(packet, sync) /\ place <= lead
  BY <1>4, <1>5, <1>6, FirstIs
<1>8. ~(place < lead)
  <2>1. ASSUME place < lead PROVE FALSE
    <3>1. place >= 8 * m
      BY <1>2, <1>7, <2>1, NoneBefore
    <3> QED BY <1>3, <2>1, <3>1
  <2> QED BY <2>1
<1>9. place = lead
  BY <1>7, <1>8
<1>10. lead \div 8 + (IF lead % 8 = 0 THEN 0 ELSE 1) + length <= size
  <2>1. PICK d, r : d = lead \div 8 /\ r = lead % 8
    OBVIOUS
  <2>2. d \in Nat /\ r \in 0 .. 7 /\ lead = 8 * d + r
    BY <2>1
  <2>3. 8 * d + r + 8 * length <= 8 * size
    BY <1>2, <1>3, <2>2
  <2>4. d + (IF r = 0 THEN 0 ELSE 1) + length <= size
    BY <2>2, <2>3
  <2> QED BY <2>1, <2>4
<1>11. Fits(packet, lead, length)
  BY <1>1, <1>2, <1>10, Eight DEF Fits, Offset, Spare, BitOf
<1> QED BY <1>4, <1>6, <1>9, <1>11

-----------------------------------------------------------------------------
(* Decoding.                                                                *)

\* The fields of a sector_data.
Fields == {"status", "marked_bad", "marked_spare", "lba", "data"}

\* A block comes of two areas that pass and of a header that is not marked.
LEMMA WrittenComesOf ==
    ASSUME NEW k \in Controller, NEW at0, NEW address, NEW data, NEW before, DOMAIN before = Fields,
           NEW r, r = Process(k, at0, address, data, before),
           r.status = 0, ~r.marked_bad, ~r.marked_spare, NEW a, a = Header(address)
    PROVE  /\ Passes(address, controllers[k].addrCheck) /\ Passes(data, controllers[k].dataCheck)
           /\ ~MarksSpare(k, a) /\ ~MarksBad(k, a)
           /\ r.lba = Lba(k, a)
           /\ r.data = SubSeq(data, controllers[k].dataAt + 1, controllers[k].dataAt + SectorSize)
<1>1. PICK f, marked : f = controllers[k] /\ marked = Marked(k, a, before)
  OBVIOUS
<1>2. DOMAIN marked = Fields
  BY <1>1 DEF Marked
<1>3. "status" \in Fields /\ "lba" \in Fields /\ "data" \in Fields
      /\ "marked_bad" \in Fields /\ "marked_spare" \in Fields
  BY DEF Fields
<1>4. PICK block, lba : block = SubSeq(data, f.dataAt + 1, f.dataAt + SectorSize) /\ lba = Lba(k, a)
  OBVIOUS
<1>5. r = IF ~Passes(address, f.addrCheck)
          THEN [before EXCEPT !.status = -1,
                              !.marked_spare = IF k = "IBM_RT_ENHANCED" THEN FALSE ELSE @]
          ELSE IF MarksSpare(k, a) \/ MarksBad(k, a) THEN [marked EXCEPT !.status = 0]
          ELSE IF ~HasCylinder(k, a) THEN [marked EXCEPT !.status = -4]
          ELSE IF ~OnTrack(k, a, at0) THEN [marked EXCEPT !.status = -2]
          ELSE IF ~Passes(data, f.dataCheck) THEN [marked EXCEPT !.status = -3]
          ELSE [marked EXCEPT !.status = 0, !.lba = lba, !.data = block]
  BY <1>1, <1>4 DEF Process
<1>6. Passes(address, f.addrCheck)
  <2>1. ASSUME ~Passes(address, f.addrCheck) PROVE FALSE
    <3>1. r = [before EXCEPT !.status = -1,
                             !.marked_spare = IF k = "IBM_RT_ENHANCED" THEN FALSE ELSE @]
      BY <1>5, <2>1
    <3>2. r.status = -1
      BY <1>3, <3>1
    <3> QED BY <3>2
  <2> QED BY <2>1
<1>7. ~(MarksSpare(k, a) \/ MarksBad(k, a))
  <2>1. ASSUME MarksSpare(k, a) \/ MarksBad(k, a) PROVE FALSE
    <3>1. r = [marked EXCEPT !.status = 0]
      BY <1>5, <1>6, <2>1
    <3>2. r.marked_bad = marked.marked_bad /\ r.marked_spare = marked.marked_spare
      BY <1>2, <1>3, <3>1
    <3>3. CASE MarksSpare(k, a)
      <4>1. k \in {"IBM_5364", "IBM_PS2"}
        BY <3>3 DEF MarksSpare
      <4>2. marked.marked_spare = MarksSpare(k, a)
        BY <1>1, <1>3, <4>1 DEF Marked
      <4> QED BY <3>2, <3>3, <4>2
    <3>4. CASE ~MarksSpare(k, a) /\ MarksBad(k, a)
      <4>1. k \in {"ADAPTEC_ACB2322", "IBM_RT_ENHANCED"} \/ k = "IBM_PS2"
        BY <3>4 DEF MarksBad
      <4>2. marked.marked_bad = MarksBad(k, a)
        BY <1>1, <1>3, <3>4, <4>1 DEF Marked
      <4> QED BY <3>2, <3>4, <4>2
    <3> QED BY <2>1, <3>3, <3>4
  <2> QED BY <2>1
<1>8. r = [marked EXCEPT !.status = 0, !.lba = lba, !.data = block] /\ Passes(data, f.dataCheck)
  <2>1. ASSUME NEW s \in {-4, -2, -3}, r = [marked EXCEPT !.status = s] PROVE FALSE
    <3>1. r.status = s
      BY <1>2, <1>3, <2>1
    <3> QED BY <3>1
  <2>2. -4 \in {-4, -2, -3} /\ -2 \in {-4, -2, -3} /\ -3 \in {-4, -2, -3}
    OBVIOUS
  <2>3. HasCylinder(k, a)
    BY <1>5, <1>6, <1>7, <2>1, <2>2
  <2>4. OnTrack(k, a, at0)
    BY <1>5, <1>6, <1>7, <2>1, <2>2, <2>3
  <2>5. Passes(data, f.dataCheck)
    BY <1>5, <1>6, <1>7, <2>1, <2>2, <2>3, <2>4
  <2> QED BY <1>5, <1>6, <1>7, <2>3, <2>4, <2>5
<1>9. r.lba = lba /\ r.data = block
  BY <1>2, <1>3, <1>8
<1> QED BY <1>1, <1>4, <1>6, <1>7, <1>8, <1>9

\* And of two such areas on the right track it does come.
LEMMA GoodIsWritten ==
    ASSUME NEW k \in Controller, NEW at0, NEW address, NEW data, NEW before, DOMAIN before = Fields,
           ~before.marked_bad, ~before.marked_spare,
           NEW a, a = Header(address),
           Passes(address, controllers[k].addrCheck), Passes(data, controllers[k].dataCheck),
           ~MarksSpare(k, a), ~MarksBad(k, a), HasCylinder(k, a), OnTrack(k, a, at0),
           NEW r, r = Process(k, at0, address, data, before)
    PROVE  r.status = 0 /\ ~r.marked_bad /\ ~r.marked_spare /\ r.lba = Lba(k, a)
<1>1. PICK f, marked : f = controllers[k] /\ marked = Marked(k, a, before)
  OBVIOUS
<1>2. "status" \in Fields /\ "lba" \in Fields /\ "data" \in Fields
      /\ "marked_bad" \in Fields /\ "marked_spare" \in Fields
  BY DEF Fields
<1>3. PICK block, lba : block = SubSeq(data, f.dataAt + 1, f.dataAt + SectorSize) /\ lba = Lba(k, a)
  OBVIOUS
<1>4. r = [marked EXCEPT !.status = 0, !.lba = lba, !.data = block]
  BY <1>1, <1>3 DEF Process
<1>5. DOMAIN marked = Fields
  BY <1>1 DEF Marked
<1>6. ~marked.marked_spare
  BY <1>1, <1>2 DEF Marked
<1>7. ~marked.marked_bad
  BY <1>1, <1>2 DEF Marked
<1>8. /\ r.status = 0 /\ r.lba = lba
      /\ r.marked_bad = marked.marked_bad /\ r.marked_spare = marked.marked_spare
  BY <1>2, <1>4, <1>5
<1> QED BY <1>3, <1>6, <1>7, <1>8

\* Decoding changes no field's presence.
LEMMA ProcessFields ==
    ASSUME NEW k \in Controller, NEW at0, NEW address, NEW data, NEW before, DOMAIN before = Fields
    PROVE  DOMAIN Process(k, at0, address, data, before) = Fields
<1>1. PICK f, a, marked : f = controllers[k] /\ a = Header(address) /\ marked = Marked(k, a, before)
  OBVIOUS
<1>2. DOMAIN marked = Fields
  BY <1>1 DEF Marked
<1> QED BY <1>1, <1>2 DEF Process

\* Areas that differ from a sector's own at most in their last bytes.
NearlyOwn(areas, k, p, kind) ==
    \A part \in Part :
        /\ areas[part] \in Seq(Byte) /\ Len(areas[part]) = LengthFor(k, part)
        /\ \A i \in 1 .. LengthFor(k, part) - 1 : areas[part][i] = Formatted(k, p, kind)[part][i]

\* Whatever is decoded as a block out of them is the sector's.
LEMMA BlockIsOwn ==
    ASSUME NEW k \in Controllers, NEW p \in Positions, NEW kind \in Kinds(k, p),
           NEW areas, NearlyOwn(areas, k, p, kind),
           NEW at0, NEW before, DOMAIN before = Fields,
           NEW r, r = Process(k, at0, areas["address"], areas["data"], before),
           r.status = 0, ~r.marked_bad, ~r.marked_spare
    PROVE  /\ kind = "good" /\ r.lba = BlockNumber(k, p)
           /\ r.data = SubSeq(Formatted(k, p, kind)["data"], controllers[k].dataAt + 1,
                              controllers[k].dataAt + SectorSize)
<1>1. PICK address, data, a : address = areas["address"] /\ data = areas["data"] /\ a = Header(address)
  OBVIOUS
<1>2. k \in Controller
  BY PathAssumption
<1>3. /\ Passes(address, controllers[k].addrCheck) /\ Passes(data, controllers[k].dataCheck)
      /\ ~MarksSpare(k, a) /\ ~MarksBad(k, a)
      /\ r.lba = Lba(k, a)
      /\ r.data = SubSeq(data, controllers[k].dataAt + 1, controllers[k].dataAt + SectorSize)
  BY <1>1, <1>2, WrittenComesOf
<1>4. ASSUME NEW part \in Part PROVE areas[part] = Formatted(k, p, kind)[part]
  <2>1. PICK check, n, length, own, area :
            /\ check = CheckFor(k, part) /\ n = Width(k, part) /\ length = LengthFor(k, part)
            /\ own = Formatted(k, p, kind)[part] /\ area = areas[part]
    OBVIOUS
  <2>2. CheckHas(check, n)
    BY <1>2, <2>1, ChecksAre
  <2>3. /\ own \in Seq(Byte) /\ Len(own) = length /\ length \in Nat /\ length > 1 /\ Passes(own, check)
    <3>1. AreaHas(own, k, part)
      BY <2>1, FormattedHas
    <3> QED BY <2>1, <3>1 DEF AreaHas
  <2>4. Passes(area, check)
    BY <1>1, <1>3, <2>1 DEF CheckFor, Part
  <2>5. area \in Seq(Byte) /\ Len(area) = length /\ \A i \in 1 .. length - 1 : area[i] = own[i]
    BY <2>1 DEF NearlyOwn
  <2> QED BY <2>1, <2>2, <2>3, <2>4, <2>5, PassesOnce
<1>5. a = Header(Formatted(k, p, kind)["address"]) /\ data = Formatted(k, p, kind)["data"]
  BY <1>1, <1>4 DEF Part
<1>6. kind = "good"
  BY <1>3, <1>5, MarkedHeader
<1>7. Lba(k, a) = BlockNumber(k, p)
  BY <1>5, <1>6, GoodHeader DEF ReadsAs
<1> QED BY <1>3, <1>5, <1>6, <1>7

-----------------------------------------------------------------------------
(* The invariant.                                                           *)

AreasAre(areas) ==
    \A part \in Part : areas[part] \in AreaType /\ EndsIn(areas[part], part)

PacketsAre ==
    \A part \in Part :
        /\ packets[part] \in Seq(Byte)
        /\ stage # "formatted" => Len(packets[part]) = (WindowBits(part) + 7) \div 8

\* An area that was taken out of a packet begins with its sync byte and was all in
\* its window.
InPlace(part) ==
    raw[part].found =>
        /\ InBuffer(raw[part], part)[1] = SyncOf(part)
        /\ AssertAt(part) \div 10 <= raw[part].location
        /\ raw[part].location + 8 * LengthOf(part)
               <= AssertAt(part) \div 10 + 8 * ((WindowBits(part) + 7) \div 8)

\* Byte i of a slot, after the number of the sector.
PutAt(part, i) == /\ raw[part].found
                  /\ i > SlotPlace(part) /\ i <= SlotPlace(part) + LengthOf(part)
SlotIs ==
    /\ Len(slot) = SlotBytes
    /\ \A i \in 2 .. SlotBytes :
          slot[i] = IF PutAt("data", i) THEN InBuffer(raw["data"], "data")[i - SlotPlace("data")]
                    ELSE IF PutAt("address", i) THEN InBuffer(raw["address"], "address")[i - SlotPlace("address")]
                    ELSE Zeros(8)

Inv ==
    /\ stage \in {"formatted", "delivered", "taken", "processed", "saved", "reread", "done",
                  "skipped"}
    /\ fault \in {"none", "damage", "late", "misseek"}
    /\ sector.controller \in Controllers /\ sector.position \in Positions
    /\ \A part \in Part : disk[part] \in Seq(Byte)
    /\ PacketsAre
    /\ AreasAre(raw) /\ AreasAre(saved)
    /\ stage \in {"formatted", "delivered"} => \A part \in Part : ~raw[part].found
    /\ stage \in {"taken", "processed", "saved"} => \A part \in Part : InPlace(part)
    /\ stage \in {"processed", "saved"} => raw["address"].found
    /\ "status" \in DOMAIN processed /\ processed.status \in {0, -1, -2, -3, -4}
    /\ slot \in Seq(Byte) /\ Len(slot) \in {0, SlotBytes}
    /\ stage = "saved" => SlotIs /\ saved = raw

LEMMA EmptyIs == ASSUME sector.controller \in Controllers PROVE AreasAre(Empty)
<1> SUFFICES ASSUME NEW part \in Part
             PROVE  Empty[part] \in AreaType /\ EndsIn(Empty[part], part)
  BY DEF AreasAre
<1>1. PICK length \in Nat : length = LengthOf(part)
  BY PartIs
<1>2. PICK bytes : bytes = [i \in 1 .. length |-> Zeros(8)]
  OBVIOUS
<1>3. Zeros(8) \in Byte
  BY ZerosAre, Eight
<1>4. bytes \in [1 .. length -> Byte]
  BY <1>2, <1>3
<1>5. bytes \in Seq(Byte) /\ Len(bytes) = length
  BY <1>4, SeqDef, LenProperties
<1>6. Empty[part] = [found |-> FALSE, bytes |-> bytes, location |-> 0]
  BY <1>1, <1>2 DEF Empty
<1>7. Empty[part] \in AreaType /\ Empty[part].bytes = bytes /\ Empty[part].found = FALSE
  BY <1>5, <1>6 DEF AreaType
<1> QED BY <1>1, <1>5, <1>7 DEF EndsIn

LEMMA InvInit == Init => Inv
<1> SUFFICES ASSUME Init PROVE Inv
  OBVIOUS
<1>1. PICK k \in Controllers, p \in Positions : \E kind \in Kinds(k, p) :
          sector = [controller |-> k, position |-> p, kind |-> kind]
  BY DEF Init
<1>2. PICK kind : sector = [controller |-> k, position |-> p, kind |-> kind]
  BY <1>1
<1>3. sector.controller \in Controllers /\ sector.position \in Positions
  BY <1>2
<1>4. \A part \in Part : disk[part] \in Seq(Byte)
  <2>1. disk = Formatted(k, p, kind)
    BY <1>2 DEF Init
  <2> QED BY <2>1, FormattedHas DEF AreaHas
<1>5. AreasAre(raw) /\ AreasAre(saved)
  BY <1>3, EmptyIs DEF Init
<1>6. stage = "formatted" /\ fault = "none"
  BY DEF Init
<1>7. PacketsAre
  BY <1>6 DEF Init, PacketsAre
<1>8. \A part \in Part : ~raw[part].found
  BY DEF Init, Empty
<1>9. "status" \in DOMAIN processed /\ processed.status = -1
  BY DEF Init
<1>10. slot \in Seq(Byte) /\ Len(slot) = 0
  BY DEF Init
<1> QED BY <1>3, <1>4, <1>5, <1>6, <1>7, <1>9, <1>10, <1>8 DEF Inv

LEMMA DeliverIs ==
    ASSUME sector.controller \in Controllers, sector' = sector, NEW lead, NEW bits,
           \A part \in Part : lead[part] \in Nat /\ bits[part] \in Seq(Bit), Deliver(lead, bits)
    PROVE  PacketsAre'
<1>1. ASSUME NEW part \in Part
      PROVE  /\ packets'[part] \in Seq(Byte)
             /\ Len(packets'[part]) = (WindowBits(part) + 7) \div 8
  <2>1. PICK window : window = Window(part, lead[part], bits[part])
    OBVIOUS
  <2>2. window \in Seq(Bit) /\ Len(window) = WindowBits(part)
    BY <2>1, PartIs, WindowIs
  <2>3. packets'[part] = BytesOf(Zeros(8), window)
    BY <2>1 DEF Deliver
  <2> QED BY <2>2, <2>3, PacketIs
<1>2. \A part \in Part : WindowBits(part)' = WindowBits(part)
  BY DEF WindowBits, BitRate, AssertAt, DeassertAt, Shortened, Format
<1> QED BY <1>1, <1>2 DEF PacketsAre

\* The bits before the areas that come early.
LEMMA EarlyIs == \A part \in Part : Early[part] \in Nat /\ DOMAIN Early = Part
<1>1. PICK last \in Leads : \A lead \in Leads : lead <= last
  BY PathAssumption
<1>2. Leads \subseteq Nat
  BY PathAssumption
<1>3. \A lead \in Leads : last >= lead
  BY <1>1, <1>2
<1>4. Max(Leads) \in Leads
  BY <1>3 DEF Max
<1> QED BY <1>2, <1>4 DEF Early, Both

LEMMA PassIs == Inv /\ Pass => PacketsAre' /\ fault' \in {"none", "damage", "late", "misseek"}
<1> SUFFICES ASSUME Inv, Pass PROVE PacketsAre' /\ fault' \in {"none", "damage", "late", "misseek"}
  OBVIOUS
<1>1. sector.controller \in Controllers /\ sector' = sector
  BY DEF Inv, Pass
<1>2. \A part \in Part : OnDisk[part] \in Seq(Bit)
  <2> TAKE part \in Part
  <2>1. disk[part] \in Seq(Byte)
    BY DEF Inv
  <2>2. PICK m \in Nat : m = 8 * Len(disk[part])
    BY <2>1, BytesAre
  <2>3. Bits(disk[part]) \in BitWord(m)
    BY <2>1, <2>2, BytesAre
  <2> QED BY <2>3, WordIsSeq DEF OnDisk
<1>3. \A part \in Part : Early[part] \in Nat /\ DOMAIN Early = Part
  BY EarlyIs
<1>4. CASE PassWell
  <2>1. PICK lead \in [Part -> Leads] : Deliver(lead, OnDisk)
    BY <1>4 DEF PassWell
  <2>2. \A part \in Part : lead[part] \in Nat
    BY PathAssumption
  <2>3. fault' = fault
    BY <1>4 DEF PassWell
  <2> QED BY <1>1, <1>2, <2>1, <2>2, <2>3, DeliverIs DEF Inv
<1>5. CASE PassLate
  <2>1. PICK part \in Part, n \in 1 .. Lateness :
            Deliver([Early EXCEPT ![part] = LastLead(part) + n], OnDisk)
    BY <1>5 DEF PassLate
  <2>2. PICK lead : lead = [Early EXCEPT ![part] = LastLead(part) + n]
    OBVIOUS
  <2>3. LastLead(part) + n \in Nat
    BY <1>1, PartIs, PathAssumption
  <2>4. \A other \in Part : lead[other] \in Nat
    BY <1>3, <2>2, <2>3
  <2>5. fault' = "late"
    BY <1>5 DEF PassLate
  <2> QED BY <1>1, <1>2, <2>1, <2>2, <2>4, <2>5, DeliverIs
<1>6. CASE PassDamaged
  <2>1. PICK lead \in Leads, part \in Part, burst \in Bursts :
            \E from \in 0 .. 8 * LengthOf(part) - Len(burst) :
                Deliver(Both(lead), [OnDisk EXCEPT ![part] = Damaged(@, burst, from)])
    BY <1>6 DEF PassDamaged
  <2>2. PICK from \in 0 .. 8 * LengthOf(part) - Len(burst) :
            Deliver(Both(lead), [OnDisk EXCEPT ![part] = Damaged(@, burst, from)])
    BY <2>1
  <2>3. PICK bits : bits = [OnDisk EXCEPT ![part] = Damaged(@, burst, from)]
    OBVIOUS
  <2>4. Damaged(OnDisk[part], burst, from) \in Seq(Bit)
    <3>1. PICK word : word = OnDisk[part]
      OBVIOUS
    <3>2. PICK m \in Nat : DOMAIN word = 1 .. m /\ word \in [1 .. m -> Bit]
      <4>1. word \in Seq(Bit)
        BY <1>2, <3>1
      <4>2. Len(word) \in Nat /\ DOMAIN word = 1 .. Len(word)
        BY <4>1, LenProperties
      <4>3. \A i \in 1 .. Len(word) : word[i] \in Bit
        BY <4>1, ElementOfSeq
      <4> QED BY <4>1, <4>2, <4>3, LenProperties
    <3>3. ASSUME NEW i \in 1 .. m, i - from \in DOMAIN burst
          PROVE  (word[i] + burst[i - from]) % 2 \in Bit
      <4>1. burst \in Seq(Bit)
        BY PathAssumption
      <4>2. burst[i - from] \in Bit
        BY <3>3, <4>1, LenProperties, ElementOfSeq
      <4>3. word[i] \in Bit
        BY <3>2
      <4>4. \A x, y \in {0, 1} : (x + y) % 2 \in {0, 1}
        OBVIOUS
      <4> QED BY <4>2, <4>3, <4>4 DEF Bit
    <3>4. Damaged(word, burst, from) \in [1 .. m -> Bit]
      BY <3>2, <3>3 DEF Damaged
    <3> QED BY <3>1, <3>4, SeqDef
  <2>5. \A other \in Part : bits[other] \in Seq(Bit)
    <3>1. DOMAIN OnDisk = Part
      BY DEF OnDisk
    <3> QED BY <1>2, <2>3, <2>4, <3>1
  <2>6. fault' = "damage"
    BY <1>6 DEF PassDamaged
  <2>7. \A other \in Part : Both(lead)[other] \in Nat
    BY PathAssumption DEF Both
  <2> QED BY <1>1, <2>2, <2>3, <2>5, <2>6, <2>7, DeliverIs
<1>7. CASE PassElsewhere
  <2>1. PICK lead \in Leads : Deliver(Both(lead), OnDisk)
    BY <1>7 DEF PassElsewhere
  <2>2. fault' = "misseek"
    BY <1>7 DEF PassElsewhere
  <2>3. \A other \in Part : Both(lead)[other] \in Nat
    BY PathAssumption DEF Both
  <2> QED BY <1>1, <1>2, <2>1, <2>2, <2>3, DeliverIs
<1> QED BY <1>4, <1>5, <1>6, <1>7 DEF Pass

-----------------------------------------------------------------------------
(* The steps.                                                               *)

\* What the sector fixes stays with it.
LEMMA SameSector ==
    ASSUME sector' = sector
    PROVE  \A part \in Part :
               /\ LengthOf(part)' = LengthOf(part) /\ SyncOf(part)' = SyncOf(part)
               /\ AssertAt(part)' = AssertAt(part) /\ DeassertAt(part)' = DeassertAt(part)
               /\ Shortened(part)' = Shortened(part) /\ WindowBits(part)' = WindowBits(part)
               /\ CheckOf(part)' = CheckOf(part)
BY DEF LengthOf, SyncOf, AssertAt, DeassertAt, Shortened, WindowBits, BitRate, CheckOf, Format

LEMMA PassKeeps == Inv /\ Pass => Inv'
<1> SUFFICES ASSUME Inv, Pass PROVE Inv'
  OBVIOUS
<1>1. /\ stage = "formatted" /\ stage' = "delivered" /\ sector' = sector /\ disk' = disk
      /\ raw' = raw /\ saved' = saved
      /\ processed' = processed /\ slot' = slot
  BY DEF Pass
<1>2. PacketsAre' /\ fault' \in {"none", "damage", "late", "misseek"}
  BY PassIs
<1>3. AreasAre(raw)' /\ AreasAre(saved)'
  BY <1>1, SameSector DEF Inv, AreasAre, EndsIn
<1>4. \A part \in Part : ~raw'[part].found
  BY <1>1 DEF Inv
<1> QED BY <1>1, <1>2, <1>3, <1>4 DEF Inv

\* Nothing but the stage and processed changes.
LEMMA SameAreas ==
    ASSUME Inv, sector' = sector, raw' = raw, saved' = saved, slot' = slot, disk' = disk,
           packets' = packets, fault' = fault, stage # "formatted", stage' # "formatted"
    PROVE  /\ PacketsAre' /\ AreasAre(raw)' /\ AreasAre(saved)'
           /\ (\A part \in Part : InPlace(part)) => (\A part \in Part : InPlace(part)')
<1>1. PacketsAre'
  BY SameSector DEF Inv, PacketsAre
<1>2. AreasAre(raw)' /\ AreasAre(saved)'
  BY SameSector DEF Inv, AreasAre, EndsIn
<1>3. (\A part \in Part : InPlace(part)) => (\A part \in Part : InPlace(part)')
  BY SameSector DEF InPlace, InBuffer
<1> QED BY <1>1, <1>2, <1>3

LEMMA ReadTrackSgKeeps == Inv /\ ReadTrackSg => Inv'
<1> SUFFICES ASSUME Inv, ReadTrackSg PROVE Inv'
  OBVIOUS
<1>1. /\ stage = "delivered" /\ stage' = "taken" /\ raw' = BothTaken(packets, raw)
      /\ sector' = sector /\ disk' = disk /\ fault' = fault /\ packets' = packets
      /\ saved' = saved /\ processed' = processed /\ slot' = slot
  BY DEF ReadTrackSg
<1>2. sector.controller \in Controllers
  BY DEF Inv
<1>3. ASSUME NEW part \in Part
      PROVE  LET taken == Taken(part, packets[part], raw[part]) IN
             /\ taken \in AreaType /\ EndsIn(taken, part)
             /\ taken.found =>
                   /\ InBuffer(taken, part)[1] = SyncOf(part)
                   /\ AssertAt(part) \div 10 <= taken.location
                   /\ taken.location + 8 * LengthOf(part)
                          <= AssertAt(part) \div 10 + 8 * ((WindowBits(part) + 7) \div 8)
  <2>1. PICK buffer, before : buffer = packets[part] /\ before = raw[part]
    OBVIOUS
  <2>2. /\ buffer \in Seq(Byte) /\ Len(buffer) = (WindowBits(part) + 7) \div 8
        /\ before \in AreaType /\ EndsIn(before, part)
    BY <1>1, <2>1 DEF Inv, PacketsAre, AreasAre
  <2>3. PICK taken : taken = Taken(part, buffer, before)
    OBVIOUS
  <2>4. /\ taken \in AreaType /\ EndsIn(taken, part)
        /\ taken.found = Holds(part, buffer)
        /\ Holds(part, buffer) =>
              \E area : /\ AreaFound(area, buffer, SyncOf(part), LengthOf(part))
                        /\ InBuffer(taken, part) = Wanted(area, LengthOf(part))
                        /\ taken.location = AssertAt(part) \div 10 + area.place
    BY <1>2, <2>2, <2>3, TakenIs
  <2>5. ASSUME taken.found
        PROVE  /\ InBuffer(taken, part)[1] = SyncOf(part)
               /\ AssertAt(part) \div 10 <= taken.location
               /\ taken.location + 8 * LengthOf(part)
                      <= AssertAt(part) \div 10 + 8 * ((WindowBits(part) + 7) \div 8)
    <3>1. PICK area : /\ AreaFound(area, buffer, SyncOf(part), LengthOf(part))
                      /\ InBuffer(taken, part) = Wanted(area, LengthOf(part))
                      /\ taken.location = AssertAt(part) \div 10 + area.place
      BY <2>4, <2>5
    <3>2. PICK place \in Nat : place = area.place
      BY <3>1 DEF AreaFound
    <3>3. InBuffer(taken, part)[1] = SyncOf(part) /\ Fits(buffer, place, LengthOf(part))
      BY <3>1, <3>2 DEF AreaFound
    <3>4. PICK start \in Nat, length \in Nat, bytes \in Nat :
              /\ start = AssertAt(part) \div 10 /\ length = LengthOf(part)
              /\ bytes = (WindowBits(part) + 7) \div 8
      BY <1>2, PartIs
    <3>5. place + 8 * length <= 8 * bytes
      <4>1. place \div 8 + (IF place % 8 = 0 THEN 0 ELSE 1) + length <= bytes
        BY <2>2, <3>3, <3>4, Eight DEF Fits, Offset, Spare, BitOf
      <4> QED BY <4>1
    <3>6. taken.location = start + place
      BY <3>1, <3>2, <3>4
    <3> QED BY <3>3, <3>4, <3>5, <3>6
  <2> QED BY <2>1, <2>3, <2>4, <2>5
<1>4. PICK address : address = Taken("address", packets["address"], raw["address"])
  OBVIOUS
<1>5. PICK data : data = IF address.found THEN Taken("data", packets["data"], raw["data"])
                         ELSE raw["data"]
  OBVIOUS
<1>6. raw' = [address |-> address, data |-> data]
  BY <1>1, <1>4, <1>5 DEF BothTaken
<1>7. /\ raw["data"] \in AreaType /\ EndsIn(raw["data"], "data")
      /\ ~raw["data"].found
  BY <1>1 DEF Inv, AreasAre, Part
<1>8. ASSUME NEW part \in Part
      PROVE  /\ raw'[part] \in AreaType /\ EndsIn(raw'[part], part)
             /\ raw'[part].found =>
                   /\ InBuffer(raw'[part], part)[1] = SyncOf(part)
                   /\ AssertAt(part) \div 10 <= raw'[part].location
                   /\ raw'[part].location + 8 * LengthOf(part)
                          <= AssertAt(part) \div 10 + 8 * ((WindowBits(part) + 7) \div 8)
  <2>1. CASE part = "address"
    BY <1>3, <1>4, <1>6, <2>1
  <2>2. CASE part = "data" /\ address.found
    BY <1>3, <1>5, <1>6, <2>2
  <2>3. CASE part = "data" /\ ~address.found
    BY <1>5, <1>6, <1>7, <2>3
  <2> QED BY <2>1, <2>2, <2>3 DEF Part
<1>9. AreasAre(raw)' /\ \A part \in Part : InPlace(part)'
  BY <1>1, <1>8, SameSector DEF AreasAre, InPlace, InBuffer, EndsIn
<1>10. PacketsAre' /\ AreasAre(saved)'
  BY <1>1, SameSector DEF Inv, PacketsAre, AreasAre, EndsIn
<1> QED BY <1>1, <1>9, <1>10 DEF Inv

LEMMA SkipKeeps == Inv /\ Skip => Inv'
<1> SUFFICES ASSUME Inv, Skip PROVE Inv'
  OBVIOUS
<1>1. /\ stage \in {"taken", "reread"} /\ stage' = "skipped" /\ raw' = raw /\ sector' = sector
      /\ disk' = disk /\ fault' = fault /\ packets' = packets /\ saved' = saved
      /\ processed' = processed /\ slot' = slot
  BY DEF Skip
<1>2. PacketsAre' /\ AreasAre(raw)' /\ AreasAre(saved)'
  BY <1>1, SameAreas
<1> QED BY <1>1, <1>2 DEF Inv

LEMMA ProcessSectorKeeps == Inv /\ ProcessSector => Inv'
<1> SUFFICES ASSUME Inv, ProcessSector PROVE Inv'
  OBVIOUS
<1>1. /\ stage \in {"taken", "reread"} /\ raw["address"].found
      /\ stage' = IF stage = "taken" THEN "processed" ELSE "done"
      /\ raw' = raw /\ sector' = sector /\ disk' = disk /\ fault' = fault
      /\ packets' = packets /\ saved' = saved /\ slot' = slot
      /\ processed' = Process(sector.controller, at, InBuffer(raw["address"], "address"),
                              InBuffer(raw["data"], "data"), processed)
  BY DEF ProcessSector
<1>2. /\ PacketsAre' /\ AreasAre(raw)' /\ AreasAre(saved)'
      /\ (\A part \in Part : InPlace(part)) => (\A part \in Part : InPlace(part)')
  BY <1>1, SameAreas
<1>3. stage' = "processed" => \A part \in Part : InPlace(part)'
  BY <1>1, <1>2 DEF Inv
<1>4. "status" \in DOMAIN processed' /\ processed'.status \in {0, -1, -2, -3, -4}
  <2>1. "status" \in DOMAIN processed
    BY DEF Inv
  <2> QED BY <1>1, <2>1, ProcessIs
<1> QED BY <1>1, <1>2, <1>3, <1>4 DEF Inv

LEMMA WriteSlotKeeps == Inv /\ WriteSlot => Inv'
<1> SUFFICES ASSUME Inv, WriteSlot PROVE Inv'
  OBVIOUS
<1>1. PICK blank, address, both :
          /\ blank = <<ByteOf(sector.position[3])>> \o [i \in 1 .. SlotBytes - 1 |-> Zeros(8)]
          /\ address = CopyToOffset(blank, InBuffer(raw["address"], "address"), SlotPlace("address"), 0)
          /\ both = CopyToOffset(address, InBuffer(raw["data"], "data"), SlotPlace("data"), 0)
  OBVIOUS
<1>2. slot' = IF raw["data"].found THEN both ELSE address
  BY <1>1 DEF WriteSlot
<1>3. /\ stage = "processed" /\ stage' = "saved" /\ raw' = raw /\ sector' = sector /\ disk' = disk
      /\ fault' = fault /\ packets' = packets /\ saved' = raw /\ processed' = processed
  BY DEF WriteSlot
<1>4. raw["address"].found /\ "address" \in Part /\ "data" \in Part
  BY <1>3 DEF Inv, Part
<1>5. ASSUME NEW part \in Part
      PROVE  /\ InBuffer(raw[part], part) \in Seq(Byte)
             /\ Len(InBuffer(raw[part], part)) = LengthOf(part)
             /\ SlotPlace(part) \in Nat /\ LengthOf(part) \in Nat
  <2>1. raw[part] \in AreaType /\ EndsIn(raw[part], part)
    BY DEF Inv, AreasAre
  <2>2. PICK location \in Nat : location = raw[part].location
    BY <2>1 DEF AreaType
  <2>3. location \div 8 + 1 \in Nat
    OBVIOUS
  <2>4. LengthOf(part) \in Nat
    BY PartIs DEF Inv
  <2>5. InBuffer(raw[part], part) \in Seq(Byte) /\ Len(InBuffer(raw[part], part)) = LengthOf(part)
    BY <2>1, BufferIs DEF Inv
  <2> QED BY <2>2, <2>3, <2>4, <2>5 DEF SlotPlace
<1>6. /\ blank \in Seq(Byte) /\ Len(blank) = SlotBytes
      /\ \A i \in 2 .. SlotBytes : blank[i] = Zeros(8)
  <2>1. PICK m \in Nat : m = SlotBytes - 1
    BY SlotAssumption
  <2>2. PICK first \in Byte : first = ByteOf(sector.position[3])
    <3>1. sector.position[3] \in 0 .. Sectors - 1
      BY PathAssumption DEF Inv
    <3> QED BY <3>1, ByteOfIs
  <2>3. PICK rest : rest = [i \in 1 .. m |-> Zeros(8)]
    OBVIOUS
  <2>4. Zeros(8) \in Byte
    BY ZerosAre, Eight
  <2>5. rest \in [1 .. m -> Byte]
    BY <2>3, <2>4
  <2>6. rest \in Seq(Byte) /\ Len(rest) = m
    BY <2>5, SeqDef, LenProperties
  <2>7. <<first>> \in Seq(Byte) /\ Len(<<first>>) = 1
    BY <2>2
  <2>8. PICK one : one = <<first>>
    OBVIOUS
  <2>9. /\ one \o rest \in Seq(Byte) /\ Len(one \o rest) = 1 + m
        /\ \A i \in 1 .. 1 + m : (one \o rest)[i] = IF i <= 1 THEN one[i] ELSE rest[i - 1]
    BY <2>6, <2>7, <2>8, ConcatProperties
  <2>10. blank = one \o rest /\ 1 + m = SlotBytes
    BY <1>1, <2>1, <2>2, <2>3, <2>8, SlotAssumption
  <2>11. ASSUME NEW i \in 2 .. SlotBytes PROVE blank[i] = Zeros(8)
    <3>1. i \in 1 .. 1 + m /\ ~(i <= 1) /\ i - 1 \in 1 .. m
      BY <2>1, <2>10
    <3> QED BY <2>3, <2>9, <2>10, <3>1
  <2> QED BY <2>9, <2>10, <2>11
<1>7. /\ address \in Seq(Byte) /\ Len(address) = SlotBytes
      /\ \A i \in 1 .. SlotBytes :
            address[i] = IF i > SlotPlace("address") /\ i <= SlotPlace("address") + LengthOf("address")
                         THEN InBuffer(raw["address"], "address")[i - SlotPlace("address")] ELSE blank[i]
  <2>1. PICK src, offset : src = InBuffer(raw["address"], "address") /\ offset = SlotPlace("address")
    OBVIOUS
  <2>2. src \in Seq(Byte) /\ offset \in Nat /\ Len(src) = LengthOf("address")
    BY <1>4, <1>5, <2>1
  <2>3. address = CopyToOffset(blank, src, offset, 0)
    BY <1>1, <2>1
  <2>4. /\ address \in Seq(Byte) /\ Len(address) = SlotBytes
        /\ \A i \in 1 .. SlotBytes :
              address[i] = IF i > offset /\ i <= offset + Len(src) THEN src[i - offset] ELSE blank[i]
    BY <1>6, <2>2, <2>3, PutIs
  <2> QED BY <2>1, <2>2, <2>4
<1>8. /\ both \in Seq(Byte) /\ Len(both) = SlotBytes
      /\ \A i \in 1 .. SlotBytes :
            both[i] = IF i > SlotPlace("data") /\ i <= SlotPlace("data") + LengthOf("data")
                      THEN InBuffer(raw["data"], "data")[i - SlotPlace("data")] ELSE address[i]
  <2>1. PICK src, offset : src = InBuffer(raw["data"], "data") /\ offset = SlotPlace("data")
    OBVIOUS
  <2>2. src \in Seq(Byte) /\ offset \in Nat /\ Len(src) = LengthOf("data")
    BY <1>4, <1>5, <2>1
  <2>3. both = CopyToOffset(address, src, offset, 0)
    BY <1>1, <2>1
  <2>4. /\ both \in Seq(Byte) /\ Len(both) = SlotBytes
        /\ \A i \in 1 .. SlotBytes :
              both[i] = IF i > offset /\ i <= offset + Len(src) THEN src[i - offset] ELSE address[i]
    BY <1>7, <2>2, <2>3, PutIs
  <2> QED BY <2>1, <2>2, <2>4
<1>9. slot' \in Seq(Byte) /\ Len(slot') = SlotBytes
  BY <1>2, <1>7, <1>8
<1>10. ASSUME NEW i \in 2 .. SlotBytes
       PROVE  slot'[i] = IF PutAt("data", i) THEN InBuffer(raw["data"], "data")[i - SlotPlace("data")]
                         ELSE IF PutAt("address", i) THEN InBuffer(raw["address"], "address")[i - SlotPlace("address")]
                         ELSE Zeros(8)
  <2>1. i \in 1 .. SlotBytes
    BY SlotAssumption
  <2>2. blank[i] = Zeros(8)
    BY <1>6
  <2>3. address[i] = IF PutAt("address", i) THEN InBuffer(raw["address"], "address")[i - SlotPlace("address")]
                     ELSE Zeros(8)
    BY <1>4, <1>7, <2>1, <2>2 DEF PutAt
  <2>4. CASE raw["data"].found
    <3>1. slot'[i] = IF PutAt("data", i) THEN InBuffer(raw["data"], "data")[i - SlotPlace("data")] ELSE address[i]
      BY <1>2, <1>8, <2>1, <2>4 DEF PutAt
    <3> QED BY <2>3, <3>1
  <2>5. CASE ~raw["data"].found
    <3>1. slot'[i] = address[i] /\ ~PutAt("data", i)
      BY <1>2, <2>5 DEF PutAt
    <3> QED BY <2>3, <3>1
  <2> QED BY <2>4, <2>5
<1>11. SlotIs'
  <2>1. \A part \in Part : SlotPlace(part)' = SlotPlace(part) /\ LengthOf(part)' = LengthOf(part)
    BY <1>3, SameSector DEF SlotPlace
  <2>2. ASSUME NEW part \in Part, NEW i PROVE PutAt(part, i)' <=> PutAt(part, i)
    BY <1>3, <2>1 DEF PutAt
  <2> QED BY <1>3, <1>4, <1>9, <1>10, <2>1, <2>2 DEF SlotIs, InBuffer
<1>12. /\ PacketsAre' /\ AreasAre(raw)' /\ \A part \in Part : InPlace(part)'
  <2>1. \A part \in Part : InPlace(part)
    BY <1>3 DEF Inv
  <2> QED BY <1>3, <2>1, SameSector DEF Inv, PacketsAre, AreasAre, EndsIn, InPlace, InBuffer
<1>13. AreasAre(saved)'
  BY <1>3, <1>12 DEF AreasAre, EndsIn
<1> QED BY <1>3, <1>4, <1>9, <1>11, <1>12, <1>13 DEF Inv

-----------------------------------------------------------------------------
(* The way through the slot.                                                *)

\* Where the windows lie, for the drives that deliver 10 Mbit/s.
LEMMA WindowsLie ==
    \A k \in Controller \ {"ULTRASTOR_12F"} :
        controllers[k].addrWindow[2] \div 80 < controllers[k].dataWindow[1] \div 80
<1>1. /\ controllers["ADAPTEC_ACB2322"].addrWindow[2] = 3180
      /\ controllers["ADAPTEC_ACB2322"].dataWindow[1] = 3300
  BY DEF controllers, adaptec_acb2322
<1>2. /\ controllers["IBM_5364"].addrWindow[2] = 2182
      /\ controllers["IBM_5364"].dataWindow[1] = 2270
  BY DEF controllers, ibm_5364
<1>3. /\ controllers["IBM_PS2"].addrWindow[2] = 2280
      /\ controllers["IBM_PS2"].dataWindow[1] = 2540
  BY DEF controllers, ibm_ps2
<1>4. /\ controllers["IBM_RT_ENHANCED"].addrWindow[2] = 2182
      /\ controllers["IBM_RT_ENHANCED"].dataWindow[1] = 2270
  BY DEF controllers, ibm_rt_enhanced
<1>5. 3180 \div 80 < 3300 \div 80 /\ 2182 \div 80 < 2270 \div 80 /\ 2280 \div 80 < 2540 \div 80
  OBVIOUS
<1> QED BY <1>1, <1>2, <1>3, <1>4, <1>5, ControllersAre

\* A sync byte begins with a one.
LEMMA SyncIs ==
    ASSUME sector.controller \in Controllers, NEW part \in Part
    PROVE  SyncOf(part)[1] = 1
<1>1. ASSUME NEW n \in 128 .. 255 PROVE ByteOf(n)[1] = 1
  <2>1. PICK d : d = 2 ^ 7
    OBVIOUS
  <2>2. d = 128
    BY <2>1
  <2>3. (n \div 128) % 2 = 1
    OBVIOUS
  <2>4. 8 - 1 = 7 /\ 1 \in 1 .. 8
    OBVIOUS
  <2>5. ByteOf(n)[1] = (n \div 2 ^ (8 - 1)) % 2
    BY <2>4 DEF ByteOf
  <2> QED BY <2>1, <2>2, <2>3, <2>4, <2>5
<1>2. FormatIs(sector.controller)
  BY PathAssumption, FormatsAre
<1>3. Format.addrSync \in 128 .. 255 /\ Format.dataSync \in 128 .. 255
  BY <1>2 DEF FormatIs, Format
<1> QED BY <1>1, <1>3 DEF SyncOf, Part

\* A window of a slot is a part of it, after its first byte.
LEMMA SlotWindowIs ==
    ASSUME sector.controller \in Controllers, slot \in Seq(Byte), Len(slot) = SlotBytes,
           NEW part \in Part
    PROVE  /\ SlotWindow(part) \in Seq(Byte)
           /\ \E size \in Int :
                 /\ size = DeassertAt(part) \div 80 + 1 - Shortened(part) - AssertAt(part) \div 80
                 /\ Len(SlotWindow(part)) = IF size >= 1 THEN size ELSE 0
                 /\ \A i \in 1 .. size :
                       /\ AssertAt(part) \div 80 + 1 + i \in 2 .. SlotBytes
                       /\ SlotWindow(part)[i] = slot[AssertAt(part) \div 80 + 1 + i]
<1>1. PICK k : k = sector.controller
  OBVIOUS
<1>2. k \in Controller /\ k \in Controllers /\ FormatIs(k)
  BY <1>1, PathAssumption, FormatsAre
<1>3. PICK f : f = controllers[k]
  OBVIOUS
<1>4. Shortened(part) \in Int /\ AssertAt(part) \in Nat /\ DeassertAt(part) \in Nat
  <2>1. LeftOut(k) \in Int
    BY <1>2 DEF FormatIs
  <2>2. Shortened(part) \in Int
    BY <1>1, <2>1 DEF Shortened
  <2> QED BY <2>2, PartIs
<1>5. DeassertAt(part) \div 80 + 2 - Shortened(part) <= SlotBytes
  <2>1. /\ controllers[k].addrWindow[2] \div 80 + 2 <= SlotBytes
        /\ controllers[k].dataWindow[2] \div 80 + 2 - LeftOut(k) <= SlotBytes
    BY <1>2, SlotAssumption
  <2>2. CASE part = "address"
    <3>1. DeassertAt(part) = controllers[k].addrWindow[2] /\ Shortened(part) = 0
      BY <1>1, <2>2 DEF DeassertAt, Shortened, Format
    <3> QED BY <1>4, <2>1, <3>1
  <2>3. CASE part = "data"
    <3>1. DeassertAt(part) = controllers[k].dataWindow[2] /\ Shortened(part) = LeftOut(k)
      BY <1>1, <2>3 DEF DeassertAt, Shortened, Format
    <3> QED BY <2>1, <3>1
  <2> QED BY <2>2, <2>3 DEF Part
<1>6. PICK first \in Nat, last \in Int :
          first = AssertAt(part) \div 80 /\ last = DeassertAt(part) \div 80 + 2 - Shortened(part)
  BY <1>4
<1>7. PICK bytes \in Nat : bytes = SlotBytes
  BY SlotAssumption
<1>8. \A i \in first + 2 .. last : slot[i] \in Byte
  <2>1. \A i \in first + 2 .. last : i \in 1 .. bytes
    BY <1>5, <1>6, <1>7
  <2> QED BY <1>7, <2>1, ElementOfSeq
<1>9. PICK from \in Int : from = first + 2
  OBVIOUS
<1>10. PICK window : window = SubSeq(slot, from, last)
  OBVIOUS
<1>11. /\ window \in Seq(Byte) /\ Len(window) = IF from <= last THEN last - from + 1 ELSE 0
       /\ \A i \in 1 .. last - from + 1 : window[i] = slot[from + i - 1]
  BY <1>8, <1>9, <1>10, SubSeqProperties
<1>12. SlotWindow(part) = window
  BY <1>6, <1>9, <1>10 DEF SlotWindow
<1>13. PICK size \in Int : size = DeassertAt(part) \div 80 + 1 - Shortened(part) - AssertAt(part) \div 80
  BY <1>4
<1>14. size = last - from + 1
  <2>1. PICK end \in Int, short \in Int : end = DeassertAt(part) \div 80 /\ short = Shortened(part)
    BY <1>4
  <2>2. size = (end + 1 - short) - first
    BY <1>6, <1>13, <2>1
  <2>3. last = end + 2 - short
    BY <1>6, <2>1
  <2>4. \A e, h, f0 \in Int : (e + 1 - h) - f0 = (e + 2 - h) - (f0 + 2) + 1
    OBVIOUS
  <2>5. first \in Int /\ end \in Int /\ short \in Int
    OBVIOUS
  <2>6. size = (end + 2 - short) - (first + 2) + 1
    BY <2>2, <2>4, <2>5
  <2> QED BY <1>9, <2>3, <2>6
<1>15. Len(window) = IF size >= 1 THEN size ELSE 0
  BY <1>9, <1>11, <1>14
<1>16. ASSUME NEW i \in 1 .. size
       PROVE  first + 1 + i \in 2 .. bytes /\ window[i] = slot[first + 1 + i]
  <2>1. from + i - 1 = first + 1 + i /\ i \in 1 .. last - from + 1
    BY <1>9, <1>14
  <2>2. last <= bytes
    BY <1>5, <1>6, <1>7
  <2>3. first + 1 + i <= bytes /\ first + 1 + i >= 2
    BY <1>9, <2>1, <2>2
  <2>4. first + 1 + i \in 2 .. bytes
    BY <1>7, <2>3
  <2>5. window[i] = slot[from + i - 1]
    BY <1>11, <2>1
  <2> QED BY <2>1, <2>4, <2>5
<1> QED BY <1>6, <1>7, <1>11, <1>12, <1>13, <1>15, <1>16

\* Places in eights.
LEMMA EightsOf ==
    ASSUME NEW m \in Nat
    PROVE  \E d \in Int, r \in 0 .. 7 : m = 8 * d + r
<1>1. PICK d, r : d = m \div 8 /\ r = m % 8
  OBVIOUS
<1>2. d \in Int /\ r \in Int /\ r >= 0 /\ r <= 7
  BY <1>1
<1>3. m = 8 * d + r
  BY <1>1
<1> QED BY <1>2, <1>3

\* An area in a buffer of zeros is found where it is.
LEMMA AreaAlone ==
    ASSUME NEW buffer \in Seq(Byte), NEW bytes \in Seq(Byte), NEW q \in Nat, Len(bytes) > 0,
           q + Len(bytes) <= Len(buffer), NEW sync \in Byte, sync[1] = 1, bytes[1] = sync,
           \A i \in 1 .. Len(buffer) :
               buffer[i] = IF i > q /\ i <= q + Len(bytes) THEN bytes[i - q] ELSE Zeros(8)
    PROVE  /\ 8 * q \in Places(buffer, sync) /\ \A p \in Places(buffer, sync) : 8 * q <= p
           /\ First(Places(buffer, sync)) = 8 * q
           /\ Fits(buffer, 8 * q, Len(bytes))
           /\ \A other : CopiedFrom(other, Len(bytes), Bits(buffer), 8 * q) => other = bytes
<1>1. PICK size \in Nat, length \in Nat : size = Len(buffer) /\ length = Len(bytes)
  BY LenProperties
<1>2. /\ Bits(buffer) \in BitWord(8 * size)
      /\ \A i \in 1 .. size, j \in 1 .. 8 : Bits(buffer)[8 * (i - 1) + j] = buffer[i][j]
  BY <1>1, BytesAre
<1>3. \A i \in 1 .. length, j \in 1 .. 8 : Bits(buffer)[8 * q + 8 * (i - 1) + j] = bytes[i][j]
  <2> TAKE i \in 1 .. length, j \in 1 .. 8
  <2>1. PICK k \in 1 .. size : k = q + i
    BY <1>1
  <2>2. Bits(buffer)[8 * (k - 1) + j] = buffer[k][j]
    BY <1>2
  <2>3. buffer[k] = bytes[i]
    <3>1. k > q /\ k <= q + length /\ k - q = i
      BY <2>1
    <3> QED BY <1>1, <3>1
  <2>4. 8 * (k - 1) + j = 8 * q + 8 * (i - 1) + j
    BY <2>1
  <2> QED BY <2>2, <2>3, <2>4
<1>4. \A n \in 1 .. 8 * q : Bits(buffer)[n] = 0
  <2> TAKE n \in 1 .. 8 * q
  <2>1. PICK i \in 1 .. q, j \in 1 .. 8 : n = 8 * (i - 1) + j
    <3>1. PICK m \in Nat : m = n - 1
      OBVIOUS
    <3>2. PICK d \in Int, r \in 0 .. 7 : m = 8 * d + r
      BY EightsOf
    <3>3. d \in 0 .. q - 1
      BY <3>1, <3>2
    <3>4. d + 1 \in 1 .. q /\ r + 1 \in 1 .. 8 /\ n = 8 * ((d + 1) - 1) + (r + 1)
      BY <3>1, <3>2, <3>3
    <3> QED BY <3>4
  <2>2. i \in 1 .. size /\ ~(i > q)
    BY <1>1, <2>1
  <2>3. buffer[i] = Zeros(8)
    BY <1>1, <2>2
  <2>4. Zeros(8)[j] = 0
    BY ZerosAre
  <2> QED BY <1>2, <2>1, <2>2, <2>3, <2>4
<1>5. Places(buffer, sync) =
          {p \in 0 .. (size - 1) * 8 : \A j \in 1 .. 8 : Bits(buffer)[p + j] = sync[j]}
  BY <1>1, Eight DEF Places
<1>6. 8 * q \in Places(buffer, sync)
  <2>1. 8 * q \in 0 .. (size - 1) * 8
    BY <1>1
  <2>2. ASSUME NEW j \in 1 .. 8 PROVE Bits(buffer)[8 * q + j] = sync[j]
    <3>1. 1 \in 1 .. length /\ 8 * q + 8 * (1 - 1) + j = 8 * q + j
      BY <1>1
    <3> QED BY <1>3, <3>1
  <2> QED BY <1>5, <2>1, <2>2
<1>7. \A p \in Places(buffer, sync) : p \in Nat /\ 8 * q <= p
  <2> SUFFICES ASSUME NEW p \in Places(buffer, sync) PROVE p \in Nat /\ 8 * q <= p
    OBVIOUS
  <2>1. p \in Nat /\ Bits(buffer)[p + 1] = 1
    <3>1. /\ p \in 0 .. (size - 1) * 8
          /\ \A j \in 1 .. 8 : Bits(buffer)[p + j] = sync[j]
      BY <1>5
    <3> QED BY <1>1, <3>1
  <2>2. ~(p + 1 \in 1 .. 8 * q)
    BY <1>4, <2>1
  <2> QED BY <2>1, <2>2
<1>8. First(Places(buffer, sync)) = 8 * q
  <2>1. /\ First(Places(buffer, sync)) \in Places(buffer, sync)
        /\ \A p \in Places(buffer, sync) : First(Places(buffer, sync)) <= p
    <3>1. Places(buffer, sync) \in SUBSET Nat /\ Places(buffer, sync) # {}
      BY <1>6, <1>7
    <3> QED BY <3>1, FirstIs
  <2> QED BY <1>6, <1>7, <2>1
<1>9. Fits(buffer, 8 * q, Len(bytes))
  <2>1. (8 * q) \div 8 = q /\ (8 * q) % 8 = 0
    OBVIOUS
  <2> QED BY <1>1, <2>1, Eight DEF Fits, Offset, Spare, BitOf
<1>10. ASSUME NEW other, CopiedFrom(other, length, Bits(buffer), 8 * q) PROVE other = bytes
  <2>1. /\ other \in [1 .. length -> Byte]
        /\ \A i \in 1 .. length, j \in 1 .. 8 :
              other[i][j] = Bits(buffer)[8 * q + 8 * (i - 1) + j]
    BY <1>10 DEF CopiedFrom
  <2>2. ASSUME NEW i \in 1 .. length PROVE other[i] = bytes[i]
    <3>1. PICK a, b : a = other[i] /\ b = bytes[i]
      OBVIOUS
    <3>2. a \in BitWord(8) /\ b \in BitWord(8)
      BY <1>1, <2>1, <3>1, BytesAre, Eight
    <3>3. \A j \in 1 .. 8 : a[j] = b[j]
      BY <1>3, <2>1, <3>1
    <3> QED BY <3>1, <3>2, <3>3, SameWord
  <2>3. bytes = [i \in 1 .. length |-> bytes[i]]
    BY <1>1, LenProperties
  <2>4. other = [i \in 1 .. length |-> other[i]]
    BY <2>1
  <2>5. [i \in 1 .. length |-> other[i]] = [i \in 1 .. length |-> bytes[i]]
    BY <2>2
  <2> QED BY <2>3, <2>4, <2>5
<1> QED BY <1>1, <1>6, <1>7, <1>8, <1>9, <1>10

LEMMA NoAreaAlone ==
    ASSUME NEW buffer \in Seq(Byte), NEW sync \in Byte, sync[1] = 1,
           \A i \in 1 .. Len(buffer) : buffer[i] = Zeros(8)
    PROVE  Places(buffer, sync) = {}
<1>1. PICK size \in Nat : size = Len(buffer)
  BY LenProperties
<1> SUFFICES ASSUME NEW p \in Places(buffer, sync) PROVE FALSE
  OBVIOUS
<1>2. p \in 0 .. (size - 1) * 8 /\ Bits(buffer)[p + 1] = 1
  BY <1>1, Eight DEF Places
<1>3. PICK i, j : i = p \div 8 + 1 /\ j = (p % 8) + 1
  OBVIOUS
<1>4. i \in 1 .. size /\ j \in 1 .. 8 /\ p + 1 = 8 * (i - 1) + j
  BY <1>1, <1>2, <1>3
<1>5. Bits(buffer)[p + 1] = buffer[i][j]
  BY <1>1, <1>4, BytesAre
<1>6. buffer[i] = Zeros(8) /\ Zeros(8)[j] = 0
  BY <1>1, <1>4, ZerosAre
<1> QED BY <1>2, <1>5, <1>6

\* An area that was in its window is in the window of the slot.
LEMMA AreaInSlot ==
    ASSUME Inv, stage = "saved", sector.controller # "ULTRASTOR_12F",
           NEW part \in Part, raw[part].found
    PROVE  /\ SlotPlace(part) >= AssertAt(part) \div 80 + 1
           /\ SlotPlace(part) + LengthOf(part) <= DeassertAt(part) \div 80 + 2 - Shortened(part)
<1>1. sector.controller \in Controllers /\ raw[part] \in AreaType
  BY DEF Inv, AreasAre
<1>2. PICK a \in Nat, d \in Nat, length \in Nat, bits \in Nat :
          /\ a = AssertAt(part) /\ d = DeassertAt(part) /\ length = LengthOf(part)
          /\ bits = WindowBits(part)
  BY <1>1, PartIs
<1>3. PICK short \in Int : short = Shortened(part)
  <2>1. LeftOut(sector.controller) \in Int
    BY <1>1, PathAssumption, FormatsAre DEF FormatIs
  <2> QED BY <2>1 DEF Shortened
<1>4. PICK location \in Nat : location = raw[part].location
  BY <1>1 DEF AreaType
<1>5. bits = ((d - a) * 10) \div 100 - 8 * short
  BY <1>2, <1>3 DEF WindowBits, BitRate
<1>6. a \div 10 <= location /\ location + 8 * length <= a \div 10 + 8 * ((bits + 7) \div 8)
  <2>1. InPlace(part)
    BY DEF Inv
  <2> QED BY <1>2, <1>4, <2>1 DEF InPlace
<1>7. SlotPlace(part) = location \div 8 + 1
  BY <1>4 DEF SlotPlace
<1>8. location \div 8 >= a \div 80
  BY <1>6
<1>9. location + 8 * length <= d \div 10 + 7 - 8 * short
  <2>1. a \div 10 + ((d - a) * 10) \div 100 <= d \div 10
    OBVIOUS
  <2>2. 8 * ((bits + 7) \div 8) <= bits + 7
    OBVIOUS
  <2> QED BY <1>5, <1>6, <2>1, <2>2
<1>10. location \div 8 + length + short <= d \div 80 + 1
  BY <1>9
<1> QED BY <1>2, <1>3, <1>7, <1>8, <1>10

LEMMA SlotWindowHolds ==
    ASSUME Inv, stage = "saved", sector.controller # "ULTRASTOR_12F", NEW part \in Part
    PROVE  \E q \in Nat :
              /\ raw[part].found => q + LengthOf(part) <= Len(SlotWindow(part))
              /\ \A i \in 1 .. Len(SlotWindow(part)) :
                    SlotWindow(part)[i] = IF raw[part].found /\ i > q /\ i <= q + LengthOf(part)
                                          THEN InBuffer(raw[part], part)[i - q] ELSE Zeros(8)
<1>1. /\ sector.controller \in Controllers /\ slot \in Seq(Byte) /\ SlotIs
      /\ raw["address"].found
  BY DEF Inv
<1>2. PICK a \in Nat, d \in Int, length \in Nat :
          /\ a = AssertAt(part) \div 80 /\ d = DeassertAt(part) \div 80 /\ length = LengthOf(part)
  BY <1>1, PartIs
<1>3. PICK short \in Int : short = Shortened(part)
  <2>1. LeftOut(sector.controller) \in Int
    BY <1>1, PathAssumption, FormatsAre DEF FormatIs
  <2> QED BY <2>1 DEF Shortened
<1>4. PICK window : window = SlotWindow(part)
  OBVIOUS
<1>5. PICK size \in Int :
          /\ size = d + 1 - short - a
          /\ Len(window) = IF size >= 1 THEN size ELSE 0
          /\ \A i \in 1 .. size : a + 1 + i \in 2 .. SlotBytes /\ window[i] = slot[a + 1 + i]
  <2>1. Len(slot) = SlotBytes
    BY <1>1 DEF SlotIs
  <2>2. PICK size \in Int :
            /\ size = DeassertAt(part) \div 80 + 1 - Shortened(part) - AssertAt(part) \div 80
            /\ Len(SlotWindow(part)) = IF size >= 1 THEN size ELSE 0
            /\ \A i \in 1 .. size :
                  /\ AssertAt(part) \div 80 + 1 + i \in 2 .. SlotBytes
                  /\ SlotWindow(part)[i] = slot[AssertAt(part) \div 80 + 1 + i]
    BY <1>1, <2>1, SlotWindowIs
  <2> QED BY <1>2, <1>3, <1>4, <2>2
<1>6. /\ "address" \in Part /\ "data" \in Part
      /\ \A other \in Part : raw[other].found =>
            /\ SlotPlace(other) >= AssertAt(other) \div 80 + 1
            /\ SlotPlace(other) + LengthOf(other) <= DeassertAt(other) \div 80 + 2 - Shortened(other)
  BY AreaInSlot DEF Part
<1>7. \A other \in Part : SlotPlace(other) \in Nat /\ LengthOf(other) \in Nat
                          /\ AssertAt(other) \div 80 \in Nat /\ DeassertAt(other) \div 80 \in Nat
  <2> TAKE other \in Part
  <2>1. raw[other] \in AreaType
    BY DEF Inv, AreasAre
  <2>2. PICK location \in Nat : location = raw[other].location
    BY <2>1 DEF AreaType
  <2>3. location \div 8 + 1 \in Nat
    OBVIOUS
  <2>4. \A n \in Nat : n \div 80 \in Nat
    OBVIOUS
  <2> QED BY <1>1, <2>2, <2>3, <2>4, PartIs DEF SlotPlace
<1>8. DeassertAt("address") \div 80 < AssertAt("data") \div 80 /\ Shortened("address") = 0
  <2>1. sector.controller \in Controller \ {"ULTRASTOR_12F"}
    BY <1>1, PathAssumption
  <2> QED BY <2>1, WindowsLie DEF DeassertAt, AssertAt, Shortened, Format
\* What an area leaves alone in the other one's window.
<1>9. ASSUME NEW other \in Part, other # part, NEW i \in 1 .. size
      PROVE  ~PutAt(other, a + 1 + i)
  <2> SUFFICES ASSUME PutAt(other, a + 1 + i) PROVE FALSE
    OBVIOUS
  <2>1. PICK place \in Nat, long \in Nat, from \in Nat, to \in Nat :
            /\ place = SlotPlace(other) /\ long = LengthOf(other)
            /\ from = AssertAt(other) \div 80 /\ to = DeassertAt(other) \div 80
    BY <1>7
  <2>2. raw[other].found /\ a + 1 + i > place /\ a + 1 + i <= place + long
    BY <2>1 DEF PutAt
  <2>3. place >= from + 1 /\ place + long <= to + 2 - Shortened(other)
    BY <1>6, <2>1, <2>2
  <2>4. CASE part = "address"
    <3>1. other = "data" /\ short = 0 /\ d < from
      BY <1>2, <1>3, <1>8, <1>9, <2>1, <2>4 DEF Part
    <3> QED BY <1>5, <2>2, <2>3, <3>1
  <2>5. CASE part = "data"
    <3>1. other = "address" /\ Shortened(other) = 0 /\ to < a
      BY <1>2, <1>8, <1>9, <2>1, <2>5 DEF Part
    <3> QED BY <2>2, <2>3, <3>1
  <2> QED BY <2>4, <2>5 DEF Part
<1>10. ASSUME NEW i \in 1 .. size
       PROVE  window[i] = IF PutAt(part, a + 1 + i)
                          THEN InBuffer(raw[part], part)[(a + 1 + i) - SlotPlace(part)] ELSE Zeros(8)
  <2>1. PICK n : n = a + 1 + i
    OBVIOUS
  <2>2. n \in 2 .. SlotBytes /\ window[i] = slot[n]
    BY <1>5, <2>1
  <2>3. slot[n] = IF PutAt("data", n) THEN InBuffer(raw["data"], "data")[n - SlotPlace("data")]
                  ELSE IF PutAt("address", n) THEN InBuffer(raw["address"], "address")[n - SlotPlace("address")]
                  ELSE Zeros(8)
    BY <1>1, <2>2 DEF SlotIs, InBuffer
  <2>4. CASE part = "address"
    <3>1. ~PutAt("data", n)
      BY <1>6, <1>9, <2>1, <2>4
    <3> QED BY <2>1, <2>2, <2>3, <2>4, <3>1
  <2>5. CASE part = "data"
    <3>1. ~PutAt("address", n)
      BY <1>6, <1>9, <2>1, <2>5
    <3> QED BY <2>1, <2>2, <2>3, <2>5, <3>1
  <2> QED BY <2>4, <2>5 DEF Part
<1>11. CASE ~raw[part].found
  <2>1. \A i \in 1 .. Len(window) : window[i] = Zeros(8)
    <3>1. \A i \in 1 .. Len(window) : i \in 1 .. size
      BY <1>5
    <3> QED BY <1>10, <1>11, <3>1 DEF PutAt
  <2> QED BY <1>4, <1>11, <2>1
<1>12. CASE raw[part].found
  <2>1. PICK place \in Nat : place = SlotPlace(part)
    BY <1>7
  <2>2. place >= a + 1 /\ place + length <= d + 2 - short
    BY <1>2, <1>3, <1>6, <1>12, <2>1
  <2>3. PICK q \in Nat : q = place - (a + 1)
    BY <2>2
  <2>4. length > 0
    BY <1>1, <1>2, PartIs
  <2>5. q + length <= size /\ Len(window) = size
    BY <1>5, <2>2, <2>3, <2>4
  <2>6. ASSUME NEW i \in 1 .. Len(window)
        PROVE  window[i] = IF raw[part].found /\ i > q /\ i <= q + LengthOf(part)
                           THEN InBuffer(raw[part], part)[i - q] ELSE Zeros(8)
    <3>1. i \in 1 .. size /\ i \in Int
      BY <2>5
    <3>2. PutAt(part, a + 1 + i) <=> i > q /\ i <= q + length
      <4>1. a \in Nat /\ length \in Nat
        BY <1>2
      <4>2. i > q <=> a + 1 + i > place
        BY <2>3, <3>1, <4>1
      <4>3. i <= q + length <=> a + 1 + i <= place + length
        BY <2>3, <3>1, <4>1
      <4>4. PutAt(part, a + 1 + i) <=> a + 1 + i > place /\ a + 1 + i <= place + length
        <5>1. PICK n : n = a + 1 + i
          OBVIOUS
        <5>2. PutAt(part, n) <=> n > place /\ n <= place + length
          BY <1>2, <1>12, <2>1, Zenon DEF PutAt
        <5> QED BY <5>1, <5>2
      <4> QED BY <4>2, <4>3, <4>4
    <3>3. (a + 1 + i) - SlotPlace(part) = i - q
      BY <2>1, <2>3, <3>1
    <3> QED BY <1>2, <1>10, <1>12, <3>1, <3>2, <3>3
  <2> QED BY <1>2, <1>4, <2>5, <2>6
<1> QED BY <1>11, <1>12

\* The window that a slot of the ULTRASTOR is read with is shorter than its data area.
LEMMA UltrastorCut ==
    ASSUME Inv, stage = "saved", sector.controller = "ULTRASTOR_12F"
    PROVE  Len(SlotWindow("data")) \in Nat /\ Len(SlotWindow("data")) < LengthOf("data")
<1>1. PICK size \in Int :
          /\ size = DeassertAt("data") \div 80 + 1 - Shortened("data") - AssertAt("data") \div 80
          /\ Len(SlotWindow("data")) = IF size >= 1 THEN size ELSE 0
  <2>1. Len(slot) = SlotBytes /\ slot \in Seq(Byte) /\ sector.controller \in Controllers
    BY DEF Inv, SlotIs
  <2>2. "data" \in Part
    BY DEF Part
  <2> QED BY <2>1, <2>2, SlotWindowIs
<1>2. PICK f : f = controllers["ULTRASTOR_12F"]
  OBVIOUS
<1>3. f.dataWindow[1] = 2013 /\ f.dataWindow[2] = 30683 /\ f.size = 512
  BY <1>2 DEF controllers, ultrastor_12f
<1>4. SectorSize \in Nat
  BY FormatAssumption
<1>5. PICK short : short = Shortened("data")
  OBVIOUS
<1>6. short = 512 - SectorSize
  BY <1>2, <1>3, <1>5 DEF Shortened, LeftOut
<1>7. DeassertAt("data") \div 80 = 383 /\ AssertAt("data") \div 80 = 25
  <2>1. 30683 \div 80 = 383 /\ 2013 \div 80 = 25
    OBVIOUS
  <2> QED BY <1>2, <1>3, <2>1 DEF DeassertAt, AssertAt, Format
<1>8. size = SectorSize - 153
  BY <1>1, <1>4, <1>5, <1>6, <1>7
<1>9. LengthOf("data") \in Nat /\ LengthOf("data") > SectorSize
  <2>1. "ULTRASTOR_12F" \in Controller
    BY ControllersAre
  <2>2. PICK length, dataAt : length = DataLength("ULTRASTOR_12F") /\ dataAt = f.dataAt
    OBVIOUS
  <2>3. length \in Nat /\ length > dataAt + SectorSize /\ dataAt \in 1 .. 2
    BY <1>2, <2>1, <2>2, FormatsAre DEF FormatIs
  <2>4. LengthOf("data") = length
    BY <2>2 DEF LengthOf
  <2> QED BY <1>4, <2>3, <2>4
<1> QED BY <1>1, <1>4, <1>8, <1>9

LEMMA NotUltrastor ==
    ASSUME Inv, stage = "saved", WindowsHold
    PROVE  sector.controller # "ULTRASTOR_12F"
<1> SUFFICES ASSUME sector.controller = "ULTRASTOR_12F" PROVE FALSE
  OBVIOUS
<1>1. PICK size, length : size = Len(SlotWindow("data")) /\ length = LengthOf("data")
  OBVIOUS
<1>2. size \in Nat /\ size < length
  BY <1>1, UltrastorCut
<1>3. length \in Nat
  BY <1>1, PartIs DEF Inv, Part
<1>4. size >= length
  BY <1>1 DEF WindowsHold, Part
<1> QED BY <1>2, <1>3, <1>4

\* What the next run takes out of a slot.
LEMMA RoundTrip ==
    ASSUME Inv, stage = "saved", sector.controller # "ULTRASTOR_12F", NEW part \in Part,
           NEW before \in AreaType, EndsIn(before, part)
    PROVE  LET taken == Taken(part, SlotWindow(part), before) IN
           /\ taken.found = raw[part].found
           /\ raw[part].found => InBuffer(taken, part) = InBuffer(raw[part], part)
<1>1. /\ sector.controller \in Controllers /\ slot \in Seq(Byte) /\ Len(slot) = SlotBytes
      /\ raw[part] \in AreaType /\ EndsIn(raw[part], part) /\ InPlace(part)
  BY DEF Inv, AreasAre, SlotIs
<1>2. PICK buffer, sync, length, bytes :
          /\ buffer = SlotWindow(part) /\ sync = SyncOf(part) /\ length = LengthOf(part)
          /\ bytes = InBuffer(raw[part], part)
  OBVIOUS
<1>3. /\ buffer \in Seq(Byte) /\ sync \in Byte /\ sync[1] = 1 /\ length \in Nat /\ length > 0
      /\ bytes \in Seq(Byte) /\ Len(bytes) = length
  BY <1>1, <1>2, SlotWindowIs, PartIs, SyncIs, BufferIs
<1>4. PICK q \in Nat :
          /\ raw[part].found => q + length <= Len(buffer)
          /\ \A i \in 1 .. Len(buffer) :
                buffer[i] = IF raw[part].found /\ i > q /\ i <= q + length
                            THEN bytes[i - q] ELSE Zeros(8)
  BY <1>2, SlotWindowHolds
<1>5. PICK taken : taken = Taken(part, buffer, before)
  OBVIOUS
<1>6. /\ taken.found = Holds(part, buffer)
      /\ Holds(part, buffer) =>
            \E area : AreaFound(area, buffer, sync, length) /\ InBuffer(taken, part) = Wanted(area, length)
  BY <1>1, <1>2, <1>3, <1>5, TakenIs
<1>7. raw[part].found \in BOOLEAN
  BY <1>1 DEF AreaType
<1>8. CASE raw[part].found
  <2>1. bytes[1] = sync
    BY <1>1, <1>2, <1>8 DEF InPlace
  <2>2. \A i \in 1 .. Len(buffer) :
            buffer[i] = IF i > q /\ i <= q + Len(bytes) THEN bytes[i - q] ELSE Zeros(8)
    BY <1>3, <1>4, <1>8
  <2>3. q + Len(bytes) <= Len(buffer) /\ Len(bytes) > 0
    BY <1>3, <1>4, <1>8
  <2>4. /\ 8 * q \in Places(buffer, sync) /\ \A p \in Places(buffer, sync) : 8 * q <= p
        /\ First(Places(buffer, sync)) = 8 * q
        /\ Fits(buffer, 8 * q, Len(bytes))
        /\ \A other : CopiedFrom(other, Len(bytes), Bits(buffer), 8 * q) => other = bytes
    BY <1>3, <2>1, <2>2, <2>3, AreaAlone
  <2>5. Holds(part, buffer)
    BY <1>2, <1>3, <2>4 DEF Holds
  <2>6. PICK area : AreaFound(area, buffer, sync, length) /\ InBuffer(taken, part) = Wanted(area, length)
    BY <1>6, <2>5
  <2>7. area.place = 8 * q
    <3>1. area.place \in Nat /\ area.place <= 8 * q /\ 8 * q <= area.place
      BY <2>4, <2>6 DEF AreaFound
    <3> QED BY <3>1
  <2>8. Wanted(area, length) = bytes
    BY <1>3, <2>4, <2>6, <2>7 DEF AreaFound
  <2>9. taken.found = TRUE /\ raw[part].found = TRUE
    BY <1>6, <1>7, <1>8, <2>5 DEF Holds
  <2> QED BY <1>2, <1>5, <2>6, <2>8, <2>9
<1>9. CASE ~raw[part].found
  <2>1. \A i \in 1 .. Len(buffer) : buffer[i] = Zeros(8)
    BY <1>4, <1>9
  <2>2. Places(buffer, sync) = {}
    BY <1>3, <2>1, NoAreaAlone
  <2>3. taken.found = FALSE /\ raw[part].found = FALSE
    BY <1>2, <1>6, <1>7, <1>9, <2>2 DEF Holds
  <2> QED BY <1>2, <1>5, <1>9, <2>3
<1> QED BY <1>8, <1>9

LEMMA ReadSlotKeeps == Inv /\ ReadSlot => Inv'
<1> SUFFICES ASSUME Inv, ReadSlot PROVE Inv'
  OBVIOUS
<1>1. PICK windows : windows = [part \in Part |-> SlotWindow(part)]
  OBVIOUS
<1>2. /\ stage = "saved" /\ stage' = "reread" /\ raw' = BothTaken(windows, Empty)
      /\ sector' = sector /\ disk' = disk /\ fault' = fault /\ packets' = packets
      /\ saved' = saved /\ processed' = processed /\ slot' = slot
  BY <1>1 DEF ReadSlot
<1>3. /\ sector.controller \in Controllers /\ slot \in Seq(Byte) /\ Len(slot) = SlotBytes
  BY <1>2 DEF Inv, SlotIs
<1>4. AreasAre(Empty)
  BY <1>3, EmptyIs
<1>5. ASSUME NEW part \in Part
      PROVE  LET taken == Taken(part, windows[part], Empty[part])
             IN  taken \in AreaType /\ EndsIn(taken, part)
  <2>1. PICK buffer, before : buffer = windows[part] /\ before = Empty[part]
    OBVIOUS
  <2>2. /\ buffer \in Seq(Byte) /\ before \in AreaType /\ EndsIn(before, part)
    BY <1>1, <1>3, <1>4, <2>1, SlotWindowIs DEF AreasAre
  <2> QED BY <1>3, <2>1, <2>2, TakenIs
<1>6. PICK address : address = Taken("address", windows["address"], Empty["address"])
  OBVIOUS
<1>7. PICK data : data = IF address.found THEN Taken("data", windows["data"], Empty["data"])
                         ELSE Empty["data"]
  OBVIOUS
<1>8. raw' = [address |-> address, data |-> data]
  BY <1>2, <1>6, <1>7 DEF BothTaken
<1>9. ASSUME NEW part \in Part PROVE raw'[part] \in AreaType /\ EndsIn(raw'[part], part)
  <2>1. CASE part = "address"
    BY <1>5, <1>6, <1>8, <2>1
  <2>2. CASE part = "data" /\ address.found
    BY <1>5, <1>7, <1>8, <2>2
  <2>3. CASE part = "data" /\ ~address.found
    BY <1>4, <1>7, <1>8, <2>3 DEF AreasAre
  <2> QED BY <2>1, <2>2, <2>3 DEF Part
<1>10. AreasAre(raw)' /\ AreasAre(saved)' /\ PacketsAre'
  BY <1>2, <1>9, SameSector DEF Inv, AreasAre, EndsIn, PacketsAre
<1> QED BY <1>2, <1>10 DEF Inv

-----------------------------------------------------------------------------
(* The invariant of undamaged sectors.                                      *)

\* The areas on the disk are those that the formatter writes for the sector.
OwnSector ==
    /\ sector.kind \in Kinds(sector.controller, sector.position)
    /\ sector.position[1] < DataCylinders(sector.controller)
    /\ disk = Formatted(sector.controller, sector.position, sector.kind)
    /\ fault = "none" => at = SubSeq(sector.position, 1, 2)

\* The packets hold them, in time if nothing is wrong.
Delivered(part) ==
    \E lead \in Nat : /\ Carries(packets[part], WindowBits(part), lead, disk[part])
                      /\ fault = "none" => lead <= LastLead(part)

\* All of an area but its last byte, which the end of the window may have cut.
Unharmed(part) == \A i \in 1 .. LengthOf(part) - 1 : InBuffer(raw[part], part)[i] = disk[part][i]

\* The invariant of whole, late and mis-sought sectors.
OwnInv ==
    /\ OwnSector
    /\ stage = "delivered" /\ fault # "damage" => \A part \in Part : Delivered(part)
    /\ stage \in {"taken", "processed", "saved", "reread"} /\ fault # "damage" /\ raw["data"].found =>
           raw["address"].found /\ \A part \in Part : Unharmed(part)
    /\ stage = "taken" /\ fault = "none" =>
           \A part \in Part : raw[part].found /\ InBuffer(raw[part], part) = disk[part]
    /\ DOMAIN processed = Fields
    /\ stage \in {"formatted", "delivered", "taken"} =>
           ~processed.marked_bad /\ ~processed.marked_spare
    /\ fault # "damage" => WrittenIsOwn

\* The areas on the disk are of the lengths and begin with the bytes that are looked for.
LEMMA OwnFacts ==
    ASSUME Inv, OwnSector, NEW part \in Part
    PROVE  /\ LengthOf(part) = LengthFor(sector.controller, part)
           /\ disk[part] \in Seq(Byte) /\ Len(disk[part]) = LengthOf(part)
           /\ LengthOf(part) \in Nat /\ LengthOf(part) > 1
           /\ SyncOf(part) \in Byte /\ SyncOf(part)[1] = 1 /\ disk[part][1] = SyncOf(part)
<1>1. PICK k \in Controllers, p \in Positions : k = sector.controller /\ p = sector.position
  BY DEF Inv
<1>2. disk = Formatted(k, p, sector.kind)
  BY <1>1 DEF OwnSector
<1>3. AreaHas(disk[part], k, part)
  BY <1>2, FormattedHas
<1>4. LengthOf(part) = LengthFor(k, part) /\ SyncOf(part) = ByteOf(SyncFor(k, part))
  BY <1>1 DEF LengthOf, LengthFor, SyncOf, SyncFor, Format
<1>5. SyncOf(part) \in Byte /\ SyncOf(part)[1] = 1
  BY PartIs, SyncIs DEF Inv
<1> QED BY <1>1, <1>3, <1>4, <1>5 DEF AreaHas

\* At the start nothing is decoded.
LEMMA OwnInit == Init => OwnInv
<1> SUFFICES ASSUME Init PROVE OwnInv
  OBVIOUS
<1>1. PICK k \in Controllers, p \in Positions : \E kind \in Kinds(k, p) :
          p[1] < DataCylinders(k) /\ sector = [controller |-> k, position |-> p, kind |-> kind]
  BY DEF Init
<1>2. PICK kind \in Kinds(k, p) :
          p[1] < DataCylinders(k) /\ sector = [controller |-> k, position |-> p, kind |-> kind]
  BY <1>1
<1>3. OwnSector
  BY <1>2 DEF Init, OwnSector
<1>4. stage = "formatted" /\ DOMAIN processed = Fields /\ ~processed.marked_bad /\ ~processed.marked_spare
  BY DEF Init, Fields
<1> QED BY <1>3, <1>4 DEF OwnInv, WrittenIsOwn, Decoded

\* What passes undamaged is delivered.
LEMMA DeliverOwn ==
    ASSUME Inv, OwnSector, sector' = sector, disk' = disk, NEW part \in Part,
           NEW leads, leads[part] \in Nat, Deliver(leads, OnDisk),
           fault' = "none" => leads[part] <= LastLead(part)
    PROVE  Delivered(part)'
<1>1. PICK lead \in Nat : lead = leads[part]
  OBVIOUS
<1>2. PICK area \in Seq(Byte) : area = disk[part]
  BY OwnFacts
<1>3. packets'[part] = BytesOf(Zeros(8), Window(part, lead, Bits(area)))
  BY <1>1, <1>2 DEF Deliver, OnDisk
<1>4. Carries(packets'[part], WindowBits(part), lead, area)
  BY <1>3, PacketCarries DEF Inv
<1>5. WindowBits(part)' = WindowBits(part) /\ LengthOf(part)' = LengthOf(part)
  BY SameSector
<1>6. LastLead(part)' = LastLead(part)
  BY <1>5 DEF LastLead
<1> QED BY <1>1, <1>2, <1>4, <1>5, <1>6 DEF Delivered

\* However a sector passes, unless it is damaged its own areas are in the packets.
LEMMA PassOwn == Inv /\ OwnInv /\ Pass => OwnInv'
<1> SUFFICES ASSUME Inv, OwnInv, Pass PROVE OwnInv'
  OBVIOUS
<1>1. /\ stage = "formatted" /\ stage' = "delivered" /\ sector' = sector /\ disk' = disk
      /\ raw' = raw /\ processed' = processed
  BY DEF Pass
<1>2. OwnSector /\ sector.controller \in Controllers
  BY DEF OwnInv, Inv
<1>3. \A part \in Part : Early[part] \in Nat /\ DOMAIN Early = Part
  BY EarlyIs
<1>4. /\ fault' # "damage" => \A part \in Part : Delivered(part)'
      /\ fault' = "none" => at' = SubSeq(sector.position, 1, 2)
  <2>1. CASE PassWell
    <3>1. PICK leads \in [Part -> Leads] :
              (\A part \in Part : leads[part] <= LastLead(part)) /\ Deliver(leads, OnDisk)
      BY <2>1 DEF PassWell
    <3>2. \A part \in Part : leads[part] \in Nat
      BY PathAssumption
    <3>3. \A part \in Part : Delivered(part)'
      BY <1>1, <1>2, <3>1, <3>2, DeliverOwn
    <3>4. fault' = fault /\ at' = at
      BY <2>1 DEF PassWell
    <3> QED BY <1>2, <3>3, <3>4 DEF OwnSector
  <2>2. CASE PassLate
    <3>1. PICK one \in Part, n \in 1 .. Lateness :
              Deliver([Early EXCEPT ![one] = LastLead(one) + n], OnDisk)
      BY <2>2 DEF PassLate
    <3>2. PICK leads : leads = [Early EXCEPT ![one] = LastLead(one) + n]
      OBVIOUS
    <3>3. LastLead(one) + n \in Nat
      BY <1>2, PartIs, PathAssumption
    <3>4. \A part \in Part : leads[part] \in Nat
      BY <1>3, <3>2, <3>3
    <3>5. fault' = "late"
      BY <2>2 DEF PassLate
    <3>6. \A part \in Part : Delivered(part)'
      BY <1>1, <1>2, <3>1, <3>2, <3>4, <3>5, DeliverOwn
    <3> QED BY <3>5, <3>6
  <2>3. CASE PassDamaged
    BY <2>3 DEF PassDamaged
  <2>4. CASE PassElsewhere
    <3>1. PICK lead \in Leads : Deliver(Both(lead), OnDisk)
      BY <2>4 DEF PassElsewhere
    <3>2. fault' = "misseek"
      BY <2>4 DEF PassElsewhere
    <3>3. PICK leads : leads = Both(lead)
      OBVIOUS
    <3>4. \A part \in Part : leads[part] \in Nat
      BY <3>3, PathAssumption DEF Both
    <3>5. \A part \in Part : Delivered(part)'
      BY <1>1, <1>2, <3>1, <3>2, <3>3, <3>4, DeliverOwn
    <3> QED BY <3>2, <3>5
  <2> QED BY <2>1, <2>2, <2>3, <2>4 DEF Pass
<1>5. OwnSector'
  BY <1>1, <1>2, <1>4 DEF OwnSector
<1>6. DOMAIN processed' = Fields /\ ~processed'.marked_bad /\ ~processed'.marked_spare
  BY <1>1 DEF OwnInv
<1>7. WrittenIsOwn'
  BY <1>1 DEF WrittenIsOwn, Decoded
<1> QED BY <1>1, <1>4, <1>5, <1>6, <1>7 DEF OwnInv

-----------------------------------------------------------------------------
(* Its steps.                                                               *)

\* What an area was taken out of: agreement with the disk.
LEMMA TakenOwn ==
    ASSUME Inv, OwnSector, stage = "delivered", NEW part \in Part, Delivered(part),
           NEW taken, taken = Taken(part, packets[part], raw[part])
    PROVE  /\ taken.found => \A i \in 1 .. LengthOf(part) - 1 : InBuffer(taken, part)[i] = disk[part][i]
           /\ fault = "none" => taken.found /\ InBuffer(taken, part) = disk[part]
<1>1. PICK packet, before, length, sync, area :
          /\ packet = packets[part] /\ before = raw[part] /\ length = LengthOf(part)
          /\ sync = SyncOf(part) /\ area = disk[part]
  OBVIOUS
<1>2. /\ area \in Seq(Byte) /\ Len(area) = length /\ length \in Nat /\ length > 1
      /\ sync \in Byte /\ sync[1] = 1 /\ area[1] = sync
  BY <1>1, OwnFacts
<1>3. /\ packet \in Seq(Byte) /\ before \in AreaType /\ EndsIn(before, part)
      /\ sector.controller \in Controllers
  BY <1>1 DEF Inv, PacketsAre, AreasAre
<1>4. /\ taken \in AreaType /\ EndsIn(taken, part)
      /\ taken.found = Holds(part, packet)
      /\ Holds(part, packet) =>
            \E found : AreaFound(found, packet, sync, length) /\ InBuffer(taken, part) = Wanted(found, length)
  BY <1>1, <1>3, TakenIs
<1>5. PICK width \in Nat, lead \in Nat : /\ Carries(packet, width, lead, area)
                                         /\ fault = "none" => lead <= 8 * (width \div 8 - length)
  <2>1. WindowBits(part) \in Nat
    BY <1>3, PartIs
  <2> QED BY <1>1, <2>1 DEF Delivered, LastLead
<1>6. ASSUME taken.found
      PROVE  /\ \A i \in 1 .. length - 1 : InBuffer(taken, part)[i] = area[i]
             /\ fault = "none" => \A i \in 1 .. length : InBuffer(taken, part)[i] = area[i]
  <2>1. PICK found : AreaFound(found, packet, sync, length) /\ InBuffer(taken, part) = Wanted(found, length)
    BY <1>4, <1>6
  <2>2. AreaFound(found, packet, sync, length) /\ Carries(packet, width, lead, area)
    BY <1>5, <2>1
  <2>3. /\ SameUpTo(Wanted(found, length), area, length - 1)
        /\ lead <= 8 * (width \div 8 - length) => SameUpTo(Wanted(found, length), area, length)
    BY <1>2, <2>2, FoundInPacket
  <2>4. /\ SameUpTo(InBuffer(taken, part), area, length - 1)
        /\ fault = "none" => SameUpTo(InBuffer(taken, part), area, length)
    BY <1>5, <2>1, <2>3
  <2> QED BY <2>4 DEF SameUpTo
<1>7. ASSUME fault = "none" PROVE taken.found /\ InBuffer(taken, part) = area
  <2>1. /\ Places(packet, sync) # {}
        /\ Fits(packet, First(Places(packet, sync)), length)
    BY <1>2, <1>5, <1>7, HeldInPacket
  <2>2. taken.found
    BY <1>1, <1>4, <2>1 DEF Holds
  <2>3. \A i \in 1 .. length : InBuffer(taken, part)[i] = area[i]
    BY <1>6, <1>7, <2>2
  <2>4. InBuffer(taken, part) \in Seq(Byte) /\ Len(InBuffer(taken, part)) = length
    BY <1>1, <1>3, <1>4, BufferIs
  <2>5. InBuffer(taken, part) = area
    BY <1>2, <2>3, <2>4, SeqEqual
  <2> QED BY <2>2, <2>5
<1> QED BY <1>1, <1>6, <1>7

\* What readers take of a buffer is of its bytes and the controller.
LEMMA SameBuffer ==
    ASSUME sector' = sector, NEW part \in Part
    PROVE  /\ InBuffer(raw[part], part)' = InBuffer(raw'[part], part)
           /\ InBuffer(saved[part], part)' = InBuffer(saved'[part], part)
BY SameSector DEF InBuffer

\* Unharmed is of raw and the disk.
LEMMA SameUnharmed ==
    ASSUME sector' = sector, disk' = disk, raw' = raw, NEW part \in Part, Unharmed(part)
    PROVE  Unharmed(part)'
BY SameSector DEF Unharmed, InBuffer

\* read_track_sg takes the areas out of the packets.
LEMMA ReadTrackSgOwn == Inv /\ OwnInv /\ ReadTrackSg => OwnInv'
<1> SUFFICES ASSUME Inv, OwnInv, ReadTrackSg PROVE OwnInv'
  OBVIOUS
<1>1. /\ stage = "delivered" /\ stage' = "taken" /\ raw' = BothTaken(packets, raw)
      /\ sector' = sector /\ disk' = disk /\ fault' = fault /\ at' = at /\ processed' = processed
  BY DEF ReadTrackSg
<1>2. OwnSector /\ ~raw["data"].found
  BY <1>1 DEF OwnInv, Inv, Part
<1>3. PICK address : address = Taken("address", packets["address"], raw["address"])
  OBVIOUS
<1>4. PICK data : data = Taken("data", packets["data"], raw["data"])
  OBVIOUS
<1>5. raw' = [address |-> address, data |-> IF address.found THEN data ELSE raw["data"]]
  BY <1>1, <1>3, <1>4 DEF BothTaken
<1>6. ASSUME fault # "damage"
      PROVE  /\ address.found => \A i \in 1 .. LengthOf("address") - 1 : InBuffer(address, "address")[i] = disk["address"][i]
             /\ data.found => \A i \in 1 .. LengthOf("data") - 1 : InBuffer(data, "data")[i] = disk["data"][i]
             /\ fault = "none" => /\ address.found /\ InBuffer(address, "address") = disk["address"]
                                  /\ data.found /\ InBuffer(data, "data") = disk["data"]
  <2>1. \A part \in Part : Delivered(part)
    BY <1>1, <1>6 DEF OwnInv
  <2>2. Delivered("address") /\ Delivered("data") /\ "address" \in Part /\ "data" \in Part
    BY <2>1 DEF Part
  <2>3. /\ address.found => \A i \in 1 .. LengthOf("address") - 1 : InBuffer(address, "address")[i] = disk["address"][i]
        /\ fault = "none" => address.found /\ InBuffer(address, "address") = disk["address"]
    BY <1>1, <1>2, <1>3, <2>2, TakenOwn
  <2>4. /\ data.found => \A i \in 1 .. LengthOf("data") - 1 : InBuffer(data, "data")[i] = disk["data"][i]
        /\ fault = "none" => data.found /\ InBuffer(data, "data") = disk["data"]
    BY <1>1, <1>2, <1>4, <2>2, TakenOwn
  <2> QED BY <2>3, <2>4
<1>7. ASSUME fault' # "damage", raw'["data"].found
      PROVE  raw'["address"].found /\ \A part \in Part : Unharmed(part)'
  <2>1. address.found /\ raw' = [address |-> address, data |-> data]
    BY <1>2, <1>5, <1>7
  <2>2. data.found
    BY <1>7, <2>1
  <2>3. LengthOf("address")' = LengthOf("address") /\ LengthOf("data")' = LengthOf("data")
    BY <1>1, SameSector DEF Part
  <2>4. Unharmed("address")'
    <3>1. InBuffer(raw["address"], "address")' = InBuffer(address, "address")
      BY <1>1, <2>1, SameBuffer DEF Part
    <3> QED BY <1>1, <1>6, <1>7, <2>1, <2>3, <3>1 DEF Unharmed
  <2>5. Unharmed("data")'
    <3>1. InBuffer(raw["data"], "data")' = InBuffer(data, "data")
      BY <1>1, <2>1, SameBuffer DEF Part
    <3> QED BY <1>1, <1>6, <1>7, <2>1, <2>2, <2>3, <3>1 DEF Unharmed
  <2> QED BY <2>1, <2>4, <2>5 DEF Part
<1>8. ASSUME fault' = "none", NEW part \in Part PROVE raw'[part].found /\ InBuffer(raw'[part], part) = disk'[part]
  <2>1. /\ address.found /\ InBuffer(address, "address") = disk["address"]
        /\ data.found /\ InBuffer(data, "data") = disk["data"]
    BY <1>1, <1>6, <1>8
  <2> QED BY <1>1, <1>5, <2>1 DEF Part
<1>9. OwnSector'
  BY <1>1, <1>2 DEF OwnSector
<1>10. DOMAIN processed' = Fields /\ ~processed'.marked_bad /\ ~processed'.marked_spare
  BY <1>1 DEF OwnInv
<1>11. WrittenIsOwn'
  BY <1>1 DEF WrittenIsOwn, Decoded
<1>12. \A part \in Part : InBuffer(raw[part], part)' = InBuffer(raw'[part], part)
  BY <1>1, SameBuffer
<1> QED BY <1>1, <1>7, <1>8, <1>9, <1>10, <1>11, <1>12 DEF OwnInv

\* A sector without areas is not decoded.
LEMMA SkipOwn == Inv /\ OwnInv /\ Skip => OwnInv'
<1> SUFFICES ASSUME Inv, OwnInv, Skip PROVE OwnInv'
  OBVIOUS
<1>1. /\ stage' = "skipped" /\ sector' = sector /\ disk' = disk /\ fault' = fault /\ at' = at
      /\ processed' = processed
  BY DEF Skip
<1>2. OwnSector'
  BY <1>1 DEF OwnInv, OwnSector
<1>3. WrittenIsOwn'
  BY <1>1 DEF WrittenIsOwn, Decoded
<1> QED BY <1>1, <1>2, <1>3 DEF OwnInv

\* process_sector decodes areas that are the sector's but for their last bytes.
LEMMA ProcessSectorOwn == Inv /\ OwnInv /\ ProcessSector => OwnInv'
<1> SUFFICES ASSUME Inv, OwnInv, ProcessSector PROVE OwnInv'
  OBVIOUS
<1>1. /\ stage \in {"taken", "reread"} /\ stage' = (IF stage = "taken" THEN "processed" ELSE "done")
      /\ raw' = raw /\ sector' = sector /\ disk' = disk /\ fault' = fault /\ at' = at
      /\ processed' = Process(sector.controller, at, InBuffer(raw["address"], "address"),
                              InBuffer(raw["data"], "data"), processed)
  BY DEF ProcessSector
<1>2. OwnSector /\ DOMAIN processed = Fields
  BY DEF OwnInv
<1>3. PICK k \in Controllers, p \in Positions : k = sector.controller /\ p = sector.position
  BY DEF Inv
<1>4. k \in Controller
  BY PathAssumption
<1>5. OwnSector'
  BY <1>1, <1>2 DEF OwnSector
<1>6. DOMAIN processed' = Fields
  BY <1>1, <1>2, <1>3, <1>4, ProcessFields
<1>7. ASSUME stage' = "processed", fault' # "damage", raw'["data"].found
      PROVE  raw'["address"].found /\ \A part \in Part : Unharmed(part)'
  <2>1. raw["address"].found /\ \A part \in Part : Unharmed(part)
    BY <1>1, <1>7 DEF OwnInv
  <2> QED BY <1>1, <2>1, SameUnharmed
<1>8. ASSUME fault' # "damage", Written', raw'["data"].found
      PROVE  /\ sector'.kind = "good"
             /\ processed'.lba = BlockNumber(sector'.controller, sector'.position)
             /\ processed'.data = SubSeq(disk'["data"], controllers[sector'.controller].dataAt + 1,
                                         controllers[sector'.controller].dataAt + SectorSize)
  <2>1. \A part \in Part : Unharmed(part)
    BY <1>1, <1>8 DEF OwnInv
  <2>2. PICK kind \in Kinds(k, p) : kind = sector.kind /\ disk = Formatted(k, p, kind)
    BY <1>2, <1>3 DEF OwnSector
  <2>3. PICK areas : areas = [part \in Part |-> InBuffer(raw[part], part)]
    OBVIOUS
  <2>4. ASSUME NEW part \in Part
        PROVE  /\ areas[part] \in Seq(Byte) /\ Len(areas[part]) = LengthFor(k, part)
               /\ \A i \in 1 .. LengthFor(k, part) - 1 : areas[part][i] = Formatted(k, p, kind)[part][i]
    <3>1. raw[part] \in AreaType /\ EndsIn(raw[part], part)
      BY DEF Inv, AreasAre
    <3>2. LengthOf(part) = LengthFor(k, part)
      BY <1>2, <1>3, OwnFacts
    <3>3. \A i \in 1 .. LengthOf(part) - 1 : InBuffer(raw[part], part)[i] = disk[part][i]
      BY <2>1 DEF Unharmed
    <3>4. InBuffer(raw[part], part) \in Seq(Byte) /\ Len(InBuffer(raw[part], part)) = LengthOf(part)
      BY <3>1, BufferIs DEF Inv
    <3> QED BY <2>2, <2>3, <3>2, <3>3, <3>4
  <2>5. NearlyOwn(areas, k, p, kind)
    BY <2>4 DEF NearlyOwn
  <2>6. PICK r : r = processed'
    OBVIOUS
  <2>7. r = Process(k, at, areas["address"], areas["data"], processed)
    BY <1>1, <1>3, <2>3, <2>6 DEF Part
  <2>8. r.status = 0 /\ ~r.marked_bad /\ ~r.marked_spare
    BY <1>8, <2>6 DEF Written
  <2>9. /\ kind = "good" /\ r.lba = BlockNumber(k, p)
        /\ r.data = SubSeq(Formatted(k, p, kind)["data"], controllers[k].dataAt + 1,
                           controllers[k].dataAt + SectorSize)
    BY <1>2, <2>7, <2>8, <2>5, BlockIsOwn
  <2> QED BY <1>1, <1>3, <2>2, <2>6, <2>9
<1>9. fault' # "damage" => WrittenIsOwn'
  BY <1>8 DEF WrittenIsOwn, Format
<1> QED BY <1>1, <1>5, <1>6, <1>7, <1>9 DEF OwnInv

\* Writing the slot leaves the areas alone.
LEMMA WriteSlotOwn == Inv /\ OwnInv /\ WriteSlot => OwnInv'
<1> SUFFICES ASSUME Inv, OwnInv, WriteSlot PROVE OwnInv'
  OBVIOUS
<1>1. /\ stage = "processed" /\ stage' = "saved" /\ raw' = raw /\ sector' = sector /\ disk' = disk
      /\ fault' = fault /\ at' = at /\ processed' = processed
  BY DEF WriteSlot
<1>2. OwnSector'
  BY <1>1 DEF OwnInv, OwnSector
<1>3. ASSUME fault' # "damage", raw'["data"].found
      PROVE  raw'["address"].found /\ \A part \in Part : Unharmed(part)'
  <2>1. raw["address"].found /\ \A part \in Part : Unharmed(part)
    BY <1>1, <1>3 DEF OwnInv
  <2> QED BY <1>1, <2>1, SameUnharmed
<1>4. WrittenIsOwn'
  BY <1>1 DEF WrittenIsOwn, Decoded
<1> QED BY <1>1, <1>2, <1>3, <1>4 DEF OwnInv

\* What comes out of the slot is what went in; the ULTRASTOR's data does not come out.
LEMMA ReadSlotOwn == Inv /\ OwnInv /\ ReadSlot => OwnInv'
<1> SUFFICES ASSUME Inv, OwnInv, ReadSlot PROVE OwnInv'
  OBVIOUS
<1>1. PICK windows : windows = [part \in Part |-> SlotWindow(part)]
  OBVIOUS
<1>2. /\ stage = "saved" /\ stage' = "reread" /\ raw' = BothTaken(windows, Empty)
      /\ sector' = sector /\ disk' = disk /\ fault' = fault /\ at' = at /\ processed' = processed
  BY <1>1 DEF ReadSlot
<1>3. sector.controller \in Controllers /\ slot \in Seq(Byte) /\ Len(slot) = SlotBytes
  BY <1>2 DEF Inv, SlotIs
<1>4. "address" \in Part /\ "data" \in Part
  BY DEF Part
<1>5. PICK address, data : /\ address = Taken("address", SlotWindow("address"), Empty["address"])
                           /\ data = Taken("data", SlotWindow("data"), Empty["data"])
  OBVIOUS
<1>6. raw' = [address |-> address, data |-> IF address.found THEN data ELSE Empty["data"]]
  BY <1>1, <1>2, <1>4, <1>5 DEF BothTaken
<1>7. ~Empty["data"].found
  BY <1>4 DEF Empty
<1>8. ASSUME NEW part \in Part PROVE Empty[part] \in AreaType /\ EndsIn(Empty[part], part)
  BY <1>3, EmptyIs DEF AreasAre
<1>9. ASSUME fault' # "damage", raw'["data"].found
      PROVE  raw'["address"].found /\ \A part \in Part : Unharmed(part)'
  <2>1. address.found /\ data.found /\ raw' = [address |-> address, data |-> data]
    BY <1>6, <1>7, <1>9
  <2>2. sector.controller # "ULTRASTOR_12F"
    <3>1. SUFFICES ASSUME sector.controller = "ULTRASTOR_12F" PROVE FALSE
      OBVIOUS
    <3>2. PICK window, length : window = SlotWindow("data") /\ length = LengthOf("data")
      OBVIOUS
    <3>3. window \in Seq(Byte) /\ length \in Nat /\ Len(window) \in Nat /\ Len(window) < length
      BY <1>2, <1>3, <1>4, <3>1, <3>2, SlotWindowIs, PartIs, UltrastorCut
    <3>4. Holds("data", window)
      BY <1>3, <1>4, <1>5, <1>8, <2>1, <3>2, <3>3, TakenIs
    <3>5. PICK place : place = First(Places(window, SyncOf("data")))
      OBVIOUS
    <3>6. Places(window, SyncOf("data")) \in SUBSET Nat
      <4>1. \A p \in 0 .. (Len(window) - 1) * ByteBits : p \in Nat
        BY <3>3, Eight
      <4> QED BY <4>1 DEF Places
    <3>7. place \in Nat
      BY <3>4, <3>5, <3>6, FirstIs DEF Holds
    <3>8. place \div 8 + (IF place % 8 = 0 THEN 0 ELSE 1) + length <= Len(window)
      BY <3>2, <3>4, <3>5, Eight DEF Holds, Fits, Offset, Spare, BitOf
    <3> QED BY <3>3, <3>7, <3>8
  <2>3. /\ address.found = raw["address"].found
        /\ raw["address"].found => InBuffer(address, "address") = InBuffer(raw["address"], "address")
    BY <1>2, <1>4, <1>5, <1>8, <2>2, RoundTrip
  <2>4. /\ data.found = raw["data"].found
        /\ raw["data"].found => InBuffer(data, "data") = InBuffer(raw["data"], "data")
    BY <1>2, <1>4, <1>5, <1>8, <2>2, RoundTrip
  <2>5. \A part \in Part : Unharmed(part)
    BY <1>2, <1>9, <2>1, <2>4 DEF OwnInv
  <2>6. \A part \in Part : InBuffer(raw'[part], part) = InBuffer(raw[part], part)
    BY <2>1, <2>3, <2>4 DEF Part
  <2>7. \A part \in Part : Unharmed(part)'
    BY <1>2, <2>5, <2>6, SameSector DEF Unharmed, InBuffer
  <2> QED BY <2>1, <2>7
<1>10. OwnSector'
  BY <1>2 DEF OwnInv, OwnSector
<1>11. WrittenIsOwn'
  BY <1>2 DEF WrittenIsOwn, Decoded
<1> QED BY <1>2, <1>9, <1>10, <1>11 DEF OwnInv

\* Nothing happens.
LEMMA OwnStays == Inv /\ OwnInv /\ UNCHANGED vars => OwnInv'
<1> SUFFICES ASSUME Inv, OwnInv, UNCHANGED vars PROVE OwnInv'
  OBVIOUS
<1>1. /\ stage' = stage /\ sector' = sector /\ disk' = disk /\ fault' = fault /\ at' = at
      /\ packets' = packets /\ raw' = raw /\ processed' = processed
  BY DEF vars
<1>2. OwnSector'
  BY <1>1 DEF OwnInv, OwnSector
<1>3. \A part \in Part : Delivered(part) => Delivered(part)'
  BY <1>1, SameSector DEF Delivered, LastLead
<1>4. \A part \in Part : Unharmed(part) => Unharmed(part)'
  BY <1>1, SameUnharmed
<1>5. WrittenIsOwn => WrittenIsOwn'
  BY <1>1 DEF WrittenIsOwn, Decoded, Written, Format
<1>6. \A part \in Part : InBuffer(raw[part], part)' = InBuffer(raw[part], part)
  BY <1>1, SameBuffer
<1> QED BY <1>1, <1>2, <1>3, <1>4, <1>5, <1>6 DEF OwnInv

\* Every step keeps the invariant.
LEMMA OwnNext == Inv /\ OwnInv /\ [Next]_vars => OwnInv'
BY PassOwn, ReadTrackSgOwn, SkipOwn, ProcessSectorOwn, WriteSlotOwn, ReadSlotOwn, OwnStays DEF Next

\* A good sector that passes well is decoded at once.
LEMMA ExpectedNext ==
    ASSUME SevenHeads
    PROVE  Inv /\ OwnInv /\ ExpectedOnce /\ [Next]_vars => ExpectedOnce'
<1> SUFFICES ASSUME Inv, OwnInv, ExpectedOnce, [Next]_vars, stage' = "processed", fault' = "none",
                    sector'.kind = "good"
             PROVE  /\ Written'
                    /\ processed'.lba \in ExpectedLbas(sector'.controller, at'[1], at'[2])
                    /\ \A track \in NearbyTracks(sector'.position) :
                          processed'.lba \notin ExpectedLbas(sector'.controller, track[1], track[2])
  BY DEF ExpectedOnce
<1>1. CASE ProcessSector
  <2>1. /\ stage = "taken" /\ sector' = sector /\ fault' = fault /\ at' = at
        /\ processed' = Process(sector.controller, at, InBuffer(raw["address"], "address"),
                                InBuffer(raw["data"], "data"), processed)
    BY <1>1 DEF ProcessSector
  <2>2. PICK k \in Controllers, p \in Positions : k = sector.controller /\ p = sector.position
    BY DEF Inv
  <2>3. k \in Controller
    BY PathAssumption
  <2>4. "good" \in Kinds(k, p) /\ p[1] < DataCylinders(k) /\ disk = Formatted(k, p, "good")
        /\ at = SubSeq(p, 1, 2)
    BY <2>1, <2>2 DEF OwnInv, OwnSector
  <2>5. PICK address, data, a :
            /\ address = Formatted(k, p, "good")["address"] /\ data = Formatted(k, p, "good")["data"]
            /\ a = Header(address)
    OBVIOUS
  <2>6. InBuffer(raw["address"], "address") = address /\ InBuffer(raw["data"], "data") = data
    BY <2>1, <2>4, <2>5 DEF OwnInv, Part
  <2>7. Passes(address, controllers[k].addrCheck) /\ Passes(data, controllers[k].dataCheck)
    <3>1. AreaHas(address, k, "address") /\ AreaHas(data, k, "data")
      BY <2>5, FormattedHas DEF Part
    <3> QED BY <3>1 DEF AreaHas, CheckFor
  <2>8. ReadsAs(k, p, a)
    BY <2>5, GoodHeader
  <2>9. PICK c \in Nat, h \in Nat, s \in Nat : p = <<c, h, s>>
    BY PositionIs, PositionIsTuple
  <2>10. SubSeq(p, 1, 2) = <<c, h>>
    BY <2>9, FirstTwo
  <2>11. OnTrack(k, a, at)
    <3>1. k \in {"IBM_RT_ENHANCED", "ULTRASTOR_12F"} => Chs(k, a) = p
      BY <2>8 DEF ReadsAs
    <3> QED BY <2>4, <3>1 DEF OnTrack
  <2>12. PICK r : r = processed'
    OBVIOUS
  <2>13. r = Process(k, at, address, data, processed)
    BY <2>1, <2>2, <2>6, <2>12
  <2>14. DOMAIN processed = Fields /\ ~processed.marked_bad /\ ~processed.marked_spare
    BY <2>1 DEF OwnInv
  <2>15. ~MarksSpare(k, a) /\ ~MarksBad(k, a) /\ HasCylinder(k, a) /\ Lba(k, a) = BlockNumber(k, p)
    BY <2>8 DEF ReadsAs
  <2>16. r.status = 0 /\ ~r.marked_bad /\ ~r.marked_spare /\ r.lba = Lba(k, a)
    BY <2>3, <2>5, <2>7, <2>11, <2>13, <2>14, <2>15, GoodIsWritten
  <2>17. /\ BlockNumber(k, p) \in ExpectedLbas(k, p[1], p[2])
         /\ \A track \in NearbyTracks(p) : BlockNumber(k, p) \notin ExpectedLbas(k, track[1], track[2])
    BY <2>4, ExpectedIs
  <2>18. at[1] = p[1] /\ at[2] = p[2]
    BY <2>4, <2>9, <2>10
  <2>19. Written'
    BY <2>12, <2>16 DEF Written
  <2> QED BY <2>1, <2>2, <2>12, <2>15, <2>16, <2>17, <2>18, <2>19
<1>2. CASE UNCHANGED vars
  <2>1. /\ stage' = stage /\ fault' = fault /\ sector' = sector /\ at' = at /\ processed' = processed
    BY <1>2 DEF vars
  <2> QED BY <2>1 DEF ExpectedOnce, Written
<1>3. CASE Pass \/ ReadTrackSg \/ Skip \/ WriteSlot \/ ReadSlot
  BY <1>3 DEF Pass, ReadTrackSg, Skip, WriteSlot, ReadSlot
<1> QED BY <1>1, <1>2, <1>3 DEF Next

-----------------------------------------------------------------------------
(* The theorems.                                                            *)

\* A stutter keeps the invariant.
LEMMA InvStays == Inv /\ UNCHANGED vars => Inv'
<1> SUFFICES ASSUME Inv, UNCHANGED vars PROVE Inv'
  OBVIOUS
<1>1. /\ stage' = stage /\ sector' = sector /\ disk' = disk /\ fault' = fault
      /\ packets' = packets /\ raw' = raw /\ saved' = saved /\ processed' = processed
      /\ slot' = slot
  BY DEF vars
<1>2. PacketsAre'
  BY <1>1, SameSector DEF Inv, PacketsAre
<1>3. AreasAre(raw)' /\ AreasAre(saved)'
  BY <1>1, SameSector DEF Inv, AreasAre, EndsIn
<1>4. (\A part \in Part : InPlace(part)) => (\A part \in Part : InPlace(part)')
  BY <1>1, SameSector DEF InPlace, InBuffer
<1>5. SlotIs => SlotIs'
  <2>1. \A part \in Part : SlotPlace(part)' = SlotPlace(part) /\ LengthOf(part)' = LengthOf(part)
    BY <1>1, SameSector DEF SlotPlace
  <2>2. ASSUME NEW part \in Part, NEW i PROVE PutAt(part, i)' <=> PutAt(part, i)
    BY <1>1, <2>1 DEF PutAt
  <2>3. "address" \in Part /\ "data" \in Part
    BY DEF Part
  <2> QED BY <1>1, <2>1, <2>2, <2>3 DEF SlotIs, InBuffer
<1> QED BY <1>1, <1>2, <1>3, <1>4, <1>5 DEF Inv
LEMMA InvNext == Inv /\ [Next]_vars => Inv'
BY PassKeeps, ReadTrackSgKeeps, SkipKeeps, ProcessSectorKeeps, WriteSlotKeeps, ReadSlotKeeps,
   InvStays DEF Next

\* The inductive invariant holds: the types of all that is handed on, packets as long
\* as their windows, areas in their places and, once the slot is written, its content.
THEOREM InvAlways == Spec => []Inv
<1>1. Init => Inv
  BY InvInit
<1>2. Inv /\ [Next]_vars => Inv'
  BY InvNext
<1> QED BY <1>1, <1>2, PTL DEF Spec

\* The types of everything that the steps of the program hand on: packets of whole
\* bytes, areas of bytes, a status that a decoder returns and slots of SlotBytes.
THEOREM TypeCorrect == Spec => []TypeOK
<1>1. Inv => TypeOK
  <2> SUFFICES ASSUME Inv PROVE TypeOK
    OBVIOUS
  <2>1. ASSUME NEW part \in Part
        PROVE  /\ \A n \in DOMAIN packets[part] : packets[part][n] \in Byte
               /\ \A areas \in {raw, saved} :
                     \A n \in DOMAIN areas[part].bytes : areas[part].bytes[n] \in Byte
    <3>1. packets[part] \in Seq(Byte)
      BY DEF Inv, PacketsAre
    <3>2. \A n \in DOMAIN packets[part] : packets[part][n] \in Byte
      BY <3>1, LenProperties, ElementOfSeq
    <3>3. ASSUME NEW areas \in {raw, saved}
          PROVE  \A n \in DOMAIN areas[part].bytes : areas[part].bytes[n] \in Byte
      <4>1. areas[part].bytes \in Seq(Byte)
        BY DEF Inv, AreasAre, AreaType
      <4> QED BY <4>1, LenProperties, ElementOfSeq
    <3> QED BY <3>2, <3>3
  <2> QED BY <2>1 DEF Inv, TypeOK
<1> QED BY <1>1, InvAlways, PTL

\* copy_buff_start_at writes behind the memory that main allocates for an area exactly if
\* the area began between two bytes, and then one byte, in every format.
THEOREM OverrunIsOneByte == Spec => []OneBytePast
<1>1. Inv => OneBytePast
  BY DEF Inv, AreasAre, OneBytePast
<1> QED BY <1>1, InvAlways, PTL

\* Each check that crc.c computes for the five formats, on whatever bytes were read, is
\* the remainder of the polynomial division that the controllers' hardware does.
THEOREM RemaindersAreDivisions == Spec => []CrcIsDivision
<1>1. Inv => CrcIsDivision
  <2> SUFFICES ASSUME Inv, stage = "taken", NEW part \in Part
               PROVE  LET check == CheckOf(part)
                          area == InBuffer(raw[part], part)
                          covered == SubSeq(area, check.skip + 1, LengthOf(part))
                      IN  Remainder(area, check)
                              = Division(Bits(covered), check.init, PowersOf[check.poly])
    BY DEF CrcIsDivision
  <2>1. PICK check, bytes : check = CheckOf(part) /\ bytes = InBuffer(raw[part], part)
    OBVIOUS
  <2>2. bytes \in Seq(Byte) /\ Len(bytes) = LengthOf(part) /\ sector.controller \in Controllers
    BY <2>1, BufferIs DEF Inv, AreasAre
  <2>3. /\ CheckIs(check, LengthOf(part)) /\ LengthOf(part) \in Nat /\ LengthOf(part) > 0
    BY <2>1, <2>2, PartIs
  <2>4. PICK n \in {16, 32, 48, 56} :
            /\ check.poly \in BitWord(n) /\ check.init \in BitWord(n)
            /\ 8 * LengthOf(part) + n <= 8 * (SectorSize + 16) + 1
    BY <2>3 DEF CheckIs
  <2>5. PICK upTo \in Nat : upTo = 8 * (SectorSize + 16)
    BY FormatAssumption
  <2>6. check.skip \in 0 .. 1 /\ check.skip <= Len(bytes)
    BY <2>2, <2>3 DEF CheckIs
  <2>7. Remainder(bytes, check) = Division(Bits(SubSeq(bytes, check.skip + 1, Len(bytes))),
                                           check.init, Powers(check.poly, upTo))
    BY <2>2, <2>4, <2>5, <2>6, RemainderIs
  <2>8. PowersOf[check.poly] = Powers(check.poly, upTo)
    <3>1. sector.controller \in DOMAIN controllers
      BY <2>2, PathAssumption DEF Controller
    <3>2. Format \in Range(controllers)
      BY <3>1 DEF Format, Range
    <3>3. check.poly \in Polynomials
      BY <2>1, <3>2 DEF CheckOf, Polynomials
    <3> QED BY <2>5, <3>3 DEF PowersOf
  <2> QED BY <2>1, <2>2, <2>7, <2>8
<1> QED BY <1>1, InvAlways, PTL

\* Areas that main.c writes to a slot and a later run reads back are the same areas,
\* and one that was not found is not found again, for every drive of 10 Mbit/s.
THEOREM SlotsHoldAreas == Spec => []SlotRoundTrip
<1>1. Init => SlotRoundTrip
  BY DEF Init, SlotRoundTrip
<1>2. Inv /\ SlotRoundTrip /\ [Next]_vars => SlotRoundTrip'
  <2> SUFFICES ASSUME Inv, SlotRoundTrip, [Next]_vars, stage' = "reread", WindowsHold',
                      NEW part \in Part
               PROVE  (/\ raw[part].found = saved[part].found
                       /\ raw[part].found => InBuffer(raw[part], part) = InBuffer(saved[part], part))'
    BY DEF SlotRoundTrip
  <2>1. CASE ReadSlot
    <3>1. PICK windows : windows = [other \in Part |-> SlotWindow(other)]
      OBVIOUS
    <3>2. /\ stage = "saved" /\ raw' = BothTaken(windows, Empty)
          /\ sector' = sector /\ saved' = saved /\ slot' = slot
      BY <2>1, <3>1 DEF ReadSlot
    <3>3. WindowsHold
      BY <3>2, SameSector DEF WindowsHold, SlotWindow
    <3>4. sector.controller # "ULTRASTOR_12F"
      BY <3>2, <3>3, NotUltrastor
    <3>5. AreasAre(Empty)
      BY EmptyIs DEF Inv
    <3>6. ASSUME NEW other \in Part
          PROVE  LET taken == Taken(other, windows[other], Empty[other]) IN
                 /\ taken.found = raw[other].found
                 /\ raw[other].found => InBuffer(taken, other) = InBuffer(raw[other], other)
      <4>1. PICK before : before = Empty[other]
        OBVIOUS
      <4>2. before \in AreaType /\ EndsIn(before, other)
        BY <3>5, <4>1 DEF AreasAre
      <4>3. windows[other] = SlotWindow(other)
        BY <3>1
      <4> QED BY <3>2, <3>4, <4>1, <4>2, <4>3, RoundTrip
    <3>7. raw["address"].found /\ saved = raw /\ "address" \in Part /\ "data" \in Part
      BY <3>2 DEF Inv, Part
    <3>8. PICK address, data :
              /\ address = Taken("address", windows["address"], Empty["address"])
              /\ data = Taken("data", windows["data"], Empty["data"])
      OBVIOUS
    <3>9. address.found /\ raw' = [address |-> address, data |-> data]
      <4>1. address.found
        BY <3>6, <3>7, <3>8
      <4> QED BY <3>2, <3>8, <4>1 DEF BothTaken
    <3>10. CASE part = "address"
      BY <3>2, <3>6, <3>7, <3>8, <3>9, <3>10, SameBuffer
    <3>11. CASE part = "data"
      BY <3>2, <3>6, <3>7, <3>8, <3>9, <3>11, SameBuffer
    <3> QED BY <3>10, <3>11 DEF Part
  <2>2. CASE UNCHANGED vars
    <3>1. /\ stage = "reread" /\ raw' = raw /\ saved' = saved /\ slot' = slot /\ sector' = sector
      BY <2>2 DEF vars
    <3>2. WindowsHold
      BY <3>1, SameSector DEF WindowsHold, SlotWindow
    <3> QED BY <3>1, <3>2, SameBuffer DEF SlotRoundTrip
  <2>3. CASE Pass \/ ReadTrackSg \/ Skip \/ ProcessSector \/ WriteSlot
    BY <2>3 DEF Pass, ReadTrackSg, Skip, ProcessSector, WriteSlot
  <2> QED BY <2>1, <2>2, <2>3 DEF Next
<1> QED BY <1>1, <1>2, InvAlways, PTL DEF Spec

\* The areas of raw are the sector's own but for a last byte that the end of the window
\* cut, from its passing under the head through read_track_sg and the emulation slot,
\* unless bits of it were damaged; and what process_sector makes of them is its own.
THEOREM OwnAlways == Spec => []OwnInv
<1>1. Init => OwnInv
  BY OwnInit
<1>2. Inv /\ OwnInv /\ [Next]_vars => OwnInv'
  BY OwnNext
<1> QED BY <1>1, <1>2, InvAlways, PTL DEF Spec

\* A block that main.c writes to the image, out of areas whose bits were not damaged, is
\* the sector's own in number and bytes, and the sector is one that holds a block: also
\* when the area came so late that the window cut it, when the drive stood on another
\* track, and when the areas were read back from an emulation file.
THEOREM BlocksAreOwn == Spec => [](fault # "damage" => WrittenIsOwn)
<1>1. OwnInv => (fault # "damage" => WrittenIsOwn)
  BY DEF OwnInv
<1> QED BY <1>1, OwnAlways, PTL

\* Every good sector that passes well is decoded the first time, and its number is on the
\* list that get_expected_lbas makes for its track and on no neighbour's: read_track's
\* retries end, and no block is taken for another track's.  A PS/2 drive must have 7
\* heads, which ibm_ps2.c's lists count on.
THEOREM GoodSectorsAreExpected == SevenHeads => (Spec => []ExpectedOnce)
<1> SUFFICES ASSUME SevenHeads PROVE Spec => []ExpectedOnce
  OBVIOUS
<1>1. Init => ExpectedOnce
  BY DEF Init, ExpectedOnce
<1>2. Inv /\ OwnInv /\ ExpectedOnce /\ [Next]_vars => ExpectedOnce'
  BY ExpectedNext
<1> QED BY <1>1, <1>2, InvAlways, OwnAlways, PTL DEF Spec
=============================================================================
