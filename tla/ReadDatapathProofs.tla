-------------------------- MODULE ReadDatapathProofs --------------------------
(***************************************************************************)
(* Proofs about ReadDatapath: as long as no overflow is flagged, the       *)
(* stream is what passed under the gate.                                   *)
(*                                                                         *)
(*   TypeInv    the types, the history's included, and GateInv: no bit is  *)
(*              in hand once the gate has been closed for two clocks;      *)
(*   ShiftInv   the shift register holds the last bits that passed, of     *)
(*              this opening and of those before it;                       *)
(*   Piped      what is out of a packet of which these bytes are known:    *)
(*              all but the new byte and the one held back, which is       *)
(*              marked if it is the packet's last one;                     *)
(*   Phase      where the packet of the last opening is: being made        *)
(*              (Making), complete and on its way out (Ended), out (Idle), *)
(*              or the one before it still on its way out (Behind), which  *)
(*              MinGap >= 2 clocks and the first byte of the new opening   *)
(*              leave time enough for.                                     *)
(*                                                                         *)
(* A byte in hand is described by the bits of its opening, so a step that  *)
(* appends to the last opening must not change the packets of the earlier  *)
(* ones.  What the concatenation of all packets is, is shown along its     *)
(* prefixes, by the least one that fails.                                  *)
(***************************************************************************)
EXTENDS ReadDatapath, SequenceTheorems, WellFoundedInduction, TLAPS

-----------------------------------------------------------------------------
(* Numbers.                                                                 *)

LEMMA Larger == \A M, a \in Int : M > 0 /\ a >= 1 => M * a >= M
OBVIOUS

\* Division by a constant that is only known to be positive.
LEMMA DivUnique ==
    ASSUME NEW M \in Nat, M > 0, NEW q \in Int, NEW r \in 0 .. M - 1
    PROVE  (q * M + r) \div M = q /\ (q * M + r) % M = r
<1> DEFINE x == q * M + r
           d == x \div M
           m == x % M
<1>1. x \in Int /\ d \in Int /\ m \in 0 .. M - 1 /\ x = M * d + m
  OBVIOUS
<1> HIDE DEF d, m
<1>2. q * M = M * q
  OBVIOUS
<1>3. M * d + m = M * q + r
  BY <1>1, <1>2
<1>4. d = q
  <2>1. M * (d - q) = r - m
    BY <1>1, <1>3
  <2>2. CASE d - q >= 1
    <3>1. M * (d - q) >= M
      BY <1>1, <2>2, Larger
    <3> QED BY <1>1, <2>1, <3>1
  <2>3. CASE q - d >= 1
    <3>1. M * (q - d) >= M /\ M * (q - d) = m - r
      BY <1>1, <1>3, <2>3, Larger
    <3> QED BY <1>1, <3>1
  <2> QED BY <1>1, <2>2, <2>3
<1>5. m = r
  BY <1>1, <1>3, <1>4
<1> QED BY <1>4, <1>5 DEF d, m

LEMMA ModuloNext ==
    ASSUME NEW M \in Nat, M > 0, NEW p \in Nat
    PROVE  (p + 1) % M = IF p % M = M - 1 THEN 0 ELSE (p % M) + 1
<1> DEFINE q == p \div M
           r == p % M
<1>1. q \in Int /\ r \in 0 .. M - 1 /\ p = q * M + r
  OBVIOUS
<1> HIDE DEF q, r
<1>2. CASE r = M - 1
  <2>1. p + 1 = (q + 1) * M + 0 /\ q + 1 \in Int /\ 0 \in 0 .. M - 1
    BY <1>1, <1>2
  <2>2. ((q + 1) * M + 0) % M = 0
    BY <2>1, DivUnique
  <2> QED BY <1>2, <2>1, <2>2 DEF r
<1>3. CASE r # M - 1
  <2>1. p + 1 = q * M + (r + 1) /\ r + 1 \in 0 .. M - 1
    BY <1>1, <1>3
  <2>2. (q * M + (r + 1)) % M = r + 1
    BY <1>1, <2>1, DivUnique
  <2> QED BY <1>3, <2>1, <2>2 DEF r
<1> QED BY <1>2, <1>3
-----------------------------------------------------------------------------
(* Concatenations.                                                          *)

\* Induction, as a statement about a set: the least number outside of it.
LEMMA Induction ==
    ASSUME NEW G, 0 \in G, \A n \in Nat : n \in G => n + 1 \in G
    PROVE  Nat \subseteq G
<1> DEFINE R == {ss \in Nat \X Nat : ss[1] < ss[2]}
           T == Nat \ G
<1> SUFFICES ASSUME T # {} PROVE FALSE
  OBVIOUS
<1>1. IsWellFoundedOn(R, Nat)
  BY NatLessThanWellFounded DEF OpToRel
<1>2. PICK m \in T : \A k \in T : <<k, m>> \notin R
  <2> HIDE DEF R
  <2> QED BY <1>1, WFMin
<1>3. m # 0 /\ m - 1 \in Nat /\ m - 1 < m
  OBVIOUS
<1>4. m - 1 \in G
  BY <1>2, <1>3
<1>5. (m - 1) + 1 \in G
  BY <1>3, <1>4
<1> QED BY <1>5

\* f holds the concatenations of the first 1, 2, ... n sequences.
Running(seqs, f, n) == \A i \in 1 .. n : f[i] = IF i = 1 THEN seqs[i] ELSE f[i - 1] \o seqs[i]

LEMMA RunningExists ==
    ASSUME NEW S, NEW seqs \in Seq(Seq(S))
    PROVE  \E f \in [1 .. Len(seqs) -> Seq(S)] : Running(seqs, f, Len(seqs))
<1> DEFINE G == {n \in Nat : n <= Len(seqs) =>
                    \E f \in [1 .. n -> Seq(S)] : Running(seqs, f, n)}
<1>1. Len(seqs) \in Nat /\ \A i \in 1 .. Len(seqs) : seqs[i] \in Seq(S)
  BY LenProperties, ElementOfSeq
<1>2. 0 \in G
  <2> DEFINE f == [i \in 1 .. 0 |-> <<>>]
  <2>1. f \in [1 .. 0 -> Seq(S)] /\ Running(seqs, f, 0)
    BY DEF Running
  <2> QED BY <2>1
<1>3. ASSUME NEW n \in Nat, n \in G PROVE n + 1 \in G
  <2> SUFFICES ASSUME n + 1 <= Len(seqs)
               PROVE  \E f \in [1 .. n + 1 -> Seq(S)] : Running(seqs, f, n + 1)
    OBVIOUS
  <2>1. PICK g \in [1 .. n -> Seq(S)] : Running(seqs, g, n)
    BY <1>1, <1>3
  <2> DEFINE last == IF n = 0 THEN seqs[n + 1] ELSE g[n] \o seqs[n + 1]
             f == [i \in 1 .. n + 1 |-> IF i = n + 1 THEN last ELSE g[i]]
  <2>2. seqs[n + 1] \in Seq(S)
    BY <1>1
  <2>3. last \in Seq(S)
    <3>1. CASE n = 0
      BY <2>2, <3>1
    <3>2. CASE n # 0
      <4>1. g[n] \in Seq(S)
        BY <3>2
      <4> QED BY <2>2, <3>2, <4>1, ConcatProperties
    <3> QED BY <3>1, <3>2
  <2>4. f \in [1 .. n + 1 -> Seq(S)]
    BY <2>3
  <2>5. Running(seqs, f, n + 1)
    <3> SUFFICES ASSUME NEW i \in 1 .. n + 1
                 PROVE  f[i] = IF i = 1 THEN seqs[i] ELSE f[i - 1] \o seqs[i]
      BY DEF Running
    <3>1. CASE i = n + 1
      BY <3>1
    <3>2. CASE i # n + 1
      <4>1. i \in 1 .. n /\ f[i] = g[i] /\ (i # 1 => f[i - 1] = g[i - 1])
        BY <3>2
      <4>2. g[i] = IF i = 1 THEN seqs[i] ELSE g[i - 1] \o seqs[i]
        BY <2>1, <4>1 DEF Running
      <4> HIDE DEF f
      <4> QED BY <4>1, <4>2
    <3> QED BY <3>1, <3>2
  <2> QED BY <2>4, <2>5
<1>4. Nat \subseteq G
  <2> HIDE DEF G
  <2> QED BY <1>2, <1>3, Induction
<1> QED BY <1>1, <1>4

LEMMA RunningUnique ==
    ASSUME NEW seqs, NEW f, NEW g, NEW n \in Nat, Running(seqs, f, n), Running(seqs, g, n)
    PROVE  \A i \in 1 .. n : f[i] = g[i]
<1> DEFINE G == {i \in Nat : i \in 1 .. n => f[i] = g[i]}
<1>1. 0 \in G
  OBVIOUS
<1>2. ASSUME NEW i \in Nat, i \in G PROVE i + 1 \in G
  <2> SUFFICES ASSUME i + 1 \in 1 .. n PROVE f[i + 1] = g[i + 1]
    OBVIOUS
  <2>1. /\ f[i + 1] = IF i + 1 = 1 THEN seqs[i + 1] ELSE f[(i + 1) - 1] \o seqs[i + 1]
        /\ g[i + 1] = IF i + 1 = 1 THEN seqs[i + 1] ELSE g[(i + 1) - 1] \o seqs[i + 1]
    BY DEF Running
  <2>2. i + 1 # 1 => f[(i + 1) - 1] = g[(i + 1) - 1]
    BY <1>2
  <2> QED BY <2>1, <2>2
<1>3. Nat \subseteq G
  <2> HIDE DEF G
  <2> QED BY <1>1, <1>2, Induction
<1> QED BY <1>3

LEMMA FlattenRuns ==
    ASSUME NEW S, NEW seqs \in Seq(Seq(S)), seqs # <<>>
    PROVE  \E f \in [1 .. Len(seqs) -> Seq(S)] :
              Running(seqs, f, Len(seqs)) /\ FlattenSeq(seqs) = f[Len(seqs)]
<1> DEFINE flatten == CHOOSE f : f = [i \in 1 .. Len(seqs) |->
                          IF i = 1 THEN seqs[i] ELSE f[i - 1] \o seqs[i]]
<1>1. PICK g \in [1 .. Len(seqs) -> Seq(S)] : Running(seqs, g, Len(seqs))
  BY RunningExists
<1>2. g = [i \in 1 .. Len(seqs) |-> IF i = 1 THEN seqs[i] ELSE g[i - 1] \o seqs[i]]
  BY <1>1 DEF Running
<1>3. flatten = [i \in 1 .. Len(seqs) |->
                    IF i = 1 THEN seqs[i] ELSE flatten[i - 1] \o seqs[i]]
  BY <1>2
<1>4. Running(seqs, flatten, Len(seqs))
  <2> HIDE DEF flatten
  <2> QED BY <1>3 DEF Running
<1>5. Len(seqs) \in Nat /\ Len(seqs) # 0
  BY EmptySeq
<1>6. FlattenSeq(seqs) = flatten[Len(seqs)]
  BY <1>5 DEF FlattenSeq
<1>7. flatten[Len(seqs)] = g[Len(seqs)]
  <2> HIDE DEF flatten
  <2> QED BY <1>1, <1>4, <1>5, RunningUnique
<1> QED BY <1>1, <1>6, <1>7

LEMMA FlattenAppend ==
    ASSUME NEW S, NEW seqs \in Seq(Seq(S)), NEW last \in Seq(S)
    PROVE  /\ FlattenSeq(seqs) \in Seq(S)
           /\ FlattenSeq(Append(seqs, last)) = FlattenSeq(seqs) \o last
<1> DEFINE more == Append(seqs, last)
           n == Len(seqs)
<1>1. /\ more \in Seq(Seq(S)) /\ more # <<>> /\ n \in Nat /\ Len(more) = n + 1
      /\ \A i \in 1 .. n : more[i] = seqs[i]
      /\ more[n + 1] = last
  BY AppendProperties, EmptySeq, LenProperties
<1> HIDE DEF more, n
<1>2. PICK f \in [1 .. n + 1 -> Seq(S)] :
         Running(more, f, n + 1) /\ FlattenSeq(more) = f[n + 1]
  BY <1>1, FlattenRuns
<1>3. CASE seqs = <<>>
  <2>1. n = 0 /\ FlattenSeq(seqs) = <<>>
    BY <1>3, EmptySeq DEF FlattenSeq, n
  <2>2. f[n + 1] = last
    BY <1>1, <1>2, <2>1 DEF Running
  <2>3. <<>> \o last = last /\ <<>> \in Seq(S)
    BY ConcatEmptySeq, EmptySeq
  <2> QED BY <1>2, <2>1, <2>2, <2>3 DEF more
<1>4. CASE seqs # <<>>
  <2>1. PICK g \in [1 .. n -> Seq(S)] : Running(seqs, g, n) /\ FlattenSeq(seqs) = g[n]
    BY <1>4, FlattenRuns DEF n
  <2>2. n >= 1
    BY <1>1, <1>4, EmptySeq DEF n
  <2>3. Running(seqs, f, n)
    <3> SUFFICES ASSUME NEW i \in 1 .. n
                 PROVE  f[i] = IF i = 1 THEN seqs[i] ELSE f[i - 1] \o seqs[i]
      BY DEF Running
    <3>1. i \in 1 .. n + 1 /\ more[i] = seqs[i]
      BY <1>1
    <3> QED BY <1>2, <3>1 DEF Running
  <2>4. f[n] = g[n]
    <3>0. n \in Nat /\ Running(seqs, f, n) /\ Running(seqs, g, n)
      BY <1>1, <2>1, <2>3
    <3>1. \A i \in 1 .. n : f[i] = g[i]
      BY <3>0, RunningUnique
    <3> QED BY <1>1, <2>2, <3>1
  <2>5. f[n + 1] = f[(n + 1) - 1] \o last
    <3>1. n + 1 \in 1 .. n + 1 /\ n + 1 # 1
      BY <1>1, <2>2
    <3>2. f[n + 1] = IF n + 1 = 1 THEN more[n + 1] ELSE f[(n + 1) - 1] \o more[n + 1]
      <4>1. \A i \in 1 .. n + 1 : f[i] = IF i = 1 THEN more[i] ELSE f[i - 1] \o more[i]
        BY <1>2 DEF Running
      <4> QED BY <3>1, <4>1
    <3> QED BY <1>1, <3>1, <3>2
  <2>6. (n + 1) - 1 = n /\ g[n] \in Seq(S)
    BY <1>1, <2>1, <2>2
  <2> QED BY <1>2, <2>1, <2>4, <2>5, <2>6 DEF more
<1> QED BY <1>3, <1>4

LEMMA FlattenEmpty == FlattenSeq(<<>>) = <<>>
BY EmptySeq DEF FlattenSeq

-----------------------------------------------------------------------------
(* Types.                                                                   *)

LEMMA Sizes ==
    /\ ByteBits \in Nat /\ ByteBits > 1 /\ MaxBytes \in Nat /\ MaxBytes > 0
    /\ MinGap \in Nat /\ MinGap >= 2
    /\ None \notin Bit /\ None \notin StreamByte
    /\ {Openings, MaxBits} \subseteq Nat
BY ByteAssumption, DatapathAssumption, GapAssumption

\* ByteBits bits in sequence are a byte.
LEMMA ByteIsSeq ==
    ASSUME NEW byte
    PROVE  byte \in Byte <=> byte \in Seq(Bit) /\ Len(byte) = ByteBits
<1>1. ASSUME byte \in Byte PROVE byte \in Seq(Bit) /\ Len(byte) = ByteBits
  <2>1. byte \in Seq(Bit)
    BY <1>1, SeqDef, Sizes DEF Byte
  <2>2. DOMAIN byte = 1 .. ByteBits /\ DOMAIN byte = 1 .. Len(byte) /\ Len(byte) \in Nat
    BY <1>1, <2>1, LenProperties DEF Byte
  <2> QED BY <2>1, <2>2, Sizes
<1>2. ASSUME byte \in Seq(Bit), Len(byte) = ByteBits PROVE byte \in Byte
  BY <1>2, LenProperties DEF Byte
<1> QED BY <1>1, <1>2

HistoryOK ==
    /\ openings \in Seq(Seq(Bit)) /\ openings # <<>>
    /\ Len(openings[1]) = ByteBits
    /\ delivered \in Seq(StreamByte)

GateInv ==
    /\ esdi_read_gate => Len(openings) > 1 /\ closedFor = 0
    /\ closedFor >= 2 => new_bit = None
    /\ new_bit # None => Len(openings) > 1

TypeInv == TypeOK /\ HistoryOK /\ GateInv

\* What Recorded makes of the openings.
Grown(old, bit) == IF bit = None THEN old ELSE [old EXCEPT ![Len(old)] = Append(@, bit)]

GrewTo(old, bit, opens, new) ==
    /\ new \in Seq(Seq(Bit)) /\ new # <<>>
    /\ Len(old) \in Nat \ {0}
    /\ Len(new) = IF opens THEN Len(old) + 1 ELSE Len(old)
    /\ \A i \in 1 .. Len(old) - 1 : new[i] = old[i]
    /\ new[Len(old)] = IF bit = None THEN old[Len(old)] ELSE Append(old[Len(old)], bit)
    /\ opens => new[Len(old) + 1] = <<>>

LEMMA Growing ==
    ASSUME NEW old \in Seq(Seq(Bit)), old # <<>>, NEW bit \in Bit \cup {None}, NEW opens \in BOOLEAN,
           NEW new, new = IF opens THEN Append(Grown(old, bit), <<>>) ELSE Grown(old, bit)
    PROVE  GrewTo(old, bit, opens, new)
<1> DEFINE n == Len(old)
           grown == Grown(old, bit)
<1>1. n \in Nat \ {0} /\ \A i \in 1 .. n : old[i] \in Seq(Bit)
  BY EmptySeq, ElementOfSeq
<1>2. /\ grown \in Seq(Seq(Bit)) /\ Len(grown) = n
      /\ \A i \in 1 .. n - 1 : grown[i] = old[i]
      /\ grown[n] = IF bit = None THEN old[n] ELSE Append(old[n], bit)
  <2>1. CASE bit = None
    BY <1>1, <2>1 DEF Grown
  <2>2. CASE bit # None
    <3>1. bit \in Bit /\ n \in 1 .. n /\ old[n] \in Seq(Bit)
      BY <1>1, <2>2
    <3>2. Append(old[n], bit) \in Seq(Bit)
      BY <3>1, AppendProperties
    <3>3. grown = [old EXCEPT ![n] = Append(old[n], bit)]
      BY <2>2 DEF Grown
    <3>4. /\ grown \in Seq(Seq(Bit)) /\ Len(grown) = n
          /\ \A i \in 1 .. n : grown[i] = IF i = n THEN Append(old[n], bit) ELSE old[i]
      BY <3>1, <3>2, <3>3, ExceptSeq
    <3>5. n \in 1 .. n /\ \A i \in 1 .. n - 1 : i \in 1 .. n /\ i # n
      BY <1>1
    <3> HIDE DEF grown
    <3> QED BY <2>2, <3>4, <3>5
  <2> QED BY <2>1, <2>2
<1> HIDE DEF grown
<1>3. <<>> \in Seq(Bit)
  BY EmptySeq
<1>4. CASE opens
  <2>1. new = Append(grown, <<>>)
    BY <1>4 DEF grown
  <2>2. /\ new \in Seq(Seq(Bit)) /\ new # <<>> /\ Len(new) = n + 1
        /\ \A i \in 1 .. n : new[i] = grown[i]
        /\ new[n + 1] = <<>>
    <3>1. PICK empty \in Seq(Bit) : empty = <<>>
      BY <1>3
    <3>2. Append(grown, empty) \in Seq(Seq(Bit))
      BY <1>2, AppendProperties
    <3>3. Append(grown, empty) # <<>> /\ Len(Append(grown, empty)) = Len(grown) + 1
      BY <1>2, AppendProperties
    <3>4. \A i \in 1 .. Len(grown) : Append(grown, empty)[i] = grown[i]
      BY <1>2, AppendProperties
    <3>5. Append(grown, empty)[Len(grown) + 1] = empty
      BY <1>2, AppendProperties
    <3> QED BY <1>2, <2>1, <3>1, <3>2, <3>3, <3>4, <3>5
  <2> QED BY <1>1, <1>2, <1>4, <2>2 DEF GrewTo
<1>5. CASE ~opens
  <2>1. new = grown /\ new # <<>>
    <3>1. new = grown
      BY <1>5 DEF grown
    <3> QED BY <1>1, <1>2, <3>1, EmptySeq
  <2> QED BY <1>1, <1>2, <1>5, <2>1 DEF GrewTo
<1> QED BY <1>4, <1>5

Opens == esdi_read_gate' /\ ~esdi_read_gate

LEMMA Grew ==
    ASSUME TypeInv, Next
    PROVE  /\ GrewTo(openings, new_bit', Opens, openings')
           /\ new_bit' \in Bit \cup {None}
           /\ new_bit' # None => esdi_read_gate /\ Len(openings) > 1 /\ new_bit = None
<1>1. /\ new_bit' \in Bit \cup {None}
      /\ new_bit' # None => esdi_read_gate /\ new_bit = None
  BY DEF Next, Clock, Sample
<1>2. openings' = IF Opens THEN Append(Grown(openings, new_bit'), <<>>)
                  ELSE Grown(openings, new_bit')
  BY DEF Next, Clock, Recorded, Opens, Grown
<1>3. Opens \in BOOLEAN /\ openings \in Seq(Seq(Bit)) /\ openings # <<>>
  BY DEF TypeInv, HistoryOK, Opens, Next, Clock, Gate, TypeOK
<1>4. esdi_read_gate => Len(openings) > 1
  BY DEF TypeInv, GateInv
<1>5. PICK bit, opens, new : /\ bit \in Bit \cup {None} /\ opens \in BOOLEAN
                             /\ bit = new_bit' /\ opens = Opens /\ new = openings'
  BY <1>1, <1>3
<1>6. new = IF opens THEN Append(Grown(openings, bit), <<>>) ELSE Grown(openings, bit)
  <2> HIDE DEF Opens
  <2> QED BY <1>2, <1>5
<1>7. GrewTo(openings, bit, opens, new)
  BY <1>3, <1>5, <1>6, Growing
<1>8. GrewTo(openings, new_bit', Opens, openings')
  BY <1>5, <1>7
<1> QED BY <1>1, <1>4, <1>8

LEMMA ShiftedIsByte ==
    ASSUME NEW byte \in Byte, NEW bit \in Bit
    PROVE  Append(Tail(byte), bit) \in Byte
<1>1. byte \in Seq(Bit) /\ Len(byte) = ByteBits /\ byte # <<>>
  BY ByteIsSeq, Sizes, EmptySeq
<1>2. Tail(byte) \in Seq(Bit) /\ Len(Tail(byte)) = ByteBits - 1
  BY <1>1, HeadTailProperties
<1>3. Append(Tail(byte), bit) \in Seq(Bit) /\ Len(Append(Tail(byte), bit)) = (ByteBits - 1) + 1
  BY <1>2, AppendProperties
<1>4. Len(Append(Tail(byte), bit)) = ByteBits
  BY <1>3, Sizes
<1> QED BY <1>3, <1>4, ByteIsSeq

LEMMA InitTypes == Init => TypeInv
<1> SUFFICES ASSUME Init PROVE TypeInv
  OBVIOUS
<1>1. data_in \in Seq(Bit) /\ Len(data_in) = ByteBits
  BY ByteIsSeq DEF Init
<1>2. openings \in Seq(Seq(Bit)) /\ Len(openings) = 1 /\ openings[1] = data_in
  BY <1>1 DEF Init
<1>3. openings # <<>> /\ delivered \in Seq(StreamByte)
  BY <1>2, EmptySeq DEF Init
<1>4. TypeOK
  <2>1. bit_count \in 0 .. ByteBits - 1 /\ byte_count \in 0 .. MaxBytes - 1 /\ closedFor \in 0 .. MinGap
    BY Sizes DEF Init
  <2>2. /\ esdi_read_gate \in BOOLEAN /\ overflow \in BOOLEAN /\ new_bit \in Bit \cup {None}
        /\ {new_byte, pending, parallel} \subseteq StreamByte \cup {None} /\ data_in \in Byte
    BY DEF Init
  <2> QED BY <2>1, <2>2 DEF TypeOK
<1>5. GateInv
  BY DEF Init, GateInv
<1> QED BY <1>1, <1>2, <1>3, <1>4, <1>5 DEF TypeInv, HistoryOK

LEMMA StepTypes ==
    ASSUME TypeInv, Next
    PROVE  TypeInv'
<1> USE Sizes
<1>0. TypeOK /\ HistoryOK /\ GateInv
  BY DEF TypeInv
<1>1. PICK ready \in BOOLEAN : Clock(ready)
  BY DEF Next
<1>2. /\ GrewTo(openings, new_bit', Opens, openings')
      /\ new_bit' \in Bit \cup {None}
      /\ new_bit' # None => esdi_read_gate /\ Len(openings) > 1 /\ new_bit = None
  BY Grew
<1>3. new_bit # None => Shifted \in Byte
  BY <1>0, ShiftedIsByte DEF TypeOK, Shifted
<1>4. data_in' \in Byte
  BY <1>0, <1>1, <1>3 DEF Clock, Deserialise, TypeOK
<1>5. bit_count' \in 0 .. ByteBits - 1
  BY <1>0, <1>1 DEF Clock, Deserialise, TypeOK
<1>6. new_byte' \in StreamByte \cup {None}
  <2>1. \A byte \in Byte, last \in BOOLEAN : [data |-> byte, last |-> last] \in StreamByte
    BY DEF StreamByte
  <2> QED BY <1>0, <1>1, <1>3, <2>1 DEF Clock, Deserialise, TypeOK
<1>7. pending' \in StreamByte \cup {None}
  <2>1. \A byte \in StreamByte : [byte EXCEPT !.last = TRUE] \in StreamByte
    BY DEF StreamByte
  <2>2. (IF new_byte # None THEN new_byte ELSE IF Sends THEN None ELSE pending)
            \in StreamByte \cup {None}
    BY <1>0 DEF TypeOK
  <2> QED BY <1>1, <2>1, <2>2 DEF Clock, Hold
<1>8. byte_count' \in 0 .. MaxBytes - 1
  BY <1>0, <1>1 DEF Clock, Count, IsLast, TypeOK
<1>9. parallel' \in StreamByte \cup {None}
  <2>1. Sends => [data |-> pending.data, last |-> IsLast] \in StreamByte
    BY <1>0 DEF TypeOK, Sends, IsLast, StreamByte
  <2> QED BY <1>0, <1>1, <2>1 DEF Clock, Send, TypeOK
<1>10. overflow' \in BOOLEAN
  BY <1>0, <1>1 DEF Clock, Send, TypeOK
<1>11. esdi_read_gate' \in BOOLEAN /\ closedFor' \in 0 .. MinGap
  BY <1>0, <1>1 DEF Clock, Gate, TypeOK
<1>12. TypeOK'
  BY <1>2, <1>4, <1>5, <1>6, <1>7, <1>8, <1>9, <1>10, <1>11 DEF TypeOK
<1>13. delivered' \in Seq(StreamByte)
  BY <1>0, <1>1, AppendProperties DEF Clock, Recorded, HistoryOK, TypeOK
<1>14. Len(openings'[1]) = ByteBits
  <2>1. CASE Len(openings) = 1
    BY <1>0, <1>2, <2>1 DEF GrewTo, HistoryOK
  <2>2. CASE Len(openings) # 1
    <3>1. Len(openings) \in Nat \ {0} /\ \A i \in 1 .. Len(openings) - 1 : openings'[i] = openings[i]
      BY <1>2 DEF GrewTo
    <3>2. 1 \in 1 .. Len(openings) - 1
      <4>1. \A n \in Nat \ {0} : n # 1 => 1 \in 1 .. n - 1
        OBVIOUS
      <4>2. Len(openings) \in Nat \ {0}
        BY <3>1
      <4> QED BY <2>2, <4>1, <4>2
    <3> QED BY <1>0, <3>1, <3>2 DEF HistoryOK
  <2> QED BY <2>1, <2>2
<1>15. HistoryOK'
  BY <1>2, <1>13, <1>14 DEF GrewTo, HistoryOK
<1>16. GateInv'
  <2>1. esdi_read_gate' => closedFor' = 0
    BY <1>1 DEF Clock, Gate
  <2>2. closedFor' >= 2 => ~esdi_read_gate
    BY <1>0, <1>1 DEF Clock, Gate, GateInv
  <2>3. esdi_read_gate' => Len(openings') > 1
    <3>1. CASE Opens
      BY <1>2, <3>1 DEF GrewTo
    <3>2. CASE ~Opens
      BY <1>0, <1>2, <3>2 DEF GrewTo, Opens, GateInv
    <3> QED BY <3>1, <3>2
  <2>4. new_bit' # None => Len(openings') > 1
    BY <1>2 DEF GrewTo
  <2> QED BY <1>2, <2>1, <2>2, <2>3, <2>4 DEF GateInv
<1> QED BY <1>12, <1>15, <1>16 DEF TypeInv

LEMMA StutterTypes ==
    ASSUME TypeInv, UNCHANGED vars
    PROVE  TypeInv'
BY DEF TypeInv, TypeOK, HistoryOK, GateInv, vars, registers

LEMMA TypeInvariant == Spec => []TypeInv
<1>1. TypeInv /\ [Next]_vars => TypeInv'
  BY StepTypes, StutterTypes
<1> QED BY <1>1, InitTypes, PTL DEF Spec

\* The registers hold what they are declared for, of every width and packet size.
THEOREM TypeCorrect == Spec => []TypeOK
<1>1. TypeInv => TypeOK
  BY DEF TypeInv
<1> QED BY <1>1, TypeInvariant, PTL

-----------------------------------------------------------------------------
(* The bytes on their way through the pipeline.                             *)

\* The first bytes of a packet of which more are to come, and a whole packet.
Begun(bytes, sent) == [i \in 1 .. sent |-> [data |-> bytes[i], last |-> i % MaxBytes = 0]]
Pack(bytes) ==
    [i \in 1 .. Len(bytes) |->
        [data |-> bytes[i], last |-> i = Len(bytes) \/ i % MaxBytes = 0]]

One(register) == IF register = None THEN 0 ELSE 1

\* After base went out, these bytes of a packet: all but the one held back and the new
\* one are out.  If no more are to come (ended), the last one is marked.
Piped(base, bytes, ended, out, held, new, count) ==
    LET sent == (Len(bytes) - One(new)) - One(held) IN
    /\ sent \in Nat
    /\ Len(bytes) > 0 => held # None \/ new # None
    /\ count = sent % MaxBytes
    /\ out = base \o Begun(bytes, sent)
    /\ held # None => held.data = bytes[Len(bytes) - One(new)] /\ (held.last <=> ended /\ new = None)
    /\ new # None => new.data = bytes[Len(bytes)] /\ (new.last <=> ended)

LEMMA Typed ==
    /\ \A byte \in Byte, last \in BOOLEAN : [data |-> byte, last |-> last] \in StreamByte
    /\ \A byte \in StreamByte : byte.data \in Byte /\ byte.last \in BOOLEAN
BY DEF StreamByte

LEMMA ByteToConcat ==
    \A base \in Seq(StreamByte), begun \in Seq(StreamByte), byte \in StreamByte :
        Append(base \o begun, byte) = base \o Append(begun, byte)
<1> SUFFICES ASSUME NEW base \in Seq(StreamByte), NEW begun \in Seq(StreamByte), NEW byte \in StreamByte
             PROVE  Append(base \o begun, byte) = base \o Append(begun, byte)
  OBVIOUS
<1> QED OBVIOUS

LEMMA BegunIsSeq ==
    ASSUME NEW bytes \in Seq(Byte), NEW sent \in 0 .. Len(bytes)
    PROVE  Begun(bytes, sent) \in Seq(StreamByte) /\ Len(Begun(bytes, sent)) = sent
<1>1. sent \in Nat /\ \A i \in 1 .. sent : bytes[i] \in Byte
  BY ElementOfSeq, LenProperties
<1>2. \A i \in 1 .. sent : [data |-> bytes[i], last |-> i % MaxBytes = 0] \in StreamByte
  BY <1>1, Typed
<1>3. Begun(bytes, sent) \in [1 .. sent -> StreamByte]
  BY <1>2 DEF Begun
<1>4. Begun(bytes, sent) \in Seq(StreamByte)
  BY <1>1, <1>3, SeqDef
<1>5. DOMAIN Begun(bytes, sent) = 1 .. sent
  BY DEF Begun
<1> QED BY <1>1, <1>4, <1>5, LenProperties

LEMMA BegunNext ==
    ASSUME NEW bytes \in Seq(Byte), NEW sent \in Nat, sent < Len(bytes),
           NEW byte, byte = [data |-> bytes[sent + 1], last |-> (sent + 1) % MaxBytes = 0]
    PROVE  Begun(bytes, sent + 1) = Append(Begun(bytes, sent), byte)
<1>1. sent \in 0 .. Len(bytes) /\ sent + 1 \in 0 .. Len(bytes) /\ sent + 1 \in 1 .. Len(bytes)
  BY LenProperties
<1>2. byte \in StreamByte
  BY <1>1, Typed, ElementOfSeq
<1>3. /\ Begun(bytes, sent) \in Seq(StreamByte) /\ Len(Begun(bytes, sent)) = sent
      /\ Begun(bytes, sent + 1) \in Seq(StreamByte) /\ Len(Begun(bytes, sent + 1)) = sent + 1
  BY <1>1, BegunIsSeq
<1>4. /\ Append(Begun(bytes, sent), byte) \in Seq(StreamByte)
      /\ Len(Append(Begun(bytes, sent), byte)) = sent + 1
      /\ \A i \in 1 .. sent : Append(Begun(bytes, sent), byte)[i] = Begun(bytes, sent)[i]
      /\ Append(Begun(bytes, sent), byte)[sent + 1] = byte
  BY <1>2, <1>3, AppendProperties
<1>5. \A i \in 1 .. sent + 1 : Begun(bytes, sent + 1)[i] = Append(Begun(bytes, sent), byte)[i]
  <2> SUFFICES ASSUME NEW i \in 1 .. sent + 1
               PROVE  Begun(bytes, sent + 1)[i] = Append(Begun(bytes, sent), byte)[i]
    OBVIOUS
  <2>1. Begun(bytes, sent + 1)[i] = [data |-> bytes[i], last |-> i % MaxBytes = 0]
    BY DEF Begun
  <2>2. CASE i = sent + 1
    BY <1>4, <2>1, <2>2
  <2>3. CASE i # sent + 1
    <3>1. i \in 1 .. sent
      BY <2>3
    <3>2. Begun(bytes, sent)[i] = [data |-> bytes[i], last |-> i % MaxBytes = 0]
      BY <3>1 DEF Begun
    <3> QED BY <1>4, <2>1, <3>1, <3>2
  <2> QED BY <2>2, <2>3
<1> QED BY <1>3, <1>4, <1>5, SeqEqual

LEMMA BegunLonger ==
    ASSUME NEW bytes \in Seq(Byte), NEW byte \in Byte, NEW sent \in 0 .. Len(bytes)
    PROVE  Begun(Append(bytes, byte), sent) = Begun(bytes, sent)
<1>1. \A i \in 1 .. sent : Append(bytes, byte)[i] = bytes[i]
  BY AppendProperties, LenProperties
<1> QED BY <1>1 DEF Begun

LEMMA PackIs ==
    ASSUME NEW bytes \in Seq(Byte), Len(bytes) > 0,
           NEW byte, byte = [data |-> bytes[Len(bytes)], last |-> TRUE]
    PROVE  Pack(bytes) = Append(Begun(bytes, Len(bytes) - 1), byte) /\ Pack(bytes) \in Seq(StreamByte)
<1> DEFINE n == Len(bytes)
<1>1. n \in Nat /\ n - 1 \in 0 .. n /\ n - 1 \in Nat /\ n \in 1 .. n /\ n >= 1
  BY LenProperties
<1>2. byte \in StreamByte
  BY <1>1, Typed, ElementOfSeq
<1>3. Begun(bytes, n - 1) \in Seq(StreamByte) /\ Len(Begun(bytes, n - 1)) = n - 1
  BY <1>1, BegunIsSeq
<1>4. /\ Append(Begun(bytes, n - 1), byte) \in Seq(StreamByte)
      /\ Len(Append(Begun(bytes, n - 1), byte)) = (n - 1) + 1
      /\ \A i \in 1 .. n - 1 : Append(Begun(bytes, n - 1), byte)[i] = Begun(bytes, n - 1)[i]
      /\ Append(Begun(bytes, n - 1), byte)[(n - 1) + 1] = byte
  BY <1>2, <1>3, AppendProperties
<1>5. \A i \in 1 .. n : bytes[i] \in Byte
  BY ElementOfSeq
<1>6. Pack(bytes) \in [1 .. n -> StreamByte]
  BY <1>5, Typed DEF Pack
<1>7. Pack(bytes) \in Seq(StreamByte)
  BY <1>1, <1>6, SeqDef
<1>8. Len(Pack(bytes)) = n
  <2>1. DOMAIN Pack(bytes) = 1 .. n
    BY DEF Pack
  <2> HIDE DEF n
  <2> QED BY <1>1, <1>7, <2>1, LenProperties
<1>9. \A i \in 1 .. n : Pack(bytes)[i] = Append(Begun(bytes, n - 1), byte)[i]
  <2> SUFFICES ASSUME NEW i \in 1 .. n
               PROVE  Pack(bytes)[i] = Append(Begun(bytes, n - 1), byte)[i]
    OBVIOUS
  <2>1. Pack(bytes)[i] = [data |-> bytes[i], last |-> i = n \/ i % MaxBytes = 0]
    BY DEF Pack
  <2>2. CASE i = n
    <3>1. Pack(bytes)[i] = byte
      BY <2>1, <2>2
    <3>2. (n - 1) + 1 = n
      BY <1>1
    <3> QED BY <1>4, <2>2, <3>1, <3>2
  <2>3. CASE i # n
    <3>1. i \in 1 .. n - 1
      BY <1>1, <2>3
    <3>2. Begun(bytes, n - 1)[i] = [data |-> bytes[i], last |-> i % MaxBytes = 0]
      BY <3>1 DEF Begun
    <3>3. Pack(bytes)[i] = [data |-> bytes[i], last |-> i % MaxBytes = 0]
      BY <2>1, <2>3
    <3> QED BY <1>4, <3>1, <3>2, <3>3
  <2> QED BY <2>2, <2>3
<1>10. Len(Append(Begun(bytes, n - 1), byte)) = n
  BY <1>1, <1>4
<1> HIDE DEF n
<1>11. Pack(bytes) = Append(Begun(bytes, n - 1), byte)
  BY <1>4, <1>7, <1>8, <1>9, <1>10, SeqEqual
<1> QED BY <1>7, <1>11 DEF n

\* One clock of the pipeline: next is the byte that was completed, mark whether the gate
\* has closed with no bits left over.
Moves(out, held, new, count, next, mark, out1, held1, count1) ==
    LET sends == held # None /\ (new # None \/ held.last)
        last == count = MaxBytes - 1 \/ held.last
        kept == IF new # None THEN new ELSE IF sends THEN None ELSE held
    IN  /\ out1 = IF sends THEN Append(out, [data |-> held.data, last |-> last]) ELSE out
        /\ held1 = IF kept # None /\ mark THEN [kept EXCEPT !.last = TRUE] ELSE kept
        /\ count1 = IF ~sends THEN count ELSE IF last THEN 0 ELSE count + 1

\* More bytes of the packet: the byte completed last may be its end.
Pushing(base, bytes, more, settled, mark, out, held, new, count, out1, held1, next, count1) ==
    /\ base \in Seq(StreamByte) /\ bytes \in Seq(Byte)
    /\ {held, new, next} \subseteq StreamByte \cup {None}
    /\ mark \in BOOLEAN /\ settled \in BOOLEAN
    /\ Piped(base, bytes, FALSE, out, held, new, count)
    /\ Moves(out, held, new, count, next, mark, out1, held1, count1)
    /\ mark <=> (settled /\ next = None)
    /\ next # None => (next.last <=> settled)
    /\ more = IF next = None THEN bytes ELSE Append(bytes, next.data)

LEMMA Pushed ==
    ASSUME NEW base, NEW bytes, NEW more, NEW settled, NEW mark,
           NEW out, NEW held, NEW new, NEW count, NEW out1, NEW held1, NEW next, NEW count1,
           Pushing(base, bytes, more, settled, mark, out, held, new, count, out1, held1, next, count1)
    PROVE  Piped(base, more, settled, out1, held1, next, count1)
<1>0. /\ base \in Seq(StreamByte) /\ bytes \in Seq(Byte)
      /\ held \in StreamByte \cup {None} /\ new \in StreamByte \cup {None}
      /\ next \in StreamByte \cup {None} /\ mark \in BOOLEAN /\ settled \in BOOLEAN
      /\ Piped(base, bytes, FALSE, out, held, new, count)
      /\ Moves(out, held, new, count, next, mark, out1, held1, count1)
      /\ mark <=> (settled /\ next = None)
      /\ next # None => (next.last <=> settled)
      /\ more = IF next = None THEN bytes ELSE Append(bytes, next.data)
  BY DEF Pushing
<1> USE <1>0
<1> USE Sizes
<1> DEFINE n == Len(bytes)
           sent == (n - One(new)) - One(held)
           sent1 == (Len(more) - One(next)) - One(held1)
<1>1. /\ n \in Nat /\ sent \in Nat /\ count = sent % MaxBytes
      /\ out = base \o Begun(bytes, sent)
      /\ n > 0 => held # None \/ new # None
      /\ held # None => held.data = bytes[n - One(new)] /\ ~held.last
      /\ new # None => new.data = bytes[n] /\ ~new.last
  BY LenProperties DEF Piped
<1>2. /\ more \in Seq(Byte) /\ Len(more) = n + One(next)
      /\ \A i \in 1 .. n : more[i] = bytes[i]
      /\ next # None => more[Len(more)] = next.data
  <2>1. CASE next = None
    BY <1>1, <2>1 DEF One
  <2>2. CASE next # None
    <3>1. next.data \in Byte
      BY <2>2, Typed
    <3>2. more = Append(bytes, next.data) /\ One(next) = 1
      BY <2>2 DEF One
    <3>3. \A byte \in Byte :
             /\ Append(bytes, byte) \in Seq(Byte) /\ Len(Append(bytes, byte)) = Len(bytes) + 1
             /\ \A i \in 1 .. Len(bytes) : Append(bytes, byte)[i] = bytes[i]
             /\ Append(bytes, byte)[Len(bytes) + 1] = byte
      BY AppendProperties
    <3> QED BY <3>1, <3>2, <3>3
  <2> QED BY <2>1, <2>2
<1>3. \A m \in 0 .. n : Begun(more, m) = Begun(bytes, m)
  BY <1>1, <1>2, BegunLonger DEF Begun
<1>4. /\ Len(more) = n + One(next) /\ One(next) \in Int /\ n \in Nat
       /\ One(new) \in Int /\ One(held) \in Int
  BY <1>1, <1>2 DEF One
<1>5. Len(more) - One(next) = n
  <2> HIDE DEF n
  <2> QED BY <1>4
<1>6. next # None => next.data = more[Len(more)] /\ (next.last <=> settled)
  BY <1>2
<1>7. \A byte \in StreamByte : /\ [byte EXCEPT !.last = TRUE].data = byte.data
                               /\ [byte EXCEPT !.last = TRUE].last
                               /\ [byte EXCEPT !.last = TRUE] \in StreamByte
  BY DEF StreamByte
\* What is kept back.
<1>8. ASSUME NEW kept \in StreamByte, held1 = IF mark THEN [kept EXCEPT !.last = TRUE] ELSE kept,
             kept.data = bytes[n], ~kept.last, n > 0
      PROVE  /\ held1 # None /\ One(held1) = 1
             /\ held1.data = more[Len(more) - One(next)] /\ (held1.last <=> settled /\ next = None)
  <2>1. held1 \in StreamByte /\ held1.data = kept.data /\ (held1.last <=> mark)
    <3>1. CASE mark
      BY <1>7, <1>8, <3>1
    <3>2. CASE ~mark
      BY <1>8, <3>2
    <3> QED BY <3>1, <3>2
  <2>2. Len(more) - One(next) = n /\ more[n] = bytes[n]
    <3>1. n \in 1 .. n
      BY <1>1, <1>8
    <3>2. more[n] = bytes[n]
      <4> HIDE DEF n
      <4> QED BY <1>2, <3>1
    <3> QED BY <1>5, <3>2
  <2>3. held1 # None /\ One(held1) = 1
    BY <2>1 DEF One
  <2> QED BY <1>8, <2>1, <2>2, <2>3
<1>9. CASE held # None /\ new # None
  <2>1. /\ out1 = Append(out, [data |-> held.data, last |-> count = MaxBytes - 1])
        /\ held1 = IF mark THEN [new EXCEPT !.last = TRUE] ELSE new
        /\ count1 = IF count = MaxBytes - 1 THEN 0 ELSE count + 1
    BY <1>1, <1>9 DEF Moves
  <2>2. sent = n - 2 /\ n >= 2 /\ n - One(new) = n - 1
    BY <1>1, <1>9 DEF One
  <2>3. /\ held1 # None /\ One(held1) = 1
        /\ held1.data = more[Len(more) - One(next)] /\ (held1.last <=> settled /\ next = None)
    <3>1. new \in StreamByte /\ new.data = bytes[n] /\ ~new.last /\ n > 0
      BY <1>1, <1>9, <2>2
    <3> HIDE DEF n
    <3> QED BY <1>8, <2>1, <3>1
  <2>4. sent1 = sent + 1 /\ sent + 1 \in Nat /\ sent + 1 \in 0 .. n /\ sent < n
    <3>1. sent1 = n - 1
      BY <1>5, <2>3
    <3> HIDE DEF n, sent1
    <3> QED BY <1>4, <2>2, <3>1
  <2>5. count1 = (sent + 1) % MaxBytes /\ (count = MaxBytes - 1 <=> (sent + 1) % MaxBytes = 0)
    <3>1. (sent + 1) % MaxBytes = IF sent % MaxBytes = MaxBytes - 1 THEN 0 ELSE (sent % MaxBytes) + 1
      <4> HIDE DEF sent
      <4> QED BY <1>1, ModuloNext
    <3>2. sent % MaxBytes \in 0 .. MaxBytes - 1
      BY <1>1
    <3> HIDE DEF sent
    <3> QED BY <1>1, <2>1, <3>1, <3>2
  <2>6. out1 = base \o Begun(more, sent1)
    <3> DEFINE byte == [data |-> bytes[sent + 1], last |-> (sent + 1) % MaxBytes = 0]
    <3>1. bytes[n - One(new)] = bytes[sent + 1]
      BY <1>1, <2>2
    <3>2. [data |-> held.data, last |-> count = MaxBytes - 1] = byte
      <4>1. held.data = bytes[sent + 1]
        BY <1>1, <1>9, <3>1
      <4>2. (count = MaxBytes - 1) = ((sent + 1) % MaxBytes = 0)
        BY <2>5
      <4> HIDE DEF sent
      <4> QED BY <4>1, <4>2
    <3>3. Begun(bytes, sent + 1) = Append(Begun(bytes, sent), byte)
      <4> HIDE DEF sent
      <4> QED BY <1>1, <2>4, BegunNext
    <3>4. byte \in StreamByte /\ Begun(bytes, sent) \in Seq(StreamByte)
      <4>1. sent \in 0 .. n /\ sent + 1 \in 1 .. n
        BY <1>1, <2>4
      <4>2. bytes[sent + 1] \in Byte
        <5> HIDE DEF sent
        <5> QED BY <4>1, ElementOfSeq
      <4> HIDE DEF sent
      <4> QED BY <4>1, <4>2, Typed, BegunIsSeq
    <3> HIDE DEF byte, sent, sent1, n
    <3>5. Append(base \o Begun(bytes, sent), byte) = base \o Append(Begun(bytes, sent), byte)
      <4>1. base \in Seq(StreamByte) /\ byte \in StreamByte /\ Begun(bytes, sent) \in Seq(StreamByte)
        BY <3>4
      <4> HIDE <1>0
      <4> QED BY <4>1, ByteToConcat
    <3>6. Begun(more, sent1) = Begun(bytes, sent + 1)
      BY <1>3, <2>4
    <3> QED BY <1>1, <2>1, <3>2, <3>3, <3>5, <3>6
  <2>7. Len(more) > 0 => held1 # None \/ next # None
    BY <2>3
  <2>8. sent1 \in Nat /\ count1 = sent1 % MaxBytes
    BY <2>4, <2>5
  <2> QED BY <1>2, <1>6, <2>3, <2>6, <2>7, <2>8 DEF Piped
<1>10. CASE held = None \/ new = None
  <2>1. /\ out1 = out /\ count1 = count
        /\ LET kept == IF new # None THEN new ELSE held
           IN  held1 = IF kept # None /\ mark THEN [kept EXCEPT !.last = TRUE] ELSE kept
    BY <1>1, <1>10 DEF Moves
  <2>2. One(held1) = One(new) + One(held)
        /\ (held1 # None => /\ held1.data = more[Len(more) - One(next)]
                            /\ (held1.last <=> settled /\ next = None))
    <3>1. CASE held = None /\ new = None
      BY <2>1, <3>1 DEF One
    <3>2. CASE new # None
      <4>1. new \in StreamByte /\ new.data = bytes[n] /\ ~new.last /\ n > 0
        BY <1>1, <3>2 DEF One
      <4>2. held1 = IF mark THEN [new EXCEPT !.last = TRUE] ELSE new
        BY <2>1, <3>2
      <4>3. One(new) + One(held) = 1
        BY <1>10, <3>2 DEF One
      <4> HIDE DEF n
      <4> QED BY <1>8, <4>1, <4>2, <4>3
    <3>3. CASE new = None /\ held # None
      <4>1. held \in StreamByte /\ held.data = bytes[n] /\ ~held.last /\ n > 0
        BY <1>1, <3>3 DEF One
      <4>2. held1 = IF mark THEN [held EXCEPT !.last = TRUE] ELSE held
        BY <2>1, <3>3
      <4>3. One(new) + One(held) = 1
        BY <3>3 DEF One
      <4> HIDE DEF n
      <4> QED BY <1>8, <4>1, <4>2, <4>3
    <3> QED BY <3>1, <3>2, <3>3
  <2>3. sent1 = sent
    <3>1. sent1 = n - One(held1)
      BY <1>5
    <3> HIDE DEF n, sent1
    <3> QED BY <1>4, <2>2, <3>1
  <2>4. sent \in 0 .. n
    BY <1>1 DEF One
  <2>5. out1 = base \o Begun(more, sent1)
    <3> HIDE DEF sent, sent1
    <3> QED BY <1>1, <1>3, <2>1, <2>3, <2>4
  <2>6. Len(more) > 0 => held1 # None \/ next # None
    <3>1. Len(more) = n \/ next # None
      BY <1>1, <1>2 DEF One
    <3>2. n > 0 => One(new) + One(held) > 0
      BY <1>1 DEF One
    <3>3. One(held1) > 0 => held1 # None
      BY DEF One
    <3> HIDE DEF n
    <3> QED BY <2>2, <3>1, <3>2, <3>3
  <2>7. sent1 \in Nat /\ count1 = sent1 % MaxBytes
    BY <1>1, <2>1, <2>3
  <2> QED BY <1>2, <1>6, <2>2, <2>5, <2>6, <2>7 DEF Piped
<1> QED BY <1>9, <1>10, <1>2

\* Nothing is on its way: the packet is out, or none has begun.
LEMMA NothingPiped ==
    ASSUME NEW base \in Seq(StreamByte), NEW ended \in BOOLEAN
    PROVE  Piped(base, <<>>, ended, base, None, None, 0)
<1> USE Sizes
<1>1. Len(<<>>) = 0 /\ (0 - One(None)) - One(None) = 0
  BY DEF One
<1>2. Begun(<<>>, 0) = <<>> /\ base \o <<>> = base
  BY ConcatEmptySeq DEF Begun
<1>3. 0 % MaxBytes = 0
  <2>1. 0 = 0 * MaxBytes + 0 /\ 0 \in 0 .. MaxBytes - 1
    OBVIOUS
  <2>2. (0 * MaxBytes + 0) % MaxBytes = 0
    BY <2>1, DivUnique
  <2> QED BY <2>1, <2>2
<1> QED BY <1>1, <1>2, <1>3 DEF Piped

\* No more bytes of the packet: it goes out to its end.
Draining(base, bytes, ended, mark, out, held, new, count, out1, held1, count1) ==
    /\ base \in Seq(StreamByte) /\ bytes \in Seq(Byte) /\ Len(bytes) > 0
    /\ {held, new} \subseteq StreamByte \cup {None} /\ mark \in BOOLEAN /\ ended = TRUE
    /\ Piped(base, bytes, ended, out, held, new, count)
    /\ Moves(out, held, new, count, None, mark, out1, held1, count1)

LEMMA Drains ==
    ASSUME NEW base, NEW bytes, NEW ended, NEW mark, NEW out, NEW held, NEW new, NEW count,
           NEW out1, NEW held1, NEW count1,
           Draining(base, bytes, ended, mark, out, held, new, count, out1, held1, count1)
    PROVE  /\ base \o Pack(bytes) \in Seq(StreamByte)
           /\ new = None => Piped(base \o Pack(bytes), <<>>, ended, out1, held1, None, count1)
           /\ new # None => Piped(base, bytes, ended, out1, held1, None, count1)
<1>0. /\ base \in Seq(StreamByte) /\ bytes \in Seq(Byte) /\ Len(bytes) > 0
      /\ held \in StreamByte \cup {None} /\ new \in StreamByte \cup {None} /\ mark \in BOOLEAN
      /\ Piped(base, bytes, ended, out, held, new, count) /\ ended
      /\ Moves(out, held, new, count, None, mark, out1, held1, count1)
  BY DEF Draining
<1> USE Sizes, <1>0
<1> DEFINE n == Len(bytes)
           sent == (n - One(new)) - One(held)
<1>1. /\ n \in Nat /\ n > 0 /\ sent \in Nat /\ count = sent % MaxBytes
      /\ out = base \o Begun(bytes, sent)
      /\ held # None \/ new # None
      /\ held # None => held.data = bytes[n - One(new)] /\ (held.last <=> new = None)
      /\ new # None => new.data = bytes[n] /\ new.last
  BY LenProperties DEF Piped
<1> DEFINE end == [data |-> bytes[n], last |-> TRUE]
<1>2. Pack(bytes) = Append(Begun(bytes, n - 1), end) /\ Pack(bytes) \in Seq(StreamByte)
  BY <1>1, PackIs
<1>3. base \o Pack(bytes) \in Seq(StreamByte)
  BY <1>2, ConcatProperties
<1>4. \A byte \in StreamByte : /\ [byte EXCEPT !.last = TRUE].data = byte.data
                               /\ [byte EXCEPT !.last = TRUE].last
                               /\ [byte EXCEPT !.last = TRUE] \in StreamByte
  BY DEF StreamByte
<1>5. CASE new = None
  <2>1. held # None /\ held.last /\ held.data = bytes[n] /\ sent = n - 1
    BY <1>1, <1>5 DEF One
  <2>2. out1 = Append(out, [data |-> held.data, last |-> TRUE]) /\ held1 = None /\ count1 = 0
    BY <1>5, <2>1 DEF Moves
  <2>3. out1 = Append(base \o Begun(bytes, n - 1), end)
    BY <1>1, <2>1, <2>2
  <2>4. end \in StreamByte /\ Begun(bytes, n - 1) \in Seq(StreamByte)
    <3>1. n \in 1 .. n /\ n - 1 \in 0 .. n
      BY <1>1
    <3>2. bytes[n] \in Byte
      BY <3>1, ElementOfSeq
    <3> HIDE DEF n
    <3> QED BY <3>1, <3>2, Typed, BegunIsSeq DEF n
  <2>5. Append(base \o Begun(bytes, n - 1), end) = base \o Append(Begun(bytes, n - 1), end)
    <3>1. base \in Seq(StreamByte)
      OBVIOUS
    <3> HIDE DEF end, n, sent
    <3> HIDE <1>0
    <3> QED BY <2>4, <3>1, ByteToConcat
  <2>6. out1 = base \o Pack(bytes)
    <3> HIDE DEF end, n, sent
    <3> QED BY <1>2, <2>3, <2>5
  <2>7. Piped(base \o Pack(bytes), <<>>, ended, base \o Pack(bytes), None, None, 0)
    BY <1>3, NothingPiped
  <2> QED BY <1>3, <1>5, <2>2, <2>6, <2>7
<1>6. CASE new # None
  <2>1. new \in StreamByte /\ new.data = bytes[n] /\ new.last /\ (held # None => ~held.last)
    BY <1>1, <1>6
  <2>2. held1 = IF mark THEN [new EXCEPT !.last = TRUE] ELSE new
    BY <1>6 DEF Moves
  <2>3. held1 \in StreamByte /\ held1.data = bytes[n] /\ held1.last
    <3>1. CASE mark
      <4>1. held1 = [new EXCEPT !.last = TRUE]
        BY <2>2, <3>1
      <4> QED BY <1>4, <2>1, <4>1
    <3>2. CASE ~mark
      BY <2>1, <2>2, <3>2
    <3> QED BY <3>1, <3>2
  <2>4. One(held1) = 1 /\ One(None) = 0 /\ held1 # None /\ One(new) = 1
    BY <1>6, <2>3 DEF One
  <2> DEFINE sent1 == (n - One(None)) - One(held1)
  <2>5. sent1 = n - 1 /\ n - One(None) = n
    BY <1>1, <2>4
  <2>6. sent1 \in Nat /\ count1 = sent1 % MaxBytes /\ out1 = base \o Begun(bytes, sent1)
    <3>1. CASE held = None
      <4>1. sent1 = sent
        BY <1>1, <2>4, <2>5, <3>1 DEF One
      <4>2. out1 = out /\ count1 = count
        BY <3>1 DEF Moves
      <4> HIDE DEF sent, sent1
      <4> QED BY <1>1, <4>1, <4>2
    <3>2. CASE held # None
      <4>1. sent = n - 2 /\ n - One(new) = n - 1 /\ sent1 = sent + 1 /\ sent < n
        BY <1>1, <2>4, <2>5, <3>2 DEF One
      <4>2. /\ out1 = Append(out, [data |-> held.data, last |-> count = MaxBytes - 1])
            /\ count1 = IF count = MaxBytes - 1 THEN 0 ELSE count + 1
        BY <1>6, <2>1, <3>2 DEF Moves
      <4>3. count1 = (sent + 1) % MaxBytes /\ (count = MaxBytes - 1 <=> (sent + 1) % MaxBytes = 0)
        <5>1. (sent + 1) % MaxBytes = IF sent % MaxBytes = MaxBytes - 1 THEN 0 ELSE (sent % MaxBytes) + 1
          <6> HIDE DEF sent
          <6> QED BY <1>1, ModuloNext
        <5>2. sent % MaxBytes \in 0 .. MaxBytes - 1
          BY <1>1
        <5> HIDE DEF sent
        <5> QED BY <1>1, <4>2, <5>1, <5>2
      <4> DEFINE byte == [data |-> bytes[sent + 1], last |-> (sent + 1) % MaxBytes = 0]
      <4>4. held.data = bytes[sent + 1]
        <5>1. n - One(new) = sent + 1
          BY <1>1, <4>1
        <5> QED BY <1>1, <3>2, <5>1
      <4>5. out1 = Append(out, byte)
        <5>1. (count = MaxBytes - 1) = ((sent + 1) % MaxBytes = 0)
          BY <4>3
        <5> HIDE DEF sent
        <5> QED BY <4>2, <4>4, <5>1
      <4>6. Begun(bytes, sent + 1) = Append(Begun(bytes, sent), byte)
        <5>1. sent \in Nat /\ sent < Len(bytes)
          BY <1>1, <4>1
        <5> HIDE DEF sent
        <5> QED BY <5>1, BegunNext
      <4>7. byte \in StreamByte /\ Begun(bytes, sent) \in Seq(StreamByte)
        <5>1. sent \in 0 .. n /\ sent + 1 \in 1 .. n
          BY <1>1, <4>1
        <5>2. bytes[sent + 1] \in Byte
          <6> HIDE DEF sent
          <6> QED BY <5>1, ElementOfSeq
        <5> HIDE DEF sent
        <5> QED BY <5>1, <5>2, Typed, BegunIsSeq
      <4>8. Append(base \o Begun(bytes, sent), byte) = base \o Append(Begun(bytes, sent), byte)
        <5>1. base \in Seq(StreamByte)
          OBVIOUS
        <5> HIDE DEF byte, sent, sent1, n
        <5> HIDE <1>0
        <5> QED BY <4>7, <5>1, ByteToConcat
      <4>9. sent + 1 \in Nat
        BY <1>1
      <4> HIDE DEF byte, sent, sent1, n
      <4> QED BY <1>1, <4>1, <4>3, <4>5, <4>6, <4>8, <4>9
    <3> QED BY <3>1, <3>2
  <2>7. held1.data = bytes[n - One(None)]
    BY <2>3, <2>5
  <2> QED BY <1>3, <1>6, <2>3, <2>4, <2>6, <2>7 DEF Piped
<1> QED BY <1>5, <1>6

-----------------------------------------------------------------------------
(* The bytes of an opening.                                                 *)

\* The last byte's worth of bits, and the full bytes.
LastBits(bits) == SubSeq(bits, Len(bits) - ByteBits + 1, Len(bits))
FullByte(bits, i) == SubSeq(bits, (i - 1) * ByteBits + 1, i * ByteBits)
FullBytes(bits, full) == [i \in 1 .. full |-> FullByte(bits, i)]

LEMMA Times ==
    ASSUME NEW full \in Nat
    PROVE  /\ full * ByteBits \in Nat /\ (full + 1) * ByteBits = full * ByteBits + ByteBits
           /\ \A i \in 1 .. full : /\ (i - 1) * ByteBits \in Nat /\ i * ByteBits \in Nat
                                   /\ i * ByteBits = (i - 1) * ByteBits + ByteBits
                                   /\ i * ByteBits <= full * ByteBits
<1> USE Sizes
<1>1. \A a, b \in Nat : a * b \in Nat /\ (a + 1) * b = a * b + b
  OBVIOUS
<1>2. \A a, b, c \in Nat : a <= b => a * c <= b * c
  OBVIOUS
<1>3. full * ByteBits \in Nat /\ (full + 1) * ByteBits = full * ByteBits + ByteBits
  BY <1>1
<1>4. ASSUME NEW i \in 1 .. full
      PROVE  /\ (i - 1) * ByteBits \in Nat /\ i * ByteBits \in Nat
             /\ i * ByteBits = (i - 1) * ByteBits + ByteBits
             /\ i * ByteBits <= full * ByteBits
  <2>1. i - 1 \in Nat /\ (i - 1) + 1 = i /\ i \in Nat /\ i <= full
    OBVIOUS
  <2>2. ((i - 1) + 1) * ByteBits = (i - 1) * ByteBits + ByteBits
    BY <1>1, <2>1
  <2>3. (i - 1) * ByteBits \in Nat /\ i * ByteBits \in Nat
    BY <1>1, <2>1
  <2>4. i * ByteBits <= full * ByteBits
    BY <1>2, <2>1
  <2> QED BY <2>1, <2>2, <2>3, <2>4
<1> QED BY <1>3, <1>4

LEMMA LastIsByte ==
    ASSUME NEW bits \in Seq(Bit), Len(bits) >= ByteBits
    PROVE  LastBits(bits) \in Byte
<1>1. Len(bits) \in Nat
  BY LenProperties
<1>2. \A i \in Len(bits) - ByteBits + 1 .. Len(bits) : bits[i] \in Bit
  BY <1>1, Sizes, ElementOfSeq
<1>3. LastBits(bits) \in Seq(Bit) /\ Len(LastBits(bits)) = ByteBits
  BY <1>1, <1>2, Sizes, SubSeqProperties DEF LastBits
<1> QED BY <1>3, ByteIsSeq

LEMMA FullIsByte ==
    ASSUME NEW bits \in Seq(Bit), NEW full \in Nat, full * ByteBits <= Len(bits),
           NEW i \in 1 .. full
    PROVE  /\ FullByte(bits, i) \in Byte
           /\ \A j \in 1 .. ByteBits : FullByte(bits, i)[j] = bits[(i - 1) * ByteBits + j]
<1> DEFINE from == (i - 1) * ByteBits
           to == i * ByteBits
<1>1. from \in Nat /\ to \in Nat /\ to = from + ByteBits /\ to <= Len(bits) /\ Len(bits) \in Nat
  <2>1. /\ from \in Nat /\ to \in Nat /\ to = from + ByteBits /\ to <= full * ByteBits
        /\ full * ByteBits \in Nat
    BY Times
  <2>2. Len(bits) \in Nat
    BY LenProperties
  <2> HIDE DEF from, to
  <2> QED BY <2>1, <2>2
<1> HIDE DEF from, to
<1>2. \A k \in from + 1 .. to : bits[k] \in Bit
  BY <1>1, ElementOfSeq
<1>3. /\ SubSeq(bits, from + 1, to) \in Seq(Bit)
      /\ Len(SubSeq(bits, from + 1, to)) = ByteBits
      /\ \A j \in 1 .. ByteBits : SubSeq(bits, from + 1, to)[j] = bits[from + j]
  <2>1. from + 1 \in Int /\ to \in Int /\ to - (from + 1) + 1 = ByteBits /\ from + 1 <= to
    BY <1>1, Sizes
  <2>2. /\ SubSeq(bits, from + 1, to) \in Seq(Bit)
        /\ Len(SubSeq(bits, from + 1, to)) = to - (from + 1) + 1
        /\ \A j \in 1 .. to - (from + 1) + 1 :
              SubSeq(bits, from + 1, to)[j] = bits[(from + 1) + j - 1]
    BY <1>2, <2>1, SubSeqProperties
  <2>3. \A j \in 1 .. ByteBits : (from + 1) + j - 1 = from + j
    BY <1>1
  <2> QED BY <2>1, <2>2, <2>3
<1> QED BY <1>3, ByteIsSeq DEF FullByte, from, to

LEMMA FullIsSeq ==
    ASSUME NEW bits \in Seq(Bit), NEW full \in Nat, full * ByteBits <= Len(bits)
    PROVE  FullBytes(bits, full) \in Seq(Byte) /\ Len(FullBytes(bits, full)) = full
<1>1. FullBytes(bits, full) \in [1 .. full -> Byte]
  BY FullIsByte DEF FullBytes
<1>2. FullBytes(bits, full) \in Seq(Byte) /\ DOMAIN FullBytes(bits, full) = 1 .. full
  BY <1>1, SeqDef
<1> QED BY <1>2, LenProperties

\* One full byte more.
LEMMA FullNext ==
    ASSUME NEW bits \in Seq(Bit), NEW full \in Nat, (full + 1) * ByteBits <= Len(bits)
    PROVE  FullBytes(bits, full + 1) = Append(FullBytes(bits, full), FullByte(bits, full + 1))
<1> DEFINE old == FullBytes(bits, full)
           new == FullBytes(bits, full + 1)
           byte == FullByte(bits, full + 1)
<1>1. full * ByteBits <= Len(bits) /\ full + 1 \in Nat /\ full + 1 \in 1 .. full + 1
  BY Times, Sizes, LenProperties
<1>2. /\ old \in Seq(Byte) /\ Len(old) = full
      /\ new \in Seq(Byte) /\ Len(new) = full + 1
      /\ byte \in Byte
  BY <1>1, FullIsSeq, FullIsByte
<1>3. /\ \A i \in 1 .. full : old[i] = FullByte(bits, i)
      /\ \A i \in 1 .. full + 1 : new[i] = FullByte(bits, i)
  BY DEF FullBytes
<1>4. /\ Append(old, byte) \in Seq(Byte) /\ Len(Append(old, byte)) = full + 1
      /\ \A i \in 1 .. full : Append(old, byte)[i] = old[i]
      /\ Append(old, byte)[full + 1] = byte
  BY <1>2, AppendProperties
<1>5. \A i \in 1 .. full + 1 : new[i] = Append(old, byte)[i]
  <2> SUFFICES ASSUME NEW i \in 1 .. full + 1 PROVE new[i] = Append(old, byte)[i]
    OBVIOUS
  <2>1. i \in 1 .. full \/ i = full + 1
    OBVIOUS
  <2> HIDE DEF old, new
  <2> QED BY <1>3, <1>4, <2>1
<1> HIDE DEF old, new, byte
<1>6. new = Append(old, byte)
  BY <1>2, <1>4, <1>5, SeqEqual
<1> QED BY <1>6 DEF old, new, byte

\* The full bytes are not changed by more bits.
LEMMA FullLonger ==
    ASSUME NEW bits \in Seq(Bit), NEW bit \in Bit, NEW full \in Nat, full * ByteBits <= Len(bits)
    PROVE  FullBytes(Append(bits, bit), full) = FullBytes(bits, full)
<1> SUFFICES ASSUME NEW i \in 1 .. full
             PROVE  FullByte(Append(bits, bit), i) = FullByte(bits, i)
  BY DEF FullBytes
<1>1. /\ Append(bits, bit) \in Seq(Bit) /\ Len(Append(bits, bit)) = Len(bits) + 1
      /\ \A k \in 1 .. Len(bits) : Append(bits, bit)[k] = bits[k]
  BY AppendProperties
<1>2. full * ByteBits <= Len(Append(bits, bit))
  BY <1>1, Times, LenProperties
<1>3. /\ FullByte(bits, i) \in Byte /\ FullByte(Append(bits, bit), i) \in Byte
      /\ \A j \in 1 .. ByteBits : FullByte(bits, i)[j] = bits[(i - 1) * ByteBits + j]
      /\ \A j \in 1 .. ByteBits :
            FullByte(Append(bits, bit), i)[j] = Append(bits, bit)[(i - 1) * ByteBits + j]
  <2>1. FullByte(bits, i) \in Byte
        /\ \A j \in 1 .. ByteBits : FullByte(bits, i)[j] = bits[(i - 1) * ByteBits + j]
    BY FullIsByte
  <2>2. FullByte(Append(bits, bit), i) \in Byte
        /\ \A j \in 1 .. ByteBits :
              FullByte(Append(bits, bit), i)[j] = Append(bits, bit)[(i - 1) * ByteBits + j]
    BY <1>1, <1>2, FullIsByte
  <2> QED BY <2>1, <2>2
<1>4. ASSUME NEW j \in 1 .. ByteBits
      PROVE  FullByte(Append(bits, bit), i)[j] = FullByte(bits, i)[j]
  <2> DEFINE k == (i - 1) * ByteBits + j
  <2>1. k \in 1 .. Len(bits)
    <3>1. /\ (i - 1) * ByteBits \in Nat /\ i * ByteBits = (i - 1) * ByteBits + ByteBits
          /\ i * ByteBits <= full * ByteBits /\ full * ByteBits \in Nat
      BY Times
    <3> QED BY <3>1, Sizes, LenProperties
  <2> HIDE DEF k
  <2>2. Append(bits, bit)[k] = bits[k]
    BY <1>1, <2>1
  <2> QED BY <1>3, <2>2 DEF k
<1>5. \A f, g \in Byte : (\A j \in 1 .. ByteBits : f[j] = g[j]) => f = g
  <2> TAKE f, g \in Byte
  <2>1. f = [j \in 1 .. ByteBits |-> f[j]] /\ g = [j \in 1 .. ByteBits |-> g[j]]
    BY DEF Byte
  <2> HAVE \A j \in 1 .. ByteBits : f[j] = g[j]
  <2> QED BY <2>1, Zenon
<1> QED BY <1>3, <1>4, <1>5

\* Shifting a bit in.
LEMMA LastNext ==
    ASSUME NEW bits \in Seq(Bit), Len(bits) >= ByteBits, NEW bit \in Bit
    PROVE  LastBits(Append(bits, bit)) = Append(Tail(LastBits(bits)), bit)
<1> DEFINE n == Len(bits)
           more == Append(bits, bit)
           last == LastBits(bits)
           from == n - ByteBits
<1>1. n \in Nat /\ from \in Nat /\ n = from + ByteBits
  BY Sizes, LenProperties
<1>2. more \in Seq(Bit) /\ Len(more) = n + 1 /\ (\A i \in 1 .. n : more[i] = bits[i]) /\ more[n + 1] = bit
  BY AppendProperties
<1>3. last \in Byte /\ LastBits(more) \in Byte
  <2>1. Len(more) >= ByteBits
    <3> HIDE DEF more, n
    <3> QED BY <1>1, <1>2, Sizes
  <2> HIDE DEF more, n
  <2> QED BY <1>1, <1>2, <2>1, LastIsByte DEF last
<1>4. \A j \in 1 .. ByteBits : last[j] = bits[from + j]
  <2>1. \A k \in from + 1 .. n : bits[k] \in Bit
    BY <1>1, ElementOfSeq
  <2>2. last = SubSeq(bits, from + 1, n)
    BY DEF LastBits
  <2>3. from + 1 \in Int /\ n \in Int /\ n - (from + 1) + 1 = ByteBits
    BY <1>1, Sizes
  <2> HIDE DEF from, n, last
  <2>4. \A j \in 1 .. n - (from + 1) + 1 : SubSeq(bits, from + 1, n)[j] = bits[(from + 1) + j - 1]
    BY <2>1, <2>3, SubSeqProperties
  <2>5. \A j \in 1 .. ByteBits : (from + 1) + j - 1 = from + j
    BY <1>1
  <2> QED BY <2>2, <2>3, <2>4, <2>5
<1>5. \A j \in 1 .. ByteBits : LastBits(more)[j] = more[(from + 1) + j]
  <2>1. \A k \in (from + 1) + 1 .. n + 1 : more[k] \in Bit
    <3>1. \A k \in (from + 1) + 1 .. n + 1 : k \in 1 .. Len(more)
      BY <1>1, <1>2
    <3> HIDE DEF from, n, more
    <3> QED BY <1>2, <3>1, ElementOfSeq
  <2>2. LastBits(more) = SubSeq(more, (from + 1) + 1, n + 1)
    <3>1. Len(more) - ByteBits + 1 = (from + 1) + 1
      BY <1>1, <1>2, Sizes
    <3> HIDE DEF more, from, n
    <3> QED BY <1>2, <3>1 DEF LastBits
  <2>3. (from + 1) + 1 \in Int /\ n + 1 \in Int /\ (n + 1) - ((from + 1) + 1) + 1 = ByteBits
    BY <1>1, Sizes
  <2> HIDE DEF from, n, more
  <2>4. \A j \in 1 .. (n + 1) - ((from + 1) + 1) + 1 :
           SubSeq(more, (from + 1) + 1, n + 1)[j] = more[((from + 1) + 1) + j - 1]
    BY <2>1, <2>3, SubSeqProperties
  <2>5. \A j \in 1 .. ByteBits : ((from + 1) + 1) + j - 1 = (from + 1) + j
    BY <1>1
  <2> QED BY <2>2, <2>3, <2>4, <2>5
<1>6. last \in Seq(Bit) /\ Len(last) = ByteBits /\ last # <<>>
  BY <1>3, ByteIsSeq, EmptySeq, Sizes
<1> HIDE DEF last
<1>7. /\ Tail(last) \in Seq(Bit) /\ Len(Tail(last)) = ByteBits - 1
      /\ \A j \in 1 .. ByteBits - 1 : Tail(last)[j] = last[j + 1]
  BY <1>6, HeadTailProperties
<1> DEFINE shifted == Append(Tail(last), bit)
<1>8. /\ shifted \in Seq(Bit) /\ Len(shifted) = (ByteBits - 1) + 1
      /\ \A j \in 1 .. ByteBits - 1 : shifted[j] = Tail(last)[j]
      /\ shifted[(ByteBits - 1) + 1] = bit
  BY <1>7, AppendProperties
<1> HIDE DEF shifted
<1>9. (ByteBits - 1) + 1 = ByteBits
  BY Sizes
<1>10. \A j \in 1 .. ByteBits : LastBits(more)[j] = shifted[j]
  <2> SUFFICES ASSUME NEW j \in 1 .. ByteBits PROVE LastBits(more)[j] = shifted[j]
    OBVIOUS
  <2>1. CASE j = ByteBits
    <3>1. (from + 1) + j = n + 1
      BY <1>1, <2>1
    <3> HIDE DEF from, n, more
    <3> QED BY <1>2, <1>5, <1>8, <1>9, <2>1, <3>1
  <2>2. CASE j # ByteBits
    <3>1. j \in 1 .. ByteBits - 1 /\ j + 1 \in 1 .. ByteBits
      BY <2>2, Sizes
    <3>2. shifted[j] = bits[from + (j + 1)]
      <4> HIDE DEF from, n, more
      <4> QED BY <1>4, <1>7, <1>8, <3>1
    <3>3. (from + 1) + j = from + (j + 1) /\ (from + 1) + j \in 1 .. n
      <4> HIDE DEF from, n
      <4> QED BY <1>1, <3>1, Sizes
    <3>4. more[(from + 1) + j] = bits[(from + 1) + j]
      <4> HIDE DEF from, n, more
      <4> QED BY <1>2, <3>3
    <3>5. LastBits(more)[j] = more[(from + 1) + j]
      BY <1>5
    <3> HIDE DEF from, n, more
    <3> QED BY <3>2, <3>3, <3>4, <3>5
  <2> QED BY <2>1, <2>2
<1>11. LastBits(more) \in Seq(Bit) /\ Len(LastBits(more)) = ByteBits
  BY <1>3, ByteIsSeq
<1> HIDE DEF from, n, more
<1>12. LastBits(more) = shifted
  BY <1>8, <1>9, <1>10, <1>11, SeqEqual
<1> QED BY <1>12 DEF shifted, last, more

\* When a byte has become full, it is what the shift register holds.
LEMMA LastIsFull ==
    ASSUME NEW before \in Seq(Bit), NEW bits \in Seq(Bit), NEW full \in Nat,
           Len(bits) = (full + 1) * ByteBits
    PROVE  LastBits(before \o bits) = FullByte(bits, full + 1)
<1> DEFINE n == Len(bits)
           b == Len(before)
           from == full * ByteBits
<1>1. n \in Nat /\ b \in Nat /\ from \in Nat /\ n = from + ByteBits /\ n = (full + 1) * ByteBits
      /\ (full + 1) - 1 = full
  BY Times, LenProperties
<1>2. Len(before \o bits) = b + n
  BY ConcatProperties
<1> HIDE DEF n, b, from
<1>3. (b + n) - ByteBits + 1 = b + (from + 1)
  BY <1>1, Sizes
<1>4. LastBits(before \o bits) = SubSeq(before \o bits, b + (from + 1), b + n)
  BY <1>2, <1>3 DEF LastBits
<1>5. /\ b + (from + 1) \in b + 1 .. b + n /\ b + n \in b + 1 .. b + n
      /\ (b + (from + 1)) - b = from + 1 /\ (b + n) - b = n
  BY <1>1, Sizes
<1>6. SubSeq(before \o bits, b + (from + 1), b + n)
         = SubSeq(bits, (b + (from + 1)) - b, (b + n) - b)
  <2>1. \A m, k \in b + 1 .. b + n : SubSeq(before \o bits, m, k) = SubSeq(bits, m - b, k - b)
    BY SubSeqOfConcat2 DEF b, n
  <2> QED BY <1>5, <2>1
<1>7. FullByte(bits, full + 1) = SubSeq(bits, from + 1, n)
  BY <1>1 DEF FullByte, from
<1> QED BY <1>4, <1>5, <1>6, <1>7

LEMMA Cut ==
    ASSUME NEW before \in Seq(Bit), NEW bits \in Seq(Bit), Len(before \o bits) >= ByteBits,
           NEW full \in Nat, NEW rest \in 0 .. ByteBits - 1,
           Len(bits) = full * ByteBits + rest
    PROVE  /\ BytesOf(before, bits) = IF rest = 0 THEN FullBytes(bits, full)
                                      ELSE Append(FullBytes(bits, full), LastBits(before \o bits))
           /\ BytesOf(before, bits) \in Seq(Byte)
<1> USE Sizes
<1> DEFINE all == before \o bits
           n == Len(bits)
           count == (n + ByteBits - 1) \div ByteBits
           bytes == FullBytes(bits, full)
           cut == BytesOf(before, bits)
<1>1. /\ n \in Nat /\ full * ByteBits \in Nat /\ full * ByteBits <= n
      /\ (full + 1) * ByteBits = full * ByteBits + ByteBits
  BY Times, LenProperties
<1>2. bytes \in Seq(Byte) /\ Len(bytes) = full /\ \A i \in 1 .. full : bytes[i] = FullByte(bits, i)
  BY <1>1, FullIsSeq DEF FullBytes
<1>3. count = IF rest = 0 THEN full ELSE full + 1
  <2>1. CASE rest = 0
    <3>1. n + ByteBits - 1 = full * ByteBits + (ByteBits - 1)
      BY <1>1, <2>1
    <3>2. ByteBits - 1 \in 0 .. ByteBits - 1
      OBVIOUS
    <3>3. (full * ByteBits + (ByteBits - 1)) \div ByteBits = full
      BY <3>2, DivUnique
    <3> QED BY <2>1, <3>1, <3>3
  <2>2. CASE rest # 0
    <3>1. n + ByteBits - 1 = (full + 1) * ByteBits + (rest - 1)
      BY <1>1, <2>2
    <3>2. rest - 1 \in 0 .. ByteBits - 1 /\ full + 1 \in Int
      BY <2>2
    <3>3. ((full + 1) * ByteBits + (rest - 1)) \div ByteBits = full + 1
      <4>1. PICK q, r : q = full + 1 /\ r = rest - 1
        OBVIOUS
      <4>2. q \in Int /\ r \in 0 .. ByteBits - 1
        BY <3>2, <4>1
      <4>3. (q * ByteBits + r) \div ByteBits = q
        BY <4>2, DivUnique, Sizes
      <4> QED BY <4>1, <4>3
    <3> QED BY <2>2, <3>1, <3>3
  <2> QED BY <2>1, <2>2
<1>4. cut = [i \in 1 .. count |-> IF i * ByteBits <= n THEN FullByte(bits, i) ELSE LastBits(all)]
  BY DEF BytesOf, FullByte, LastBits
<1>5. \A i \in 1 .. full : i * ByteBits <= n
  <2> SUFFICES ASSUME NEW i \in 1 .. full PROVE i * ByteBits <= n
    OBVIOUS
  <2>1. i * ByteBits <= full * ByteBits /\ i * ByteBits \in Nat
    BY Times
  <2> HIDE DEF n
  <2> QED BY <1>1, <2>1
<1>6. LastBits(all) \in Byte
  <2>1. all \in Seq(Bit)
    BY ConcatProperties
  <2> QED BY <2>1, LastIsByte
<1>7. CASE rest = 0
  <2>1. cut = [i \in 1 .. full |-> FullByte(bits, i)]
    <3> HIDE DEF n, count, cut, all
    <3> QED BY <1>3, <1>4, <1>5, <1>7
  <2>2. cut = bytes
    <3> HIDE DEF cut
    <3> QED BY <2>1 DEF FullBytes
  <2> QED BY <1>2, <1>7, <2>2
<1>8. CASE rest # 0
  <2> DEFINE more == Append(bytes, LastBits(all))
  <2>1. /\ more \in Seq(Byte) /\ Len(more) = full + 1
        /\ \A i \in 1 .. full : more[i] = bytes[i]
        /\ more[full + 1] = LastBits(all)
    <3> HIDE DEF bytes
    <3> QED BY <1>2, <1>6, AppendProperties
  <2>2. ~((full + 1) * ByteBits <= n) /\ full + 1 \in 1 .. full + 1
    BY <1>1, <1>8
  <2> HIDE DEF bytes, more, cut, n, count, all
  <2>3. /\ cut = [i \in 1 .. full + 1 |-> IF i * ByteBits <= n THEN FullByte(bits, i) ELSE LastBits(all)]
    BY <1>3, <1>4, <1>8
  <2>4. \A i \in 1 .. full + 1 : cut[i] = more[i]
    <3> SUFFICES ASSUME NEW i \in 1 .. full + 1 PROVE cut[i] = more[i]
      OBVIOUS
    <3>1. i \in 1 .. full \/ i = full + 1
      OBVIOUS
    <3> QED BY <1>2, <1>5, <2>1, <2>2, <2>3, <3>1
  <2>5. cut \in Seq(Byte) /\ Len(cut) = full + 1
    <3>1. \A i \in 1 .. full + 1 : cut[i] \in Byte
      BY <2>1, <2>4, ElementOfSeq
    <3>2. cut \in [1 .. full + 1 -> Byte] /\ DOMAIN cut = 1 .. full + 1
      BY <2>3, <3>1
    <3>3. cut \in Seq(Byte)
      BY <3>2, SeqDef
    <3> QED BY <3>2, <3>3, LenProperties
  <2>6. cut = more
    BY <2>1, <2>4, <2>5, SeqEqual
  <2> QED BY <1>8, <2>5, <2>6 DEF bytes, more, cut, all
<1> QED BY <1>7, <1>8

\* Every number of bits is some full bytes and a rest.
LEMMA Split ==
    ASSUME NEW n \in Nat
    PROVE  \E full \in Nat, rest \in 0 .. ByteBits - 1 : n = full * ByteBits + rest
<1> USE Sizes
<1> DEFINE d == n \div ByteBits
           m == n % ByteBits
<1>1. d \in Int /\ m \in 0 .. ByteBits - 1 /\ n = ByteBits * d + m
  OBVIOUS
<1> HIDE DEF d, m
<1>2. d \in Nat
  <2> SUFFICES ASSUME 0 - d >= 1 PROVE FALSE
    BY <1>1
  <2>1. ByteBits * (0 - d) >= ByteBits
    BY <1>1, Larger
  <2>2. ByteBits * (0 - d) = 0 - ByteBits * d
    BY <1>1
  <2> QED BY <1>1, <2>1, <2>2
<1>3. n = d * ByteBits + m
  BY <1>1
<1> QED BY <1>1, <1>2, <1>3

-----------------------------------------------------------------------------
(* The stream that a sequence of openings makes.                            *)

BeforeIn(ops, n) == FlattenSeq(SubSeq(ops, 1, n))
PacketIn(ops, n) == Pack(BytesOf(BeforeIn(ops, n), ops[n + 1]))
PacketsIn(ops, n) == [i \in 1 .. n |-> PacketIn(ops, i)]
StreamIn(ops, n) == FlattenSeq(PacketsIn(ops, n))

History(ops) == ops \in Seq(Seq(Bit)) /\ ops # <<>> /\ Len(ops[1]) = ByteBits

LEMMA StreamIs == \A n : StreamOf(n) = StreamIn(openings, n)
BY DEF StreamOf, StreamIn, PacketsIn, Packet, PacketIn, Pack, BeforeIn

LEMMA FirstOnes ==
    ASSUME NEW ops, History(ops), NEW n \in 0 .. Len(ops)
    PROVE  /\ SubSeq(ops, 1, n) \in Seq(Seq(Bit)) /\ Len(SubSeq(ops, 1, n)) = n
           /\ \A i \in 1 .. n : SubSeq(ops, 1, n)[i] = ops[i]
<1>1. ops \in Seq(Seq(Bit)) /\ Len(ops) \in Nat
  BY LenProperties DEF History
<1>2. \A i \in 1 .. n : ops[i] \in Seq(Bit)
  BY <1>1, ElementOfSeq
<1>3. n \in Int /\ 1 \in Int /\ n - 1 + 1 = n /\ (1 <= n \/ n = 0)
  BY <1>1
<1>4. /\ SubSeq(ops, 1, n) \in Seq(Seq(Bit))
      /\ Len(SubSeq(ops, 1, n)) = IF 1 <= n THEN n - 1 + 1 ELSE 0
      /\ \A i \in 1 .. n - 1 + 1 : SubSeq(ops, 1, n)[i] = ops[1 + i - 1]
  <2>1. \A S : (\A i \in 1 .. n : ops[i] \in S) =>
                  /\ SubSeq(ops, 1, n) \in Seq(S)
                  /\ Len(SubSeq(ops, 1, n)) = IF 1 <= n THEN n - 1 + 1 ELSE 0
                  /\ \A i \in 1 .. n - 1 + 1 : SubSeq(ops, 1, n)[i] = ops[1 + i - 1]
    BY <1>3, SubSeqProperties
  <2> QED BY <1>2, <2>1
<1>5. \A i \in 1 .. n : 1 + i - 1 = i
  BY <1>1
<1> QED BY <1>3, <1>4, <1>5

LEMMA BeforeNext ==
    ASSUME NEW ops, History(ops), NEW n \in 0 .. Len(ops) - 1
    PROVE  /\ BeforeIn(ops, n) \in Seq(Bit) /\ ops[n + 1] \in Seq(Bit)
           /\ BeforeIn(ops, n + 1) = BeforeIn(ops, n) \o ops[n + 1]
           /\ BeforeIn(ops, n + 1) \in Seq(Bit)
<1> DEFINE short == SubSeq(ops, 1, n)
           long == SubSeq(ops, 1, n + 1)
<1>1. ops \in Seq(Seq(Bit)) /\ Len(ops) \in Nat /\ n \in Nat
      /\ n \in 0 .. Len(ops) /\ n + 1 \in 0 .. Len(ops) /\ n + 1 \in 1 .. Len(ops)
  BY LenProperties DEF History
<1>2. /\ short \in Seq(Seq(Bit)) /\ Len(short) = n /\ \A i \in 1 .. n : short[i] = ops[i]
      /\ long \in Seq(Seq(Bit)) /\ Len(long) = n + 1 /\ \A i \in 1 .. n + 1 : long[i] = ops[i]
  BY <1>1, FirstOnes
<1>3. ops[n + 1] \in Seq(Bit)
  BY <1>1, ElementOfSeq
<1> DEFINE appended == Append(short, ops[n + 1])
<1> HIDE DEF short, long
<1>4. /\ appended \in Seq(Seq(Bit)) /\ Len(appended) = n + 1
      /\ \A i \in 1 .. n : appended[i] = short[i]
      /\ appended[n + 1] = ops[n + 1]
  BY <1>2, <1>3, AppendProperties
<1> HIDE DEF appended
<1>5. \A i \in 1 .. n + 1 : long[i] = appended[i]
  <2> SUFFICES ASSUME NEW i \in 1 .. n + 1 PROVE long[i] = appended[i]
    OBVIOUS
  <2>1. i \in 1 .. n \/ i = n + 1
    BY <1>1
  <2> QED BY <1>2, <1>4, <2>1
<1>6. long = appended
  BY <1>2, <1>4, <1>5, SeqEqual
<1>7. FlattenSeq(short) \in Seq(Bit) /\ FlattenSeq(Append(short, ops[n + 1])) = FlattenSeq(short) \o ops[n + 1]
  BY <1>2, <1>3, FlattenAppend
<1>8. FlattenSeq(short) \o ops[n + 1] \in Seq(Bit)
  BY <1>3, <1>7, ConcatProperties
<1> QED BY <1>3, <1>6, <1>7, <1>8 DEF BeforeIn, short, long, appended

LEMMA BeforeIs ==
    ASSUME NEW ops, History(ops), NEW n \in 1 .. Len(ops)
    PROVE  BeforeIn(ops, n) \in Seq(Bit) /\ Len(BeforeIn(ops, n)) >= ByteBits
<1> DEFINE G == {k \in Nat : k + 1 <= Len(ops) => Len(BeforeIn(ops, k + 1)) >= ByteBits}
<1>1. Len(ops) \in Nat /\ Len(ops) >= 1 /\ Len(ops[1]) = ByteBits
  BY EmptySeq DEF History
<1>2. \A k \in 0 .. Len(ops) - 1 :
         /\ BeforeIn(ops, k) \in Seq(Bit) /\ ops[k + 1] \in Seq(Bit)
         /\ BeforeIn(ops, k + 1) = BeforeIn(ops, k) \o ops[k + 1]
         /\ Len(BeforeIn(ops, k + 1)) = Len(BeforeIn(ops, k)) + Len(ops[k + 1])
         /\ Len(BeforeIn(ops, k)) \in Nat /\ Len(ops[k + 1]) \in Nat
         /\ BeforeIn(ops, k + 1) \in Seq(Bit)
  BY BeforeNext, ConcatProperties, LenProperties
<1>3. 0 \in G
  <2>1. 0 \in 0 .. Len(ops) - 1
    BY <1>1
  <2>2. Len(BeforeIn(ops, 0 + 1)) = Len(BeforeIn(ops, 0)) + Len(ops[0 + 1]) /\ Len(BeforeIn(ops, 0)) \in Nat
    BY <1>2, <2>1
  <2> QED BY <1>1, <2>2, Sizes
<1>4. ASSUME NEW k \in Nat, k \in G PROVE k + 1 \in G
  <2> SUFFICES ASSUME (k + 1) + 1 <= Len(ops) PROVE Len(BeforeIn(ops, (k + 1) + 1)) >= ByteBits
    OBVIOUS
  <2>1. k + 1 \in 0 .. Len(ops) - 1 /\ k + 1 <= Len(ops)
    BY <1>1
  <2>2. Len(BeforeIn(ops, k + 1)) >= ByteBits
    BY <1>4, <2>1
  <2>3. /\ Len(BeforeIn(ops, (k + 1) + 1)) = Len(BeforeIn(ops, k + 1)) + Len(ops[(k + 1) + 1])
        /\ Len(BeforeIn(ops, k + 1)) \in Nat /\ Len(ops[(k + 1) + 1]) \in Nat
    BY <1>2, <2>1
  <2>4. \A a, d \in Nat : a >= ByteBits => a + d >= ByteBits
    BY Sizes
  <2> QED BY <2>2, <2>3, <2>4
<1>5. Nat \subseteq G
  <2> HIDE DEF G
  <2> QED BY <1>3, <1>4, Induction
<1>6. n - 1 \in Nat /\ (n - 1) + 1 = n /\ n <= Len(ops) /\ n - 1 \in 0 .. Len(ops) - 1
  BY <1>1
<1>7. Len(BeforeIn(ops, (n - 1) + 1)) >= ByteBits
  BY <1>5, <1>6
<1>8. BeforeIn(ops, (n - 1) + 1) \in Seq(Bit)
  BY <1>2, <1>6
<1> QED BY <1>6, <1>7, <1>8

\* A packet, by how many full bytes its opening has.
LEMMA PacketIs ==
    ASSUME NEW ops, History(ops), NEW n \in 1 .. Len(ops) - 1,
           NEW before, before = BeforeIn(ops, n), NEW bits, bits = ops[n + 1],
           NEW full \in Nat, NEW rest \in 0 .. ByteBits - 1, Len(bits) = full * ByteBits + rest
    PROVE  /\ before \in Seq(Bit) /\ bits \in Seq(Bit)
           /\ Len(before \o bits) >= ByteBits /\ before \o bits \in Seq(Bit)
           /\ BytesOf(before, bits) = IF rest = 0 THEN FullBytes(bits, full)
                                      ELSE Append(FullBytes(bits, full), LastBits(before \o bits))
           /\ BytesOf(before, bits) \in Seq(Byte)
           /\ PacketIn(ops, n) = Pack(BytesOf(before, bits))
<1>0. Len(ops) \in Nat
  BY LenProperties DEF History
<1>1. n \in 1 .. Len(ops) /\ n \in 0 .. Len(ops) - 1
  BY <1>0
<1>2. before \in Seq(Bit) /\ Len(before) >= ByteBits
  BY <1>1, BeforeIs
<1>3. bits \in Seq(Bit)
  BY <1>1, BeforeNext
<1>4. Len(before \o bits) = Len(before) + Len(bits) /\ before \o bits \in Seq(Bit)
      /\ Len(before) \in Nat /\ Len(bits) \in Nat
  BY <1>2, <1>3, ConcatProperties, LenProperties
<1>5. Len(before \o bits) >= ByteBits
  BY <1>2, <1>4, Sizes
<1>6. /\ BytesOf(before, bits) = IF rest = 0 THEN FullBytes(bits, full)
                                 ELSE Append(FullBytes(bits, full), LastBits(before \o bits))
      /\ BytesOf(before, bits) \in Seq(Byte)
  BY <1>2, <1>3, <1>5, Cut
<1> QED BY <1>2, <1>3, <1>4, <1>5, <1>6 DEF PacketIn

LEMMA EmptyPack == Pack(<<>>) = <<>>
BY DEF Pack

LEMMA PacketIsSeq ==
    ASSUME NEW ops, History(ops), NEW n \in 1 .. Len(ops) - 1
    PROVE  PacketIn(ops, n) \in Seq(StreamByte)
<1> DEFINE bits == ops[n + 1]
           before == BeforeIn(ops, n)
<1>1. n \in 0 .. Len(ops) - 1
  BY LenProperties DEF History
<1>2. bits \in Seq(Bit) /\ Len(bits) \in Nat
  BY <1>1, BeforeNext, LenProperties
<1>3. PICK full \in Nat, rest \in 0 .. ByteBits - 1 : Len(bits) = full * ByteBits + rest
  BY <1>2, Split
<1>4. BytesOf(before, bits) \in Seq(Byte) /\ PacketIn(ops, n) = Pack(BytesOf(before, bits))
  <2>1. before = BeforeIn(ops, n) /\ bits = ops[n + 1]
    OBVIOUS
  <2> HIDE DEF before, bits
  <2>2. BytesOf(before, bits) \in Seq(Byte)
    BY <1>3, <2>1, PacketIs
  <2>3. PacketIn(ops, n) = Pack(BytesOf(before, bits))
    BY <2>1 DEF PacketIn
  <2> QED BY <2>2, <2>3
<1>5. CASE Len(BytesOf(before, bits)) > 0
  <2> DEFINE bytes == BytesOf(before, bits)
  <2> HIDE DEF bytes
  <2>1. bytes \in Seq(Byte) /\ Len(bytes) > 0
    BY <1>4, <1>5 DEF bytes
  <2>2. Pack(bytes) \in Seq(StreamByte)
    BY <2>1, PackIs
  <2> QED BY <1>4, <2>2 DEF bytes
<1>6. CASE ~(Len(BytesOf(before, bits)) > 0)
  <2>1. BytesOf(before, bits) = <<>>
    BY <1>4, <1>6, EmptySeq
  <2> QED BY <1>4, <2>1, EmptyPack, EmptySeq
<1> QED BY <1>5, <1>6

LEMMA StreamNext ==
    ASSUME NEW ops, History(ops), NEW n \in 1 .. Len(ops) - 1
    PROVE  /\ StreamIn(ops, n - 1) \in Seq(StreamByte)
           /\ StreamIn(ops, n) = StreamIn(ops, n - 1) \o PacketIn(ops, n)
           /\ StreamIn(ops, n) \in Seq(StreamByte) /\ PacketIn(ops, n) \in Seq(StreamByte)
<1> DEFINE short == PacketsIn(ops, n - 1)
           long == PacketsIn(ops, n)
           last == PacketIn(ops, n)
<1>1. Len(ops) \in Nat /\ n \in Nat /\ n - 1 \in Nat /\ (n - 1) + 1 = n /\ n >= 1
  BY LenProperties DEF History
<1>2. \A i \in 1 .. n : PacketIn(ops, i) \in Seq(StreamByte)
  <2>1. \A i \in 1 .. n : i \in 1 .. Len(ops) - 1
    BY <1>1
  <2> QED BY <2>1, PacketIsSeq
<1>3. short \in Seq(Seq(StreamByte)) /\ Len(short) = n - 1 /\ long \in Seq(Seq(StreamByte)) /\ Len(long) = n
  <2>1. \A i \in 1 .. n - 1 : i \in 1 .. n
    BY <1>1
  <2>2. /\ short \in [1 .. n - 1 -> Seq(StreamByte)] /\ DOMAIN short = 1 .. n - 1
        /\ long \in [1 .. n -> Seq(StreamByte)] /\ DOMAIN long = 1 .. n
    BY <1>2, <2>1 DEF PacketsIn
  <2> HIDE DEF short, long
  <2>3. short \in Seq(Seq(StreamByte)) /\ long \in Seq(Seq(StreamByte))
    BY <1>1, <2>2, SeqDef
  <2> QED BY <1>1, <2>2, <2>3, LenProperties
<1>4. (\A i \in 1 .. n - 1 : short[i] = PacketIn(ops, i)) /\ (\A i \in 1 .. n : long[i] = PacketIn(ops, i))
      /\ last \in Seq(StreamByte)
  <2>1. n \in 1 .. n
    BY <1>1
  <2> QED BY <1>2, <2>1 DEF PacketsIn
<1> DEFINE appended == Append(short, last)
<1>5. /\ appended \in Seq(Seq(StreamByte)) /\ Len(appended) = (n - 1) + 1
      /\ \A i \in 1 .. n - 1 : appended[i] = short[i]
      /\ appended[(n - 1) + 1] = last
  <2> HIDE DEF short, last
  <2> QED BY <1>3, <1>4, AppendProperties
<1>6. \A i \in 1 .. n : long[i] = appended[i]
  <2> SUFFICES ASSUME NEW i \in 1 .. n PROVE long[i] = appended[i]
    OBVIOUS
  <2>1. i \in 1 .. n - 1 \/ i = n
    BY <1>1
  <2>2. last = PacketIn(ops, n)
    OBVIOUS
  <2> HIDE DEF short, long, last, appended
  <2> QED BY <1>1, <1>4, <1>5, <2>1, <2>2
<1>7. FlattenSeq(short) \in Seq(StreamByte) /\ FlattenSeq(Append(short, last)) = FlattenSeq(short) \o last
  <2> HIDE DEF short, last
  <2> QED BY <1>3, <1>4, FlattenAppend
<1>8. long = appended
  <2> HIDE DEF short, long, last, appended
  <2> QED BY <1>1, <1>3, <1>5, <1>6, SeqEqual
<1>9. FlattenSeq(short) \o last \in Seq(StreamByte)
  <2> HIDE DEF short, last
  <2> QED BY <1>4, <1>7, ConcatProperties
<1> QED BY <1>4, <1>7, <1>8, <1>9 DEF StreamIn

LEMMA StreamIsSeq ==
    ASSUME NEW ops, History(ops), NEW n \in 0 .. Len(ops) - 1
    PROVE  StreamIn(ops, n) \in Seq(StreamByte)
<1>1. CASE n = 0
  <2>1. PacketsIn(ops, n) = <<>>
    BY <1>1 DEF PacketsIn
  <2> QED BY <2>1, FlattenEmpty, EmptySeq DEF StreamIn
<1>2. CASE n # 0
  <2>1. n \in 1 .. Len(ops) - 1
    BY <1>2
  <2> QED BY <2>1, StreamNext
<1> QED BY <1>1, <1>2

\* The packets of the openings before the last one do not change any more.
LEMMA SameStream ==
    ASSUME NEW ops, NEW new, History(ops), History(new), NEW m \in 1 .. Len(ops), m <= Len(new),
           \A i \in 1 .. m : new[i] = ops[i]
    PROVE  BeforeIn(new, m) = BeforeIn(ops, m) /\ StreamIn(new, m - 1) = StreamIn(ops, m - 1)
<1>1. Len(ops) \in Nat /\ Len(new) \in Nat
  BY LenProperties DEF History
<1>2. ASSUME NEW k \in 1 .. m
      PROVE  BeforeIn(new, k) = BeforeIn(ops, k)
  <2>1. k \in 0 .. Len(ops) /\ k \in 0 .. Len(new) /\ \A i \in 1 .. k : i \in 1 .. m
    BY <1>1
  <2>2. /\ SubSeq(ops, 1, k) \in Seq(Seq(Bit)) /\ Len(SubSeq(ops, 1, k)) = k
        /\ \A i \in 1 .. k : SubSeq(ops, 1, k)[i] = ops[i]
    BY <2>1, FirstOnes
  <2>3. /\ SubSeq(new, 1, k) \in Seq(Seq(Bit)) /\ Len(SubSeq(new, 1, k)) = k
        /\ \A i \in 1 .. k : SubSeq(new, 1, k)[i] = new[i]
    BY <2>1, FirstOnes
  <2>4. SubSeq(new, 1, k) = SubSeq(ops, 1, k)
    BY <2>1, <2>2, <2>3, SeqEqual
  <2> QED BY <2>4 DEF BeforeIn
<1>3. ASSUME NEW i \in 1 .. m - 1
      PROVE  PacketIn(new, i) = PacketIn(ops, i)
  <2>1. i \in 1 .. m /\ i + 1 \in 1 .. m
    BY <1>1
  <2>2. new[i + 1] = ops[i + 1] /\ BeforeIn(new, i) = BeforeIn(ops, i)
    BY <1>2, <2>1
  <2> QED BY <2>2 DEF PacketIn
<1>4. PacketsIn(new, m - 1) = PacketsIn(ops, m - 1)
  BY <1>3 DEF PacketsIn
<1>5. m \in 1 .. m
  BY <1>1
<1> QED BY <1>2, <1>4, <1>5 DEF StreamIn

-----------------------------------------------------------------------------
(* The shift register.                                                      *)

\* The sampled bit of the last clock is not yet in the shift register.
Arriving(now, bit) == IF bit = None THEN now ELSE Append(now, bit)

\* now: the bits of the last opening that have been shifted in.
ShiftInv(now) ==
    LET n == Len(openings) - 1
        before == BeforeIn(openings, n)
    IN  /\ now \in Seq(Bit)
        /\ openings[Len(openings)] = Arriving(now, new_bit)
        /\ Len(before \o now) >= ByteBits
        /\ data_in = LastBits(before \o now)

LEMMA HistoryIs == TypeInv => History(openings) /\ Len(openings) \in Nat /\ Len(openings) >= 1
<1> SUFFICES ASSUME TypeInv PROVE History(openings) /\ Len(openings) \in Nat /\ Len(openings) >= 1
  OBVIOUS
<1>1. openings \in Seq(Seq(Bit)) /\ openings # <<>> /\ Len(openings[1]) = ByteBits
  BY DEF TypeInv, HistoryOK
<1>2. Len(openings) \in Nat /\ Len(openings) >= 1
  BY <1>1, EmptySeq
<1> QED BY <1>1, <1>2 DEF History

LEMMA HistoryNext == ASSUME TypeInv, Next PROVE History(openings')
<1>1. TypeInv'
  BY StepTypes
<1> QED BY <1>1 DEF TypeInv, HistoryOK, History

LEMMA ShiftsIn ==
    ASSUME TypeInv, Next, NEW now, ShiftInv(now),
           NEW arrived, arrived = Arriving(now, new_bit),
           NEW n, n = Len(openings) - 1
    PROVE  /\ n \in Nat /\ arrived \in Seq(Bit) /\ openings[n + 1] = arrived
           /\ BeforeIn(openings, n) \in Seq(Bit) /\ BeforeIn(openings', n) = BeforeIn(openings, n)
           /\ Len(BeforeIn(openings, n) \o arrived) >= ByteBits
           /\ data_in' = LastBits(BeforeIn(openings, n) \o arrived)
           /\ openings'[n + 1] = Arriving(arrived, new_bit')
<1> DEFINE before == BeforeIn(openings, n)
<1>1. /\ History(openings) /\ History(openings') /\ Len(openings) \in Nat /\ Len(openings) >= 1
      /\ n \in Nat /\ n + 1 = Len(openings) /\ n \in 0 .. Len(openings) - 1
  BY HistoryIs, HistoryNext
<1>2. /\ GrewTo(openings, new_bit', Opens, openings') /\ new_bit' \in Bit \cup {None}
      /\ new_bit' # None => new_bit = None
  BY Grew
<1>3. before \in Seq(Bit)
  BY <1>1, BeforeNext
<1> HIDE DEF before
<1>4. /\ now \in Seq(Bit) /\ openings[n + 1] = arrived
      /\ Len(before \o now) >= ByteBits /\ data_in = LastBits(before \o now)
  BY <1>1 DEF ShiftInv, before
<1>5. new_bit \in Bit \cup {None}
  BY DEF TypeInv, TypeOK
<1>6. BeforeIn(openings', n) = before
  <2>1. CASE n = 0
    <3>1. \A ops : SubSeq(ops, 1, 0) = <<>>
      <4>1. 1 \in Int /\ 0 \in Int /\ 0 < 1
        OBVIOUS
      <4> QED BY <4>1, SubSeqEmpty
    <3>2. SubSeq(openings', 1, n) = <<>> /\ SubSeq(openings, 1, n) = <<>>
      BY <2>1, <3>1
    <3> QED BY <3>2 DEF before, BeforeIn
  <2>2. CASE n # 0
    <3>1. n \in 1 .. Len(openings) /\ n <= Len(openings') /\ \A i \in 1 .. n : openings'[i] = openings[i]
      <4>1. /\ Len(openings') = IF Opens THEN Len(openings) + 1 ELSE Len(openings)
            /\ \A i \in 1 .. Len(openings) - 1 : openings'[i] = openings[i]
        BY <1>2 DEF GrewTo
      <4>2. n <= Len(openings') /\ Len(openings) - 1 = n /\ n \in 1 .. Len(openings)
        BY <1>1, <2>2, <4>1
      <4> QED BY <4>1, <4>2
    <3> QED BY <1>1, <3>1, SameStream DEF before
  <2> QED BY <2>1, <2>2
<1>7. /\ arrived \in Seq(Bit) /\ Len(before \o arrived) >= ByteBits
      /\ data_in' = LastBits(before \o arrived)
  <2>1. data_in' = IF new_bit # None THEN Append(Tail(data_in), new_bit) ELSE data_in
    BY DEF Next, Clock, Deserialise, Shifted
  <2>2. CASE new_bit = None
    BY <1>4, <2>1, <2>2 DEF Arriving
  <2>3. CASE new_bit # None
    <3>1. new_bit \in Bit /\ arrived = Append(now, new_bit)
      BY <1>5, <2>3 DEF Arriving
    <3>2. before \o Append(now, new_bit) = Append(before \o now, new_bit)
      BY <1>3, <1>4, <3>1
    <3>3. before \o now \in Seq(Bit) /\ Append(now, new_bit) \in Seq(Bit)
      BY <1>3, <1>4, <3>1, ConcatProperties, AppendProperties
    <3>4. Len(Append(before \o now, new_bit)) = Len(before \o now) + 1 /\ Len(before \o now) \in Nat
      BY <3>1, <3>3, AppendProperties, LenProperties
    <3>5. LastBits(Append(before \o now, new_bit)) = Append(Tail(LastBits(before \o now)), new_bit)
      BY <1>4, <3>1, <3>3, LastNext
    <3>6. Len(Append(before \o now, new_bit)) >= ByteBits
      BY <1>4, <3>4, Sizes
    <3> QED BY <1>4, <2>1, <2>3, <3>1, <3>2, <3>3, <3>5, <3>6
  <2> QED BY <2>2, <2>3
<1>8. openings'[n + 1] = Arriving(arrived, new_bit')
  <2>1. openings'[n + 1] = IF new_bit' = None THEN openings[n + 1] ELSE Append(openings[n + 1], new_bit')
    BY <1>1, <1>2 DEF GrewTo
  <2> QED BY <1>4, <2>1 DEF Arriving
<1> QED BY <1>1, <1>3, <1>4, <1>6, <1>7, <1>8 DEF before

\* The gate stays as it is, or closes: more bits of the same opening.
LEMMA ShiftGoesOn ==
    ASSUME TypeInv, Next, ~Opens, NEW now, ShiftInv(now),
           NEW arrived, arrived = Arriving(now, new_bit)
    PROVE  ShiftInv(arrived)'
<1>1. PICK n : n = Len(openings) - 1
  OBVIOUS
<1>2. /\ n \in Nat /\ arrived \in Seq(Bit)
      /\ BeforeIn(openings', n) = BeforeIn(openings, n)
      /\ Len(BeforeIn(openings, n) \o arrived) >= ByteBits
      /\ data_in' = LastBits(BeforeIn(openings, n) \o arrived)
      /\ openings'[n + 1] = Arriving(arrived, new_bit')
  BY <1>1, ShiftsIn
<1>3. Len(openings') = Len(openings) /\ Len(openings) \in Nat
  BY Grew DEF GrewTo
<1>4. Len(openings') = n + 1 /\ Len(openings') - 1 = n
  BY <1>1, <1>3
<1> QED BY <1>2, <1>4 DEF ShiftInv

\* The gate opens: no bits yet.
LEMMA ShiftOpens ==
    ASSUME TypeInv, Next, Opens, NEW now, ShiftInv(now)
    PROVE  ShiftInv(<<>>)' /\ new_bit' = None
<1>1. PICK n, arrived : n = Len(openings) - 1 /\ arrived = Arriving(now, new_bit)
  OBVIOUS
<1>2. /\ n \in Nat /\ arrived \in Seq(Bit) /\ BeforeIn(openings, n) \in Seq(Bit)
      /\ BeforeIn(openings', n) = BeforeIn(openings, n)
      /\ Len(BeforeIn(openings, n) \o arrived) >= ByteBits
      /\ data_in' = LastBits(BeforeIn(openings, n) \o arrived)
      /\ openings'[n + 1] = Arriving(arrived, new_bit')
  BY <1>1, ShiftsIn
<1>3. /\ Len(openings') = Len(openings) + 1 /\ Len(openings) \in Nat
      /\ openings'[Len(openings) + 1] = <<>> /\ new_bit' = None
  BY Grew DEF GrewTo, Opens
<1>4. Len(openings) = n + 1 /\ Len(openings') = (n + 1) + 1 /\ Len(openings') - 1 = n + 1
      /\ n \in 0 .. Len(openings') - 1
  BY <1>1, <1>2, <1>3
<1>5. BeforeIn(openings', n + 1) = BeforeIn(openings, n) \o arrived
  <2>1. BeforeIn(openings', n + 1) = BeforeIn(openings', n) \o openings'[n + 1]
    BY <1>4, HistoryNext, BeforeNext
  <2>2. openings'[n + 1] = arrived
    BY <1>2, <1>3 DEF Arriving
  <2> QED BY <1>2, <2>1, <2>2
<1>6. BeforeIn(openings, n) \o arrived \in Seq(Bit)
  BY <1>2, ConcatProperties
<1>7. (BeforeIn(openings, n) \o arrived) \o <<>> = BeforeIn(openings, n) \o arrived /\ <<>> \in Seq(Bit)
  BY <1>6, ConcatEmptySeq, EmptySeq
<1>8. openings'[Len(openings')] = Arriving(<<>>, new_bit')
  BY <1>3, <1>4 DEF Arriving
<1> QED BY <1>2, <1>3, <1>4, <1>5, <1>7, <1>8 DEF ShiftInv

-----------------------------------------------------------------------------
(* The stream.                                                              *)

\* The byte offered counts as out: without an overflow the consumer gets it.
Out == IF parallel = None THEN delivered ELSE Append(delivered, parallel)

Pipe(base, bytes, ended) == Piped(base, bytes, ended, Out, pending, new_byte, byte_count)

LEMMA OutIsSeq == TypeInv => Out \in Seq(StreamByte)
<1> SUFFICES ASSUME TypeInv PROVE Out \in Seq(StreamByte)
  OBVIOUS
<1>1. delivered \in Seq(StreamByte) /\ parallel \in StreamByte \cup {None}
  BY DEF TypeInv, TypeOK, HistoryOK
<1>2. CASE parallel = None
  BY <1>1, <1>2 DEF Out
<1>3. CASE parallel # None
  BY <1>1, <1>3, AppendProperties DEF Out
<1> QED BY <1>2, <1>3

\* What a clock does to the pipeline.
LEMMA PipeMoves ==
    ASSUME TypeInv, Next, ~overflow'
    PROVE  /\ ~overflow
           /\ Moves(Out, pending, new_byte, byte_count, new_byte', Settled /\ bit_count = 0,
                    Out', pending', byte_count')
<1>1. PICK ready \in BOOLEAN : Clock(ready)
  BY DEF Next
<1>2. ~overflow /\ ~(Sends /\ parallel # None /\ ~ready)
  BY <1>1 DEF Clock, Send
<1> DEFINE byte == [data |-> pending.data, last |-> IsLast]
<1>3. Sends => byte # None
  <2>1. Sends => pending \in StreamByte /\ byte_count \in 0 .. MaxBytes - 1
    BY DEF TypeInv, TypeOK, Sends
  <2>2. Sends => byte \in StreamByte
    BY <2>1, Typed DEF IsLast
  <2> HIDE DEF byte
  <2> QED BY <2>2, Sizes
<1>4. /\ parallel' = IF Sends THEN byte ELSE IF ready THEN None ELSE parallel
      /\ delivered' = IF parallel # None /\ ready THEN Append(delivered, parallel) ELSE delivered
  BY <1>1 DEF Clock, Send, Recorded
<1> HIDE DEF byte
<1>5. Out' = IF Sends THEN Append(Out, byte) ELSE Out
  <2>1. Out' = IF parallel' = None THEN delivered' ELSE Append(delivered', parallel')
    BY DEF Out
  <2>2. CASE Sends
    <3>1. parallel' = byte /\ parallel' # None
      BY <1>3, <1>4, <2>2
    <3>2. delivered' = Out
      BY <1>2, <1>4, <2>2 DEF Out
    <3> QED BY <2>1, <2>2, <3>1, <3>2
  <2>3. CASE ~Sends /\ ready
    BY <1>4, <2>1, <2>3 DEF Out
  <2>4. CASE ~Sends /\ ~ready
    BY <1>4, <2>1, <2>4 DEF Out
  <2> QED BY <2>2, <2>3, <2>4
<1>6. LET kept == IF new_byte # None THEN new_byte ELSE IF Sends THEN None ELSE pending
      IN  pending' = IF kept # None /\ Settled /\ bit_count = 0
                     THEN [kept EXCEPT !.last = TRUE] ELSE kept
  BY <1>1 DEF Clock, Hold
<1>7. byte_count' = IF ~Sends THEN byte_count ELSE IF IsLast THEN 0 ELSE byte_count + 1
  BY <1>1 DEF Clock, Count
<1> QED BY <1>2, <1>5, <1>6, <1>7 DEF Moves, Sends, IsLast, byte

\* What a clock completes.
LEMMA Completes ==
    ASSUME TypeInv, Next
    PROVE  /\ Settled <=> ~esdi_read_gate /\ new_bit = None
           /\ bit_count' = IF Settled THEN 0
                           ELSE IF new_bit # None THEN (bit_count + 1) % ByteBits ELSE bit_count
           /\ new_byte' = IF Settled /\ bit_count # 0 THEN [data |-> data_in', last |-> TRUE]
                          ELSE IF new_bit # None /\ bit_count = ByteBits - 1
                          THEN [data |-> data_in', last |-> FALSE] ELSE None
           /\ new_byte' \in StreamByte \cup {None}
           /\ (Settled /\ bit_count = 0) <=> (Settled /\ new_byte' = None)
           /\ new_byte' # None => (new_byte'.last <=> Settled) /\ new_byte'.data = data_in'
<1>1. /\ Settled <=> ~esdi_read_gate /\ new_bit = None
      /\ bit_count' = IF Settled THEN 0
                      ELSE IF new_bit # None THEN (bit_count + 1) % ByteBits ELSE bit_count
  BY DEF Next, Clock, Deserialise, Settled
<1>2. new_byte' = IF Settled /\ bit_count # 0 THEN [data |-> data_in', last |-> TRUE]
                  ELSE IF new_bit # None /\ bit_count = ByteBits - 1
                  THEN [data |-> data_in', last |-> FALSE] ELSE None
  BY DEF Next, Clock, Deserialise, Settled
<1>3. /\ new_byte' \in StreamByte \cup {None} /\ data_in' \in Byte
  BY StepTypes DEF TypeInv, TypeOK
<1>4. \A last \in BOOLEAN : /\ [data |-> data_in', last |-> last] # None
                            /\ [data |-> data_in', last |-> last].last = last
                            /\ [data |-> data_in', last |-> last].data = data_in'
  BY <1>3, Typed, Sizes
<1>5. /\ (Settled /\ bit_count = 0) <=> (Settled /\ new_byte' = None)
      /\ new_byte' # None => (new_byte'.last <=> Settled) /\ new_byte'.data = data_in'
  <2>1. CASE Settled /\ bit_count # 0
    BY <1>2, <1>4, <2>1
  <2>2. CASE ~Settled /\ new_bit # None /\ bit_count = ByteBits - 1
    BY <1>2, <1>4, <2>2
  <2>3. CASE (Settled /\ bit_count = 0) \/ (~Settled /\ ~(new_bit # None /\ bit_count = ByteBits - 1))
    <3>1. new_byte' = None
      BY <1>1, <1>2, <2>3
    <3> QED BY <2>3, <3>1
  <2> QED BY <2>1, <2>2, <2>3
<1> QED BY <1>1, <1>2, <1>3, <1>5

BytesIn(ops, n) == BytesOf(BeforeIn(ops, n), ops[n + 1])

\* The packet of the last opening is being made.
Making(now) ==
    LET n == Len(openings) - 1 IN
    /\ n > 0
    /\ \E full \in Nat :
          /\ Len(now) = full * ByteBits + bit_count
          /\ Pipe(StreamIn(openings, n - 1), FullBytes(now, full), FALSE)

\* The gate has closed and the packet is on its way out.
Ended ==
    LET n == Len(openings) - 1 IN
    /\ n > 0 /\ ~esdi_read_gate /\ new_bit = None /\ bit_count = 0
    /\ Len(BytesIn(openings, n)) > 0
    /\ Pipe(StreamIn(openings, n - 1), BytesIn(openings, n), TRUE)

\* The gate has closed and the packet is out.
Idle ==
    /\ ~esdi_read_gate /\ new_bit = None /\ bit_count = 0
    /\ Pipe(StreamIn(openings, Len(openings) - 1), <<>>, FALSE)

\* The gate has opened again before the packet is out.  It has no new byte yet: it takes
\* more clocks to the first one than the old packet needs.
Behind(now) ==
    LET n == Len(openings) - 1 IN
    /\ n > 1 /\ bit_count = 0 /\ now = <<>>
    /\ new_byte # None => new_bit = None
    /\ closedFor + One(new_byte) <= 1
    /\ Len(BytesIn(openings, n - 1)) > 0
    /\ Pipe(StreamIn(openings, n - 2), BytesIn(openings, n - 1), TRUE)

Phase(now) == Making(now) \/ Ended \/ Idle \/ Behind(now)
StreamInv == \E now \in Seq(Bit) : ShiftInv(now) /\ (~overflow => Phase(now))

LEMMA Same ==
    ASSUME TypeInv, Next, NEW m \in 1 .. Len(openings), m < Len(openings) \/ new_bit' = None
    PROVE  /\ BeforeIn(openings', m) = BeforeIn(openings, m)
           /\ StreamIn(openings', m - 1) = StreamIn(openings, m - 1)
           /\ m > 1 => BytesIn(openings', m - 1) = BytesIn(openings, m - 1)
<1>1. /\ History(openings) /\ History(openings') /\ Len(openings) \in Nat /\ Len(openings) >= 1
  BY HistoryIs, HistoryNext
<1>2. GrewTo(openings, new_bit', Opens, openings')
  BY Grew
<1>3. /\ Len(openings') = IF Opens THEN Len(openings) + 1 ELSE Len(openings)
      /\ \A i \in 1 .. Len(openings) - 1 : openings'[i] = openings[i]
      /\ new_bit' = None => openings'[Len(openings)] = openings[Len(openings)]
  BY <1>2 DEF GrewTo
<1>4. \A i \in 1 .. m : openings'[i] = openings[i]
  <2> SUFFICES ASSUME NEW i \in 1 .. m PROVE openings'[i] = openings[i]
    OBVIOUS
  <2>1. i \in 1 .. Len(openings) - 1 \/ (i = Len(openings) /\ new_bit' = None)
    BY <1>1
  <2> QED BY <1>3, <2>1
<1>5. m <= Len(openings')
  BY <1>1, <1>3
<1>6. BeforeIn(openings', m) = BeforeIn(openings, m) /\ StreamIn(openings', m - 1) = StreamIn(openings, m - 1)
  BY <1>1, <1>4, <1>5, SameStream
<1>7. m > 1 => BytesIn(openings', m - 1) = BytesIn(openings, m - 1)
  <2> SUFFICES ASSUME m > 1 PROVE BytesIn(openings', m - 1) = BytesIn(openings, m - 1)
    OBVIOUS
  <2> DEFINE k == m - 1
  <2>1. /\ k \in 1 .. Len(openings) /\ k <= Len(openings') /\ k + 1 = m /\ m \in 1 .. m
        /\ \A i \in 1 .. k : i \in 1 .. m
    BY <1>1, <1>5
  <2> HIDE DEF k
  <2>2. \A i \in 1 .. k : openings'[i] = openings[i]
    BY <1>4, <2>1
  <2>3. BeforeIn(openings', k) = BeforeIn(openings, k)
    BY <1>1, <2>1, <2>2, SameStream
  <2>4. openings'[k + 1] = openings[k + 1]
    BY <1>4, <2>1
  <2> QED BY <2>3, <2>4 DEF BytesIn, k
<1> QED BY <1>6, <1>7

\* The gate only opens after it was closed for some clocks.
LEMMA OpensLate ==
    ASSUME TypeInv, Next, Opens
    PROVE  Settled /\ closedFor >= 2
<1>1. closedFor = MinGap /\ ~esdi_read_gate
  BY DEF Next, Clock, Gate, Opens
<1>2. closedFor >= 2
  BY <1>1, Sizes
<1> QED BY <1>1, <1>2 DEF TypeInv, GateInv, Settled

LEMMA NoneSampled == ASSUME TypeInv, Next, ~esdi_read_gate PROVE new_bit' = None
BY DEF Next, Clock, Sample

LEMMA EmptyPiped ==
    ASSUME NEW base, NEW ended, NEW out, NEW held, NEW new, NEW count,
           Piped(base, <<>>, ended, out, held, new, count)
    PROVE  Piped(base, <<>>, FALSE, out, held, new, count)
<1>1. held = None /\ new = None
  <2>1. (Len(<<>>) - One(new)) - One(held) \in Nat /\ Len(<<>>) = 0
    BY DEF Piped
  <2> QED BY <2>1 DEF One
<1> QED BY <1>1 DEF Piped

LEMMA NoFullBytes == \A bits : FullBytes(bits, 0) = <<>>
BY DEF FullBytes

\* What follows once the last packet is out and the gate still closed.
LEMMA ThenIdle ==
    ASSUME TypeInv, Next, Settled, bit_count' = 0,
           NEW n, n = Len(openings) - 1,
           Piped(StreamIn(openings, n), <<>>, FALSE, Out', pending', new_byte', byte_count')
    PROVE  /\ ~Opens => Idle'
           /\ Opens => Making(<<>>)'
<1>1. new_bit' = None /\ ~esdi_read_gate
  BY NoneSampled DEF Settled
<1>2. /\ n \in Nat /\ Len(openings) \in 1 .. Len(openings) /\ Len(openings) - 1 = n
  BY HistoryIs
<1>3. StreamIn(openings', n) = StreamIn(openings, n)
  BY <1>1, <1>2, Same
<1>4. Len(openings') = IF Opens THEN Len(openings) + 1 ELSE Len(openings)
  BY Grew DEF GrewTo
<1>5. CASE ~Opens
  <2>1. ~esdi_read_gate'
    BY <1>1, <1>5 DEF Opens
  <2>2. Len(openings') - 1 = n
    BY <1>2, <1>4, <1>5
  <2> QED BY <1>1, <1>3, <1>5, <2>1, <2>2 DEF Idle, Pipe
<1>6. CASE Opens
  <2>1. Len(openings') - 1 = n + 1 /\ n + 1 > 0 /\ (n + 1) - 1 = n
    BY <1>2, <1>4, <1>6, HistoryIs
  <2>2. Len(<<>>) = 0 * ByteBits + 0 /\ 0 \in Nat
    BY Sizes
  <2>3. Len(<<>>) = 0 * ByteBits + bit_count' /\ FullBytes(<<>>, 0) = <<>>
    BY <2>2, NoFullBytes
  <2>4. Piped(StreamIn(openings', n), FullBytes(<<>>, 0), FALSE, Out', pending', new_byte', byte_count')
    BY <1>3, <2>3
  <2> QED BY <1>6, <2>1, <2>2, <2>3, <2>4 DEF Making, Pipe
<1> QED BY <1>5, <1>6

LEMMA ThenEnded ==
    ASSUME TypeInv, Next, Settled, bit_count' = 0,
           NEW n, n = Len(openings) - 1, n > 0,
           Piped(StreamIn(openings, n - 1), BytesIn(openings, n), TRUE,
                 Out', pending', new_byte', byte_count')
    PROVE  /\ ~Opens => Ended' \/ Idle'
           /\ Opens => Making(<<>>)' \/ Behind(<<>>)'
<1>1. new_bit' = None /\ ~esdi_read_gate
  BY NoneSampled DEF Settled
<1>2. /\ n \in Nat /\ n \in 1 .. Len(openings) /\ n < Len(openings) /\ n + 1 = Len(openings)
      /\ n + 1 \in 1 .. Len(openings) /\ (n + 1) - 1 = n /\ n + 1 > 1
      /\ n \in 1 .. Len(openings) - 1 /\ Len(openings) \in Nat
  BY HistoryIs
<1>3. /\ StreamIn(openings', n - 1) = StreamIn(openings, n - 1)
      /\ BytesIn(openings', n) = BytesIn(openings, n)
  <2>1. StreamIn(openings', n - 1) = StreamIn(openings, n - 1)
    BY <1>1, <1>2, Same
  <2>2. BytesIn(openings', (n + 1) - 1) = BytesIn(openings, (n + 1) - 1)
    BY <1>1, <1>2, Same
  <2> QED BY <1>2, <2>1, <2>2
<1>4. Len(openings') = IF Opens THEN Len(openings) + 1 ELSE Len(openings)
  BY Grew DEF GrewTo
<1>5. CASE BytesIn(openings, n) = <<>>
  <2>1. Piped(StreamIn(openings, n - 1), <<>>, FALSE, Out', pending', new_byte', byte_count')
    BY <1>5, EmptyPiped
  <2>2. /\ StreamIn(openings, n) = StreamIn(openings, n - 1) \o PacketIn(openings, n)
        /\ StreamIn(openings, n - 1) \in Seq(StreamByte)
    BY <1>2, HistoryIs, StreamNext
  <2>3. PacketIn(openings, n) = <<>>
    BY <1>5, EmptyPack DEF PacketIn, BytesIn
  <2>4. StreamIn(openings, n) = StreamIn(openings, n - 1)
    BY <2>2, <2>3, ConcatEmptySeq
  <2> QED BY <2>1, <2>4, ThenIdle
<1>6. CASE BytesIn(openings, n) # <<>>
  <2>1. Len(BytesIn(openings, n)) > 0
    <3>1. BytesIn(openings, n) \in Seq(Byte)
      <4>1. openings[n + 1] \in Seq(Bit) /\ Len(openings[n + 1]) \in Nat
        BY <1>2, ElementOfSeq, LenProperties, HistoryIs DEF History
      <4>2. PICK full \in Nat, rest \in 0 .. ByteBits - 1 :
               Len(openings[n + 1]) = full * ByteBits + rest
        BY <4>1, Split
      <4> QED BY <1>2, <4>2, HistoryIs, PacketIs DEF BytesIn
    <3> QED BY <1>6, <3>1, EmptySeq
  <2>2. CASE ~Opens
    <3>1. ~esdi_read_gate' /\ Len(openings') - 1 = n
      BY <1>1, <1>2, <1>4, <2>2 DEF Opens
    <3> QED BY <1>1, <1>2, <1>3, <2>1, <2>2, <3>1 DEF Ended, Pipe
  <2>3. CASE Opens
    <3>1. Len(openings') - 1 = n + 1 /\ n + 1 > 1 /\ (n + 1) - 1 = n /\ (n + 1) - 2 = n - 1
      BY <1>2, <1>4, <2>3
    <3>2. closedFor' = 0
      BY <2>3 DEF Opens, Next, Clock, Gate
    <3>3. closedFor' + One(new_byte') <= 1 /\ (new_byte' # None => new_bit' = None)
      BY <1>1, <3>2 DEF One
    <3>4. Piped(StreamIn(openings', n - 1), BytesIn(openings', n), TRUE,
                Out', pending', new_byte', byte_count')
      BY <1>3
    <3>5. Len(BytesIn(openings', n)) > 0
      BY <1>3, <2>1
    <3> QED BY <2>3, <3>1, <3>3, <3>4, <3>5 DEF Behind, Pipe
  <2> QED BY <2>2, <2>3
<1> QED BY <1>5, <1>6

\* The packet of an opening whose bits are all in.
LEMMA WholePacket ==
    ASSUME TypeInv, NEW now, ShiftInv(now), new_bit = None,
           NEW n, n = Len(openings) - 1, n > 0,
           NEW full \in Nat, NEW rest \in 0 .. ByteBits - 1, Len(now) = full * ByteBits + rest
    PROVE  /\ BytesIn(openings, n) = IF rest = 0 THEN FullBytes(now, full)
                                     ELSE Append(FullBytes(now, full), data_in)
           /\ BytesIn(openings, n) \in Seq(Byte)
<1>1. /\ n \in 1 .. Len(openings) - 1 /\ n + 1 = Len(openings) /\ History(openings)
  BY HistoryIs
<1>2. openings[n + 1] = now /\ data_in = LastBits(BeforeIn(openings, n) \o now)
  BY <1>1 DEF ShiftInv, Arriving
<1> DEFINE before == BeforeIn(openings, n)
<1>3. /\ BytesOf(before, now) = IF rest = 0 THEN FullBytes(now, full)
                                ELSE Append(FullBytes(now, full), LastBits(before \o now))
      /\ BytesOf(before, now) \in Seq(Byte)
  <2>1. PICK ops : ops = openings
    OBVIOUS
  <2>2. before = BeforeIn(ops, n) /\ now = ops[n + 1] /\ History(ops) /\ n \in 1 .. Len(ops) - 1
    BY <1>1, <1>2, <2>1
  <2> HIDE DEF before
  <2>3. BytesOf(before, now) \in Seq(Byte)
    BY <2>2, PacketIs
  <2>4. BytesOf(before, now) = IF rest = 0 THEN FullBytes(now, full)
                               ELSE Append(FullBytes(now, full), LastBits(before \o now))
    <3>1. before \in Seq(Bit) /\ now \in Seq(Bit) /\ Len(before \o now) >= ByteBits
      BY <2>2, PacketIs
    <3> QED BY <3>1, Cut
  <2> QED BY <2>3, <2>4
<1>4. BytesIn(openings, n) = BytesOf(before, now)
  BY <1>2 DEF BytesIn
<1> HIDE DEF before
<1> QED BY <1>2, <1>3, <1>4 DEF before

\* Another clock, while bytes of the packet may follow.
LEMMA PipePushed ==
    ASSUME TypeInv, Next, ~overflow',
           NEW base \in Seq(StreamByte), NEW bytes \in Seq(Byte), Pipe(base, bytes, FALSE),
           NEW settled \in BOOLEAN, settled <=> Settled,
           NEW more, more = IF new_byte' = None THEN bytes ELSE Append(bytes, new_byte'.data)
    PROVE  Piped(base, more, settled, Out', pending', new_byte', byte_count')
<1>1. PICK mark, next, out1, held1, count1 :
         /\ mark \in BOOLEAN /\ next \in StreamByte \cup {None}
         /\ mark <=> Settled /\ bit_count = 0
         /\ next = new_byte' /\ out1 = Out' /\ held1 = pending' /\ count1 = byte_count'
  BY Completes
<1>2. PICK held, new, out, count :
         /\ held \in StreamByte \cup {None} /\ new \in StreamByte \cup {None}
         /\ held = pending /\ new = new_byte /\ out = Out /\ count = byte_count
  BY DEF TypeInv, TypeOK
<1>3. /\ mark <=> settled /\ next = None
      /\ next # None => (next.last <=> settled)
  BY <1>1, Completes
<1>4. Moves(out, held, new, count, next, mark, out1, held1, count1)
  <2>1. mark = (Settled /\ bit_count = 0)
    BY <1>1
  <2> QED BY <1>1, <1>2, <2>1, PipeMoves
<1>5. Piped(base, bytes, FALSE, out, held, new, count)
  BY <1>2 DEF Pipe
<1>6. more = IF next = None THEN bytes ELSE Append(bytes, next.data)
  BY <1>1
<1>7. Pushing(base, bytes, more, settled, mark, out, held, new, count, out1, held1, next, count1)
  BY <1>1, <1>2, <1>3, <1>4, <1>5, <1>6 DEF Pushing
<1>8. Piped(base, more, settled, out1, held1, next, count1)
  BY <1>7, Pushed
<1> QED BY <1>1, <1>8

LEMMA MakingEnds ==
    ASSUME TypeInv, Next, ~overflow', NEW now, ShiftInv(now), Making(now), Settled
    PROVE  /\ ~Opens => Ended' \/ Idle'
           /\ Opens => Making(<<>>)' \/ Behind(<<>>)'
<1>1. PICK n : n = Len(openings) - 1
  OBVIOUS
<1>2. PICK full \in Nat : /\ Len(now) = full * ByteBits + bit_count
                          /\ Pipe(StreamIn(openings, n - 1), FullBytes(now, full), FALSE)
  BY <1>1 DEF Making
<1>3. /\ n > 0 /\ n \in 1 .. Len(openings) - 1 /\ History(openings) /\ now \in Seq(Bit)
      /\ bit_count \in 0 .. ByteBits - 1 /\ Len(now) \in Nat
  BY <1>1, HistoryIs, LenProperties DEF Making, ShiftInv, TypeInv, TypeOK
<1>4. new_bit = None
  BY DEF Settled
<1>5. /\ BytesIn(openings, n) = IF bit_count = 0 THEN FullBytes(now, full)
                                ELSE Append(FullBytes(now, full), data_in)
  BY <1>1, <1>2, <1>3, <1>4, WholePacket
<1>6. /\ StreamIn(openings, n - 1) \in Seq(StreamByte)
      /\ FullBytes(now, full) \in Seq(Byte)
  <2>1. full * ByteBits <= Len(now)
    <3>1. full * ByteBits \in Nat
      BY Times
    <3> QED BY <1>2, <1>3, <3>1
  <2> QED BY <1>3, <2>1, FullIsSeq, StreamNext
<1>7. /\ bit_count' = 0 /\ data_in' = data_in
      /\ new_byte' \in StreamByte \cup {None}
      /\ (Settled /\ bit_count = 0) <=> (Settled /\ new_byte' = None)
      /\ new_byte' # None => (new_byte'.last <=> Settled) /\ new_byte'.data = data_in'
  <2>1. data_in' = data_in
    BY <1>4 DEF Next, Clock, Deserialise
  <2> QED BY <2>1, Completes
<1>8. Piped(StreamIn(openings, n - 1), BytesIn(openings, n), TRUE, Out', pending', new_byte', byte_count')
  <2>1. Pipe(StreamIn(openings, n - 1), FullBytes(now, full), FALSE)
    BY <1>2
  <2>2. BytesIn(openings, n) = IF new_byte' = None THEN FullBytes(now, full)
                               ELSE Append(FullBytes(now, full), new_byte'.data)
    BY <1>5, <1>7
  <2> QED BY <1>6, <2>1, <2>2, PipePushed
<1> QED BY <1>1, <1>3, <1>7, <1>8, ThenEnded

LEMMA MakingGoesOn ==
    ASSUME TypeInv, Next, ~overflow', NEW now, ShiftInv(now), Making(now), ~Settled,
           NEW arrived, arrived = Arriving(now, new_bit)
    PROVE  Making(arrived)'
<1>1. PICK n : n = Len(openings) - 1
  OBVIOUS
<1>2. PICK full \in Nat : /\ Len(now) = full * ByteBits + bit_count
                          /\ Pipe(StreamIn(openings, n - 1), FullBytes(now, full), FALSE)
  BY <1>1 DEF Making
<1>3. /\ n > 0 /\ n \in 1 .. Len(openings) - 1 /\ History(openings) /\ now \in Seq(Bit)
      /\ n \in 1 .. Len(openings) /\ n < Len(openings)
      /\ bit_count \in 0 .. ByteBits - 1 /\ Len(now) \in Nat
  BY <1>1, HistoryIs, LenProperties DEF Making, ShiftInv, TypeInv, TypeOK
<1>4. Len(openings') - 1 = n
  <2>1. ~Opens
    BY OpensLate
  <2>2. Len(openings') = Len(openings)
    BY <2>1, Grew DEF GrewTo
  <2> QED BY <1>1, <2>2
<1>5. /\ BeforeIn(openings, n) \in Seq(Bit) /\ arrived \in Seq(Bit)
      /\ data_in' = LastBits(BeforeIn(openings, n) \o arrived)
  BY <1>1, ShiftsIn
<1>6. StreamIn(openings', n - 1) = StreamIn(openings, n - 1)
  BY <1>3, Same
<1>7. full * ByteBits \in Nat /\ full * ByteBits <= Len(now) /\ full + 1 \in Nat
      /\ (full + 1) * ByteBits = full * ByteBits + ByteBits
  <2>1. full * ByteBits \in Nat /\ (full + 1) * ByteBits = full * ByteBits + ByteBits
    BY Times
  <2> QED BY <1>2, <1>3, <2>1
<1>8. StreamIn(openings, n - 1) \in Seq(StreamByte) /\ FullBytes(now, full) \in Seq(Byte)
  BY <1>3, <1>7, FullIsSeq, StreamNext
<1>9. /\ bit_count' = IF new_bit # None THEN (bit_count + 1) % ByteBits ELSE bit_count
      /\ new_byte' = IF new_bit # None /\ bit_count = ByteBits - 1
                     THEN [data |-> data_in', last |-> FALSE] ELSE None
      /\ new_byte' \in StreamByte \cup {None}
      /\ new_byte' # None => ~new_byte'.last /\ new_byte'.data = data_in'
  BY Completes
<1>10. /\ arrived = IF new_bit = None THEN now ELSE Append(now, new_bit)
       /\ new_bit # None => /\ new_bit \in Bit /\ Len(arrived) = Len(now) + 1
                            /\ FullBytes(arrived, full) = FullBytes(now, full)
  <2>1. arrived = IF new_bit = None THEN now ELSE Append(now, new_bit)
    BY DEF Arriving
  <2>2. new_bit # None => new_bit \in Bit
    BY DEF TypeInv, TypeOK
  <2>3. \A bit \in Bit : /\ Len(Append(now, bit)) = Len(now) + 1
                         /\ FullBytes(Append(now, bit), full) = FullBytes(now, full)
    BY <1>3, <1>7, FullLonger, AppendProperties
  <2> QED BY <2>1, <2>2, <2>3
<1>11. ASSUME NEW more,
              more = IF new_byte' = None THEN FullBytes(now, full)
                     ELSE Append(FullBytes(now, full), new_byte'.data)
       PROVE  Piped(StreamIn(openings', n - 1), more, FALSE, Out', pending', new_byte', byte_count')
  <2>1. Pipe(StreamIn(openings, n - 1), FullBytes(now, full), FALSE)
    BY <1>2
  <2>2. Piped(StreamIn(openings, n - 1), more, FALSE, Out', pending', new_byte', byte_count')
    BY <1>8, <1>11, <2>1, PipePushed
  <2> QED BY <1>6, <2>2
<1>12. CASE new_bit = None
  <2>1. /\ bit_count' = bit_count /\ new_byte' = None /\ arrived = now
    BY <1>9, <1>10, <1>12
  <2>2. Piped(StreamIn(openings', n - 1), FullBytes(arrived, full), FALSE,
              Out', pending', new_byte', byte_count')
    BY <1>11, <2>1
  <2>3. Len(arrived) = full * ByteBits + bit_count'
    BY <1>2, <2>1
  <2> QED BY <1>3, <1>4, <2>2, <2>3 DEF Making, Pipe
<1>13. CASE new_bit # None /\ bit_count # ByteBits - 1
  <2>1. bit_count' = bit_count + 1 /\ new_byte' = None
    <3>1. (bit_count + 1) % ByteBits = bit_count + 1
      <4>1. bit_count + 1 \in 0 .. ByteBits - 1 /\ bit_count + 1 = 0 * ByteBits + (bit_count + 1) /\ 0 \in Int
        BY <1>3, <1>13, Sizes
      <4>2. \A r \in 0 .. ByteBits - 1 : (0 * ByteBits + r) % ByteBits = r
        BY <4>1, Sizes, DivUnique
      <4> QED BY <4>1, <4>2
    <3> QED BY <1>9, <1>13, <3>1
  <2>2. Piped(StreamIn(openings', n - 1), FullBytes(arrived, full), FALSE,
              Out', pending', new_byte', byte_count')
    BY <1>10, <1>11, <1>13, <2>1
  <2>3. Len(arrived) = full * ByteBits + bit_count'
    <3>1. Len(arrived) = full * ByteBits + (bit_count + 1)
      BY <1>2, <1>3, <1>7, <1>10, <1>13
    <3> QED BY <2>1, <3>1
  <2> QED BY <1>3, <1>4, <2>2, <2>3 DEF Making, Pipe
<1>14. CASE new_bit # None /\ bit_count = ByteBits - 1
  <2>1. /\ bit_count' = 0
        /\ new_byte' # None /\ new_byte'.data = data_in'
    <3>1. (bit_count + 1) % ByteBits = 0
      <4>1. bit_count + 1 = 1 * ByteBits + 0 /\ 1 \in Int /\ 0 \in 0 .. ByteBits - 1
        BY <1>3, <1>14, Sizes
      <4>2. (1 * ByteBits + 0) % ByteBits = 0
        BY <4>1, Sizes, DivUnique
      <4> QED BY <4>1, <4>2
    <3>2. new_byte' = [data |-> data_in', last |-> FALSE]
      BY <1>9, <1>14
    <3>3. [data |-> data_in', last |-> FALSE] # None
      <4>1. data_in' \in Byte
        BY StepTypes DEF TypeInv, TypeOK
      <4> QED BY <4>1, Typed, Sizes
    <3> QED BY <1>9, <1>14, <3>1, <3>2, <3>3
  <2>2. Len(arrived) = (full + 1) * ByteBits + 0 /\ (full + 1) * ByteBits = Len(arrived)
    BY <1>2, <1>3, <1>7, <1>10, <1>14, Sizes
  <2>3. data_in' = FullByte(arrived, full + 1)
    BY <1>5, <2>2, LastIsFull
  <2>4. FullBytes(arrived, full + 1) = Append(FullBytes(arrived, full), FullByte(arrived, full + 1))
    <3>1. (full + 1) * ByteBits <= Len(arrived)
      BY <1>7, <2>2, Sizes
    <3> QED BY <1>5, <3>1, FullNext
  <2>5. FullBytes(arrived, full + 1) = IF new_byte' = None THEN FullBytes(now, full)
                                       ELSE Append(FullBytes(now, full), new_byte'.data)
    BY <1>10, <1>14, <2>1, <2>3, <2>4
  <2>6. Piped(StreamIn(openings', n - 1), FullBytes(arrived, full + 1), FALSE,
              Out', pending', new_byte', byte_count')
    BY <1>11, <2>5
  <2>7. Len(arrived) = (full + 1) * ByteBits + bit_count'
    BY <2>1, <2>2
  <2> QED BY <1>3, <1>4, <1>7, <2>6, <2>7 DEF Making, Pipe
<1> QED BY <1>12, <1>13, <1>14

\* Another clock, when the packet gets no more bytes.
LEMMA PipeDrains ==
    ASSUME TypeInv, Next, ~overflow', new_byte' = None,
           NEW base \in Seq(StreamByte), NEW bytes \in Seq(Byte), Len(bytes) > 0,
           Pipe(base, bytes, TRUE)
    PROVE  /\ new_byte = None =>
                 Piped(base \o Pack(bytes), <<>>, FALSE, Out', pending', new_byte', byte_count')
           /\ new_byte # None =>
                 Piped(base, bytes, TRUE, Out', pending', new_byte', byte_count')
<1>0. PICK mark \in BOOLEAN : mark <=> Settled /\ bit_count = 0
  OBVIOUS
<1>1. PICK out1, held1, count1 :
         out1 = Out' /\ held1 = pending' /\ count1 = byte_count'
  OBVIOUS
<1>2. PICK held, new, out, count :
         /\ held \in StreamByte \cup {None} /\ new \in StreamByte \cup {None}
         /\ held = pending /\ new = new_byte /\ out = Out /\ count = byte_count
  BY DEF TypeInv, TypeOK
<1>3. Moves(out, held, new, count, None, mark, out1, held1, count1)
  <2>1. mark = (Settled /\ bit_count = 0)
    BY <1>0
  <2> QED BY <1>1, <1>2, <2>1, PipeMoves
<1>4. PICK ended : ended = TRUE
  OBVIOUS
<1>5. Draining(base, bytes, ended, mark, out, held, new, count, out1, held1, count1)
  <2>1. Piped(base, bytes, ended, out, held, new, count)
    BY <1>2, <1>4 DEF Pipe
  <2> QED BY <1>1, <1>2, <1>3, <1>4, <2>1 DEF Draining
<1>6. /\ new = None => Piped(base \o Pack(bytes), <<>>, ended, out1, held1, None, count1)
      /\ new # None => Piped(base, bytes, ended, out1, held1, None, count1)
  BY <1>5, Drains
<1>7. CASE new = None
  <2>1. Piped(base \o Pack(bytes), <<>>, ended, out1, held1, None, count1)
    BY <1>6, <1>7
  <2>2. Piped(base \o Pack(bytes), <<>>, FALSE, out1, held1, None, count1)
    BY <2>1, EmptyPiped
  <2> QED BY <1>1, <1>2, <1>7, <2>2
<1>8. CASE new # None
  <2>1. Piped(base, bytes, ended, out1, held1, None, count1)
    BY <1>6, <1>8
  <2> QED BY <1>1, <1>2, <1>4, <1>8, <2>1
<1> QED BY <1>7, <1>8

LEMMA IdleGoesOn ==
    ASSUME TypeInv, Next, ~overflow', Idle
    PROVE  /\ ~Opens => Idle'
           /\ Opens => Making(<<>>)'
<1>1. PICK n : n = Len(openings) - 1
  OBVIOUS
<1>2. Settled /\ bit_count = 0 /\ Pipe(StreamIn(openings, n), <<>>, FALSE)
  BY <1>1 DEF Idle, Settled
<1>3. new_byte' = None /\ bit_count' = 0
  BY <1>2, Completes
<1>4. StreamIn(openings, n) \in Seq(StreamByte) /\ <<>> \in Seq(Byte)
  <2>1. n \in 0 .. Len(openings) - 1
    BY <1>1, HistoryIs
  <2> QED BY <2>1, HistoryIs, StreamIsSeq, EmptySeq
<1>5. Piped(StreamIn(openings, n), <<>>, TRUE, Out', pending', new_byte', byte_count')
  <2>1. PICK bytes \in Seq(Byte) : bytes = <<>>
    BY <1>4
  <2>2. Pipe(StreamIn(openings, n), bytes, FALSE)
    BY <1>2, <2>1
  <2>3. bytes = IF new_byte' = None THEN bytes ELSE Append(bytes, new_byte'.data)
    BY <1>3
  <2>4. Piped(StreamIn(openings, n), bytes, TRUE, Out', pending', new_byte', byte_count')
    BY <1>2, <1>4, <2>2, <2>3, PipePushed
  <2> QED BY <2>1, <2>4
<1>6. Piped(StreamIn(openings, n), <<>>, FALSE, Out', pending', new_byte', byte_count')
  BY <1>5, EmptyPiped
<1> QED BY <1>1, <1>2, <1>3, <1>6, ThenIdle

\* The bytes of an earlier opening.
LEMMA BytesAreSeq ==
    ASSUME NEW ops, History(ops), NEW n \in 1 .. Len(ops) - 1
    PROVE  /\ BytesIn(ops, n) \in Seq(Byte) /\ StreamIn(ops, n - 1) \in Seq(StreamByte)
           /\ StreamIn(ops, n) = StreamIn(ops, n - 1) \o Pack(BytesIn(ops, n))
<1>1. n \in 0 .. Len(ops) - 1
  BY LenProperties DEF History
<1>2. ops[n + 1] \in Seq(Bit) /\ Len(ops[n + 1]) \in Nat
  BY <1>1, BeforeNext, LenProperties
<1>3. PICK full \in Nat, rest \in 0 .. ByteBits - 1 : Len(ops[n + 1]) = full * ByteBits + rest
  BY <1>2, Split
<1>4. BytesIn(ops, n) \in Seq(Byte)
  BY <1>3, PacketIs DEF BytesIn
<1>5. PacketIn(ops, n) = Pack(BytesIn(ops, n))
  BY DEF PacketIn, BytesIn
<1> QED BY <1>4, <1>5, StreamNext

LEMMA EndedGoesOn ==
    ASSUME TypeInv, Next, ~overflow', Ended
    PROVE  /\ ~Opens => Ended' \/ Idle'
           /\ Opens => Making(<<>>)' \/ Behind(<<>>)'
<1>1. PICK n : n = Len(openings) - 1
  OBVIOUS
<1>2. /\ Settled /\ bit_count = 0 /\ n > 0 /\ Len(BytesIn(openings, n)) > 0
      /\ Pipe(StreamIn(openings, n - 1), BytesIn(openings, n), TRUE)
  BY <1>1 DEF Ended, Settled
<1>3. new_byte' = None /\ bit_count' = 0
  BY <1>2, Completes
<1>4. n \in 1 .. Len(openings) - 1 /\ History(openings)
  BY <1>1, <1>2, HistoryIs
<1>5. /\ BytesIn(openings, n) \in Seq(Byte) /\ StreamIn(openings, n - 1) \in Seq(StreamByte)
      /\ StreamIn(openings, n) = StreamIn(openings, n - 1) \o Pack(BytesIn(openings, n))
  BY <1>4, BytesAreSeq
<1>6. CASE new_byte = None
  <2>1. Piped(StreamIn(openings, n - 1) \o Pack(BytesIn(openings, n)), <<>>, FALSE,
              Out', pending', new_byte', byte_count')
    BY <1>2, <1>3, <1>5, <1>6, PipeDrains
  <2>2. Piped(StreamIn(openings, n), <<>>, FALSE, Out', pending', new_byte', byte_count')
    BY <1>5, <2>1
  <2> QED BY <1>1, <1>2, <1>3, <2>2, ThenIdle
<1>7. CASE new_byte # None
  <2>1. Piped(StreamIn(openings, n - 1), BytesIn(openings, n), TRUE,
              Out', pending', new_byte', byte_count')
    BY <1>2, <1>3, <1>5, <1>7, PipeDrains
  <2> QED BY <1>1, <1>2, <1>3, <2>1, ThenEnded
<1> QED BY <1>6, <1>7

LEMMA BehindGoesOn ==
    ASSUME TypeInv, Next, ~overflow', NEW now, ShiftInv(now), Behind(now),
           NEW arrived, arrived = Arriving(now, new_bit)
    PROVE  ~Opens /\ (Making(arrived)' \/ Behind(arrived)')
<1>1. PICK n : n = Len(openings) - 1
  OBVIOUS
<1>2. /\ n > 1 /\ bit_count = 0 /\ now = <<>> /\ (new_byte # None => new_bit = None)
      /\ closedFor + One(new_byte) <= 1
      /\ Len(BytesIn(openings, n - 1)) > 0
      /\ Pipe(StreamIn(openings, n - 2), BytesIn(openings, n - 1), TRUE)
  BY <1>1 DEF Behind
<1>3. closedFor \in Nat /\ One(new_byte) \in {0, 1} /\ new_bit \in Bit \cup {None}
  BY Sizes DEF TypeInv, TypeOK, One
<1>4. ~Opens
  <2>1. Opens => closedFor >= 2
    BY OpensLate
  <2> QED BY <1>2, <1>3, <2>1
<1>5. new_byte' = None
  BY <1>2, Completes, Sizes
<1>6. /\ n - 1 \in 1 .. Len(openings) - 1 /\ History(openings) /\ (n - 1) - 1 = n - 2
      /\ n \in 1 .. Len(openings) /\ n < Len(openings) /\ n > 1
  BY <1>1, <1>2, HistoryIs
<1>7. /\ BytesIn(openings, n - 1) \in Seq(Byte) /\ StreamIn(openings, n - 2) \in Seq(StreamByte)
      /\ StreamIn(openings, n - 1) = StreamIn(openings, n - 2) \o Pack(BytesIn(openings, n - 1))
  <2>1. \A k \in 1 .. Len(openings) - 1 :
           /\ BytesIn(openings, k) \in Seq(Byte) /\ StreamIn(openings, k - 1) \in Seq(StreamByte)
           /\ StreamIn(openings, k) = StreamIn(openings, k - 1) \o Pack(BytesIn(openings, k))
    BY <1>6, BytesAreSeq
  <2>2. /\ BytesIn(openings, n - 1) \in Seq(Byte)
        /\ StreamIn(openings, (n - 1) - 1) \in Seq(StreamByte)
        /\ StreamIn(openings, n - 1) = StreamIn(openings, (n - 1) - 1) \o Pack(BytesIn(openings, n - 1))
    BY <1>6, <2>1
  <2> QED BY <1>6, <2>2
<1>8. /\ StreamIn(openings', n - 1) = StreamIn(openings, n - 1)
      /\ BytesIn(openings', n - 1) = BytesIn(openings, n - 1)
  BY <1>6, Same
<1>9. Len(openings') - 1 = n /\ Len(openings') = Len(openings)
  <2>1. Len(openings') = Len(openings)
    BY <1>4, Grew DEF GrewTo
  <2> QED BY <1>1, <2>1
<1>10. CASE new_byte = None
  <2>1. Piped(StreamIn(openings, n - 2) \o Pack(BytesIn(openings, n - 1)), <<>>, FALSE,
              Out', pending', new_byte', byte_count')
    BY <1>2, <1>5, <1>7, <1>10, PipeDrains
  <2>2. Piped(StreamIn(openings', n - 1), FullBytes(arrived, 0), FALSE,
              Out', pending', new_byte', byte_count')
    BY <1>7, <1>8, <2>1, NoFullBytes
  <2>3. Len(arrived) = 0 * ByteBits + bit_count'
    <3>1. CASE new_bit = None
      <4>1. arrived = <<>> /\ Len(arrived) = 0
        BY <1>2, <3>1 DEF Arriving
      <4>2. bit_count' = 0
        BY <1>2, <3>1, Completes
      <4>3. 0 = 0 * ByteBits + 0
        BY Sizes
      <4> QED BY <4>1, <4>2, <4>3
    <3>2. CASE new_bit # None
      <4>1. Len(arrived) = 1
        <5>1. arrived = Append(now, new_bit) /\ now \in Seq(Bit) /\ Len(now) = 0 /\ new_bit \in Bit
          BY <1>2, <1>3, <3>2 DEF Arriving, ShiftInv
        <5> QED BY <5>1, AppendProperties
      <4>2. bit_count' = 1
        <5>1. bit_count' = (0 + 1) % ByteBits
          BY <1>2, <3>2, Completes
        <5>2. (0 * ByteBits + 1) % ByteBits = 1 /\ 0 * ByteBits + 1 = 0 + 1
          <6>1. 1 \in 0 .. ByteBits - 1 /\ 0 \in Int /\ ByteBits \in Nat /\ ByteBits > 0
            BY Sizes
          <6> QED BY <6>1, DivUnique
        <5> QED BY <5>1, <5>2
      <4>3. 1 = 0 * ByteBits + 1
        BY Sizes
      <4> QED BY <4>1, <4>2, <4>3
    <3> QED BY <3>1, <3>2
  <2>4. n > 0
    BY <1>6
  <2> QED BY <1>4, <1>9, <2>2, <2>3, <2>4 DEF Making, Pipe
<1>11. CASE new_byte # None
  <2>1. Piped(StreamIn(openings, n - 2), BytesIn(openings, n - 1), TRUE,
              Out', pending', new_byte', byte_count')
    BY <1>2, <1>5, <1>7, <1>11, PipeDrains
  <2>2. StreamIn(openings', n - 2) = StreamIn(openings, n - 2)
    <3>1. \A m \in 1 .. Len(openings) : m < Len(openings) =>
             StreamIn(openings', m - 1) = StreamIn(openings, m - 1)
      BY Same
    <3>2. n - 1 \in 1 .. Len(openings) /\ n - 1 < Len(openings)
      BY <1>6
    <3>3. StreamIn(openings', (n - 1) - 1) = StreamIn(openings, (n - 1) - 1)
      BY <3>1, <3>2
    <3> QED BY <1>6, <3>3
  <2>3. arrived = <<>> /\ bit_count' = 0
    BY <1>2, <1>11, Completes DEF Arriving
  <2>4. closedFor' + One(new_byte') <= 1
    <3>1. closedFor = 0
      BY <1>2, <1>3, <1>11 DEF One
    <3>2. closedFor' = IF esdi_read_gate' THEN 0 ELSE IF closedFor < MinGap THEN closedFor + 1 ELSE closedFor
      BY DEF Next, Clock, Gate
    <3>3. closedFor' = 0 \/ closedFor' = 1
      BY <3>1, <3>2
    <3>4. One(new_byte') = 0
      BY <1>5 DEF One
    <3> QED BY <3>3, <3>4
  <2>5. Piped(StreamIn(openings', n - 2), BytesIn(openings', n - 1), TRUE,
              Out', pending', new_byte', byte_count')
    BY <1>8, <2>1, <2>2
  <2>6. Len(BytesIn(openings', n - 1)) > 0
    BY <1>2, <1>8
  <2> QED BY <1>4, <1>5, <1>6, <1>9, <2>3, <2>4, <2>5, <2>6 DEF Behind, Pipe
<1> QED BY <1>10, <1>11

LEMMA InitStream == Init => StreamInv
<1> SUFFICES ASSUME Init PROVE StreamInv
  OBVIOUS
<1>1. TypeInv
  BY InitTypes
<1>2. /\ new_bit = None /\ bit_count = 0 /\ ~esdi_read_gate /\ openings = <<data_in>>
      /\ pending = None /\ new_byte = None /\ byte_count = 0 /\ parallel = None /\ delivered = <<>>
  BY DEF Init
<1>3. data_in \in Seq(Bit) /\ Len(data_in) = ByteBits
  BY <1>1, ByteIsSeq DEF TypeInv, TypeOK
<1>4. Len(openings) = 1 /\ openings[1] = data_in /\ 1 - 1 = 0
  BY <1>2
<1>5. BeforeIn(openings, 0) = <<>>
  <2>1. SubSeq(openings, 1, 0) = <<>>
    BY SubSeqEmpty
  <2> QED BY <2>1, FlattenEmpty DEF BeforeIn
<1>6. ShiftInv(data_in)
  <2>1. <<>> \o data_in = data_in
    BY <1>3, ConcatEmptySeq
  <2>2. LastBits(data_in) = data_in
    <3>1. LastBits(data_in) = SubSeq(data_in, 1, Len(data_in))
      <4>1. Len(data_in) - ByteBits + 1 = 1
        BY <1>3, Sizes
      <4> QED BY <4>1 DEF LastBits
    <3> QED BY <1>3, <3>1, SubSeqFull
  <2>3. Len(data_in) >= ByteBits
    BY <1>3, Sizes
  <2> QED BY <1>2, <1>3, <1>4, <1>5, <2>1, <2>2, <2>3 DEF ShiftInv, Arriving
<1>7. Idle
  <2>1. StreamIn(openings, 0) = <<>>
    BY FlattenEmpty DEF StreamIn, PacketsIn
  <2>2. Piped(<<>>, <<>>, FALSE, <<>>, None, None, 0)
    <3>1. PICK base \in Seq(StreamByte) : base = <<>>
      BY EmptySeq
    <3>2. Piped(base, <<>>, FALSE, base, None, None, 0)
      BY NothingPiped
    <3> QED BY <3>1, <3>2
  <2>3. Out = <<>>
    BY <1>2 DEF Out
  <2> QED BY <1>2, <1>4, <2>1, <2>2, <2>3 DEF Idle, Pipe
<1> QED BY <1>3, <1>6, <1>7 DEF StreamInv, Phase

LEMMA StepStream ==
    ASSUME TypeInv, StreamInv, Next
    PROVE  StreamInv'
<1>1. PICK now \in Seq(Bit) : ShiftInv(now) /\ (~overflow => Phase(now))
  BY DEF StreamInv
<1>2. PICK arrived : arrived = Arriving(now, new_bit)
  OBVIOUS
<1>3. ~overflow' => ~overflow
  BY PipeMoves
<1>4. CASE Opens
  <2>1. ShiftInv(<<>>)'
    BY <1>1, <1>4, ShiftOpens
  <2>2. ASSUME ~overflow' PROVE Phase(<<>>)'
    <3>1. CASE Making(now)
      <4>1. Settled
        BY <1>4, OpensLate
      <4> QED BY <1>1, <1>4, <2>2, <3>1, <4>1, MakingEnds DEF Phase
    <3>2. CASE Ended
      BY <1>4, <2>2, <3>2, EndedGoesOn DEF Phase
    <3>3. CASE Idle
      BY <1>4, <2>2, <3>3, IdleGoesOn DEF Phase
    <3>4. CASE Behind(now)
      BY <1>1, <1>2, <1>4, <2>2, <3>4, BehindGoesOn
    <3> QED BY <1>1, <1>3, <2>2, <3>1, <3>2, <3>3, <3>4 DEF Phase
  <2>3. <<>> \in Seq(Bit)
    BY EmptySeq
  <2> QED BY <2>1, <2>2, <2>3 DEF StreamInv
<1>5. CASE ~Opens
  <2>1. ShiftInv(arrived)' /\ arrived \in Seq(Bit)
    <3>1. ShiftInv(arrived)'
      BY <1>1, <1>2, <1>5, ShiftGoesOn
    <3> QED BY <3>1 DEF ShiftInv
  <2>2. ASSUME ~overflow' PROVE Phase(arrived)'
    <3>1. CASE Making(now) /\ Settled
      BY <1>1, <1>5, <2>2, <3>1, MakingEnds DEF Phase
    <3>2. CASE Making(now) /\ ~Settled
      BY <1>1, <1>2, <2>2, <3>2, MakingGoesOn DEF Phase
    <3>3. CASE Ended
      BY <1>5, <2>2, <3>3, EndedGoesOn DEF Phase
    <3>4. CASE Idle
      BY <1>5, <2>2, <3>4, IdleGoesOn DEF Phase
    <3>5. CASE Behind(now)
      BY <1>1, <1>2, <2>2, <3>5, BehindGoesOn DEF Phase
    <3> QED BY <1>1, <1>3, <2>2, <3>1, <3>2, <3>3, <3>4, <3>5 DEF Phase
  <2> QED BY <2>1, <2>2 DEF StreamInv
<1> QED BY <1>4, <1>5

LEMMA StutterStream ==
    ASSUME StreamInv, UNCHANGED vars
    PROVE  StreamInv'
<1>1. /\ openings' = openings /\ new_bit' = new_bit /\ data_in' = data_in /\ bit_count' = bit_count
      /\ new_byte' = new_byte /\ pending' = pending /\ byte_count' = byte_count
      /\ parallel' = parallel /\ delivered' = delivered /\ esdi_read_gate' = esdi_read_gate
      /\ closedFor' = closedFor /\ (overflow' <=> overflow)
  BY DEF vars, registers
<1>2. PICK now \in Seq(Bit) : ShiftInv(now) /\ (~overflow => Phase(now))
  BY DEF StreamInv
<1>3. ShiftInv(now)'
  BY <1>1, <1>2 DEF ShiftInv
<1>4. Out' = Out
  BY <1>1 DEF Out
<1>5. Phase(now) => Phase(now)'
  <2>1. Making(now) => Making(now)'
    BY <1>1, <1>4 DEF Making, Pipe
  <2>2. Ended => Ended'
    BY <1>1, <1>4 DEF Ended, Pipe
  <2>3. Idle => Idle'
    BY <1>1, <1>4 DEF Idle, Pipe
  <2>4. Behind(now) => Behind(now)'
    BY <1>1, <1>4 DEF Behind, Pipe
  <2> QED BY <2>1, <2>2, <2>3, <2>4 DEF Phase
<1> QED BY <1>1, <1>2, <1>3, <1>5 DEF StreamInv

LEMMA StreamInvariant == Spec => []StreamInv
<1>1. TypeInv /\ StreamInv /\ [Next]_vars => StreamInv'
  BY StepStream, StutterStream
<1> QED BY <1>1, InitStream, TypeInvariant, PTL DEF Spec

-----------------------------------------------------------------------------
(* What the stream took.                                                    *)

Starts(s, t) ==
    /\ s \in Seq(StreamByte) /\ t \in Seq(StreamByte)
    /\ Len(s) <= Len(t)
    /\ \A i \in 1 .. Len(s) : s[i] = t[i]

LEMMA StartsIsPrefix == \A s, t : Starts(s, t) => IsPrefix(s, t)
<1> SUFFICES ASSUME NEW s, NEW t, Starts(s, t) PROVE IsPrefix(s, t)
  OBVIOUS
<1> DEFINE n == Len(s)
<1>1. /\ s \in Seq(StreamByte) /\ t \in Seq(StreamByte) /\ n \in Nat /\ Len(t) \in Nat /\ n <= Len(t)
      /\ \A i \in 1 .. n : s[i] = t[i]
  BY LenProperties DEF Starts
<1> HIDE DEF n
<1>2. (\A i \in 1 .. n : s[i] \in StreamByte) /\ (\A i \in 1 .. n : t[i] \in StreamByte)
  <2>1. \A i \in 1 .. n : i \in 1 .. Len(t)
    BY <1>1
  <2>2. \A i \in 1 .. n : t[i] \in StreamByte
    BY <1>1, <2>1, ElementOfSeq
  <2> QED BY <1>1, <2>2
<1>3. \A u : (\A i \in 1 .. n : u[i] \in StreamByte) =>
         /\ SubSeq(u, 1, n) \in Seq(StreamByte)
         /\ Len(SubSeq(u, 1, n)) = IF 1 <= n THEN n - 1 + 1 ELSE 0
         /\ \A i \in 1 .. n - 1 + 1 : SubSeq(u, 1, n)[i] = u[1 + i - 1]
  BY <1>1, SubSeqProperties
<1>4. n - 1 + 1 = n /\ (IF 1 <= n THEN n - 1 + 1 ELSE 0) = n /\ \A i \in 1 .. n : 1 + i - 1 = i
  BY <1>1
<1>5. /\ SubSeq(s, 1, n) \in Seq(StreamByte) /\ Len(SubSeq(s, 1, n)) = n
      /\ \A i \in 1 .. n : SubSeq(s, 1, n)[i] = s[i]
  BY <1>2, <1>3, <1>4
<1>6. /\ SubSeq(t, 1, n) \in Seq(StreamByte) /\ Len(SubSeq(t, 1, n)) = n
      /\ \A i \in 1 .. n : SubSeq(t, 1, n)[i] = t[i]
  BY <1>2, <1>3, <1>4
<1>7. SubSeq(s, 1, n) = SubSeq(t, 1, n)
  BY <1>1, <1>5, <1>6, SeqEqual
<1> QED BY <1>1, <1>7 DEF IsPrefix, n

LEMMA StartsMore ==
    ASSUME NEW s, NEW t, Starts(s, t), NEW u \in Seq(StreamByte)
    PROVE  Starts(s, t \o u)
<1>1. /\ s \in Seq(StreamByte) /\ t \in Seq(StreamByte) /\ Len(s) <= Len(t)
      /\ \A i \in 1 .. Len(s) : s[i] = t[i]
      /\ Len(s) \in Nat /\ Len(t) \in Nat /\ Len(u) \in Nat
  BY LenProperties DEF Starts
<1>2. /\ t \o u \in Seq(StreamByte) /\ Len(t \o u) = Len(t) + Len(u)
      /\ \A i \in 1 .. Len(t) + Len(u) : (t \o u)[i] = IF i <= Len(t) THEN t[i] ELSE u[i - Len(t)]
  BY <1>1, ConcatProperties
<1>3. \A i \in 1 .. Len(s) : i \in 1 .. Len(t) + Len(u) /\ i <= Len(t)
  BY <1>1
<1>4. \A i \in 1 .. Len(s) : s[i] = (t \o u)[i]
  BY <1>1, <1>2, <1>3
<1>5. Len(s) <= Len(t \o u)
  BY <1>1, <1>2
<1> QED BY <1>1, <1>2, <1>4, <1>5 DEF Starts

LEMMA StartsAfter ==
    ASSUME NEW base \in Seq(StreamByte), NEW s, NEW t, Starts(s, t)
    PROVE  Starts(base \o s, base \o t)
<1> DEFINE b == Len(base)
<1>1. /\ s \in Seq(StreamByte) /\ t \in Seq(StreamByte) /\ Len(s) <= Len(t)
      /\ \A i \in 1 .. Len(s) : s[i] = t[i]
      /\ Len(s) \in Nat /\ Len(t) \in Nat /\ b \in Nat
  BY LenProperties DEF Starts
<1>2. /\ base \o s \in Seq(StreamByte) /\ Len(base \o s) = b + Len(s)
      /\ \A i \in 1 .. b + Len(s) : (base \o s)[i] = IF i <= b THEN base[i] ELSE s[i - b]
  BY <1>1, ConcatProperties
<1>3. /\ base \o t \in Seq(StreamByte) /\ Len(base \o t) = b + Len(t)
      /\ \A i \in 1 .. b + Len(t) : (base \o t)[i] = IF i <= b THEN base[i] ELSE t[i - b]
  BY <1>1, ConcatProperties
<1> HIDE DEF b
<1>4. ASSUME NEW i \in 1 .. b + Len(s) PROVE (base \o s)[i] = (base \o t)[i]
  <2>1. i \in 1 .. b + Len(t) /\ (i <= b \/ i - b \in 1 .. Len(s))
    BY <1>1
  <2>2. /\ (base \o s)[i] = IF i <= b THEN base[i] ELSE s[i - b]
        /\ (base \o t)[i] = IF i <= b THEN base[i] ELSE t[i - b]
    BY <1>2, <1>3, <2>1
  <2>3. ~(i <= b) => s[i - b] = t[i - b]
    BY <1>1, <2>1
  <2> QED BY <2>2, <2>3
<1>5. Len(base \o s) <= Len(base \o t)
  BY <1>1, <1>2, <1>3
<1> QED BY <1>2, <1>3, <1>4, <1>5 DEF Starts

\* What is out of a packet starts it.
LEMMA BegunStarts ==
    ASSUME NEW bytes \in Seq(Byte), NEW whole \in Seq(Byte), Pack(whole) \in Seq(StreamByte),
           NEW sent \in 0 .. Len(bytes), sent = 0 \/ sent < Len(whole),
           \A i \in 1 .. sent : bytes[i] = whole[i]
    PROVE  Starts(Begun(bytes, sent), Pack(whole))
<1>1. Begun(bytes, sent) \in Seq(StreamByte) /\ Len(Begun(bytes, sent)) = sent
  BY BegunIsSeq
<1>2. Len(whole) \in Nat /\ sent \in Nat /\ sent <= Len(whole) /\ \A i \in 1 .. sent : i # Len(whole) /\ i \in 1 .. Len(whole)
  BY LenProperties
<1>3. Len(Pack(whole)) = Len(whole)
  <2>1. DOMAIN Pack(whole) = 1 .. Len(whole)
    BY DEF Pack
  <2> QED BY <1>2, <2>1, LenProperties
<1>4. ASSUME NEW i \in 1 .. sent PROVE Begun(bytes, sent)[i] = Pack(whole)[i]
  <2>1. Begun(bytes, sent)[i] = [data |-> bytes[i], last |-> i % MaxBytes = 0]
    BY DEF Begun
  <2>2. i # Len(whole) /\ i \in 1 .. Len(whole) /\ bytes[i] = whole[i]
    BY <1>2
  <2>3. Pack(whole)[i] = [data |-> whole[i], last |-> i = Len(whole) \/ i % MaxBytes = 0]
    BY <2>2 DEF Pack
  <2>4. (i = Len(whole) \/ i % MaxBytes = 0) = (i % MaxBytes = 0)
    BY <2>2
  <2> QED BY <2>1, <2>2, <2>3, <2>4
<1> QED BY <1>1, <1>2, <1>3, <1>4 DEF Starts

\* What the pipeline has put out, of a packet that begins like this.
LEMMA PipeStarts ==
    ASSUME TypeInv, NEW base \in Seq(StreamByte), NEW bytes \in Seq(Byte), NEW ended,
           Pipe(base, bytes, ended),
           NEW whole \in Seq(Byte), Pack(whole) \in Seq(StreamByte), Len(bytes) <= Len(whole),
           \A i \in 1 .. Len(bytes) - 1 : bytes[i] = whole[i]
    PROVE  Starts(Out, base \o Pack(whole))
<1> DEFINE n == Len(bytes)
           sent == (n - One(new_byte)) - One(pending)
<1>1. /\ n \in Nat /\ Len(whole) \in Nat /\ sent \in Nat
      /\ n > 0 => pending # None \/ new_byte # None
      /\ Out = base \o Begun(bytes, sent)
  BY LenProperties DEF Pipe, Piped
<1>2. sent \in 0 .. n /\ (sent = 0 \/ sent < n)
  <2>1. One(new_byte) \in {0, 1} /\ One(pending) \in {0, 1}
    BY DEF One
  <2>2. n > 0 => One(new_byte) + One(pending) > 0
    <3>1. pending # None => One(pending) = 1
      BY DEF One
    <3>2. new_byte # None => One(new_byte) = 1
      BY DEF One
    <3> QED BY <1>1, <2>1, <3>1, <3>2
  <2>3. \A a, b \in {0, 1} : /\ (n - a) - b \in Nat /\ (n > 0 => a + b > 0)
                            => /\ (n - a) - b \in 0 .. n
                               /\ (n - a) - b = 0 \/ (n - a) - b < n
    BY <1>1
  <2> QED BY <1>1, <2>1, <2>2, <2>3
<1> HIDE DEF sent
<1>3. \A i \in 1 .. sent : i \in 1 .. n - 1
  BY <1>1, <1>2
<1>4. sent = 0 \/ sent < Len(whole)
  BY <1>1, <1>2
<1>5. \A i \in 1 .. sent : bytes[i] = whole[i]
  BY <1>3
<1>6. Starts(Begun(bytes, sent), Pack(whole))
  BY <1>2, <1>4, <1>5, BegunStarts
<1> QED BY <1>1, <1>6, StartsAfter

LEMMA PhaseStarts ==
    ASSUME TypeInv, NEW now, ShiftInv(now), Phase(now), NEW n, n = Len(openings) - 1
    PROVE  Starts(Out, StreamIn(openings, n))
<1>1. History(openings) /\ n \in 0 .. Len(openings) - 1 /\ Len(openings) \in Nat /\ n \in Nat
  BY HistoryIs
<1>2. \A k \in 1 .. n :
         /\ BytesIn(openings, k) \in Seq(Byte) /\ StreamIn(openings, k - 1) \in Seq(StreamByte)
         /\ StreamIn(openings, k) = StreamIn(openings, k - 1) \o Pack(BytesIn(openings, k))
         /\ Pack(BytesIn(openings, k)) \in Seq(StreamByte)
  <2> SUFFICES ASSUME NEW k \in 1 .. n
               PROVE  /\ BytesIn(openings, k) \in Seq(Byte)
                      /\ StreamIn(openings, k - 1) \in Seq(StreamByte)
                      /\ StreamIn(openings, k) = StreamIn(openings, k - 1) \o Pack(BytesIn(openings, k))
                      /\ Pack(BytesIn(openings, k)) \in Seq(StreamByte)
    OBVIOUS
  <2>1. k \in 1 .. Len(openings) - 1
    BY <1>1
  <2>2. PacketIn(openings, k) \in Seq(StreamByte) /\ PacketIn(openings, k) = Pack(BytesIn(openings, k))
    BY <1>1, <2>1, PacketIsSeq DEF PacketIn, BytesIn
  <2> QED BY <1>1, <2>1, <2>2, BytesAreSeq
\* The bytes of a whole packet start it.
<1>3. ASSUME NEW k \in 1 .. n, Len(BytesIn(openings, k)) > 0,
             Pipe(StreamIn(openings, k - 1), BytesIn(openings, k), TRUE)
      PROVE  Starts(Out, StreamIn(openings, k))
  <2>1. Len(BytesIn(openings, k)) <= Len(BytesIn(openings, k))
    BY <1>2, LenProperties
  <2> QED BY <1>2, <1>3, <2>1, PipeStarts
<1>4. CASE Making(now)
  <2>1. PICK full \in Nat : /\ Len(now) = full * ByteBits + bit_count /\ n > 0
                            /\ Pipe(StreamIn(openings, n - 1), FullBytes(now, full), FALSE)
    BY <1>4 DEF Making
  <2> DEFINE bits == openings[n + 1]
  <2>2. /\ now \in Seq(Bit) /\ bits = Arriving(now, new_bit) /\ new_bit \in Bit \cup {None}
        /\ bit_count \in Nat /\ Len(now) \in Nat
    <3>1. n + 1 = Len(openings)
      BY <1>1
    <3> QED BY <3>1, LenProperties, Sizes DEF ShiftInv, TypeInv, TypeOK
  <2>3. full * ByteBits \in Nat /\ full * ByteBits <= Len(now)
    <3>1. full * ByteBits \in Nat
      BY Times
    <3> QED BY <2>1, <2>2, <3>1
  <2>4. bits \in Seq(Bit) /\ Len(bits) >= Len(now) /\ Len(bits) \in Nat
        /\ FullBytes(bits, full) = FullBytes(now, full)
    <3>1. CASE new_bit = None
      BY <2>2, <3>1 DEF Arriving
    <3>2. CASE new_bit # None
      <4>1. bits = Append(now, new_bit) /\ new_bit \in Bit
        BY <2>2, <3>2 DEF Arriving
      <4>2. /\ Append(now, new_bit) \in Seq(Bit) /\ Len(Append(now, new_bit)) = Len(now) + 1
            /\ FullBytes(Append(now, new_bit), full) = FullBytes(now, full)
        BY <2>2, <2>3, <4>1, AppendProperties, FullLonger
      <4> HIDE DEF bits
      <4> QED BY <2>2, <4>1, <4>2
    <3> QED BY <3>1, <3>2
  <2> HIDE DEF bits
  <2>5. PICK full2 \in Nat, rest \in 0 .. ByteBits - 1 : Len(bits) = full2 * ByteBits + rest
    BY <2>4, Split
  <2>6. full <= full2
    <3> SUFFICES ASSUME full2 + 1 <= full PROVE FALSE
      OBVIOUS
    <3>1. full2 * ByteBits \in Nat /\ (full2 + 1) * ByteBits = full2 * ByteBits + ByteBits
      BY Times
    <3>2. (full2 + 1) * ByteBits <= full * ByteBits
      <4>1. \A a, b, c \in Nat : a <= b => a * c <= b * c
        OBVIOUS
      <4> QED BY <4>1, Sizes
    <3> QED BY <2>3, <2>4, <2>5, <3>1, <3>2, Sizes, <2>2
  <2> DEFINE whole == BytesIn(openings, n)
  <2>7. whole = IF rest = 0 THEN FullBytes(bits, full2)
                ELSE Append(FullBytes(bits, full2), LastBits(BeforeIn(openings, n) \o bits))
    <3>1. n \in 1 .. Len(openings) - 1
      BY <1>1, <2>1
    <3>2. PICK before, ops : before = BeforeIn(ops, n) /\ ops = openings
      OBVIOUS
    <3>3. BytesOf(before, bits) = IF rest = 0 THEN FullBytes(bits, full2)
                                  ELSE Append(FullBytes(bits, full2), LastBits(before \o bits))
      <4>1. before \in Seq(Bit) /\ Len(before \o bits) >= ByteBits
        <5>1. n \in 1 .. Len(ops) - 1 /\ History(ops) /\ bits = ops[n + 1]
          BY <1>1, <3>1, <3>2 DEF bits
        <5> QED BY <2>5, <3>2, <5>1, PacketIs
      <4> QED BY <2>4, <2>5, <4>1, Cut
    <3>4. whole = BytesOf(before, bits)
      BY <3>2 DEF BytesIn, bits
    <3> HIDE DEF whole
    <3> QED BY <3>2, <3>3, <3>4
  <2>8. /\ FullBytes(bits, full2) \in Seq(Byte) /\ Len(FullBytes(bits, full2)) = full2
        /\ FullBytes(bits, full) \in Seq(Byte) /\ Len(FullBytes(bits, full)) = full
    <3>1. full2 * ByteBits <= Len(bits) /\ full * ByteBits <= Len(bits)
      <4>1. full2 * ByteBits \in Nat
        BY Times
      <4> QED BY <2>2, <2>3, <2>4, <2>5, <4>1
    <3> QED BY <2>4, <3>1, FullIsSeq
  <2>9. /\ whole \in Seq(Byte) /\ StreamIn(openings, n - 1) \in Seq(StreamByte)
        /\ StreamIn(openings, n) = StreamIn(openings, n - 1) \o Pack(whole)
        /\ Pack(whole) \in Seq(StreamByte)
    <3>1. n \in 1 .. n
      BY <1>1, <2>1
    <3> QED BY <1>2, <3>1
  <2>10. full2 <= Len(whole) /\ \A i \in 1 .. full2 : whole[i] = FullBytes(bits, full2)[i]
    <3>1. CASE rest = 0
      BY <2>7, <2>8, <3>1
    <3>2. CASE rest # 0
      <4>1. PICK last : last = LastBits(BeforeIn(openings, n) \o bits)
        OBVIOUS
      <4>2. whole = Append(FullBytes(bits, full2), last)
        BY <2>7, <3>2, <4>1
      <4>3. last \in Byte
        <5>1. BeforeIn(openings, n) \o bits \in Seq(Bit) /\ Len(BeforeIn(openings, n) \o bits) >= ByteBits
          <6>1. n \in 1 .. Len(openings) - 1
            BY <1>1, <2>1
          <6>2. BeforeIn(openings, n) \in Seq(Bit) /\ Len(BeforeIn(openings, n)) >= ByteBits
            <7>1. n \in 1 .. Len(openings)
              BY <1>1, <6>1
            <7> QED BY <1>1, <7>1, BeforeIs
          <6>3. /\ BeforeIn(openings, n) \o bits \in Seq(Bit)
                /\ Len(BeforeIn(openings, n) \o bits) = Len(BeforeIn(openings, n)) + Len(bits)
                /\ Len(BeforeIn(openings, n)) \in Nat
            BY <2>4, <6>2, ConcatProperties, LenProperties
          <6> QED BY <2>4, <6>2, <6>3, Sizes
        <5> QED BY <4>1, <5>1, LastIsByte
      <4>4. \A bytes \in Seq(Byte) : /\ Len(Append(bytes, last)) = Len(bytes) + 1
                                     /\ \A i \in 1 .. Len(bytes) : Append(bytes, last)[i] = bytes[i]
        BY <4>3, AppendProperties
      <4> HIDE DEF whole
      <4> QED BY <2>8, <4>2, <4>4
    <3> QED BY <3>1, <3>2
  <2>11. \A i \in 1 .. full : FullBytes(bits, full)[i] = whole[i]
    <3> SUFFICES ASSUME NEW i \in 1 .. full PROVE FullBytes(bits, full)[i] = whole[i]
      OBVIOUS
    <3>1. i \in 1 .. full2
      BY <2>6
    <3>2. FullBytes(bits, full)[i] = FullByte(bits, i) /\ FullBytes(bits, full2)[i] = FullByte(bits, i)
      BY <3>1 DEF FullBytes
    <3> HIDE DEF whole
    <3> QED BY <2>10, <3>1, <3>2
  <2>12. PICK bytes : bytes = FullBytes(now, full)
    OBVIOUS
  <2>13. /\ bytes \in Seq(Byte) /\ Len(bytes) = full /\ Len(bytes) <= Len(whole)
         /\ \A i \in 1 .. Len(bytes) - 1 : bytes[i] = whole[i]
    <3>1. bytes = FullBytes(bits, full)
      BY <2>4, <2>12
    <3>2. Len(whole) \in Nat
      BY <2>9, LenProperties
    <3>3. \A i \in 1 .. full - 1 : i \in 1 .. full
      OBVIOUS
    <3> HIDE DEF whole
    <3> QED BY <2>6, <2>8, <2>10, <2>11, <3>1, <3>2, <3>3
  <2>14. Pipe(StreamIn(openings, n - 1), bytes, FALSE)
    BY <2>1, <2>12
  <2> HIDE DEF whole
  <2>15. Starts(Out, StreamIn(openings, n - 1) \o Pack(whole))
    BY <2>9, <2>13, <2>14, PipeStarts
  <2> QED BY <2>9, <2>15
<1>5. CASE Ended
  <2>1. n > 0 /\ Len(BytesIn(openings, n)) > 0
        /\ Pipe(StreamIn(openings, n - 1), BytesIn(openings, n), TRUE)
    BY <1>5 DEF Ended
  <2>2. n \in 1 .. n
    BY <1>1, <2>1
  <2> QED BY <1>3, <2>1, <2>2
<1>6. CASE Idle
  <2>1. Pipe(StreamIn(openings, n), <<>>, FALSE)
    BY <1>6 DEF Idle
  <2>2. StreamIn(openings, n) \in Seq(StreamByte)
    BY <1>1, StreamIsSeq
  <2>3. PICK bytes \in Seq(Byte) : bytes = <<>>
    BY EmptySeq
  <2>4. Pack(bytes) = <<>> /\ Pack(bytes) \in Seq(StreamByte) /\ Len(bytes) = 0
    BY <2>3, EmptyPack, EmptySeq
  <2>5. Starts(Out, StreamIn(openings, n) \o Pack(bytes))
    <3>1. /\ Len(bytes) <= Len(bytes) /\ \A i \in 1 .. Len(bytes) - 1 : bytes[i] = bytes[i]
      BY <2>4
    <3>2. Pipe(StreamIn(openings, n), bytes, FALSE)
      BY <2>1, <2>3
    <3> QED BY <2>2, <2>4, <3>1, <3>2, PipeStarts
  <2> QED BY <2>2, <2>4, <2>5, ConcatEmptySeq
<1>7. CASE Behind(now)
  <2>1. /\ n > 1 /\ Len(BytesIn(openings, n - 1)) > 0
        /\ Pipe(StreamIn(openings, n - 2), BytesIn(openings, n - 1), TRUE)
    BY <1>7 DEF Behind
  <2>2. n - 1 \in 1 .. n /\ (n - 1) - 1 = n - 2 /\ n \in 1 .. n
    BY <1>1, <2>1
  <2>3. Starts(Out, StreamIn(openings, n - 1))
    <3>1. Pipe(StreamIn(openings, (n - 1) - 1), BytesIn(openings, n - 1), TRUE)
      BY <2>1, <2>2
    <3> QED BY <1>3, <2>1, <2>2, <3>1
  <2>4. /\ StreamIn(openings, n) = StreamIn(openings, n - 1) \o Pack(BytesIn(openings, n))
        /\ Pack(BytesIn(openings, n)) \in Seq(StreamByte)
    BY <1>2, <2>2
  <2> QED BY <2>3, <2>4, StartsMore
<1> QED BY <1>4, <1>5, <1>6, <1>7 DEF Phase

LEMMA StreamPassed == TypeInv /\ StreamInv => StreamIsWhatPassed
<1> SUFFICES ASSUME TypeInv, StreamInv, ~overflow
             PROVE  IsPrefix(delivered, StreamOf(Len(openings) - 1))
  BY DEF StreamIsWhatPassed
<1>1. PICK now \in Seq(Bit) : ShiftInv(now) /\ Phase(now)
  BY DEF StreamInv
<1>2. PICK n : n = Len(openings) - 1
  OBVIOUS
<1>3. Starts(Out, StreamIn(openings, n))
  BY <1>1, <1>2, PhaseStarts
<1>4. delivered \in Seq(StreamByte) /\ parallel \in StreamByte \cup {None}
  BY DEF TypeInv, TypeOK, HistoryOK
<1>5. Starts(delivered, StreamIn(openings, n))
  <2>1. CASE parallel = None
    BY <1>3, <2>1 DEF Out
  <2>2. CASE parallel # None
    <3>1. Out = Append(delivered, parallel) /\ parallel \in StreamByte
      BY <1>4, <2>2 DEF Out
    <3>2. /\ Len(Out) = Len(delivered) + 1 /\ \A i \in 1 .. Len(delivered) : Out[i] = delivered[i]
      BY <1>4, <3>1, AppendProperties
    <3>3. /\ StreamIn(openings, n) \in Seq(StreamByte) /\ Len(Out) <= Len(StreamIn(openings, n))
          /\ \A i \in 1 .. Len(Out) : Out[i] = StreamIn(openings, n)[i]
      BY <1>3 DEF Starts
    <3>4. Len(delivered) \in Nat /\ Len(StreamIn(openings, n)) \in Nat
      BY <1>4, <3>3, LenProperties
    <3>5. \A i \in 1 .. Len(delivered) : i \in 1 .. Len(Out)
      BY <3>2, <3>4
    <3> QED BY <1>4, <3>2, <3>3, <3>4, <3>5 DEF Starts
  <2> QED BY <2>1, <2>2
<1>6. IsPrefix(delivered, StreamIn(openings, n))
  BY <1>5, StartsIsPrefix
<1> QED BY <1>2, <1>6, StreamIs

\* Of any width of the bytes and any packet size, however the last bits of an opening,
\* the closing and the next opening of the gate and a slow consumer fall together: as
\* long as no overflow is reported, the stream that axi_esdi_read_datapath.v has handed
\* out is exactly what passed under the gate, cut into bytes and packets.
THEOREM StreamComesThrough == Spec => []StreamIsWhatPassed
<1>1. TypeInv /\ StreamInv => StreamIsWhatPassed
  BY StreamPassed
<1> QED BY <1>1, TypeInvariant, StreamInvariant, PTL
=============================================================================
