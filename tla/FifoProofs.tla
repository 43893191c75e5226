---------------------------- MODULE FifoProofs ----------------------------
(***************************************************************************)
(* The FIFO implements the bounded queue for every depth, every kind of    *)
(* item and both overflow modes.                                           *)
(***************************************************************************)
EXTENDS Fifo, TLAPS

\* The two pointers stay inside the memory, whatever the streams do.
THEOREM TypeCorrect == Spec => []TypeOK
<1>1. Init => TypeOK
  BY DepthAssumption DEF Init, TypeOK, Address
<1>2. TypeOK /\ [Next]_vars => TypeOK'
  <2> SUFFICES ASSUME TypeOK, [Next]_vars PROVE TypeOK'
    OBVIOUS
  <2> USE DepthAssumption DEF TypeOK, Address
  <2>1. CASE Reset
    BY <2>1 DEF Reset
  <2>2. ASSUME NEW inValid \in BOOLEAN, NEW outReady \in BOOLEAN, NEW d \in Item,
               Clock(inValid, d, outReady)
        PROVE  TypeOK'
    <3>1. Inc(top) \in Address /\ Inc(bottom) \in Address
      BY DEF Inc
    <3>2. mem' \in [Address -> Item]
      BY <2>2 DEF Clock
    <3>3. top' \in Address /\ bottom' \in Address
      BY <2>2, <3>1 DEF Clock
    <3> QED BY <3>2, <3>3
  <2>3. CASE UNCHANGED vars
    BY <2>3 DEF vars
  <2> QED BY <2>1, <2>2, <2>3 DEF Next
<1> QED BY <1>1, <1>2, PTL DEF Spec

-----------------------------------------------------------------------------
\* What the pointers mean: NumUsed words follow bottom, the one behind them is
\* top's, and Contents lists them.
UsedOK == /\ NumUsed \in 0 .. Depth - 1
          /\ NumFree = Depth - 1 - NumUsed

ContentsOK == /\ Contents \in Seq(Item)
              /\ Len(Contents) = NumUsed
              /\ \A i \in 1 .. NumUsed : Contents[i] = mem[Slot(i)]

SlotsOK == /\ \A i \in 1 .. NumUsed : Slot(i) \in Address /\ Slot(i) # top
           /\ Slot(NumUsed + 1) = top
           /\ Slot(1) = bottom

\* One memory word is always left free, which tells full from empty.
LEMMA UsedRange == TypeOK => UsedOK
BY DepthAssumption DEF TypeOK, Address, NumUsed, NumFree, UsedOK

LEMMA SlotRange == TypeOK => SlotsOK
BY DepthAssumption DEF TypeOK, Address, NumUsed, Slot, SlotsOK

LEMMA ContentsIsSeq == TypeOK => ContentsOK
<1> SUFFICES ASSUME TypeOK PROVE ContentsOK
  OBVIOUS
<1>1. NumUsed \in Nat
  BY UsedRange, DepthAssumption DEF UsedOK
<1>2. \A i \in 1 .. NumUsed : mem[Slot(i)] \in Item
  BY SlotRange DEF SlotsOK, TypeOK
<1>3. Contents \in [1 .. NumUsed -> Item]
  BY <1>2 DEF Contents
<1> QED BY <1>1, <1>3 DEF Contents, ContentsOK

\* Two queue contents are equal when they have the same length and items.
LEMMA SeqEqual ==
    ASSUME NEW S, NEW s \in Seq(S), NEW t \in Seq(S), Len(s) = Len(t),
           \A i \in 1 .. Len(s) : s[i] = t[i]
    PROVE  s = t
OBVIOUS

\* Dropping the head and adding an item shifts the queue by one.
LEMMA ShiftIn ==
    ASSUME NEW S, NEW s \in Seq(S), s # <<>>, NEW d \in S
    PROVE  /\ Append(Tail(s), d) \in Seq(S)
           /\ Len(Append(Tail(s), d)) = Len(s)
           /\ \A i \in 1 .. Len(s) - 1 : Append(Tail(s), d)[i] = s[i + 1]
           /\ Append(Tail(s), d)[Len(s)] = d
<1>1. /\ Tail(s) \in Seq(S) /\ Len(Tail(s)) = Len(s) - 1
      /\ \A i \in 1 .. Len(s) - 1 : Tail(s)[i] = s[i + 1]
  OBVIOUS
<1> QED BY <1>1

-----------------------------------------------------------------------------
\* Every clock edge and every reset is a step of the queue, or leaves it alone.
LEMMA StepImplementsQueue == TypeOK /\ TypeOK' /\ [Next]_vars => [Queue!Next]_Contents
<1> SUFFICES ASSUME TypeOK, TypeOK', [Next]_vars PROVE [Queue!Next]_Contents
  OBVIOUS
<1>1. UsedOK /\ SlotsOK /\ ContentsOK
  BY UsedRange, SlotRange, ContentsIsSeq
<1>2. UsedOK' /\ SlotsOK' /\ ContentsOK'
  BY UsedRange, SlotRange, ContentsIsSeq, PTL
<1>3. PICK n \in 0 .. Depth - 1, m \in 0 .. Depth - 1 : n = NumUsed /\ m = NumUsed'
  BY <1>1, <1>2 DEF UsedOK
<1>t. /\ Depth \in Nat /\ Depth >= 2
      /\ top \in 0 .. Depth - 1 /\ bottom \in 0 .. Depth - 1
      /\ n = IF top >= bottom THEN top - bottom ELSE top - bottom + Depth
      /\ m = IF top' >= bottom' THEN top' - bottom' ELSE top' - bottom' + Depth
  BY <1>3, DepthAssumption DEF TypeOK, Address, NumUsed
<1>c. /\ Contents \in Seq(Item) /\ Len(Contents) = n
      /\ Contents' \in Seq(Item) /\ Len(Contents') = m
      /\ \A i \in 1 .. n : Contents[i] = mem[Slot(i)]
      /\ \A i \in 1 .. m : Contents'[i] = mem'[Slot(i)']
  BY <1>1, <1>2, <1>3 DEF ContentsOK
<1>s. /\ \A i \in 1 .. n : Slot(i) \in Address /\ Slot(i) # top
      /\ Slot(n + 1) = top
      /\ mem \in [Address -> Item] /\ top \in Address
  BY <1>1, <1>3 DEF SlotsOK, TypeOK
<1>4. CASE Reset
  <2>1. m = 0
    BY <1>4, <1>t DEF Reset
  <2>2. Contents' = <<>>
    BY <2>1, <1>c
  <2> QED BY <2>2 DEF Queue!Next, Queue!Clear
<1>5. ASSUME NEW inValid \in BOOLEAN, NEW outReady \in BOOLEAN, NEW d \in Item,
             Clock(inValid, d, outReady)
      PROVE  [Queue!Next]_Contents
  <2> DEFINE push == inValid /\ InReady
             pop == OutValid /\ outReady
  <2>1. CASE ~push /\ ~pop
    BY <1>5, <2>1 DEF Clock, Contents, NumUsed, Slot
  <2>2. CASE push /\ ~pop /\ NumFree # 0
    <3>1. top' = Inc(top) /\ bottom' = bottom /\ mem' = [mem EXCEPT ![top] = d]
      BY <1>5, <2>2 DEF Clock
    <3>2. m = n + 1 /\ n < Depth - 1
      <4>1. n < Depth - 1
        BY <2>2, <1>1, <1>3, <1>t DEF UsedOK
      <4> QED BY <3>1, <4>1, <1>t DEF Inc
    <3>p. \A i \in 1 .. n + 1 : Slot(i)' = Slot(i)
      BY <3>1 DEF Slot
    <3>3. \A i \in 1 .. n : mem'[Slot(i)'] = mem[Slot(i)]
      BY <3>1, <3>p, <1>s, <1>3
    <3>4. mem'[Slot(n + 1)'] = d
      BY <3>1, <3>p, <1>s, <1>3
    <3>5. Contents' = Append(Contents, d)
      BY <3>2, <3>3, <3>4, <1>c, <1>3, SeqEqual
    <3> QED BY <3>2, <3>5, <1>c DEF Queue!Next, Queue!Put
  <2>3. CASE ~push /\ pop
    <3>1. top' = top /\ bottom' = Inc(bottom) /\ mem' = mem
      BY <1>5, <2>3 DEF Clock
    <3>2. m = n - 1 /\ n > 0
      <4>1. n > 0
        BY <2>3, <1>3 DEF OutValid
      <4> QED BY <3>1, <4>1, <1>t DEF Inc
    <3>3. \A i \in 1 .. m : mem'[Slot(i)'] = mem[Slot(i + 1)]
      BY <3>1, <3>2, <1>3, <1>t DEF Slot, Inc
    <3>4. Contents' = Tail(Contents)
      BY <3>2, <3>3, <1>c, <1>3, SeqEqual
    <3> QED BY <3>2, <3>4, <1>c DEF Queue!Next, Queue!Take
  <2>4. CASE push /\ (pop \/ NumFree = 0)
    <3>1. top' = Inc(top) /\ bottom' = Inc(bottom) /\ mem' = [mem EXCEPT ![top] = d]
      BY <1>5, <2>4 DEF Clock
    <3>2. m = n /\ n > 0
      <4>1. n > 0
        BY <2>4, <1>1, <1>3, <1>t DEF UsedOK, OutValid
      <4> QED BY <3>1, <4>1, <1>t DEF Inc
    <3>3. \A i \in 1 .. n - 1 : mem'[Slot(i)'] = mem[Slot(i + 1)]
      <4> SUFFICES ASSUME NEW i \in 1 .. n - 1 PROVE mem'[Slot(i)'] = mem[Slot(i + 1)]
        OBVIOUS
      <4>1. Slot(i)' = Slot(i + 1)
        BY <3>1, <1>3, <1>t DEF Slot, Inc
      <4>2. Slot(i + 1) \in Address /\ Slot(i + 1) # top
        BY <1>s, <1>3
      <4> QED BY <3>1, <4>1, <4>2, <1>s
    <3>4. mem'[Slot(n)'] = d
      <4>1. Slot(n)' = top
        BY <3>1, <3>2, <1>s, <1>3, <1>t DEF Slot, Inc
      <4> QED BY <3>1, <4>1, <1>s
    <3>6. Contents # <<>>
      BY <3>2, <1>c
    <3>5. Contents' = Append(Tail(Contents), d)
      <4> DEFINE shifted == Append(Tail(Contents), d)
      <4>1. /\ shifted \in Seq(Item) /\ Len(shifted) = n /\ shifted[n] = d
            /\ \A i \in 1 .. n - 1 : shifted[i] = Contents[i + 1]
        BY <3>6, <1>c, ShiftIn
      <4> HIDE DEF shifted
      <4>2. \A i \in 1 .. n - 1 : Contents'[i] = shifted[i]
        BY <3>2, <3>3, <4>1, <1>c, <1>3
      <4>3. Contents'[n] = shifted[n]
        BY <3>2, <3>4, <4>1, <1>c, <1>3
      <4>4. \A i \in 1 .. n : Contents'[i] = shifted[i]
        BY <4>2, <4>3, <1>3
      <4>5. Contents' = shifted
        BY <3>2, <4>1, <4>4, <1>c, SeqEqual
      <4> QED BY <4>5 DEF shifted
    <3>7. Len(Contents) < Depth - 1 \/ WriteWhenFull
      BY <2>4, <1>1, <1>3, <1>c, <1>t DEF UsedOK, InReady
    <3> QED BY <3>5, <3>6, <3>7 DEF Queue!Next, Queue!Exchange
  <2> QED BY <2>1, <2>2, <2>3, <2>4
<1>6. CASE UNCHANGED vars
  BY <1>6 DEF vars, Contents, NumUsed, Slot
<1> QED BY <1>4, <1>5, <1>6 DEF Next

\* fifo.v is a queue: every behaviour of the pointers and the memory is a
\* behaviour of BoundedQueue of capacity Depth - 1, for every depth.
THEOREM FifoImplementsQueue == Spec => ImplementsQueue
<1>1. Init => Queue!Init
  <2> SUFFICES ASSUME Init PROVE Contents = <<>>
    BY DEF Queue!Init
  <2>1. TypeOK /\ NumUsed = 0
    BY DepthAssumption DEF Init, TypeOK, Address, NumUsed
  <2> QED BY <2>1, ContentsIsSeq DEF ContentsOK
<1> QED BY <1>1, TypeCorrect, StepImplementsQueue, PTL
        DEF Spec, ImplementsQueue, Queue!Spec
=============================================================================
