------------------------- MODULE SerialLinkProofs -------------------------
(***************************************************************************)
(* Proofs about SerialLink, in three layers.                               *)
(*                                                                         *)
(*   TypeInv   the types, the counters' ranges in each state of the        *)
(*             controller, the answers owed (one for the word in hand and  *)
(*             one for the word in the register, if they are queries) and  *)
(*             the register the program writes to only when it is empty;   *)
(*   LinkInv   the handshake (where the drive's acknowledge can be in the  *)
(*             synchroniser, in each state) and how many bits of the word, *)
(*             or of its answer, have passed to the other side; until a    *)
(*             word is given up, and for the one acknowledge after that;   *)
(*   TailInv,  the bits of the answer: still to send, on the line, shifted *)
(*   BitInv,   in, at most one of them wrong; then the answer in the       *)
(*   AnswerInv register, and the one the program was given.                *)
(*                                                                         *)
(* Next is first reduced to the drive's steps and to Turn(access) with     *)
(* what the program does on that clock (Moves), so that what does not      *)
(* depend on the program's place is proved once per state of the           *)
(* controller.                                                             *)
(***************************************************************************)
EXTENDS SerialLink, SequenceTheorems, FiniteSetTheorems, TLAPS

LEMMA Widths ==
    /\ WordLength \in Nat /\ WordLength > 0 /\ FrameLength = WordLength + 1
    /\ DataSetup \in Nat /\ DataSetup > 0 /\ AckToNreq \in Nat /\ AckToNreq > 0
    /\ BitTimeout \in Nat /\ BitTimeout > 0 /\ DataSetup <= BitTimeout /\ AckToNreq <= BitTimeout
    /\ MaxCalls \in Nat /\ Retries \in Nat /\ Retries > 0 /\ MaxFlips \in Nat
BY CmdAssumption, CallAssumption DEF FrameLength

-----------------------------------------------------------------------------
(* Words and frames.                                                        *)

LEMMA WordIsSeq ==
    ASSUME NEW word \in Word
    PROVE  word \in Seq(Bit) /\ Len(word) = WordLength
<1>1. word \in Seq(Bit)
  BY SeqDef, Widths DEF Word
<1>2. DOMAIN word = 1 .. WordLength /\ DOMAIN word = 1 .. Len(word) /\ Len(word) \in Nat
  BY <1>1, LenProperties DEF Word
<1> QED BY <1>1, <1>2, Widths

LEMMA FrameProperties ==
    ASSUME NEW word \in Word
    PROVE  /\ FrameOf(word) \in Seq(Bit) /\ Len(FrameOf(word)) = FrameLength
           /\ \A i \in 1 .. WordLength : FrameOf(word)[i] = word[i]
           /\ FrameOf(word)[FrameLength] = ParityBit(word)
<1>1. word \in Seq(Bit) /\ Len(word) = WordLength /\ ParityBit(word) \in Bit
  BY WordIsSeq DEF ParityBit, Bit
<1> QED BY <1>1, AppendProperties, Widths DEF FrameOf

LEMMA WordOfProperties ==
    ASSUME NEW frame \in Seq(Bit), Len(frame) = FrameLength
    PROVE  /\ WordOf(frame) \in Word
           /\ \A i \in 1 .. WordLength : WordOf(frame)[i] = frame[i]
<1>1. \A i \in 1 .. WordLength : frame[i] \in Bit
  BY ElementOfSeq, Widths
<1>2. /\ WordOf(frame) \in Seq(Bit)
      /\ Len(WordOf(frame)) = WordLength
      /\ \A i \in 1 .. WordLength : WordOf(frame)[i] = frame[i]
  BY <1>1, SubSeqProperties, Widths DEF WordOf
<1>3. WordOf(frame) \in [1 .. Len(WordOf(frame)) -> Bit]
  BY <1>2, LenProperties
<1> QED BY <1>2, <1>3 DEF Word

LEMMA FrameIsSeq ==
    ASSUME NEW frame \in Frame
    PROVE  frame \in Seq(Bit) /\ Len(frame) = FrameLength
<1>1. frame \in Seq(Bit)
  BY SeqDef, Widths DEF Frame
<1>2. DOMAIN frame = 1 .. FrameLength /\ DOMAIN frame = 1 .. Len(frame) /\ Len(frame) \in Nat
  BY <1>1, LenProperties, Widths DEF Frame
<1> QED BY <1>1, <1>2, Widths

LEMMA SeqIsFrame ==
    ASSUME NEW frame \in Seq(Bit), Len(frame) = FrameLength
    PROVE  frame \in Frame
BY LenProperties, Widths DEF Frame

\* The drive that has all bits of a frame has its word.
LEMMA WordOfFrame ==
    ASSUME NEW word \in Word, NEW frame \in Seq(Bit), Len(frame) = FrameLength,
           \A i \in 1 .. WordLength : frame[i] = FrameOf(word)[i]
    PROVE  WordOf(frame) = word
<1>1. WordOf(frame) \in Word /\ \A i \in 1 .. WordLength : WordOf(frame)[i] = word[i]
  BY WordOfProperties, FrameProperties
<1>2. /\ WordOf(frame) \in Seq(Bit) /\ Len(WordOf(frame)) = WordLength
      /\ word \in Seq(Bit) /\ Len(word) = WordLength
  BY <1>1, WordIsSeq
<1> QED BY <1>1, <1>2, SeqEqual

LEMMA QueryBit ==
    ASSUME NEW word \in Word
    PROVE  IsQuery(word) \in BOOLEAN
BY Widths DEF IsQuery, Word, Bit

LEMMA Zeros ==
    /\ Zero \in Word
    /\ [b \in 1 .. FrameLength |-> FALSE] \in Frame
    /\ [b \in 0 .. 2 |-> FALSE] \in [0 .. 2 -> BOOLEAN]
BY DEF Zero, Word, Frame, Bit, FrameLength

-----------------------------------------------------------------------------
(* The controller by itself.                                                *)

\* The bit in hand has been presented, or the drive's has been asked for.
Presented == ~(state = 1 /\ cycle_count = 0)

CountInv ==
    /\ state = 1 => cycle_count <= DataSetup
    /\ state = 3 => cycle_count <= AckToNreq
    /\ state \in {2, 4} => cycle_count <= BitTimeout
    /\ state # 0 =>
          /\ ~Presented => bit_count < FrameLength
          /\ Presented => bit_count > 0
          /\ reading => is_query
          /\ ~reading => Len(data_out) = FrameLength - bit_count

ControllerInv == CmdTypeOK /\ CountInv

GoodAccess(access) ==
    access.kind = "write" => access.value \in [word : Word, query : BOOLEAN]

LEMMA RegisterTypes ==
    ASSUME CmdTypeOK, NEW ackLine \in BOOLEAN, NEW confLine \in Bit, NEW access,
           GoodAccess(access), Clock(ackLine, confLine, access)
    PROVE  /\ buffered_data_out_valid' \in BOOLEAN
           /\ buffered_data_out' \in [word : Word, query : BOOLEAN]
           /\ buffered_data_in_valid' \in BOOLEAN
           /\ buffered_data_in' \in Answer
           /\ ack_shift' \in [0 .. 2 -> BOOLEAN] /\ confstat_shift' \in [0 .. 2 -> Bit]
<1>1. Posted \in Answer
  <2>1. data_in \in Seq(Bit) /\ Len(data_in) = FrameLength
    BY FrameIsSeq DEF CmdTypeOK
  <2>2. WordOf(data_in) \in Word /\ ParityError(data_in) \in BOOLEAN
    BY <2>1, WordOfProperties DEF ParityError
  <2> QED BY <2>2, Zeros DEF Posted, Answer
<1>2. buffered_data_in' \in Answer
  BY <1>1 DEF Clock, CmdTypeOK
<1>3. buffered_data_out' \in [word : Word, query : BOOLEAN]
  BY DEF Clock, CmdTypeOK, GoodAccess
<1>4. buffered_data_out_valid' \in BOOLEAN /\ buffered_data_in_valid' \in BOOLEAN
  BY DEF Clock, CmdTypeOK
<1>5. ack_shift' \in [0 .. 2 -> BOOLEAN] /\ confstat_shift' \in [0 .. 2 -> Bit]
  BY DEF Clock, CmdTypeOK, Bit
<1> QED BY <1>2, <1>3, <1>4, <1>5

MachineTypes ==
    /\ state \in 0 .. 4
    /\ reading \in BOOLEAN /\ is_query \in BOOLEAN
    /\ bit_count \in 0 .. FrameLength
    /\ cycle_count \in 0 .. BitTimeout + 1
    /\ data_out \in Seq(Bit) /\ Len(data_out) <= FrameLength
    /\ data_in \in Frame
    /\ transfer_req \in BOOLEAN /\ command_data \in Bit

LEMMA CountedInRange ==
    ASSUME CmdTypeOK
    PROVE  /\ Counted \in 0 .. BitTimeout + 1
           /\ cycle_count <= BitTimeout => Counted = cycle_count + 1
           /\ cycle_count \in Nat
BY Widths DEF CmdTypeOK, Counted

LEMMA StartStep ==
    ASSUME ControllerInv, Start
    PROVE  MachineTypes' /\ CountInv'
<1>0. data_in' \in Frame /\ transfer_req' \in BOOLEAN /\ command_data' \in Bit
  BY DEF Start, ControllerInv, CmdTypeOK, Bit
<1>1. CASE buffered_data_out_valid
  <2>1. /\ data_out' = FrameOf(buffered_data_out.word)
        /\ buffered_data_out.word \in Word /\ buffered_data_out.query \in BOOLEAN
    BY <1>1 DEF Start, ControllerInv, CmdTypeOK
  <2>2. data_out' \in Seq(Bit) /\ Len(data_out') = FrameLength
    BY <2>1, FrameProperties
  <2>3. /\ state' = 1 /\ ~reading' /\ reading' \in BOOLEAN /\ bit_count' = 0
        /\ cycle_count' = 0 /\ is_query' \in BOOLEAN
    BY <1>1, <2>1 DEF Start
  <2>4. MachineTypes'
    BY <1>0, <2>2, <2>3, Widths DEF MachineTypes
  <2> QED BY <2>2, <2>3, <2>4, Widths DEF CountInv, Presented
<1>2. CASE ~buffered_data_out_valid
  <2>1. /\ state' = 0 /\ cycle_count' = Counted
        /\ UNCHANGED <<reading, is_query, bit_count, data_out>>
    BY <1>2 DEF Start
  <2>2. Counted \in 0 .. BitTimeout + 1
    BY CountedInRange DEF ControllerInv
  <2> QED BY <1>0, <2>1, <2>2 DEF ControllerInv, CmdTypeOK, MachineTypes, CountInv
<1> QED BY <1>1, <1>2

LEMMA PresentStep ==
    ASSUME ControllerInv, PresentBit
    PROVE  MachineTypes' /\ CountInv'
<1>1. /\ state = 1 /\ cycle_count \in 0 .. DataSetup /\ bit_count \in 0 .. FrameLength
      /\ data_out \in Seq(Bit)
  BY CountedInRange, Widths DEF PresentBit, ControllerInv, CmdTypeOK, CountInv
<1>2. /\ Len(data_out') \in Nat /\ Len(data_out') <= FrameLength
      /\ data_out' \in Seq(Bit) /\ command_data' \in Bit
      /\ bit_count' \in 0 .. FrameLength /\ bit_count' > 0
      /\ ~reading => Len(data_out') = FrameLength - bit_count'
  <2>1. CASE cycle_count = 0 /\ ~reading
    <3>1. bit_count < FrameLength /\ Len(data_out) = FrameLength - bit_count
      BY <1>1, <2>1 DEF ControllerInv, CountInv, Presented
    <3>2. data_out # <<>>
      BY <1>1, <3>1, EmptySeq, Widths
    <3>3. /\ command_data' = Head(data_out) /\ data_out' = Tail(data_out)
          /\ bit_count' = bit_count + 1
      BY <2>1 DEF PresentBit
    <3> QED BY <1>1, <3>1, <3>2, <3>3, HeadTailProperties, Widths
  <2>2. CASE cycle_count # 0 \/ reading
    BY <1>1, <2>2, Widths DEF PresentBit, ControllerInv, CmdTypeOK, CountInv, Presented
  <2> QED BY <2>1, <2>2
<1>3. /\ state' \in {1, 2} /\ cycle_count' \in 0 .. DataSetup
      /\ (state' = 1 => cycle_count' # 0) /\ transfer_req' \in BOOLEAN
  <2>1. CASE cycle_count = DataSetup
    BY <1>1, <2>1, Widths DEF PresentBit
  <2>2. CASE cycle_count # DataSetup
    <3>1. Counted = cycle_count + 1
      BY <1>1, CountedInRange, Widths DEF ControllerInv
    <3>2. state' = 1 /\ cycle_count' = Counted /\ transfer_req' = transfer_req
      BY <1>1, <2>2 DEF PresentBit
    <3> QED BY <1>1, <2>2, <3>1, <3>2, Widths DEF ControllerInv, CmdTypeOK
  <2> QED BY <2>1, <2>2
<1>4. reading' = reading /\ is_query' = is_query /\ data_in' = data_in
  BY DEF PresentBit
<1>5. /\ reading \in BOOLEAN /\ is_query \in BOOLEAN /\ data_in \in Frame
      /\ reading => is_query
  BY <1>1 DEF ControllerInv, CmdTypeOK, CountInv
<1>6. MachineTypes'
  BY <1>2, <1>3, <1>4, <1>5, Widths DEF MachineTypes
<1>7. /\ state' = 1 => cycle_count' <= DataSetup
      /\ state' = 3 => cycle_count' <= AckToNreq
      /\ state' \in {2, 4} => cycle_count' <= BitTimeout
  BY <1>3, Widths
<1>8. (reading' => is_query') /\ (~reading' => Len(data_out') = FrameLength - bit_count')
  BY <1>2, <1>4, <1>5
<1>9. Presented' /\ bit_count' > 0
  BY <1>2, <1>3 DEF Presented
<1> QED BY <1>6, <1>7, <1>8, <1>9 DEF CountInv

LEMMA ShiftIn ==
    ASSUME NEW frame \in Frame, NEW bit \in Bit
    PROVE  /\ Append(Tail(frame), bit) \in Frame
           /\ Append(Tail(frame), bit)[FrameLength] = bit
           /\ \A i \in 1 .. WordLength : Append(Tail(frame), bit)[i] = frame[i + 1]
<1>1. frame \in Seq(Bit) /\ Len(frame) = FrameLength
  BY FrameIsSeq
<1>2. frame # <<>>
  BY <1>1, EmptySeq, Widths
<1>3. /\ Tail(frame) \in Seq(Bit) /\ Len(Tail(frame)) = WordLength
      /\ \A i \in 1 .. WordLength : Tail(frame)[i] = frame[i + 1]
  BY <1>1, <1>2, HeadTailProperties, Widths
<1> DEFINE shifted == Append(Tail(frame), bit)
<1>4. /\ shifted \in Seq(Bit) /\ Len(shifted) = FrameLength
      /\ \A i \in 1 .. WordLength : shifted[i] = Tail(frame)[i]
      /\ shifted[WordLength + 1] = bit
  BY <1>3, AppendProperties, Widths
<1>5. shifted \in Frame
  BY <1>4, SeqIsFrame
<1> QED BY <1>3, <1>4, <1>5, Widths

LEMMA AckStep ==
    ASSUME ControllerInv, AwaitAck
    PROVE  MachineTypes' /\ CountInv'
<1>1. data_in' \in Frame
  <2>1. data_in \in Frame /\ confstat_shift[0] \in Bit
    BY DEF ControllerInv, CmdTypeOK
  <2> QED BY <2>1, ShiftIn DEF AwaitAck
<1>2. /\ state' \in {0, 2, 3} /\ cycle_count' \in 0 .. BitTimeout + 1
      /\ state' = 2 => cycle_count' <= BitTimeout
      /\ state' = 3 => cycle_count' = 0
  BY CountedInRange, Widths DEF AwaitAck, TimedOut, ControllerInv, CountInv
<1>3. state = 2 /\ UNCHANGED <<reading, is_query, bit_count, data_out, transfer_req, command_data>>
  BY DEF AwaitAck
<1> QED BY <1>1, <1>2, <1>3, Widths
        DEF ControllerInv, CmdTypeOK, MachineTypes, CountInv, Presented

LEMMA HoldStep ==
    ASSUME ControllerInv, HoldRequest
    PROVE  MachineTypes' /\ CountInv'
<1>1. /\ state' \in {3, 4} /\ cycle_count' \in 0 .. BitTimeout + 1
      /\ state' = 3 => cycle_count' <= AckToNreq
      /\ state' = 4 => cycle_count' = 0
      /\ transfer_req' \in BOOLEAN
  <2>1. state = 3 /\ cycle_count <= AckToNreq /\ transfer_req \in BOOLEAN
    BY DEF HoldRequest, ControllerInv, CountInv, CmdTypeOK
  <2>2. CASE cycle_count = AckToNreq
    <3>1. state' = 4 /\ cycle_count' = 0 /\ ~transfer_req' /\ transfer_req' \in BOOLEAN
      BY <2>2 DEF HoldRequest
    <3> QED BY <3>1, Widths
  <2>3. CASE cycle_count # AckToNreq
    <3>1. Counted = cycle_count + 1 /\ cycle_count \in Nat
      BY <2>1, CountedInRange, Widths DEF ControllerInv, CmdTypeOK
    <3>2. state' = 3 /\ cycle_count' = Counted /\ transfer_req' = transfer_req
      BY <2>1, <2>3 DEF HoldRequest
    <3> QED BY <2>1, <2>3, <3>1, <3>2, Widths
  <2> QED BY <2>2, <2>3
<1>2. state = 3 /\ UNCHANGED <<reading, is_query, bit_count, data_out, data_in, command_data>>
  BY DEF HoldRequest
<1> QED BY <1>1, <1>2, Widths
        DEF ControllerInv, CmdTypeOK, MachineTypes, CountInv, Presented

LEMMA ReleaseStep ==
    ASSUME ControllerInv, AwaitRelease
    PROVE  MachineTypes' /\ CountInv'
<1>1. state = 4 /\ UNCHANGED <<is_query, data_out, data_in, transfer_req, command_data>>
  BY DEF AwaitRelease
<1>2. /\ bit_count \in 0 .. FrameLength /\ bit_count > 0 /\ FrameLength \in Nat
      /\ reading \in BOOLEAN /\ is_query \in BOOLEAN /\ (reading => is_query)
      /\ ~reading => Len(data_out) = FrameLength - bit_count
  BY <1>1, Widths DEF ControllerInv, CmdTypeOK, CountInv, Presented
<1>3. CASE ~AckSeen
  <2>1. /\ state' = IF LastBit /\ (reading \/ ~is_query) THEN 0 ELSE 1
        /\ reading' = (reading \/ (LastBit /\ is_query))
        /\ bit_count' = IF LastBit /\ ~reading /\ is_query THEN 0 ELSE bit_count
        /\ cycle_count' = 0
    BY <1>3 DEF AwaitRelease, NextBit
  <2>2. /\ bit_count' \in 0 .. FrameLength /\ (state' # 0 => bit_count' < FrameLength)
    BY <1>2, <2>1 DEF LastBit
  <2>3. state' # 0 /\ ~reading' => ~reading /\ bit_count' = bit_count
    BY <1>2, <2>1
  <2> QED BY <1>1, <1>2, <2>1, <2>2, <2>3, Widths
          DEF ControllerInv, CmdTypeOK, MachineTypes, CountInv, Presented
<1>4. CASE AckSeen
  <2>1. /\ state' \in {0, 4} /\ cycle_count' \in 0 .. BitTimeout + 1
        /\ state' = 4 => cycle_count' <= BitTimeout
        /\ UNCHANGED <<reading, bit_count>>
    BY <1>1, <1>4, CountedInRange, Widths DEF AwaitRelease, TimedOut, ControllerInv, CountInv
  <2> QED BY <1>1, <1>2, <2>1, Widths
          DEF ControllerInv, CmdTypeOK, MachineTypes, CountInv, Presented
<1> QED BY <1>3, <1>4

LEMMA ControllerStep ==
    ASSUME ControllerInv, NEW ackLine \in BOOLEAN, NEW confLine \in Bit, NEW access,
           GoodAccess(access), Clock(ackLine, confLine, access)
    PROVE  ControllerInv'
<1>1. MachineTypes' /\ CountInv'
  BY StartStep, PresentStep, AckStep, HoldStep, ReleaseStep DEF Clock
<1> QED BY <1>1, RegisterTypes DEF ControllerInv, CmdTypeOK, MachineTypes

-----------------------------------------------------------------------------
(* What the program does on a clock.                                        *)

\* The word that the controller has in hand, and the one in its register, will be
\* answered.
InHand == IF state # 0 /\ is_query THEN 1 ELSE 0
InRegister == IF buffered_data_out_valid /\ buffered_data_out.query THEN 1 ELSE 0
OwedInv == owed = InHand + InRegister

\* The program writes a word only after it has found the register empty.
IssueInv ==
    /\ pc \in {"drain", "write"} => ~buffered_data_out_valid
    /\ pc = "drain" => IsQuery(call)
    /\ buffered_data_out_valid =>
          /\ issued # <<>> /\ buffered_data_out.word = issued[Len(issued)]
          /\ buffered_data_out.query = IsQuery(issued[Len(issued)])
    /\ pc = "await" => issued # <<>> /\ issued[Len(issued)] = call /\ IsQuery(call)

Writes(access) == access.kind = "write"
Counts(access) == IF Writes(access) /\ IsQuery(call) THEN 1 ELSE 0

Moves(access) ==
    /\ Writes(access) => /\ access.value = [word |-> call, query |-> IsQuery(call)]
                         /\ pc = "write" /\ pc' \in {"await", "idle"}
    /\ issued' = IF Writes(access) THEN Append(issued, call) ELSE issued
    /\ owed' = IF Writes(access) /\ IsQuery(call) THEN Delivered + 1 ELSE Delivered
    /\ pc' \in {"drain", "write"} => /\ ~Writes(access)
                                     /\ pc \in {"drain", "write"} \/ ~buffered_data_out_valid
    /\ pc' = "drain" => call' = call /\ (pc = "drain" \/ IsQuery(call))
    /\ pc' = "await" => /\ call' = call
                        /\ \/ pc = "await" /\ ~Writes(access)
                           \/ Writes(access) /\ IsQuery(call)

LEMMA NextMoves ==
    ASSUME TypeOK, Next
    PROVE  Drive \/ \E access : Turn(access) /\ Moves(access) /\ GoodAccess(access)
<1> DEFINE Goal == \E access : Turn(access) /\ Moves(access) /\ GoodAccess(access)
<1>1. /\ call \in Word /\ IsQuery(call) \in BOOLEAN
      /\ ~Writes(NoAccess) /\ ~Writes(ReadAnswer)
      /\ GoodAccess(NoAccess) /\ GoodAccess(ReadAnswer)
  BY QueryBit DEF TypeOK, GoodAccess, Writes, NoAccess, ReadAnswer
<1>2. CASE Tick
  <2>1. Turn(NoAccess) /\ Moves(NoAccess)
    BY <1>1, <1>2 DEF Tick, Moves, program
  <2> QED BY <1>1, <2>1
<1>3. CASE Call
  <2>1. Turn(NoAccess) /\ Moves(NoAccess)
    BY <1>1, <1>3 DEF Call, Poll, Moves
  <2> QED BY <1>1, <2>1
<1>4. CASE BecomesReady
  <2>1. Turn(NoAccess) /\ Moves(NoAccess)
    BY <1>1, <1>4 DEF BecomesReady, Poll, Moves
  <2> QED BY <1>1, <2>1
<1>5. CASE NeverReady
  <2>1. Turn(NoAccess) /\ Moves(NoAccess)
    BY <1>1, <1>5 DEF NeverReady, Fail, Moves
  <2> QED BY <1>1, <2>1
<1>6. CASE DrainLeftover
  <2>1. PICK access \in {NoAccess, ReadAnswer} : Turn(access)
    BY <1>6 DEF DrainLeftover
  <2>2. Moves(access) /\ GoodAccess(access)
    BY <1>1, <1>6 DEF DrainLeftover, Moves
  <2> QED BY <2>1, <2>2
<1>7. CASE Issue
  <2> DEFINE access == WriteCommand(call, IsQuery(call))
  <2>1. /\ Writes(access) /\ access.value = [word |-> call, query |-> IsQuery(call)]
        /\ GoodAccess(access)
    BY <1>1 DEF GoodAccess, Writes, WriteCommand
  <2>2. /\ Turn(access) /\ pc = "write" /\ UNCHANGED call
        /\ issued' = Append(issued, call)
        /\ owed' = IF IsQuery(call) THEN Delivered + 1 ELSE Delivered
        /\ pc' = IF IsQuery(call) THEN "await" ELSE "idle"
    BY <1>7 DEF Issue
  <2> HIDE DEF access
  <2>3. Moves(access)
    BY <1>1, <2>1, <2>2 DEF Moves
  <2> QED BY <2>1, <2>2, <2>3
<1>8. CASE TakeAnswer
  <2>1. Turn(ReadAnswer) /\ Moves(ReadAnswer)
    BY <1>1, <1>8 DEF TakeAnswer, Fail, Moves
  <2> QED BY <1>1, <2>1
<1>9. CASE NoResponse
  <2>1. Turn(NoAccess) /\ Moves(NoAccess)
    BY <1>1, <1>9 DEF NoResponse, Fail, Moves
  <2> QED BY <1>1, <2>1
<1> QED BY <1>2, <1>3, <1>4, <1>5, <1>6, <1>7, <1>8, <1>9 DEF Next, Polls, GivesUpWaiting

-----------------------------------------------------------------------------
(* The answers owed.                                                        *)

LEMMA HandMoves ==
    ASSUME ControllerInv, NEW access, Turn(access)
    PROVE  /\ state' # 0 /\ is_query' <=>
                 \/ state = 0 /\ buffered_data_out_valid /\ buffered_data_out.query
                 \/ state # 0 /\ is_query /\ ~Posts
           /\ Posts => state # 0 /\ is_query
           /\ buffered_data_out_valid' <=> Writes(access) \/ (buffered_data_out_valid /\ state # 0)
           /\ buffered_data_out' = IF Writes(access) THEN access.value ELSE buffered_data_out
<1>1. /\ Start \/ PresentBit \/ AwaitAck \/ HoldRequest \/ AwaitRelease
      /\ buffered_data_out_valid' <=> Writes(access) \/ (buffered_data_out_valid /\ state # 0)
      /\ buffered_data_out' = IF Writes(access) THEN access.value ELSE buffered_data_out
  BY DEF Turn, Clock, Writes
<1>2. /\ state \in 0 .. 4 /\ (state # 0 /\ reading => is_query)
      /\ is_query \in BOOLEAN /\ reading \in BOOLEAN
  BY DEF ControllerInv, CmdTypeOK, CountInv
<1>3. Posts => state # 0 /\ is_query
  BY <1>2 DEF Posts, Completes, GivesUp
<1>4. CASE Start
  BY <1>1, <1>2, <1>3, <1>4 DEF Start
<1>5. CASE PresentBit
  BY <1>1, <1>2, <1>3, <1>5 DEF PresentBit, Posts, Completes, GivesUp
<1>6. CASE AwaitAck
  BY <1>1, <1>2, <1>3, <1>6 DEF AwaitAck, Posts, Completes, GivesUp
<1>7. CASE HoldRequest
  BY <1>1, <1>2, <1>3, <1>7 DEF HoldRequest, Posts, Completes, GivesUp
<1>8. CASE AwaitRelease
  BY <1>1, <1>2, <1>3, <1>8 DEF AwaitRelease, NextBit, Posts, Completes, GivesUp
<1> QED BY <1>1, <1>4, <1>5, <1>6, <1>7, <1>8

LEMMA OwedTurns ==
    ASSUME TypeOK, ControllerInv, OwedInv, IssueInv, NEW access, Turn(access), Moves(access)
    PROVE  OwedInv' /\ Delivered \in Nat
<1>1. /\ InHand \in {0, 1} /\ InRegister \in {0, 1} /\ owed = InHand + InRegister
      /\ IsQuery(call) \in BOOLEAN /\ Counts(access) \in {0, 1}
  BY QueryBit DEF InHand, InRegister, OwedInv, TypeOK, Counts
<1>2. Posts => InHand = 1
  BY HandMoves DEF InHand
<1>3. Delivered \in Nat /\ Delivered = IF Posts THEN InRegister ELSE InHand + InRegister
  BY <1>1, <1>2 DEF Delivered
<1>4. owed' = Delivered + Counts(access)
  BY <1>3 DEF Moves, Counts
<1>5. InHand' = IF state = 0 THEN InRegister ELSE IF Posts THEN 0 ELSE InHand
  BY HandMoves DEF InHand, InRegister
<1>6. InRegister' = IF Writes(access) THEN Counts(access)
                    ELSE IF state = 0 THEN 0 ELSE InRegister
  <2>1. CASE Writes(access)
    <3>1. buffered_data_out_valid' /\ buffered_data_out'.query = IsQuery(call)
      BY <2>1, HandMoves DEF Moves
    <3> QED BY <2>1, <3>1 DEF InRegister, Counts
  <2>2. CASE ~Writes(access)
    BY <2>2, HandMoves DEF InRegister
  <2> QED BY <2>1, <2>2
<1>7. /\ Writes(access) => InRegister = 0
      /\ ~Writes(access) => Counts(access) = 0
      /\ state = 0 => InHand = 0
  BY DEF Moves, IssueInv, InRegister, Counts, InHand
<1>8. owed' = InHand' + InRegister'
  BY <1>1, <1>2, <1>3, <1>4, <1>5, <1>6, <1>7
<1> QED BY <1>3, <1>8 DEF OwedInv

-----------------------------------------------------------------------------
(* Types.                                                                   *)

LEMMA ProgramTypes ==
    ASSUME TypeOK, Next
    PROVE  /\ pc' \in {"idle", "ready", "drain", "write", "await"}
           /\ call' \in Word /\ tries' \in 0 .. Retries
           /\ result' \in [kind : {"none", "ok", "error"}, word : Word]
           /\ issued' \in Seq(Word)
           /\ doubtful' \in BOOLEAN
<1>1. /\ pc \in {"idle", "ready", "drain", "write", "await"}
      /\ call \in Word /\ tries \in 0 .. Retries
      /\ result \in [kind : {"none", "ok", "error"}, word : Word]
      /\ issued \in Seq(Word) /\ doubtful \in BOOLEAN
      /\ buffered_data_in.word \in Word
      /\ IsQuery(call) \in BOOLEAN
  BY QueryBit DEF TypeOK, CmdTypeOK, Answer
<1>2. \A kind \in {"none", "error"} : Result(kind) \in [kind : {"none", "ok", "error"}, word : Word]
  BY Zeros DEF Result
<1>3. Fail => /\ pc' \in {"idle", "ready"} /\ call' = call /\ tries' \in 0 .. Retries
  BY <1>1, Widths DEF Fail
<1> DEFINE Fine == /\ pc' \in {"idle", "ready", "drain", "write", "await"}
                   /\ call' \in Word /\ tries' \in 0 .. Retries
                   /\ issued' \in Seq(Word) /\ doubtful' \in BOOLEAN
<1>4. Fine
  <2>1. CASE Drive
    BY <1>1, <2>1 DEF Drive, ReceiveBit, SendBit, Acknowledge, Release, program
  <2>2. CASE Tick
    BY <1>1, <2>2 DEF Tick, program
  <2>3. CASE Call
    BY <1>1, <2>3, Widths DEF Call, Poll
  <2>4. CASE BecomesReady
    BY <1>1, <2>4 DEF BecomesReady, Poll
  <2>5. CASE DrainLeftover
    <3>1. doubtful' \in BOOLEAN
      BY <2>5 DEF DrainLeftover
    <3> QED BY <1>1, <2>5, <3>1 DEF DrainLeftover
  <2>6. CASE Issue
    BY <1>1, <2>6, AppendProperties DEF Issue
  <2>7. CASE TakeAnswer
    BY <1>1, <1>3, <2>7 DEF TakeAnswer
  <2>8. CASE NeverReady \/ NoResponse
    BY <1>1, <1>3, <2>8 DEF NeverReady, NoResponse
  <2> QED BY <2>1, <2>2, <2>3, <2>4, <2>5, <2>6, <2>7, <2>8 DEF Next, Polls, GivesUpWaiting
<1>5. result' \in [kind : {"none", "ok", "error"}, word : Word]
  <2>1. Fail => result' \in {result, Result("error")}
    BY DEF Fail
  <2>2. CASE Fail
    BY <1>1, <1>2, <2>1, <2>2
  <2>3. CASE ~Fail
    <3>1. \/ result' = result
          \/ result' = Result("none")
          \/ result' = [kind |-> "ok", word |-> buffered_data_in.word]
      BY <2>3 DEF Next, Drive, ReceiveBit, SendBit, Acknowledge, Release, Tick, Call, Poll,
         Polls, GivesUpWaiting, BecomesReady, NeverReady, DrainLeftover, Issue, TakeAnswer,
         NoResponse, program
    <3> QED BY <1>1, <1>2, <3>1
  <2> QED BY <2>2, <2>3
<1> QED BY <1>4, <1>5

DriveTypes ==
    /\ ack \in BOOLEAN /\ confstat \in Bit
    /\ got \in Seq(Bit) /\ Len(got) < FrameLength
    /\ toSend \in Seq(Bit) /\ Len(toSend) <= FrameLength
    /\ received \in Seq(Word) /\ given \in Word
    /\ flips \in 0 .. MaxFlips

LEMMA DriveStep ==
    ASSUME DriveTypes, CmdTypeOK, Drive
    PROVE  DriveTypes'
<1>1. /\ ack \in BOOLEAN /\ confstat \in Bit
      /\ got \in Seq(Bit) /\ Len(got) < FrameLength /\ Len(got) \in Nat
      /\ toSend \in Seq(Bit) /\ Len(toSend) <= FrameLength
      /\ received \in Seq(Word) /\ given \in Word
      /\ flips \in 0 .. MaxFlips /\ command_data \in Bit
  BY Widths DEF DriveTypes, CmdTypeOK
<1>2. CASE ReceiveBit
  <2> DEFINE frame == Append(got, command_data)
             whole == Len(frame) = FrameLength
             word == WordOf(frame)
  <2>1. frame \in Seq(Bit) /\ Len(frame) = Len(got) + 1 /\ <<>> \in Seq(Bit) /\ Len(<<>>) = 0
    BY <1>1, AppendProperties, EmptySeq
  <2>2. whole => word \in Word
    BY <2>1, WordOfProperties
  <2>3. /\ ack' = TRUE /\ UNCHANGED <<confstat, flips>>
        /\ got' = IF whole THEN <<>> ELSE frame
        /\ received' = IF whole THEN Append(received, word) ELSE received
        /\ IF whole /\ IsQuery(word)
           THEN \E answer \in Word : given' = answer /\ toSend' = FrameOf(answer)
           ELSE UNCHANGED <<given, toSend>>
    BY <1>2 DEF ReceiveBit, Acknowledge
  <2> HIDE DEF frame, word
  <2>4. got' \in Seq(Bit) /\ Len(got') < FrameLength
    BY <1>1, <2>1, <2>3, Widths
  <2>5. received' \in Seq(Word)
    BY <1>1, <2>2, <2>3, AppendProperties
  <2>6. given' \in Word /\ toSend' \in Seq(Bit) /\ Len(toSend') <= FrameLength
    BY <1>1, <2>3, FrameProperties, Widths
  <2> QED BY <1>1, <2>3, <2>4, <2>5, <2>6 DEF DriveTypes
<1>3. CASE SendBit
  <2>1. toSend # <<>>
    BY <1>3 DEF SendBit
  <2>2. /\ Head(toSend) \in Bit /\ Tail(toSend) \in Seq(Bit)
        /\ Len(Tail(toSend)) = Len(toSend) - 1
    BY <1>1, <2>1, HeadTailProperties
  <2>3. Len(Tail(toSend)) <= FrameLength
    BY <1>1, <2>2, LenProperties, Widths
  <2>4. /\ ack' = TRUE /\ UNCHANGED <<got, received, given>> /\ toSend' = Tail(toSend)
        /\ confstat' \in Bit /\ flips' \in 0 .. MaxFlips
    <3>1. PICK flip \in BOOLEAN :
             /\ flip => flips < MaxFlips
             /\ flips' = IF flip THEN flips + 1 ELSE flips
             /\ confstat' = IF flip THEN ~Head(toSend) ELSE Head(toSend)
      BY <1>3 DEF SendBit
    <3>2. confstat' \in Bit
      BY <2>2, <3>1 DEF Bit
    <3>3. flips' \in 0 .. MaxFlips
      <4>1. CASE flip
        <5>1. flips < MaxFlips /\ flips' = flips + 1
          BY <3>1, <4>1
        <5> QED BY <1>1, <5>1, Widths
      <4>2. CASE ~flip
        BY <1>1, <3>1, <4>2
      <4> QED BY <4>1, <4>2
    <3> QED BY <1>3, <3>2, <3>3 DEF SendBit, Acknowledge
  <2> QED BY <1>1, <2>2, <2>3, <2>4 DEF DriveTypes
<1>4. CASE Release
  BY <1>1, <1>4 DEF Release, DriveTypes, driveHistory
<1> QED BY <1>2, <1>3, <1>4 DEF Drive

\* The type invariant's induction: what the controller, the drive and the program
\* each keep, and that what is owed is what has been asked for.
TypeInv == TypeOK /\ ControllerInv /\ DriveTypes /\ OwedInv /\ IssueInv

LEMMA IssueTurns ==
    ASSUME TypeOK, ControllerInv, IssueInv, NEW access, Turn(access), Moves(access)
    PROVE  IssueInv'
<1>1. /\ issued \in Seq(Word) /\ call \in Word /\ IsQuery(call) \in BOOLEAN
  BY QueryBit DEF TypeOK
<1>2. Writes(access) => /\ issued' # <<>> /\ Len(issued') = Len(issued) + 1
                        /\ issued'[Len(issued) + 1] = call
  BY <1>1, AppendProperties DEF Moves
<1>3. pc' \in {"drain", "write"} => ~buffered_data_out_valid'
  BY HandMoves DEF Moves, IssueInv
<1>4. pc' = "drain" => IsQuery(call')
  BY DEF Moves, IssueInv
<1>5. buffered_data_out_valid' =>
          /\ issued' # <<>> /\ buffered_data_out'.word = issued'[Len(issued')]
          /\ buffered_data_out'.query = IsQuery(issued'[Len(issued')])
  <2>1. CASE Writes(access)
    <3>1. buffered_data_out' = [word |-> call, query |-> IsQuery(call)]
      BY <2>1, HandMoves DEF Moves
    <3> QED BY <1>2, <2>1, <3>1
  <2>2. CASE ~Writes(access)
    BY <2>2, HandMoves DEF Moves, IssueInv
  <2> QED BY <2>1, <2>2
<1>6. pc' = "await" => issued' # <<>> /\ issued'[Len(issued')] = call' /\ IsQuery(call')
  <2>1. CASE Writes(access)
    BY <1>2, <2>1 DEF Moves
  <2>2. CASE ~Writes(access)
    BY <2>2 DEF Moves, IssueInv
  <2> QED BY <2>1, <2>2
<1> QED BY <1>3, <1>4, <1>5, <1>6 DEF IssueInv

LEMMA TypeStep ==
    ASSUME TypeInv, Next
    PROVE  TypeInv'
<1>1. TypeOK /\ ControllerInv /\ DriveTypes /\ OwedInv /\ IssueInv
  BY DEF TypeInv
<1>2. CASE Drive
  <2>1. UNCHANGED <<cmdVars, program, issued, linkHistory, owed, doubtful>>
    BY <1>2 DEF Drive, ReceiveBit, SendBit, Acknowledge, Release
  <2>2. DriveTypes'
    BY <1>1, <1>2, DriveStep DEF ControllerInv
  <2>3. CmdTypeOK' /\ CountInv'
    BY <1>1, <2>1
    DEF ControllerInv, CmdTypeOK, CountInv, Presented, cmdVars, fsm, registers, lines
  <2>4. OwedInv' /\ IssueInv'
    BY <1>1, <2>1
    DEF OwedInv, InHand, InRegister, IssueInv, cmdVars, fsm, registers, lines, program
  <2>5. TypeOK'
    BY <1>1, <2>1, <2>2, <2>3, Widths DEF TypeOK, DriveTypes, program, linkHistory
  <2> QED BY <2>2, <2>3, <2>4, <2>5 DEF TypeInv, ControllerInv
<1>3. ASSUME NEW access, Turn(access), Moves(access), GoodAccess(access)
      PROVE  TypeInv'
  <2>1. OwedInv' /\ IssueInv' /\ Delivered \in Nat
    BY <1>1, <1>3, OwedTurns, IssueTurns
  <2>2. ControllerInv'
    <3>1. ack \in BOOLEAN /\ confstat \in Bit /\ Clock(ack, confstat, access)
      BY <1>1, <1>3 DEF Turn, TypeOK
    <3> QED BY <1>1, <1>3, <3>1, ControllerStep
  <2>3. UNCHANGED <<ack, confstat, got, toSend, received, given, flips>>
    BY <1>3 DEF Turn, drive, driveHistory
  <2>4. DriveTypes'
    BY <1>1, <2>3 DEF DriveTypes
  <2>5. owed' \in Nat
    BY <1>3, <2>1 DEF Moves
  <2>6. {gaveUp', adrift', doubtful'} \subseteq BOOLEAN
    BY <1>1, <1>3, ProgramTypes DEF Turn, TypeOK
  <2>7. TypeOK'
    BY <1>1, <2>2, <2>4, <2>5, <2>6, ProgramTypes, Widths DEF TypeOK, DriveTypes, ControllerInv
  <2> QED BY <2>1, <2>2, <2>4, <2>7 DEF TypeInv
<1> QED BY <1>1, <1>2, <1>3, NextMoves

RegisterInit ==
    /\ buffered_data_out_valid \in BOOLEAN /\ buffered_data_in_valid \in BOOLEAN
    /\ buffered_data_out \in [word : Word, query : BOOLEAN]
    /\ buffered_data_in \in Answer
    /\ ack_shift \in [0 .. 2 -> BOOLEAN] /\ confstat_shift \in [0 .. 2 -> Bit]

LEMMA TypeInductive == Spec => []TypeInv
<1>1. ASSUME Init PROVE TypeInv
  <2>1. <<>> \in Seq(Bit) /\ <<>> \in Seq(Word) /\ Len(<<>>) = 0
    BY EmptySeq
  <2>2. RegisterInit
    BY <1>1, Zeros DEF Init, CmdInit, RegisterInit, Answer, Bit
  <2>3. MachineTypes /\ CountInv
    <3>1. /\ state = 0 /\ reading \in BOOLEAN /\ is_query \in BOOLEAN /\ bit_count = 0
          /\ cycle_count = 0 /\ data_out = <<>> /\ data_in \in Frame
          /\ transfer_req \in BOOLEAN /\ command_data \in Bit
      BY <1>1, Zeros DEF Init, CmdInit, Bit
    <3> QED BY <2>1, <3>1, Widths DEF MachineTypes, CountInv
  <2>4. CmdTypeOK
    BY <2>2, <2>3 DEF CmdTypeOK, MachineTypes, RegisterInit
  <2>5. OwedInv /\ IssueInv
    BY <1>1 DEF Init, CmdInit, OwedInv, InHand, InRegister, IssueInv
  <2>6. DriveTypes
    <3>1. /\ ack \in BOOLEAN /\ confstat \in Bit /\ got = <<>> /\ toSend = <<>>
          /\ received = <<>> /\ given \in Word /\ flips = 0
      BY <1>1, Zeros DEF Init, Bit
    <3> QED BY <2>1, <3>1, Widths DEF DriveTypes
  <2>7. TypeOK
    <3>1. /\ pc = "idle" /\ call = Zero /\ tries = 0 /\ result = Result("none")
          /\ issued = <<>> /\ owed = 0
          /\ {gaveUp, adrift, doubtful} \subseteq BOOLEAN
      BY <1>1 DEF Init
    <3>2. result \in [kind : {"none", "ok", "error"}, word : Word] /\ tries \in 0 .. Retries
      BY <3>1, Zeros, Widths DEF Result
    <3> QED BY <2>1, <2>4, <2>6, <3>1, <3>2, Zeros, Widths DEF DriveTypes, TypeOK
  <2> QED BY <2>3, <2>4, <2>5, <2>6, <2>7 DEF TypeInv, ControllerInv
<1>2. ASSUME TypeInv, UNCHANGED vars PROVE TypeInv'
  <2>1. /\ UNCHANGED <<fsm, registers, lines>>
        /\ UNCHANGED <<drive, program, issued, driveHistory, linkHistory, owed, doubtful>>
    BY <1>2 DEF vars, cmdVars
  <2>2. CmdTypeOK' /\ CountInv'
    BY <1>2, <2>1
    DEF TypeInv, ControllerInv, CmdTypeOK, CountInv, Presented, fsm, registers, lines
  <2>3. OwedInv' /\ IssueInv'
    BY <1>2, <2>1
    DEF TypeInv, OwedInv, InHand, InRegister, IssueInv, fsm, registers, lines, program
  <2>4. DriveTypes'
    BY <1>2, <2>1 DEF TypeInv, DriveTypes, drive, driveHistory
  <2>5. TypeOK'
    BY <1>2, <2>1, <2>2, <2>4, Widths DEF TypeInv, DriveTypes, TypeOK, program, linkHistory
  <2> QED BY <2>2, <2>3, <2>4, <2>5 DEF TypeInv, ControllerInv
<1>3. ASSUME TypeInv, [Next]_vars PROVE TypeInv'
  BY <1>2, <1>3, TypeStep
<1> QED BY <1>1, <1>3, PTL DEF Spec

\* TypeOK: among other things the bit counter and both shift registers stay within a
\* frame, and no answer is posted that nobody has asked for.
THEOREM TypeCorrect == Spec => []TypeOK
<1>1. TypeInv => TypeOK
  BY DEF TypeInv
<1> QED BY <1>1, TypeInductive, PTL

-----------------------------------------------------------------------------
(* The handshake, and the words it carries.                                 *)

\* How many words the controller has started to send; the last of them.
Started == Len(issued) - (IF buffered_data_out_valid THEN 1 ELSE 0)
Current == issued[Started]
Sending == FrameOf(Current)

\* How the drive's acknowledge moves through the synchroniser.
Low == ~ack_shift[0] /\ ~ack_shift[1] /\ ~ack_shift[2] /\ ~ack
Rising == (ack_shift[0] => ack_shift[1]) /\ (ack_shift[1] => ack_shift[2]) /\ (ack_shift[2] => ack)
High == ack_shift[0] /\ ack_shift[1] /\ ack_shift[2] /\ ack
Falling == (ack => ack_shift[2]) /\ (ack_shift[2] => ack_shift[1]) /\ (ack_shift[1] => ack_shift[0])

Handshake ==
    /\ transfer_req <=> state \in {2, 3}
    /\ state \in {0, 1} => Low
    /\ state = 2 => Rising
    /\ state = 3 => High
    /\ state = 4 => Falling

\* The bits of the word, or of the answer, that have passed to the other side.
Passed == IF state = 1 /\ cycle_count > 0 THEN bit_count - 1
          ELSE IF state = 2 /\ ~ack THEN bit_count - 1
          ELSE bit_count

\* The drive has the first bits of the word being sent, or all words.
Partial == /\ Len(received) = Started - 1 /\ toSend = <<>>
           /\ \A i \in 1 .. Len(got) : got[i] = Sending[i]
Whole == Len(received) = Started /\ got = <<>>
AtRest == Whole /\ toSend = <<>>

InTransit ==
    /\ Started > 0
    /\ is_query <=> IsQuery(Current)
    /\ reading => Whole /\ Len(toSend) = FrameLength - Passed
    /\ ~reading =>
          /\ \A i \in 1 .. FrameLength - bit_count : data_out[i] = Sending[bit_count + i]
          /\ Presented => command_data = Sending[bit_count]
          /\ Passed < FrameLength => Partial /\ Len(got) = Passed
          /\ Passed = FrameLength => Whole /\ Len(toSend) = IF is_query THEN FrameLength ELSE 0

\* The drive may still acknowledge the request of a word that is given up.
Samples == \/ toSend # <<>> /\ Whole
           \/ Started > 0 /\ Partial /\ command_data = Sending[Len(got) + 1]

Prefix == /\ Len(received) <= Started
          /\ \A n \in 1 .. Len(received) : received[n] = issued[n]

LinkInv ==
    /\ gaveUp /\ ~adrift => state = 0
    /\ adrift => gaveUp
    /\ ~adrift => Prefix
    /\ ~gaveUp => /\ Handshake
                  /\ state = 0 => AtRest
                  /\ state # 0 => InTransit
    /\ gaveUp /\ ~adrift /\ transfer_req /\ ~ack => Samples

LEMMA StartedMoves ==
    ASSUME TypeInv, NEW access, Turn(access), Moves(access)
    PROVE  /\ Started \in Nat /\ Started <= Len(issued)
           /\ Started' = IF state = 0 /\ buffered_data_out_valid THEN Started + 1 ELSE Started
           /\ \A n \in 1 .. Len(issued) : issued'[n] = issued[n]
           /\ state = 0 /\ buffered_data_out_valid =>
                 /\ Current' = buffered_data_out.word
                 /\ buffered_data_out.query <=> IsQuery(Current')
           /\ Started > 0 /\ ~(state = 0 /\ buffered_data_out_valid) => Current' = Current
<1>1. /\ issued \in Seq(Word) /\ Len(issued) \in Nat /\ call \in Word
      /\ issued = <<>> <=> Len(issued) = 0
  BY EmptySeq DEF TypeInv, TypeOK
<1>2. buffered_data_out_valid => Len(issued) > 0
  BY <1>1 DEF TypeInv, IssueInv
<1>3. Started \in Nat /\ Started <= Len(issued)
  BY <1>1, <1>2 DEF Started
<1>4. \A n \in 1 .. Len(issued) : issued'[n] = issued[n]
  BY <1>1, AppendProperties DEF Moves
<1>5. buffered_data_out_valid' <=> Writes(access) \/ (buffered_data_out_valid /\ state # 0)
  BY HandMoves DEF TypeInv
<1>6. Writes(access) => ~buffered_data_out_valid /\ Len(issued') = Len(issued) + 1
  BY <1>1, AppendProperties DEF Moves, TypeInv, IssueInv
<1>7. ~Writes(access) => issued' = issued
  BY DEF Moves
<1>8. Started' = IF state = 0 /\ buffered_data_out_valid THEN Started + 1 ELSE Started
  <2>1. CASE Writes(access)
    BY <1>1, <1>5, <1>6, <2>1 DEF Started
  <2>2. CASE ~Writes(access)
    <3>1. CASE buffered_data_out_valid /\ state # 0
      BY <1>1, <1>5, <1>7, <2>2, <3>1 DEF Started
    <3>2. CASE ~(buffered_data_out_valid /\ state # 0)
      <4>1. ~buffered_data_out_valid' /\ Started' = Len(issued) - 0
        BY <1>5, <1>7, <2>2, <3>2 DEF Started
      <4> QED BY <1>1, <3>2, <4>1 DEF Started
    <3> QED BY <3>1, <3>2
  <2> QED BY <2>1, <2>2
<1>9. ASSUME state = 0, buffered_data_out_valid
      PROVE  /\ Current' = buffered_data_out.word
             /\ buffered_data_out.query <=> IsQuery(Current')
  <2>1. Started' = Len(issued) /\ issued' = issued
    BY <1>1, <1>6, <1>7, <1>8, <1>9 DEF Started
  <2>2. Current' = issued[Len(issued)]
    BY <2>1 DEF Current
  <2> QED BY <1>9, <2>2 DEF TypeInv, IssueInv
<1>10. ASSUME Started > 0, ~(state = 0 /\ buffered_data_out_valid)
       PROVE  Current' = Current
  <2>1. Started' = Started /\ Started \in 1 .. Len(issued)
    BY <1>1, <1>3, <1>8, <1>10
  <2> QED BY <1>4, <2>1 DEF Current
<1> QED BY <1>3, <1>4, <1>8, <1>9, <1>10

\* Numbers and types, for the steps below.
LEMMA Ranges ==
    ASSUME TypeInv
    PROVE  /\ bit_count \in 0 .. FrameLength /\ cycle_count \in Nat /\ state \in 0 .. 4
           /\ reading \in BOOLEAN /\ is_query \in BOOLEAN /\ ack \in BOOLEAN
           /\ got \in Seq(Bit) /\ Len(got) \in Nat /\ Len(got) < FrameLength
           /\ toSend \in Seq(Bit) /\ Len(toSend) \in Nat /\ (toSend = <<>> <=> Len(toSend) = 0)
           /\ received \in Seq(Word) /\ Len(received) \in Nat
           /\ FrameLength \in Nat /\ FrameLength > 1
           /\ state # 0 /\ Presented => bit_count > 0
           /\ Started \in Nat /\ Started <= Len(issued) /\ issued \in Seq(Word)
           /\ Started > 0 => Current \in Word
<1>1. /\ issued \in Seq(Word) /\ Len(issued) \in Nat
      /\ issued = <<>> <=> Len(issued) = 0
      /\ toSend \in Seq(Bit) /\ (toSend = <<>> <=> Len(toSend) = 0)
  BY EmptySeq DEF TypeInv, TypeOK
<1>2. buffered_data_out_valid => Len(issued) > 0
  BY <1>1 DEF TypeInv, IssueInv
<1>3. Started \in Nat /\ Started <= Len(issued)
  BY <1>1, <1>2 DEF Started
<1>4. Started > 0 => Current \in Word
  BY <1>1, <1>3, ElementOfSeq DEF Current
<1> QED BY <1>1, <1>3, <1>4, Widths
        DEF TypeInv, TypeOK, ControllerInv, CmdTypeOK, CountInv, DriveTypes

\* What a clock leaves as it is, while a word is under way.
LEMMA ClockKeeps ==
    ASSUME TypeInv, NEW access, Turn(access), Moves(access)
    PROVE  /\ UNCHANGED <<ack, confstat, got, toSend, received, given, flips>>
           /\ ack_shift'[0] = ack_shift[1] /\ ack_shift'[1] = ack_shift[2] /\ ack_shift'[2] = ack
           /\ gaveUp' <=> gaveUp \/ GivesUp
           /\ adrift' <=> adrift \/ (gaveUp /\ state = 0 /\ buffered_data_out_valid)
           /\ Start \/ PresentBit \/ AwaitAck \/ HoldRequest \/ AwaitRelease
<1>1. ack_shift' = [b \in 0 .. 2 |-> IF b = 2 THEN ack ELSE ack_shift[b + 1]]
  BY DEF Turn, Clock
<1>2. ack_shift'[0] = ack_shift[0 + 1] /\ ack_shift'[1] = ack_shift[1 + 1] /\ ack_shift'[2] = ack
  BY <1>1
<1>3. 0 + 1 = 1 /\ 1 + 1 = 2
  OBVIOUS
<1>4. UNCHANGED <<ack, confstat, got, toSend, received, given, flips>>
  BY DEF Turn, drive, driveHistory
<1>5. /\ gaveUp' <=> gaveUp \/ GivesUp
      /\ adrift' <=> adrift \/ (gaveUp /\ state = 0 /\ buffered_data_out_valid)
  BY DEF Turn
<1>6. Start \/ PresentBit \/ AwaitAck \/ HoldRequest \/ AwaitRelease
  BY DEF Turn, Clock
<1> QED BY <1>2, <1>3, <1>4, <1>5, <1>6

\* The same word, the same bit.
LEMMA TransitStays ==
    ASSUME TypeInv, NEW access, Turn(access), Moves(access), state # 0, InTransit,
           Passed' = Passed, reading' <=> reading, is_query' <=> is_query,
           ~reading => /\ data_out' = data_out /\ bit_count' = bit_count
                       /\ Presented' => Presented /\ command_data' = command_data
    PROVE  InTransit'
<1>1. Started' = Started /\ Current' = Current /\ Started > 0
  BY StartedMoves DEF InTransit
<1>2. Sending' = Sending
  BY <1>1 DEF Sending
<1>3. UNCHANGED <<got, toSend, received>>
  BY ClockKeeps
<1>4. /\ Whole' <=> Whole
      /\ Partial' <=> Partial
  BY <1>1, <1>2, <1>3 DEF Whole, Partial
<1>5. (is_query' <=> IsQuery(Current')) /\ Started' > 0
  BY <1>1 DEF InTransit
<1>6. reading' => Whole' /\ Len(toSend') = FrameLength - Passed'
  BY <1>3, <1>4 DEF InTransit
<1>7. ~reading' =>
          /\ \A i \in 1 .. FrameLength - bit_count' : data_out'[i] = Sending'[bit_count' + i]
          /\ Presented' => command_data' = Sending'[bit_count']
          /\ Passed' < FrameLength => Partial' /\ Len(got') = Passed'
          /\ Passed' = FrameLength => Whole' /\ Len(toSend') = IF is_query' THEN FrameLength ELSE 0
  BY <1>2, <1>3, <1>4 DEF InTransit
<1> QED BY <1>5, <1>6, <1>7 DEF InTransit

Underway == /\ Handshake
            /\ state = 0 => AtRest
            /\ state # 0 => InTransit

LEMMA StartKeeps ==
    ASSUME TypeInv, Underway, NEW access, Turn(access), Moves(access), Start
    PROVE  Underway'
<1>1. /\ UNCHANGED <<ack, got, toSend, received>> /\ ~transfer_req'
      /\ state = 0 /\ AtRest /\ Low
  BY ClockKeeps DEF Start, Underway, Handshake
<1>2. Low'
  BY <1>1, ClockKeeps DEF Low
<1>3. CASE buffered_data_out_valid
  <2>1. /\ state' = 1 /\ ~reading' /\ bit_count' = 0 /\ cycle_count' = 0
        /\ data_out' = FrameOf(buffered_data_out.word)
        /\ is_query' = buffered_data_out.query
    BY <1>3 DEF Start
  <2>2. /\ Started' = Started + 1 /\ Started \in Nat /\ Sending' = data_out'
        /\ is_query' <=> IsQuery(Current')
    BY <1>1, <1>3, <2>1, StartedMoves DEF Sending
  <2>3. Passed' = 0 /\ ~Presented'
    BY <2>1 DEF Passed, Presented
  <2>4. Partial' /\ Len(got') = 0
    BY <1>1, <2>2, EmptySeq DEF AtRest, Whole, Partial
  <2>5. \A i \in 1 .. FrameLength - bit_count' : data_out'[i] = Sending'[bit_count' + i]
    BY <2>1, <2>2, Widths
  <2>6. InTransit'
    BY <2>1, <2>2, <2>3, <2>4, <2>5, Widths DEF InTransit
  <2> QED BY <1>1, <1>2, <2>1, <2>6 DEF Underway, Handshake
<1>4. CASE ~buffered_data_out_valid
  <2>1. state' = 0 /\ Started' = Started
    BY <1>1, <1>4, StartedMoves DEF Start
  <2>2. AtRest'
    BY <1>1, <2>1 DEF AtRest, Whole
  <2> QED BY <1>1, <1>2, <2>1, <2>2 DEF Underway, Handshake
<1> QED BY <1>3, <1>4

LEMMA PresentKeeps ==
    ASSUME TypeInv, Underway, NEW access, Turn(access), Moves(access), PresentBit
    PROVE  Underway'
<1>1. /\ state = 1 /\ InTransit /\ Low /\ ~transfer_req
      /\ reading' = reading /\ is_query' = is_query
      /\ ack' = ack /\ UNCHANGED <<got, toSend, received>>
      /\ bit_count' = IF cycle_count = 0 THEN bit_count + 1 ELSE bit_count
      /\ cycle_count \in Nat /\ bit_count \in Nat
  <2>1. /\ state = 1 /\ UNCHANGED <<reading, is_query>>
        /\ bit_count' = IF cycle_count = 0 THEN bit_count + 1 ELSE bit_count
    BY DEF PresentBit
  <2>2. InTransit /\ Low /\ ~transfer_req
    BY <2>1 DEF Underway, Handshake
  <2> QED BY <2>1, <2>2, ClockKeeps, Ranges
<1>2. Low'
  BY <1>1, ClockKeeps DEF Low
<1>3. \/ state' = 1 /\ cycle_count' \in Nat /\ cycle_count' > 0 /\ ~transfer_req'
      \/ state' = 2 /\ cycle_count > 0 /\ cycle_count' = 0 /\ transfer_req'
  <2>1. CASE cycle_count = DataSetup
    BY <2>1, Widths DEF PresentBit
  <2>2. CASE cycle_count # DataSetup
    <3>1. cycle_count <= BitTimeout
      BY <1>1, Widths DEF TypeInv, ControllerInv, CountInv
    <3>2. Counted = cycle_count + 1
      BY <3>1, CountedInRange DEF TypeInv, ControllerInv
    <3> QED BY <1>1, <2>2, <3>2 DEF PresentBit
  <2> QED BY <2>1, <2>2
<1>4. Handshake'
  BY <1>2, <1>3 DEF Handshake, Rising, Low
<1>5. Passed = IF cycle_count > 0 THEN bit_count - 1 ELSE bit_count
  BY <1>1 DEF Passed
<1>6. Passed' = Passed
  BY <1>1, <1>3, <1>5 DEF Passed, Low
<1>7. Presented' /\ (Presented <=> cycle_count # 0)
  BY <1>1, <1>3 DEF Presented
<1>8. CASE cycle_count # 0 \/ reading
  <2>1. ~reading => data_out' = data_out /\ command_data' = command_data /\ bit_count' = bit_count
    BY <1>1, <1>8 DEF PresentBit
  <2>2. InTransit'
    BY <1>1, <1>6, <1>7, <1>8, <2>1, TransitStays
  <2> QED BY <1>3, <1>4, <2>2 DEF Underway
<1>9. CASE cycle_count = 0 /\ ~reading
  <2>1. /\ command_data' = Head(data_out) /\ data_out' = Tail(data_out)
        /\ bit_count' = bit_count + 1
    BY <1>9 DEF PresentBit
  <2>2. /\ bit_count < FrameLength /\ Len(data_out) = FrameLength - bit_count
        /\ data_out \in Seq(Bit)
    BY <1>1, <1>9 DEF TypeInv, ControllerInv, CmdTypeOK, CountInv, Presented
  <2>3. data_out # <<>>
    BY <1>1, <2>2, EmptySeq, Widths
  <2>4. /\ Head(data_out) = data_out[1]
        /\ \A i \in 1 .. FrameLength - bit_count - 1 : Tail(data_out)[i] = data_out[i + 1]
    BY <1>1, <2>2, <2>3, HeadTailProperties, Widths
  <2>5. Started' = Started /\ Current' = Current /\ Sending' = Sending /\ Started > 0
    BY <1>1, StartedMoves DEF Sending, InTransit
  <2>6. \A i \in 1 .. FrameLength - bit_count : data_out[i] = Sending[bit_count + i]
    BY <1>1, <1>9 DEF InTransit
  <2>7. command_data' = Sending'[bit_count']
    BY <1>1, <2>1, <2>2, <2>4, <2>5, <2>6, Widths
  <2>8. \A i \in 1 .. FrameLength - bit_count' : data_out'[i] = Sending'[bit_count' + i]
    BY <1>1, <2>1, <2>2, <2>4, <2>5, <2>6, Widths
  <2>9. Passed = bit_count /\ Partial /\ Len(got) = Passed
    BY <1>1, <1>5, <1>9, <2>2 DEF InTransit
  <2>10. Partial' /\ Len(got') = Passed' /\ Passed' < FrameLength
    BY <1>1, <1>6, <2>2, <2>5, <2>9 DEF Partial
  <2>11. is_query' <=> IsQuery(Current')
    BY <1>1, <2>5 DEF InTransit
  <2>12. InTransit'
    BY <1>1, <1>9, <2>5, <2>7, <2>8, <2>10, <2>11 DEF InTransit
  <2> QED BY <1>3, <1>4, <2>12 DEF Underway
<1> QED BY <1>8, <1>9

LEMMA AckKeeps ==
    ASSUME TypeInv, Underway, NEW access, Turn(access), Moves(access), AwaitAck, ~GivesUp
    PROVE  Underway'
<1>1. /\ state = 2 /\ reading' = reading /\ is_query' = is_query /\ bit_count' = bit_count
      /\ data_out' = data_out /\ transfer_req' = transfer_req /\ command_data' = command_data
      /\ state' = IF AckSeen THEN 3 ELSE 2
  BY DEF AwaitAck, GivesUp
<1>2. InTransit /\ Rising /\ transfer_req
  BY <1>1 DEF Underway, Handshake
<1>3. ack' = ack
  BY ClockKeeps
<1>4. AckSeen => High'
  BY <1>2, <1>3, ClockKeeps DEF AckSeen, Rising, High
<1>5. Rising'
  BY <1>2, <1>3, ClockKeeps DEF Rising
<1>6. Handshake'
  BY <1>1, <1>2, <1>4, <1>5 DEF Handshake
<1>7. Passed' = Passed
  BY <1>1, <1>2, <1>3 DEF Passed, AckSeen, Rising
<1>8. Presented
  BY <1>1 DEF Presented
<1>9. InTransit'
  BY <1>1, <1>2, <1>7, <1>8, TransitStays
<1> QED BY <1>1, <1>6, <1>9 DEF Underway

LEMMA HoldKeeps ==
    ASSUME TypeInv, Underway, NEW access, Turn(access), Moves(access), HoldRequest
    PROVE  Underway'
<1>1. /\ state = 3 /\ reading' = reading /\ is_query' = is_query /\ bit_count' = bit_count
      /\ data_out' = data_out /\ command_data' = command_data
      /\ \/ state' = 3 /\ transfer_req' = transfer_req
         \/ state' = 4 /\ ~transfer_req'
  BY DEF HoldRequest
<1>2. InTransit /\ High /\ transfer_req
  BY <1>1 DEF Underway, Handshake
<1>3. High' /\ Falling'
  BY <1>2, ClockKeeps DEF High, Falling
<1>4. Handshake'
  <2>1. CASE state' = 3
    <3>1. transfer_req'
      BY <1>1, <1>2, <2>1
    <3> QED BY <1>3, <2>1, <3>1 DEF Handshake
  <2>2. CASE state' = 4 /\ ~transfer_req'
    BY <1>3, <2>2 DEF Handshake
  <2> QED BY <1>1, <2>1, <2>2
<1>5. Passed' = Passed /\ Presented
  BY <1>1 DEF Passed, Presented
<1>6. InTransit'
  BY <1>1, <1>2, <1>5, TransitStays
<1> QED BY <1>1, <1>4, <1>6 DEF Underway

LEMMA ReleaseKeeps ==
    ASSUME TypeInv, Underway, NEW access, Turn(access), Moves(access), AwaitRelease, ~GivesUp
    PROVE  Underway'
<1>1. /\ state = 4 /\ is_query' = is_query /\ data_out' = data_out
      /\ transfer_req' = transfer_req /\ command_data' = command_data
  BY DEF AwaitRelease
<1>2. InTransit /\ Falling /\ ~transfer_req /\ Passed = bit_count /\ Presented
  BY <1>1 DEF Underway, Handshake, Passed, Presented
<1>3. /\ UNCHANGED <<ack, got, toSend, received>>
      /\ Started' = Started /\ Current' = Current /\ Sending' = Sending /\ Started > 0
  BY <1>1, <1>2, ClockKeeps, StartedMoves DEF Sending, InTransit
<1>4. CASE AckSeen
  <2>1. state' = 4 /\ reading' = reading /\ bit_count' = bit_count
    BY <1>1, <1>4 DEF AwaitRelease, GivesUp
  <2>2. Handshake'
    BY <1>1, <1>2, <1>3, <2>1, ClockKeeps DEF Handshake, Falling
  <2>3. Passed' = Passed
    BY <1>1, <2>1 DEF Passed
  <2>4. InTransit'
    BY <1>1, <1>2, <2>1, <2>3, TransitStays
  <2> QED BY <2>1, <2>2, <2>4 DEF Underway
<1>5. CASE ~AckSeen
  <2>1. /\ state' = IF LastBit /\ (reading \/ ~is_query) THEN 0 ELSE 1
        /\ reading' <=> reading \/ (LastBit /\ is_query)
        /\ bit_count' = IF LastBit /\ ~reading /\ is_query THEN 0 ELSE bit_count
        /\ cycle_count' = 0
    BY <1>5 DEF AwaitRelease, NextBit
  <2>2. Low'
    BY <1>2, <1>3, <1>5, ClockKeeps DEF Low, Falling, AckSeen
  <2>3. Handshake'
    BY <1>1, <1>2, <2>1, <2>2 DEF Handshake
  <2>4. state' # 0 => Passed' = bit_count' /\ ~Presented'
    BY <2>1 DEF Passed, Presented
  <2>5. CASE LastBit /\ (reading \/ ~is_query)
    <3>1. Whole /\ Len(toSend) = 0
      BY <1>2, <2>5, Ranges DEF InTransit, LastBit
    <3>2. AtRest'
      BY <1>3, <3>1, Ranges DEF AtRest, Whole
    <3> QED BY <2>1, <2>3, <2>5, <3>2 DEF Underway
  <2>6. CASE LastBit /\ ~reading /\ is_query
    <3>1. Whole /\ Len(toSend) = FrameLength
      BY <1>2, <2>6 DEF InTransit, LastBit
    <3>2. state' = 1 /\ reading' /\ bit_count' = 0
      BY <2>1, <2>6
    <3>3. Whole' /\ Len(toSend') = FrameLength - Passed'
      BY <1>3, <2>4, <3>1, <3>2, Widths DEF Whole
    <3>4. is_query' <=> IsQuery(Current')
      BY <1>1, <1>2, <1>3 DEF InTransit
    <3>5. InTransit'
      BY <1>3, <3>2, <3>3, <3>4 DEF InTransit
    <3> QED BY <2>3, <3>2, <3>5 DEF Underway
  <2>7. CASE ~LastBit
    <3>1. state' = 1 /\ (reading' <=> reading) /\ bit_count' = bit_count
      BY <2>1, <2>7
    <3>2. Passed' = Passed
      BY <1>2, <2>4, <3>1
    <3>3. InTransit'
      BY <1>1, <1>2, <3>1, <3>2, TransitStays
    <3> QED BY <2>3, <3>1, <3>3 DEF Underway
  <2> QED BY <2>5, <2>6, <2>7
<1> QED BY <1>4, <1>5

\* A request that the drive has not acknowledged yet.
LEMMA RequestSamples ==
    ASSUME TypeInv, Underway, transfer_req, ~ack
    PROVE  /\ Samples /\ state = 2 /\ InTransit /\ Passed = bit_count - 1 /\ bit_count > 0
           /\ reading <=> toSend # <<>>
           /\ ~reading => Partial /\ Len(got) = bit_count - 1
                          /\ command_data = Sending[bit_count]
<1>1. state = 2 /\ InTransit
  BY DEF Underway, Handshake, High
<1>2. Presented /\ Passed = bit_count - 1
  BY <1>1 DEF Presented, Passed
<1>3. bit_count \in 1 .. FrameLength
  BY <1>1, <1>2, Ranges
<1>4. CASE reading
  <2>1. Whole /\ Len(toSend) = FrameLength - (bit_count - 1)
    BY <1>1, <1>2, <1>4 DEF InTransit
  <2>2. toSend # <<>>
    BY <1>3, <2>1, Ranges
  <2> QED BY <1>1, <1>2, <1>3, <1>4, <2>1, <2>2 DEF Samples
<1>5. CASE ~reading
  <2>1. Passed < FrameLength
    BY <1>2, <1>3, Ranges
  <2>2. /\ Partial /\ Len(got) = bit_count - 1 /\ command_data = Sending[bit_count]
        /\ Started > 0
    BY <1>1, <1>2, <1>5, <2>1 DEF InTransit
  <2>3. toSend = <<>> /\ Len(got) + 1 = bit_count
    BY <1>3, <2>2 DEF Partial
  <2> QED BY <1>1, <1>2, <1>3, <1>5, <2>2, <2>3 DEF Samples
<1> QED BY <1>4, <1>5

LEMMA PrefixKeeps ==
    ASSUME TypeInv, NEW access, Turn(access), Moves(access), Prefix
    PROVE  Prefix'
<1>1. received' = received /\ Len(received) \in Nat /\ Len(issued) \in Nat
  BY ClockKeeps, Ranges
<1>2. /\ Started' \in Nat /\ Started <= Started' /\ Started \in Nat /\ Started <= Len(issued)
      /\ \A n \in 1 .. Len(issued) : issued'[n] = issued[n]
  BY StartedMoves
<1>3. \A n \in 1 .. Len(received) : received[n] = issued'[n]
  BY <1>1, <1>2 DEF Prefix
<1> QED BY <1>1, <1>2, <1>3 DEF Prefix

LEMMA LinkTurns ==
    ASSUME TypeInv, LinkInv, NEW access, Turn(access), Moves(access)
    PROVE  LinkInv'
<1>1. /\ gaveUp' <=> gaveUp \/ GivesUp
      /\ adrift' <=> adrift \/ (gaveUp /\ state = 0 /\ buffered_data_out_valid)
  BY ClockKeeps
<1>2. adrift' => gaveUp'
  BY <1>1 DEF LinkInv
<1>3. ~adrift' => Prefix'
  BY <1>1, PrefixKeeps DEF LinkInv
<1>4. CASE gaveUp
  <2>1. ~adrift' => state = 0 /\ ~buffered_data_out_valid
    BY <1>1, <1>4 DEF LinkInv
  <2>2. ~adrift' => state' = 0 /\ ~transfer_req'
    <3> SUFFICES ASSUME ~adrift' PROVE state' = 0 /\ ~transfer_req'
      OBVIOUS
    <3>1. Start
      BY <2>1, ClockKeeps DEF PresentBit, AwaitAck, HoldRequest, AwaitRelease
    <3> QED BY <2>1, <3>1 DEF Start
  <2> QED BY <1>1, <1>2, <1>3, <1>4, <2>2 DEF LinkInv
<1>5. CASE ~gaveUp /\ ~GivesUp
  <2>1. Underway
    BY <1>5 DEF LinkInv, Underway
  <2>2. Underway'
    BY <1>5, <2>1, ClockKeeps, StartKeeps, PresentKeeps, AckKeeps, HoldKeeps, ReleaseKeeps
  <2> QED BY <1>1, <1>2, <1>3, <1>5, <2>2 DEF LinkInv, Underway
<1>6. CASE ~gaveUp /\ GivesUp
  <2>1. Underway
    BY <1>6 DEF LinkInv, Underway
  <2>2. /\ state \in {2, 4} /\ state' = 0 /\ transfer_req' = transfer_req
        /\ command_data' = command_data
    <3>1. CASE state = 2 /\ ~AckSeen /\ TimedOut
      <4>1. AwaitAck
        BY <3>1, ClockKeeps DEF Start, PresentBit, HoldRequest, AwaitRelease
      <4> QED BY <3>1, <4>1 DEF AwaitAck
    <3>2. CASE state = 4 /\ AckSeen /\ TimedOut
      <4>1. AwaitRelease
        BY <3>2, ClockKeeps DEF Start, PresentBit, HoldRequest, AwaitAck
      <4> QED BY <3>2, <4>1 DEF AwaitRelease
    <3> QED BY <1>6, <3>1, <3>2 DEF GivesUp
  <2>3. UNCHANGED <<ack, got, toSend, received>>
    BY ClockKeeps
  <2>4. Started > 0 /\ Started' = Started /\ Sending' = Sending
    BY <2>1, <2>2, StartedMoves DEF Underway, InTransit, Sending
  <2>5. transfer_req' /\ ~ack' => Samples'
    <3> SUFFICES ASSUME transfer_req', ~ack' PROVE Samples'
      OBVIOUS
    <3>1. Samples
      BY <2>1, <2>2, <2>3, RequestSamples
    <3> QED BY <2>2, <2>3, <2>4, <3>1 DEF Samples, Whole, Partial
  <2> QED BY <1>1, <1>2, <1>3, <1>6, <2>2, <2>5 DEF LinkInv
<1> QED BY <1>4, <1>5, <1>6

\* The drive's steps leave the controller and the program as they are.
LEMMA DriveLeaves ==
    ASSUME Drive
    PROVE  /\ UNCHANGED <<cmdVars, program, issued, linkHistory, owed, doubtful>>
           /\ UNCHANGED <<fsm, registers, lines, Started, Current, Sending, Presented>>
<1>1. UNCHANGED <<cmdVars, program, issued, linkHistory, owed, doubtful>>
  BY DEF Drive, ReceiveBit, SendBit, Acknowledge, Release
<1>2. UNCHANGED <<fsm, registers, lines>>
  BY <1>1 DEF cmdVars
<1>3. UNCHANGED <<issued, buffered_data_out_valid, state, cycle_count>>
  BY <1>1, <1>2 DEF registers, fsm
<1>4. UNCHANGED <<Started, Current, Sending, Presented>>
  BY <1>3 DEF Started, Current, Sending, Presented
<1> QED BY <1>1, <1>2, <1>4

\* The drive that takes a bit has one bit more, or the whole word; and it has an answer
\* to a query.
LEMMA ReceiveTakes ==
    ASSUME TypeInv, ReceiveBit, Started > 0, Partial, command_data = Sending[Len(got) + 1]
    PROVE  /\ UNCHANGED <<confstat, flips>> /\ transfer_req /\ ~ack /\ ack'
           /\ Len(got) + 1 < FrameLength => /\ Partial' /\ Len(got') = Len(got) + 1
                                            /\ UNCHANGED <<received, given>>
           /\ Len(got) + 1 = FrameLength =>
                 /\ Whole' /\ received' = Append(received, Current)
                 /\ IF IsQuery(Current) THEN given' \in Word /\ toSend' = FrameOf(given')
                                        ELSE toSend' = <<>>
<1> DEFINE frame == Append(got, command_data)
           word == WordOf(frame)
<1>1. UNCHANGED <<confstat, flips>> /\ transfer_req /\ ~ack /\ ack' /\ toSend = <<>>
  BY DEF ReceiveBit, Acknowledge
<1>2. UNCHANGED <<Started, Current, Sending>>
  BY DriveLeaves DEF Drive
<1>3. /\ got \in Seq(Bit) /\ Len(got) \in Nat /\ Len(got) < FrameLength /\ command_data \in Bit
      /\ received \in Seq(Word) /\ Len(received) \in Nat /\ Started \in Nat
      /\ FrameLength \in Nat /\ Current \in Word
  BY Ranges DEF TypeInv, TypeOK, CmdTypeOK
<1>4. /\ frame \in Seq(Bit) /\ Len(frame) = Len(got) + 1
      /\ \A i \in 1 .. Len(got) : frame[i] = got[i]
      /\ frame[Len(got) + 1] = command_data
  BY <1>3, AppendProperties
<1>5. \A i \in 1 .. Len(got) + 1 : frame[i] = Sending[i]
  BY <1>3, <1>4 DEF Partial
<1>6. /\ got' = IF Len(frame) = FrameLength THEN <<>> ELSE frame
      /\ received' = IF Len(frame) = FrameLength THEN Append(received, word) ELSE received
      /\ IF Len(frame) = FrameLength /\ IsQuery(word)
         THEN \E answer \in Word : given' = answer /\ toSend' = FrameOf(answer)
         ELSE UNCHANGED <<given, toSend>>
  BY DEF ReceiveBit
<1> HIDE DEF frame, word
<1>7. ASSUME Len(got) + 1 < FrameLength
      PROVE  Partial' /\ Len(got') = Len(got) + 1 /\ UNCHANGED <<received, given>>
  <2>1. Len(frame) # FrameLength
    BY <1>3, <1>4, <1>7
  <2>2. got' = frame /\ received' = received /\ given' = given /\ toSend' = <<>>
    BY <1>1, <1>6, <2>1
  <2>3. \A i \in 1 .. Len(got') : got'[i] = Sending'[i]
    BY <1>2, <1>4, <1>5, <2>2
  <2>4. Len(received') = Started' - 1
    BY <1>2, <2>2 DEF Partial
  <2> QED BY <1>4, <2>2, <2>3, <2>4 DEF Partial
<1>8. ASSUME Len(got) + 1 = FrameLength
      PROVE  /\ Whole' /\ received' = Append(received, Current)
             /\ IF IsQuery(Current) THEN given' \in Word /\ toSend' = FrameOf(given')
                                    ELSE toSend' = <<>>
  <2>1. Len(frame) = FrameLength /\ FrameLength = WordLength + 1 /\ WordLength \in Nat
    BY <1>4, <1>8, Widths
  <2>2. \A i \in 1 .. WordLength : frame[i] = FrameOf(Current)[i]
    BY <1>5, <1>8, <2>1 DEF Sending
  <2>3. word = Current
    BY <1>3, <1>4, <2>1, <2>2, WordOfFrame DEF word
  <2>4. got' = <<>> /\ received' = Append(received, Current)
    BY <1>6, <2>1, <2>3
  <2>5. Len(received') = Started'
    BY <1>2, <1>3, <2>4, AppendProperties DEF Partial
  <2>6. IF IsQuery(Current) THEN given' \in Word /\ toSend' = FrameOf(given')
                            ELSE toSend' = <<>>
    BY <1>1, <1>6, <2>1, <2>3
  <2> QED BY <2>4, <2>5, <2>6 DEF Whole
<1> QED BY <1>1, <1>7, <1>8

\* The drive that sends a bit of its answer, right or wrong.
LEMMA SendTakes ==
    ASSUME TypeInv, SendBit
    PROVE  /\ UNCHANGED <<got, received, given>> /\ transfer_req /\ ~ack /\ ack'
           /\ toSend # <<>> /\ toSend' = Tail(toSend) /\ Len(toSend') = Len(toSend) - 1
           /\ \/ confstat' = Head(toSend) /\ flips' = flips
              \/ confstat' = ~Head(toSend) /\ flips' = flips + 1 /\ flips < MaxFlips
<1>1. /\ UNCHANGED <<got, received, given>> /\ transfer_req /\ ~ack /\ ack'
      /\ toSend # <<>> /\ toSend' = Tail(toSend)
      /\ \/ confstat' = Head(toSend) /\ flips' = flips
         \/ confstat' = ~Head(toSend) /\ flips' = flips + 1 /\ flips < MaxFlips
  BY DEF SendBit, Acknowledge
<1>2. Len(toSend') = Len(toSend) - 1
  BY <1>1, HeadTailProperties, Ranges
<1> QED BY <1>1, <1>2

LEMMA LinkDrive ==
    ASSUME TypeInv, LinkInv, Drive
    PROVE  LinkInv'
<1>1. /\ UNCHANGED <<Started, Current, Sending, Presented>>
      /\ UNCHANGED <<state, reading, is_query, bit_count, cycle_count, data_out>>
      /\ UNCHANGED <<ack_shift, transfer_req, command_data, issued, gaveUp, adrift>>
  BY DriveLeaves DEF fsm, lines, linkHistory
<1>2. (gaveUp' /\ ~adrift' => state' = 0) /\ (adrift' => gaveUp')
  BY <1>1 DEF LinkInv
<1>3. transfer_req /\ ~ack /\ ~gaveUp =>
          /\ state = 2 /\ InTransit /\ Passed = bit_count - 1 /\ bit_count > 0
          /\ reading <=> toSend # <<>>
          /\ ~reading => Len(got) = bit_count - 1
  BY RequestSamples DEF LinkInv, Underway
<1>4. transfer_req /\ ~ack /\ ~adrift => Samples
  BY RequestSamples DEF LinkInv, Underway
<1>5. CASE adrift
  BY <1>1, <1>2, <1>5 DEF LinkInv
<1>6. CASE ~adrift /\ ReceiveBit
  <2>1. transfer_req /\ ~ack /\ ack' /\ toSend = <<>>
    BY <1>6 DEF ReceiveBit, Acknowledge
  <2>2. Started > 0 /\ Partial /\ command_data = Sending[Len(got) + 1]
    BY <1>4, <1>6, <2>1 DEF Samples
  <2>3. /\ Len(got) + 1 < FrameLength => /\ Partial' /\ Len(got') = Len(got) + 1
                                         /\ received' = received
        /\ Len(got) + 1 = FrameLength =>
              /\ Whole' /\ received' = Append(received, Current)
              /\ IF IsQuery(Current) THEN given' \in Word /\ toSend' = FrameOf(given')
                                     ELSE toSend' = <<>>
    BY <1>6, <2>2, ReceiveTakes
  <2>4. Len(got) + 1 < FrameLength \/ Len(got) + 1 = FrameLength
    BY Ranges
  <2>5. Prefix'
    <3>1. CASE Len(got) + 1 < FrameLength
      BY <1>1, <1>6, <2>3, <3>1 DEF LinkInv, Prefix
    <3>2. CASE Len(got) + 1 = FrameLength
      <4>1. received \in Seq(Word) /\ Len(received) \in Nat /\ Started \in Nat /\ Current \in Word
        BY <2>2, Ranges
      <4>2. /\ Len(received') = Started' /\ Len(received) = Started - 1
            /\ received' = Append(received, Current) /\ Started' = Started
        BY <1>1, <2>2, <2>3, <3>2 DEF Whole, Partial
      <4>3. /\ received'[Started] = issued[Started]
            /\ \A n \in 1 .. Started - 1 : received'[n] = received[n]
        BY <4>1, <4>2, AppendProperties DEF Current
      <4>4. \A n \in 1 .. Len(received) : received[n] = issued[n]
        BY <1>6 DEF LinkInv, Prefix
      <4>5. \A n \in 1 .. Started : received'[n] = issued[n]
        BY <4>1, <4>2, <4>3, <4>4
      <4> QED BY <1>1, <4>1, <4>2, <4>5 DEF Prefix
    <3> QED BY <2>4, <3>1, <3>2
  <2>6. ASSUME ~gaveUp PROVE Handshake' /\ state' # 0 /\ InTransit'
    <3>1. /\ state = 2 /\ InTransit /\ Passed = bit_count - 1 /\ bit_count > 0
          /\ ~reading /\ Len(got) + 1 = bit_count /\ bit_count \in Nat
      BY <1>3, <2>1, <2>6, Ranges
    <3>2. Handshake'
      BY <1>1, <1>6, <2>1, <2>6, <3>1 DEF LinkInv, Handshake, Rising
    <3>3. Passed' = bit_count
      BY <1>1, <2>1, <3>1 DEF Passed
    <3>4. /\ is_query' <=> IsQuery(Current')
          /\ \A i \in 1 .. FrameLength - bit_count' : data_out'[i] = Sending'[bit_count' + i]
          /\ Presented' => command_data' = Sending'[bit_count']
      BY <1>1, <3>1 DEF InTransit
    <3>5. CASE bit_count < FrameLength
      <4>1. Partial' /\ Len(got') = Passed' /\ Passed' # FrameLength
        BY <2>3, <3>1, <3>3, <3>5, Ranges
      <4> QED BY <1>1, <2>2, <3>1, <3>2, <3>4, <4>1 DEF InTransit
    <3>6. CASE bit_count = FrameLength
      <4>1. Whole' /\ IF IsQuery(Current) THEN given' \in Word /\ toSend' = FrameOf(given')
                                          ELSE toSend' = <<>>
        BY <2>3, <3>1, <3>6
      <4>2. IF IsQuery(Current) THEN Len(toSend') = FrameLength ELSE Len(toSend') = 0
        BY <4>1, FrameProperties, EmptySeq
      <4>3. Passed' = FrameLength /\ (is_query' <=> IsQuery(Current))
        BY <1>1, <3>3, <3>4, <3>6
      <4>4. Len(toSend') = IF is_query' THEN FrameLength ELSE 0
        BY <4>2, <4>3
      <4>5. ~(Passed' < FrameLength)
        BY <4>3, Widths
      <4> QED BY <1>1, <2>2, <3>1, <3>2, <3>4, <4>1, <4>4, <4>5 DEF InTransit
    <3> QED BY <2>4, <3>1, <3>5, <3>6
  <2> QED BY <1>1, <1>2, <2>1, <2>5, <2>6 DEF LinkInv
<1>7. CASE ~adrift /\ SendBit
  <2>1. /\ UNCHANGED <<got, received>> /\ transfer_req /\ ~ack /\ ack'
        /\ toSend # <<>> /\ Len(toSend') = Len(toSend) - 1
    BY <1>7, SendTakes
  <2>2. Prefix'
    BY <1>1, <1>7, <2>1 DEF LinkInv, Prefix
  <2>3. ASSUME ~gaveUp PROVE Handshake' /\ state' # 0 /\ InTransit'
    <3>1. /\ state = 2 /\ InTransit /\ Passed = bit_count - 1 /\ reading /\ bit_count \in Nat
      BY <1>3, <2>1, <2>3, Ranges
    <3>2. Handshake'
      BY <1>1, <1>7, <2>1, <2>3, <3>1 DEF LinkInv, Handshake, Rising
    <3>3. Passed' = bit_count
      BY <1>1, <2>1, <3>1 DEF Passed
    <3>4. (is_query' <=> IsQuery(Current')) /\ Started' > 0
      BY <1>1, <3>1 DEF InTransit
    <3>5. Whole /\ Len(toSend) = FrameLength - (bit_count - 1)
      BY <3>1 DEF InTransit
    <3>6. Whole' /\ Len(toSend') = FrameLength - Passed'
      BY <1>1, <2>1, <3>1, <3>3, <3>5, Ranges DEF Whole
    <3> QED BY <1>1, <3>1, <3>2, <3>4, <3>6 DEF InTransit
  <2> QED BY <1>1, <1>2, <2>1, <2>2, <2>3 DEF LinkInv
<1>8. CASE ~adrift /\ Release
  <2>1. /\ UNCHANGED <<got, toSend, received>> /\ ~transfer_req /\ ~ack'
    BY <1>8 DEF Release, driveHistory
  <2>2. Prefix'
    BY <1>1, <1>8, <2>1 DEF LinkInv, Prefix
  <2>3. ASSUME ~gaveUp
        PROVE  Handshake' /\ (state' = 0 => AtRest') /\ (state' # 0 => InTransit')
    <3>1. Handshake /\ ack /\ ~transfer_req
      BY <1>8, <2>3 DEF LinkInv, Release
    <3>2. state = 4 /\ Falling
      <4>1. state \notin {0, 1, 2, 3} /\ state \in 0 .. 4
        BY <3>1, Ranges DEF Handshake, Low
      <4>2. state = 4
        BY <4>1
      <4> QED BY <3>1, <4>2 DEF Handshake
    <3>3. Handshake'
      BY <1>1, <2>1, <3>1, <3>2 DEF Handshake, Falling
    <3>4. Passed' = Passed
      BY <1>1, <3>2 DEF Passed
    <3>5. InTransit
      BY <2>3, <3>2 DEF LinkInv
    <3>6. (Whole' <=> Whole) /\ (Partial' <=> Partial)
      BY <1>1, <2>1 DEF Whole, Partial
    <3>7. InTransit'
      BY <1>1, <2>1, <3>4, <3>5, <3>6 DEF InTransit
    <3> QED BY <1>1, <3>2, <3>3, <3>7
  <2> QED BY <1>1, <1>2, <2>1, <2>2, <2>3 DEF LinkInv
<1> QED BY <1>5, <1>6, <1>7, <1>8 DEF Drive

LEMMA LinkInit ==
    ASSUME Init, TypeInv
    PROVE  LinkInv
<1>1. /\ issued = <<>> /\ received = <<>> /\ got = <<>> /\ toSend = <<>>
      /\ state = 0 /\ ~buffered_data_out_valid /\ ~gaveUp /\ ~adrift /\ ~ack /\ ~transfer_req
      /\ ack_shift = [b \in 0 .. 2 |-> FALSE]
  BY DEF Init, CmdInit
<1>2. ~ack_shift[0] /\ ~ack_shift[1] /\ ~ack_shift[2]
  BY <1>1
<1>3. Started = 0 /\ Len(received) = 0
  BY <1>1, EmptySeq DEF Started
<1>4. Handshake /\ AtRest /\ Prefix
  BY <1>1, <1>2, <1>3 DEF Handshake, Low, AtRest, Whole, Prefix
<1> QED BY <1>1, <1>4 DEF LinkInv

LEMMA LinkStutter ==
    ASSUME LinkInv, UNCHANGED vars
    PROVE  LinkInv'
<1>1. UNCHANGED <<fsm, registers, lines, drive, issued, driveHistory, linkHistory>>
  BY DEF vars, cmdVars
<1>2. /\ UNCHANGED <<state, reading, is_query, bit_count, cycle_count, data_out>>
      /\ UNCHANGED <<buffered_data_out_valid, ack_shift, transfer_req, command_data>>
      /\ UNCHANGED <<ack, got, toSend, issued, received, gaveUp, adrift>>
  BY <1>1 DEF fsm, registers, lines, drive, driveHistory, linkHistory
<1>3. UNCHANGED <<Started, Current, Sending, Passed, Presented>>
  BY <1>2 DEF Started, Current, Sending, Passed, Presented
<1>4. /\ Handshake' <=> Handshake
      /\ Whole' <=> Whole
      /\ AtRest' <=> AtRest
      /\ Partial' <=> Partial
      /\ Prefix' <=> Prefix
  BY <1>2, <1>3
  DEF Handshake, Low, Rising, High, Falling, Whole, AtRest, Partial, Prefix
<1>5. (InTransit' <=> InTransit) /\ (Samples' <=> Samples)
  BY <1>2, <1>3, <1>4 DEF InTransit, Samples
<1> QED BY <1>2, <1>4, <1>5 DEF LinkInv

LEMMA LinkInductive == Spec => [](TypeInv /\ LinkInv)
<1>1. ASSUME TypeInv, LinkInv, Next PROVE LinkInv'
  BY <1>1, NextMoves, LinkDrive, LinkTurns DEF TypeInv
<1>2. ASSUME TypeInv, LinkInv, [Next]_vars PROVE LinkInv'
  BY <1>1, <1>2, LinkStutter
<1> QED BY <1>2, LinkInit, TypeInductive, PTL DEF Spec

\* DriveGetsWords: what the drive has taken in is what the program has issued, in order
\* and with no bit lost, doubled or out of place, as long as the controller has not
\* started a word on a drive that still waited for the rest of one it gave up.  (The
\* drive may be as slow as it likes, and stop at any point of the handshake.)
THEOREM WordsArrive == Spec => []DriveGetsWords
<1>1. ASSUME TypeInv, LinkInv PROVE DriveGetsWords
  <2> SUFFICES ASSUME ~adrift PROVE IsPrefix(received, issued)
    BY DEF DriveGetsWords
  <2>1. Prefix
    BY <1>1 DEF LinkInv
  <2>2. /\ received \in Seq(Word) /\ Len(received) \in Nat /\ issued \in Seq(Word)
        /\ Started \in Nat /\ Started <= Len(issued) /\ Len(issued) \in Nat
    BY <1>1, Ranges
  <2>3. Len(received) <= Len(issued)
    BY <2>1, <2>2 DEF Prefix
  <2>4. /\ \A n \in 1 .. Len(received) : received[n] \in Word /\ issued[n] \in Word
        /\ \A n \in 1 .. Len(received) : received[n] = issued[n]
    BY <2>1, <2>2, <2>3, ElementOfSeq DEF Prefix
  <2>5. /\ SubSeq(received, 1, Len(received)) \in Seq(Word)
        /\ Len(SubSeq(received, 1, Len(received))) = Len(received)
        /\ \A n \in 1 .. Len(received) : SubSeq(received, 1, Len(received))[n] = received[n]
    BY <2>2, <2>4, SubSeqProperties
  <2>6. /\ SubSeq(issued, 1, Len(received)) \in Seq(Word)
        /\ Len(SubSeq(issued, 1, Len(received))) = Len(received)
        /\ \A n \in 1 .. Len(received) : SubSeq(issued, 1, Len(received))[n] = issued[n]
    BY <2>2, <2>3, <2>4, SubSeqProperties
  <2>7. SubSeq(received, 1, Len(received)) = SubSeq(issued, 1, Len(received))
    BY <2>4, <2>5, <2>6, SeqEqual
  <2> QED BY <2>3, <2>7 DEF IsPrefix
<1> QED BY <1>1, LinkInductive, PTL

-----------------------------------------------------------------------------
(* The parity bit.                                                          *)

LEMMA FlippedParity ==
    ASSUME NEW v \in Word, NEW w \in Word, NEW k \in 1 .. WordLength, v[k], ~w[k],
           \A i \in 1 .. WordLength : i = k \/ v[i] = w[i]
    PROVE  ParityBit(v) # ParityBit(w)
<1> DEFINE OnesOf(u) == {b \in 1 .. WordLength : u[b]}
<1>1. IsFiniteSet(1 .. WordLength)
  BY Widths, FS_Interval
<1>2. IsFiniteSet(OnesOf(w)) /\ Cardinality(OnesOf(w)) \in Nat
  <2>1. OnesOf(w) \in SUBSET (1 .. WordLength)
    OBVIOUS
  <2> QED BY <1>1, <2>1, FS_Subset, FS_CardinalityType
<1>3. OnesOf(v) = OnesOf(w) \cup {k} /\ k \notin OnesOf(w)
  OBVIOUS
<1>4. Cardinality(OnesOf(v)) = Cardinality(OnesOf(w)) + 1
  BY <1>2, <1>3, FS_AddElement
<1>5. Ones(v) = Ones(w) + 1 /\ Ones(w) \in Nat
  BY <1>2, <1>4 DEF Ones
<1>6. (Ones(w) + 1) % 2 = 0 <=> Ones(w) % 2 # 0
  BY <1>5
<1> QED BY <1>5, <1>6 DEF ParityBit

\* A frame with a single wrong bit fails the parity check, wherever the bit is.
LEMMA OneWrongBit ==
    ASSUME NEW word \in Word, NEW frame \in Frame, NEW k \in 1 .. FrameLength,
           \A i \in 1 .. FrameLength : i = k \/ frame[i] = FrameOf(word)[i],
           ~ParityError(frame)
    PROVE  WordOf(frame) = word
<1>1. frame \in Seq(Bit) /\ Len(frame) = FrameLength
  BY FrameIsSeq
<1>2. /\ WordOf(frame) \in Word /\ \A i \in 1 .. WordLength : WordOf(frame)[i] = frame[i]
      /\ \A i \in 1 .. WordLength : FrameOf(word)[i] = word[i]
      /\ FrameOf(word)[FrameLength] = ParityBit(word)
      /\ FrameLength = WordLength + 1 /\ WordLength \in Nat
  BY <1>1, WordOfProperties, FrameProperties, Widths
<1>3. CASE k \in 1 .. WordLength /\ frame[k] # word[k]
  <2>1. frame[FrameLength] = ParityBit(word)
    BY <1>2, <1>3
  <2>2. /\ \A i \in 1 .. WordLength : i = k \/ WordOf(frame)[i] = word[i]
        /\ WordOf(frame)[k] # word[k] /\ WordOf(frame)[k] \in BOOLEAN /\ word[k] \in BOOLEAN
    BY <1>2, <1>3 DEF Word, Bit
  <2>3. ParityBit(WordOf(frame)) # ParityBit(word)
    <3>1. CASE word[k]
      <4>1. ~WordOf(frame)[k]
        BY <2>2, <3>1
      <4> QED BY <1>2, <1>3, <2>2, <3>1, <4>1, FlippedParity
    <3>2. CASE ~word[k]
      <4>1. WordOf(frame)[k]
        BY <2>2, <3>2
      <4> QED BY <1>2, <1>3, <2>2, <3>2, <4>1, FlippedParity
    <3> QED BY <3>1, <3>2
  <2> QED BY <2>1, <2>3 DEF ParityError
<1>4. CASE ~(k \in 1 .. WordLength /\ frame[k] # word[k])
  <2>1. \A i \in 1 .. WordLength : frame[i] = FrameOf(word)[i]
    BY <1>2, <1>4
  <2> QED BY <1>1, <2>1, WordOfFrame
<1> QED BY <1>3, <1>4

-----------------------------------------------------------------------------
(* The bits of the answer.                                                  *)

\* What the drive has still to send is the rest of its answer.
TailInv == \A i \in 1 .. Len(toSend) : toSend[i] = FrameOf(given)[FrameLength - Len(toSend) + i]

\* The answer's bits that the controller has shifted in; the one after them is on the line.
Taken == IF state = 2 \/ (state = 1 /\ cycle_count > 0) THEN bit_count - 1 ELSE bit_count
Right(i) == (IF i <= Taken THEN data_in[FrameLength - Taken + i] ELSE confstat)
            = FrameOf(given)[i]

\* The line keeps a bit until it is taken, and at most one bit comes wrong.
BitInv ==
    ~gaveUp /\ state # 0 /\ reading =>
        /\ state = 2 => \A b \in 0 .. 2 : ack_shift[b] => confstat_shift[b] = confstat
        /\ flips = 0 => \A i \in 1 .. Passed : Right(i)
        /\ \E k \in 1 .. FrameLength : \A i \in 1 .. Passed : i = k \/ Right(i)

LEMMA TailDrive ==
    ASSUME TypeInv, TailInv, Drive
    PROVE  TailInv'
<1>1. CASE ReceiveBit
  <2>1. toSend = <<>>
    BY <1>1 DEF ReceiveBit
  <2>2. \/ UNCHANGED <<given, toSend>>
        \/ given' \in Word /\ toSend' = FrameOf(given')
    BY <1>1 DEF ReceiveBit
  <2>3. CASE UNCHANGED <<given, toSend>>
    BY <2>3 DEF TailInv
  <2>4. CASE given' \in Word /\ toSend' = FrameOf(given')
    <3>1. Len(toSend') = FrameLength
      BY <2>4, FrameProperties
    <3>2. \A i \in 1 .. FrameLength : FrameLength - FrameLength + i = i
      BY Widths
    <3> QED BY <2>4, <3>1, <3>2 DEF TailInv
  <2> QED BY <2>2, <2>3, <2>4
<1>2. CASE SendBit
  <2>1. /\ given' = given /\ toSend # <<>> /\ toSend' = Tail(toSend)
        /\ Len(toSend') = Len(toSend) - 1 /\ toSend \in Seq(Bit) /\ Len(toSend) \in Nat
        /\ FrameLength \in Nat
    BY <1>2, SendTakes, Ranges
  <2>2. \A i \in 1 .. Len(toSend) - 1 : toSend'[i] = toSend[i + 1]
    BY <2>1, HeadTailProperties
  <2>3. \A i \in 1 .. Len(toSend) - 1 :
           /\ i + 1 \in 1 .. Len(toSend)
           /\ FrameLength - (Len(toSend) - 1) + i = FrameLength - Len(toSend) + (i + 1)
    BY <2>1
  <2> QED BY <2>1, <2>2, <2>3 DEF TailInv
<1>3. CASE Release
  BY <1>3 DEF Release, driveHistory, TailInv
<1> QED BY <1>1, <1>2, <1>3 DEF Drive

\* Nothing arrives, and nothing that has arrived changes.
LEMMA BitsStay ==
    ASSUME Taken' = Taken, Passed' = Passed, UNCHANGED <<data_in, confstat, given, flips>>,
           gaveUp' <=> gaveUp, state # 0, reading, BitInv,
           state' = 2 => \A b \in 0 .. 2 : ack_shift'[b] => confstat_shift'[b] = confstat'
    PROVE  BitInv'
<1>1. \A i : Right(i)' <=> Right(i)
  BY DEF Right
<1> QED BY <1>1 DEF BitInv

LEMMA PresentCounts ==
    ASSUME TypeInv, PresentBit
    PROVE  /\ state = 1 /\ UNCHANGED <<reading, is_query, data_in>>
           /\ bit_count' = IF cycle_count = 0 THEN bit_count + 1 ELSE bit_count
           /\ \/ state' = 1 /\ cycle_count' \in Nat /\ cycle_count' > 0
              \/ state' = 2 /\ cycle_count > 0 /\ cycle_count' = 0
<1>1. /\ state = 1 /\ UNCHANGED <<reading, is_query, data_in>>
      /\ bit_count' = IF cycle_count = 0 THEN bit_count + 1 ELSE bit_count
  BY DEF PresentBit
<1>2. CASE cycle_count = DataSetup
  BY <1>1, <1>2, Widths DEF PresentBit
<1>3. CASE cycle_count # DataSetup
  <2>1. cycle_count <= BitTimeout /\ cycle_count \in Nat
    BY <1>1, Widths, Ranges DEF TypeInv, ControllerInv, CountInv
  <2>2. Counted = cycle_count + 1
    BY <2>1, CountedInRange DEF TypeInv, ControllerInv
  <2> QED BY <1>1, <1>3, <2>1, <2>2 DEF PresentBit
<1> QED BY <1>1, <1>2, <1>3

LEMMA BitTurns ==
    ASSUME TypeInv, LinkInv, BitInv, NEW access, Turn(access), Moves(access)
    PROVE  BitInv'
<1> SUFFICES ASSUME ~gaveUp', state' # 0, reading'
             PROVE  BitInv'
  BY DEF BitInv
<1>1. /\ UNCHANGED <<ack, confstat, given, flips>>
      /\ ack_shift'[0] = ack_shift[1] /\ ack_shift'[1] = ack_shift[2] /\ ack_shift'[2] = ack
      /\ ~gaveUp /\ ~GivesUp /\ (gaveUp' <=> gaveUp)
  BY ClockKeeps
<1>2. /\ confstat_shift'[0] = confstat_shift[1] /\ confstat_shift'[1] = confstat_shift[2]
      /\ confstat_shift'[2] = confstat
  <2>1. confstat_shift' = [b \in 0 .. 2 |-> IF b = 2 THEN confstat ELSE confstat_shift[b + 1]]
    BY DEF Turn, Clock
  <2>2. /\ confstat_shift'[0] = confstat_shift[0 + 1] /\ confstat_shift'[1] = confstat_shift[1 + 1]
        /\ confstat_shift'[2] = confstat
    BY <2>1
  <2>3. 0 + 1 = 1 /\ 1 + 1 = 2
    OBVIOUS
  <2> QED BY <2>2, <2>3
<1>3. Handshake /\ (state # 0 => InTransit)
  BY <1>1 DEF LinkInv
<1>4. /\ bit_count \in Nat /\ bit_count <= FrameLength /\ FrameLength \in Nat /\ FrameLength > 1
      /\ cycle_count \in Nat /\ reading \in BOOLEAN
      /\ state # 0 /\ Presented => bit_count > 0
  BY Ranges
<1>5. CASE Start
  BY <1>5 DEF Start
<1>6. CASE PresentBit
  <2>1. /\ state = 1 /\ UNCHANGED <<reading, data_in>>
        /\ bit_count' = IF cycle_count = 0 THEN bit_count + 1 ELSE bit_count
        /\ \/ state' = 1 /\ cycle_count' \in Nat /\ cycle_count' > 0
           \/ state' = 2 /\ cycle_count > 0 /\ cycle_count' = 0
    BY <1>6, PresentCounts
  <2>2. Low
    BY <1>3, <2>1 DEF Handshake
  <2>3. Taken = IF cycle_count > 0 THEN bit_count - 1 ELSE bit_count
    BY <2>1 DEF Taken
  <2>4. Taken' = Taken
    BY <1>4, <2>1, <2>3 DEF Taken
  <2>5. Passed = IF cycle_count > 0 THEN bit_count - 1 ELSE bit_count
    BY <2>1 DEF Passed
  <2>6. Passed' = Passed
    BY <1>1, <1>4, <2>1, <2>2, <2>5 DEF Passed, Low
  <2>7. \A b \in 0 .. 2 : ~ack_shift'[b]
    BY <1>1, <2>2 DEF Low
  <2> QED BY <1>1, <2>1, <2>4, <2>6, <2>7, BitsStay
<1>7. CASE AwaitAck /\ ~AckSeen
  <2>1. /\ state = 2 /\ state' = 2 /\ UNCHANGED <<reading, bit_count, data_in>>
    BY <1>1, <1>7 DEF AwaitAck, GivesUp
  <2>2. Taken' = Taken /\ Passed' = Passed
    BY <1>1, <2>1 DEF Taken, Passed
  <2>3. \A b \in 0 .. 2 : ack_shift[b] => confstat_shift[b] = confstat
    BY <1>1, <2>1 DEF BitInv
  <2>4. \A b \in 0 .. 2 : ack_shift'[b] => confstat_shift'[b] = confstat'
    BY <1>1, <1>2, <2>3
  <2> QED BY <1>1, <2>1, <2>2, <2>4, BitsStay
<1>8. CASE AwaitAck /\ AckSeen
  <2>1. /\ state = 2 /\ state' = 3 /\ UNCHANGED <<reading, bit_count>>
        /\ data_in' = Append(Tail(data_in), confstat_shift[0])
    BY <1>8 DEF AwaitAck
  <2>2. confstat_shift[0] = confstat /\ ack
    BY <1>1, <1>3, <1>8, <2>1 DEF BitInv, AckSeen, Handshake, Rising
  <2>3. /\ Taken = bit_count - 1 /\ Taken' = bit_count
        /\ Passed = bit_count /\ Passed' = bit_count /\ bit_count > 0
    BY <1>4, <2>1, <2>2 DEF Taken, Passed, Presented
  <2>4. /\ data_in'[FrameLength] = confstat
        /\ \A i \in 1 .. FrameLength - 1 : data_in'[i] = data_in[i + 1]
    <3>1. data_in \in Seq(Bit) /\ Len(data_in) = FrameLength /\ confstat \in Bit
      BY FrameIsSeq DEF TypeInv, TypeOK, CmdTypeOK
    <3>2. data_in # <<>>
      BY <1>4, <3>1, EmptySeq
    <3>3. /\ Tail(data_in) \in Seq(Bit) /\ Len(Tail(data_in)) = FrameLength - 1
          /\ \A i \in 1 .. FrameLength - 1 : Tail(data_in)[i] = data_in[i + 1]
      BY <3>1, <3>2, HeadTailProperties
    <3>4. /\ Append(Tail(data_in), confstat)[FrameLength - 1 + 1] = confstat
          /\ \A i \in 1 .. FrameLength - 1 : Append(Tail(data_in), confstat)[i] = Tail(data_in)[i]
      BY <3>1, <3>3, AppendProperties
    <3>5. FrameLength - 1 + 1 = FrameLength
      BY <1>4
    <3> QED BY <2>1, <2>2, <3>3, <3>4, <3>5
  <2>5. ASSUME NEW i \in 1 .. bit_count PROVE Right(i)' <=> Right(i)
    <3>1. CASE i = bit_count
      <4>1. ~(i <= Taken) /\ i <= Taken' /\ FrameLength - Taken' + i = FrameLength
        BY <1>4, <2>3, <3>1
      <4>2. /\ Right(i) <=> confstat = FrameOf(given)[i]
            /\ Right(i)' <=> data_in'[FrameLength] = FrameOf(given')[i]
        BY <4>1 DEF Right
      <4> QED BY <1>1, <2>4, <4>2
    <3>2. CASE i < bit_count
      <4>1. /\ i <= Taken /\ i <= Taken'
            /\ FrameLength - Taken' + i \in 1 .. FrameLength - 1
            /\ FrameLength - Taken + i = FrameLength - Taken' + i + 1
        BY <1>4, <2>3, <3>2
      <4>2. data_in'[FrameLength - Taken' + i] = data_in[FrameLength - Taken + i]
        BY <2>4, <4>1
      <4> QED BY <1>1, <4>1, <4>2 DEF Right
    <3> QED BY <1>4, <3>1, <3>2
  <2> QED BY <1>1, <2>1, <2>3, <2>5 DEF BitInv
<1>9. CASE HoldRequest
  <2>1. state = 3 /\ state' \in {3, 4} /\ UNCHANGED <<reading, bit_count, data_in>>
    BY <1>9 DEF HoldRequest
  <2>2. Taken' = Taken /\ Passed' = Passed
    BY <2>1 DEF Taken, Passed
  <2> QED BY <1>1, <2>1, <2>2, BitsStay
<1>10. CASE AwaitRelease
  <2>1. state = 4 /\ data_in' = data_in
    BY <1>10 DEF AwaitRelease
  <2>2. CASE AckSeen
    <3>1. state' = 4 /\ UNCHANGED <<reading, bit_count>>
      BY <1>1, <1>10, <2>2 DEF AwaitRelease, GivesUp
    <3>2. Taken' = Taken /\ Passed' = Passed
      BY <2>1, <3>1 DEF Taken, Passed
    <3> QED BY <1>1, <2>1, <3>1, <3>2, BitsStay
  <2>3. CASE ~AckSeen
    <3>1. /\ state' = IF LastBit /\ (reading \/ ~is_query) THEN 0 ELSE 1
          /\ reading' <=> reading \/ (LastBit /\ is_query)
          /\ bit_count' = IF LastBit /\ ~reading /\ is_query THEN 0 ELSE bit_count
          /\ cycle_count' = 0
      BY <1>10, <2>3 DEF AwaitRelease, NextBit
    <3>2. state' = 1 /\ Taken' = bit_count' /\ Passed' = bit_count'
      BY <3>1 DEF Taken, Passed
    <3>3. CASE reading
      <4>1. bit_count' = bit_count /\ Taken' = Taken /\ Passed' = Passed
        BY <2>1, <3>1, <3>2, <3>3 DEF Taken, Passed
      <4> QED BY <1>1, <2>1, <3>2, <3>3, <4>1, BitsStay
    <3>4. CASE ~reading
      <4>1. Passed' = 0
        BY <3>1, <3>2, <3>4
      <4>2. 1 \in 1 .. FrameLength /\ \A i \in 1 .. 0 : FALSE
        BY <1>4
      <4> QED BY <3>2, <4>1, <4>2 DEF BitInv
    <3> QED BY <3>3, <3>4
  <2> QED BY <2>2, <2>3
<1> QED BY ClockKeeps, <1>5, <1>6, <1>7, <1>8, <1>9, <1>10

LEMMA BitDrive ==
    ASSUME TypeInv, LinkInv, BitInv, TailInv, Drive, MaxFlips <= 1
    PROVE  BitInv'
<1> SUFFICES ASSUME ~gaveUp', state' # 0, reading'
             PROVE  BitInv'
  BY DEF BitInv
<1>1. /\ UNCHANGED <<state, reading, is_query, bit_count, cycle_count, data_in>>
      /\ UNCHANGED <<ack_shift, confstat_shift, transfer_req, gaveUp>>
  BY DriveLeaves DEF fsm, lines, linkHistory
<1>2. ~gaveUp /\ state # 0 /\ reading /\ Handshake /\ InTransit /\ Underway
  BY <1>1 DEF LinkInv, Underway
<1>3. Taken' = Taken
  BY <1>1 DEF Taken
<1>4. CASE ReceiveBit
  BY <1>2, <1>4, RequestSamples DEF ReceiveBit, Acknowledge
<1>5. CASE SendBit
  <2>1. /\ transfer_req /\ ~ack /\ ack' /\ given' = given /\ toSend # <<>>
        /\ \/ confstat' = Head(toSend) /\ flips' = flips
           \/ confstat' = ~Head(toSend) /\ flips' = flips + 1 /\ flips < MaxFlips
    BY <1>5, SendTakes
  <2>2. state = 2 /\ Passed = bit_count - 1 /\ bit_count > 0
    BY <1>2, <2>1, RequestSamples
  <2>3. /\ bit_count \in 1 .. FrameLength /\ FrameLength \in Nat /\ MaxFlips \in Nat
        /\ flips \in 0 .. MaxFlips /\ toSend \in Seq(Bit)
    BY <2>2, Ranges, Widths DEF TypeInv, TypeOK
  <2>4. Taken = bit_count - 1 /\ Passed' = bit_count
    <3>1. state' = 2 /\ ack' /\ bit_count' = bit_count
      BY <1>1, <2>1, <2>2
    <3> QED BY <2>2, <3>1 DEF Taken, Passed
  <2>5. Len(toSend) = FrameLength - Passed
    BY <1>2 DEF InTransit
  <2>6. Head(toSend) = FrameOf(given)[bit_count]
    <3>1. 1 \in 1 .. Len(toSend) /\ FrameLength - Len(toSend) + 1 = bit_count
      BY <2>2, <2>3, <2>5
    <3>2. toSend[1] = FrameOf(given)[bit_count]
      BY <3>1 DEF TailInv
    <3>3. toSend # <<>> /\ toSend \in Seq(Bit)
      BY <2>1, <2>3
    <3>4. Head(toSend) = toSend[1]
      BY <3>3, HeadTailProperties
    <3> QED BY <3>2, <3>4
  <2>7. \A i \in 1 .. Passed : Right(i)' <=> Right(i)
    <3>1. \A i \in 1 .. Passed : i <= Taken
      BY <2>2, <2>4
    <3> QED BY <1>1, <1>3, <2>1, <3>1 DEF Right
  <2>8. ASSUME confstat' = Head(toSend), NEW i, i = bit_count PROVE Right(i)'
    <3>1. ~(i <= Taken)
      BY <2>3, <2>4, <2>8
    <3>2. Right(i)' <=> confstat' = FrameOf(given')[i]
      BY <1>3, <3>1 DEF Right
    <3> QED BY <2>1, <2>6, <2>8, <3>2
  <2>9. \A i \in 1 .. Passed' : i = bit_count \/ i \in 1 .. Passed
    BY <2>2, <2>3, <2>4
  <2>10. \A b \in 0 .. 2 : ~ack_shift'[b]
    <3>1. ~ack /\ Rising /\ ack_shift' = ack_shift
      BY <1>1, <1>2, <2>1, <2>2 DEF Handshake
    <3> QED BY <3>1 DEF Rising
  <2>11. CASE confstat' = Head(toSend) /\ flips' = flips
    <3>1. ASSUME NEW i, i = bit_count PROVE Right(i)'
      BY <2>8, <2>11, <3>1
    <3>2. /\ flips = 0 => \A i \in 1 .. Passed : Right(i)
          /\ \E k \in 1 .. FrameLength : \A i \in 1 .. Passed : i = k \/ Right(i)
      BY <1>2 DEF BitInv
    <3>3. flips' = 0 => \A i \in 1 .. Passed' : Right(i)'
      BY <2>7, <2>9, <2>11, <3>1, <3>2
    <3>4. PICK k \in 1 .. FrameLength : \A i \in 1 .. Passed : i = k \/ Right(i)
      BY <3>2
    <3>5. \A i \in 1 .. Passed' : i = k \/ Right(i)'
      <4> TAKE i \in 1 .. Passed'
      <4>1. CASE i = bit_count
        BY <3>1, <4>1
      <4>2. CASE i \in 1 .. Passed
        BY <2>7, <3>4, <4>2
      <4> QED BY <2>9, <4>1, <4>2
    <3> QED BY <2>10, <3>3, <3>5 DEF BitInv
  <2>12. CASE flips' = flips + 1 /\ flips < MaxFlips
    <3>1. flips = 0 /\ flips' # 0
      BY <2>3, <2>12
    <3>2. \A i \in 1 .. Passed : Right(i)'
      BY <1>2, <2>7, <3>1 DEF BitInv
    <3>3. \A i \in 1 .. Passed' : i = bit_count \/ Right(i)'
      BY <2>9, <3>2
    <3> QED BY <2>3, <2>10, <3>1, <3>3 DEF BitInv
  <2> QED BY <2>1, <2>11, <2>12
<1>6. CASE Release
  <2>1. UNCHANGED <<confstat, given, flips>> /\ ~transfer_req /\ ack
    BY <1>6 DEF Release, driveHistory
  <2>2. state = 4
    <3>1. state \notin {1, 2, 3} /\ state \in 0 .. 4
      BY <1>2, <2>1, Ranges DEF Handshake, Low
    <3> QED BY <1>2, <3>1
  <2>3. Passed' = Passed
    BY <1>1, <2>2 DEF Passed
  <2> QED BY <1>1, <1>2, <1>3, <2>1, <2>2, <2>3, BitsStay
<1> QED BY <1>4, <1>5, <1>6 DEF Drive

-----------------------------------------------------------------------------
(* The answer of a query.                                                   *)

\* As long as nothing is adrift, what is in the register, or has been returned, is the
\* answer to the last word issued.
Latest == Len(received) = Len(issued)
WriteInv == pc = "write" /\ IsQuery(call) => ~buffered_data_in_valid /\ owed = 0
AwaitInv ==
    pc = "await" =>
        \/ ~buffered_data_in_valid /\ owed = 1
        \/ /\ buffered_data_in_valid /\ owed = 0
           /\ \/ buffered_data_in.timeout \/ buffered_data_in.bad_parity
              \/ ~adrift => Latest /\ buffered_data_in.word = given
OkInv ==
    result.kind = "ok" =>
        /\ owed = 0 /\ issued # <<>> /\ issued[Len(issued)] = call
        /\ ~adrift => Latest /\ result.word = given
AnswerInv ==
    /\ result.kind = "ok" => pc = "idle"
    /\ ~doubtful => WriteInv /\ AwaitInv /\ OkInv

\* The answer that the controller posts to a query that the program waits for.
LEMMA CompletesOwn ==
    ASSUME TypeInv, LinkInv, BitInv, Completes, ~adrift, ~buffered_data_out_valid
    PROVE  ParityError(data_in) \/ (Latest /\ WordOf(data_in) = given)
<1>1. state = 4 /\ bit_count = FrameLength /\ reading
  BY DEF Completes, LastBit
<1>2. ~gaveUp
  BY <1>1 DEF LinkInv
<1>3. InTransit
  BY <1>1, <1>2 DEF LinkInv
<1>4. Latest
  <2>1. Len(received) = Started /\ Started = Len(issued) - 0 /\ Len(issued) \in Nat
    BY <1>1, <1>3, Ranges DEF InTransit, Whole, Started
  <2> QED BY <2>1 DEF Latest
<1>5. Taken = FrameLength /\ Passed = FrameLength /\ FrameLength \in Nat
  BY <1>1, Widths DEF Taken, Passed
<1>6. \A i \in 1 .. FrameLength : Right(i) <=> data_in[i] = FrameOf(given)[i]
  <2>1. \A i \in 1 .. FrameLength : i <= Taken /\ FrameLength - Taken + i = i
    BY <1>5
  <2> QED BY <2>1 DEF Right
<1>7. PICK k \in 1 .. FrameLength : \A i \in 1 .. FrameLength : i = k \/ Right(i)
  BY <1>1, <1>2, <1>5 DEF BitInv
<1>8. data_in \in Frame /\ given \in Word
  BY DEF TypeInv, TypeOK, CmdTypeOK
<1>9. ~ParityError(data_in) => WordOf(data_in) = given
  BY <1>6, <1>7, <1>8, OneWrongBit
<1> QED BY <1>4, <1>9

\* A clock, as the program sees it.
LEMMA AnswerClock ==
    ASSUME TypeInv, LinkInv, BitInv, NEW access, Turn(access)
    PROVE  /\ owed = 0 => ~Posts
           /\ Posts => Delivered = owed - 1
           /\ ~Posts => Delivered = owed /\ buffered_data_in' = buffered_data_in
           /\ buffered_data_in_valid' <=>
                 access.kind # "read" /\ (buffered_data_in_valid \/ Posts)
           /\ UNCHANGED <<received, given>>
           /\ adrift => adrift'
           /\ Posts /\ owed = 1 /\ pc = "await" =>
                 \/ buffered_data_in'.timeout \/ buffered_data_in'.bad_parity
                 \/ ~adrift => Latest /\ buffered_data_in'.word = given
<1>1. Posts => InHand = 1
  BY HandMoves DEF InHand, TypeInv
<1>2. InHand \in {0, 1} /\ InRegister \in {0, 1} /\ owed = InHand + InRegister
  BY DEF InHand, InRegister, TypeInv, OwedInv
<1>3. owed = 0 => ~Posts
  BY <1>1, <1>2
<1>4. /\ Posts => Delivered = owed - 1
      /\ ~Posts => Delivered = owed
  BY DEF Delivered
<1>5. /\ buffered_data_in' = IF Posts THEN Posted ELSE buffered_data_in
      /\ buffered_data_in_valid' <=> access.kind # "read" /\ (buffered_data_in_valid \/ Posts)
  BY DEF Turn, Clock
<1>6. UNCHANGED <<received, given>> /\ (adrift => adrift')
  BY DEF Turn, driveHistory
<1>7. ASSUME Posts, owed = 1, pc = "await"
      PROVE  \/ buffered_data_in'.timeout \/ buffered_data_in'.bad_parity
             \/ ~adrift => Latest /\ buffered_data_in'.word = given
  <2>1. CASE GivesUp
    <3>1. buffered_data_in'.timeout
      BY <1>5, <1>7, <2>1 DEF Posted
    <3> QED BY <3>1
  <2>2. CASE ~GivesUp
    <3>1. /\ buffered_data_in'.word = WordOf(data_in)
          /\ buffered_data_in'.bad_parity = ParityError(data_in)
      BY <1>5, <1>7, <2>2 DEF Posted
    <3>2. Completes
      BY <1>7, <2>2 DEF Posts
    <3>3. InRegister = 0
      BY <1>1, <1>2, <1>7
    <3>4. ~buffered_data_out_valid
      <4>1. buffered_data_out_valid => buffered_data_out.query
        BY <1>7 DEF TypeInv, IssueInv
      <4> QED BY <3>3, <4>1 DEF InRegister
    <3> QED BY <3>1, <3>2, <3>4, CompletesOwn
  <2> QED BY <2>1, <2>2
<1> QED BY <1>3, <1>4, <1>5, <1>6, <1>7

\* The drive answers nothing but the last word issued, once.
LEMMA AnswerDrive ==
    ASSUME TypeInv, LinkInv, AnswerInv, Drive
    PROVE  AnswerInv'
<1>1. /\ UNCHANGED <<buffered_data_in_valid, buffered_data_in, issued, owed, doubtful>>
      /\ UNCHANGED <<pc, call, result>> /\ (adrift' <=> adrift)
  BY DriveLeaves DEF registers, program, linkHistory
<1>2. ~adrift /\ Latest => UNCHANGED <<received, given>>
  <2> SUFFICES ASSUME ~adrift, Latest PROVE UNCHANGED <<received, given>>
    OBVIOUS
  <2>1. ~ReceiveBit
    <3> SUFFICES ASSUME ReceiveBit PROVE FALSE
      OBVIOUS
    <3>1. transfer_req /\ ~ack /\ toSend = <<>>
      BY DEF ReceiveBit, Acknowledge
    <3>2. Samples
      BY <3>1, RequestSamples DEF LinkInv, Underway
    <3>3. Len(received) = Started - 1
      BY <3>1, <3>2 DEF Samples, Partial
    <3> QED BY <3>3, Ranges DEF Latest
  <2>2. CASE SendBit
    BY <2>2, SendTakes
  <2>3. CASE Release
    BY <2>3 DEF Release, driveHistory
  <2> QED BY <2>1, <2>2, <2>3 DEF Drive
<1>3. ~adrift' /\ Latest => Latest' /\ given' = given
  BY <1>1, <1>2 DEF Latest
<1>4. (WriteInv => WriteInv') /\ (AwaitInv => AwaitInv') /\ (OkInv => OkInv')
  BY <1>1, <1>3 DEF WriteInv, AwaitInv, OkInv
<1> QED BY <1>1, <1>4 DEF AnswerInv

LEMMA AnswerProgram ==
    ASSUME TypeInv, LinkInv, BitInv, AnswerInv, Tick \/ Call \/ Polls \/ GivesUpWaiting
    PROVE  AnswerInv'
<1>1. result.kind = "ok" => pc = "idle"
  BY DEF AnswerInv
<1>2. owed \in Nat /\ (~doubtful => WriteInv /\ AwaitInv /\ OkInv)
  BY DEF TypeInv, TypeOK, AnswerInv
<1>3. /\ NoAccess.kind # "read" /\ ReadAnswer.kind = "read"
      /\ WriteCommand(call, IsQuery(call)).kind # "read"
  BY DEF NoAccess, ReadAnswer, WriteCommand
<1>4. CASE Tick
  <2>1. /\ Turn(NoAccess) /\ owed' = Delivered
        /\ UNCHANGED <<pc, call, result, issued, doubtful>>
    BY <1>4 DEF Tick, program
  <2>2. /\ owed = 0 => ~Posts
        /\ Posts => owed' = owed - 1
        /\ ~Posts => owed' = owed /\ buffered_data_in' = buffered_data_in
        /\ buffered_data_in_valid' <=> buffered_data_in_valid \/ Posts
        /\ UNCHANGED <<received, given>>
        /\ adrift => adrift'
        /\ Posts /\ owed = 1 /\ pc = "await" =>
              \/ buffered_data_in'.timeout \/ buffered_data_in'.bad_parity
              \/ ~adrift => Latest /\ buffered_data_in'.word = given
    BY <1>3, <2>1, AnswerClock
  <2>3. Latest' <=> Latest
    BY <2>1, <2>2 DEF Latest
  <2>4. ~doubtful => WriteInv'
    BY <1>2, <2>1, <2>2 DEF WriteInv
  <2>5. ~doubtful => OkInv'
    BY <1>2, <2>1, <2>2, <2>3 DEF OkInv
  <2>6. ~doubtful => AwaitInv'
    <3> SUFFICES ASSUME ~doubtful, pc = "await" PROVE AwaitInv'
      BY <2>1 DEF AwaitInv
    <3>1. CASE Posts
      <4>1. owed = 1 /\ owed' = 0 /\ buffered_data_in_valid'
        BY <1>2, <2>2, <3>1 DEF AwaitInv
      <4> QED BY <2>2, <2>3, <3>1, <4>1 DEF AwaitInv
    <3>2. CASE ~Posts
      BY <1>2, <2>1, <2>2, <2>3, <3>2 DEF AwaitInv
    <3> QED BY <3>1, <3>2
  <2> QED BY <1>1, <2>1, <2>4, <2>5, <2>6 DEF AnswerInv
<1>5. ASSUME pc' \in {"idle", "ready", "drain"} \/ (pc' = "write" /\ ~IsQuery(call')),
             result'.kind # "ok"
      PROVE  AnswerInv'
  BY <1>5 DEF AnswerInv, WriteInv, AwaitInv, OkInv
<1>6. CASE Call
  <2>1. pc' = "ready" /\ result'.kind # "ok"
    BY <1>6 DEF Call, Poll, Result
  <2> QED BY <1>5, <2>1
<1>7. ASSUME pc # "idle", Fail PROVE AnswerInv'
  <2>1. pc' \in {"idle", "ready"} /\ result'.kind # "ok"
    BY <1>1, <1>7 DEF Fail, Result
  <2> QED BY <1>5, <2>1
<1>8. CASE BecomesReady
  <2>1. /\ result'.kind # "ok"
        /\ pc' = "drain" \/ (pc' = "write" /\ ~IsQuery(call'))
    BY <1>1, <1>8 DEF BecomesReady, Poll
  <2> QED BY <1>5, <2>1
<1>9. CASE NeverReady \/ NoResponse
  <2>1. pc # "idle" /\ Fail
    BY <1>9 DEF NeverReady, NoResponse
  <2> QED BY <1>7, <2>1
<1>10. CASE DrainLeftover
  <2>1. /\ pc = "drain" /\ pc' = "write" /\ result' = result /\ owed' = Delivered
        /\ doubtful' <=> owed > 0
        /\ Turn(IF buffered_data_in_valid THEN ReadAnswer ELSE NoAccess)
    BY <1>10 DEF DrainLeftover
  <2>2. result'.kind # "ok"
    BY <1>1, <2>1
  <2>3. owed = 0 => ~Posts
    BY <2>1, AnswerClock
  <2>4. ~doubtful' => owed' = 0 /\ ~buffered_data_in_valid'
    <3> SUFFICES ASSUME ~doubtful' PROVE owed' = 0 /\ ~buffered_data_in_valid'
      OBVIOUS
    <3>1. owed = 0 /\ ~Posts
      BY <1>2, <2>1, <2>3
    <3>2. owed' = 0
      BY <2>1, <3>1, AnswerClock
    <3>3. CASE buffered_data_in_valid
      <4>1. Turn(ReadAnswer)
        BY <2>1, <3>3
      <4>2. buffered_data_in_valid' <=>
                ReadAnswer.kind # "read" /\ (buffered_data_in_valid \/ Posts)
        BY <4>1, AnswerClock
      <4> QED BY <1>3, <3>2, <4>2
    <3>4. CASE ~buffered_data_in_valid
      BY <2>1, <3>1, <3>4, AnswerClock
    <3> QED BY <3>2, <3>3, <3>4
  <2> QED BY <2>1, <2>2, <2>4 DEF AnswerInv, WriteInv, AwaitInv, OkInv
<1>11. CASE Issue
  <2>1. /\ pc = "write" /\ pc' = IF IsQuery(call) THEN "await" ELSE "idle"
        /\ result' = result /\ doubtful' = doubtful
        /\ owed' = IF IsQuery(call) THEN Delivered + 1 ELSE Delivered
        /\ Turn(WriteCommand(call, IsQuery(call)))
    BY <1>11 DEF Issue
  <2>2. result'.kind # "ok"
    BY <1>1, <2>1
  <2>3. CASE ~IsQuery(call)
    BY <1>5, <2>1, <2>2, <2>3
  <2>4. CASE IsQuery(call)
    <3> SUFFICES ASSUME ~doubtful PROVE AwaitInv'
      BY <2>1, <2>2, <2>4 DEF AnswerInv, WriteInv, OkInv
    <3>1. ~buffered_data_in_valid /\ owed = 0
      BY <1>2, <2>1, <2>4 DEF WriteInv
    <3>2. ~Posts /\ Delivered = 0 /\ ~buffered_data_in_valid'
      BY <2>1, <3>1, AnswerClock
    <3>3. owed' = 1
      BY <2>1, <2>4, <3>2
    <3> QED BY <3>2, <3>3 DEF AwaitInv
  <2> QED BY <2>3, <2>4
<1>12. CASE TakeAnswer
  <2>1. /\ pc = "await" /\ buffered_data_in_valid /\ Turn(ReadAnswer)
        /\ owed' = Delivered /\ UNCHANGED <<issued, doubtful>>
    BY <1>12 DEF TakeAnswer
  <2>2. CASE Fail
    BY <1>7, <2>1, <2>2
  <2>3. CASE ~Fail
    <3>1. /\ ~buffered_data_in.timeout /\ ~buffered_data_in.bad_parity
          /\ pc' = "idle" /\ call' = call
          /\ result' = [kind |-> "ok", word |-> buffered_data_in.word]
      BY <1>12, <2>3 DEF TakeAnswer
    <3>2. ASSUME ~doubtful PROVE OkInv'
      <4>1. owed = 0 /\ (~adrift => Latest /\ buffered_data_in.word = given)
        BY <1>2, <2>1, <3>1, <3>2 DEF AwaitInv
      <4>2. /\ owed' = 0 /\ UNCHANGED <<received, given>>
            /\ adrift => adrift'
        BY <2>1, <4>1, AnswerClock
      <4>3. issued' # <<>> /\ issued'[Len(issued')] = call'
        BY <2>1, <3>1 DEF TypeInv, IssueInv
      <4>4. Latest' <=> Latest
        BY <2>1, <4>2 DEF Latest
      <4>5. result'.word = buffered_data_in.word
        BY <3>1
      <4> QED BY <4>1, <4>2, <4>3, <4>4, <4>5 DEF OkInv
    <3> QED BY <2>1, <3>1, <3>2 DEF AnswerInv, WriteInv, AwaitInv
  <2> QED BY <2>2, <2>3
<1> QED BY <1>4, <1>6, <1>8, <1>9, <1>10, <1>11, <1>12 DEF Polls, GivesUpWaiting

AllInv == TypeInv /\ LinkInv /\ TailInv /\ BitInv /\ AnswerInv

LEMMA AnswerInit ==
    ASSUME Init, TypeInv
    PROVE  TailInv /\ BitInv /\ AnswerInv
<1>1. /\ toSend = <<>> /\ state = 0 /\ pc = "idle" /\ result = Result("none")
  BY DEF Init, CmdInit
<1>2. Len(toSend) = 0 /\ result.kind # "ok"
  BY <1>1, EmptySeq DEF Result
<1> QED BY <1>1, <1>2 DEF TailInv, BitInv, AnswerInv, WriteInv, AwaitInv, OkInv

LEMMA AnswerStutter ==
    ASSUME TailInv, BitInv, AnswerInv, UNCHANGED vars
    PROVE  TailInv' /\ BitInv' /\ AnswerInv'
<1>1. UNCHANGED <<fsm, registers, lines, drive, program, issued, driveHistory, linkHistory>>
  BY DEF vars, cmdVars
<1>2. /\ UNCHANGED <<state, reading, bit_count, cycle_count, data_in>>
      /\ UNCHANGED <<buffered_data_in_valid, buffered_data_in, ack_shift, confstat_shift>>
      /\ UNCHANGED <<ack, confstat, toSend, pc, call, result, issued, received, given, flips>>
      /\ UNCHANGED <<gaveUp, adrift, owed, doubtful>>
  BY <1>1 DEF fsm, registers, lines, drive, program, driveHistory, linkHistory, vars
<1>3. TailInv'
  BY <1>2 DEF TailInv
<1>4. UNCHANGED <<Passed, Taken>> /\ \A i : Right(i)' <=> Right(i)
  <2>1. UNCHANGED <<Passed, Taken>>
    BY <1>2 DEF Passed, Taken
  <2> QED BY <1>2, <2>1 DEF Right
<1>5. BitInv'
  BY <1>2, <1>4 DEF BitInv
<1>6. AnswerInv'
  BY <1>2 DEF AnswerInv, WriteInv, AwaitInv, OkInv, Latest
<1> QED BY <1>3, <1>5, <1>6

LEMMA AnswerInductive ==
    ASSUME MaxFlips <= 1
    PROVE  Spec => []AllInv
<1>1. ASSUME AllInv, Next PROVE AllInv'
  <2>1. TypeInv /\ LinkInv /\ TailInv /\ BitInv /\ AnswerInv
    BY <1>1 DEF AllInv
  <2>2. TypeInv'
    BY <1>1, <2>1, TypeStep
  <2>3. CASE Drive
    BY <2>1, <2>2, <2>3, LinkDrive, TailDrive, BitDrive, AnswerDrive DEF AllInv
  <2>4. CASE ~Drive
    <3>1. PICK access : Turn(access) /\ Moves(access)
      BY <1>1, <2>1, <2>4, NextMoves DEF TypeInv
    <3>2. LinkInv' /\ BitInv'
      BY <2>1, <3>1, LinkTurns, BitTurns
    <3>3. TailInv'
      BY <2>1, <3>1, ClockKeeps DEF TailInv
    <3>4. AnswerInv'
      BY <1>1, <2>1, <2>4, AnswerProgram DEF Next
    <3> QED BY <2>2, <3>2, <3>3, <3>4 DEF AllInv
  <2> QED BY <2>3, <2>4
<1>2. ASSUME AllInv, UNCHANGED vars PROVE LinkInv' /\ TailInv' /\ BitInv' /\ AnswerInv'
  BY <1>2, LinkStutter, AnswerStutter DEF AllInv
<1>3. ASSUME TypeInv', AllInv, [Next]_vars PROVE AllInv'
  BY <1>1, <1>2, <1>3 DEF AllInv
<1>4. ASSUME Init, TypeInv PROVE AllInv
  BY <1>4, LinkInit, AnswerInit DEF AllInv
<1> QED BY <1>3, <1>4, TypeInductive, PTL DEF Spec

\* AnswerIsOwn: a query that returns without an error returns what the drive answered to
\* that very query, the last word that it took in, unless the controller started a word on
\* a drive adrift or an earlier answer was still owed when the program drained the
\* register.  At most one bit of the answers comes wrong: that is what a parity bit catches.
THEOREM AnswersAreOwn ==
    ASSUME MaxFlips <= 1
    PROVE  Spec => []AnswerIsOwn
<1>1. ASSUME AllInv PROVE AnswerIsOwn
  <2> SUFFICES ASSUME result.kind = "ok", ~adrift, ~doubtful
               PROVE  Len(received) = Len(issued) /\ Last(received) = call /\ result.word = given
    BY DEF AnswerIsOwn
  <2>1. /\ issued # <<>> /\ issued[Len(issued)] = call
        /\ Len(received) = Len(issued) /\ result.word = given
    BY <1>1 DEF AllInv, AnswerInv, OkInv, Latest
  <2>2. \A n \in 1 .. Len(received) : received[n] = issued[n]
    BY <1>1 DEF AllInv, LinkInv, Prefix
  <2>3. Len(issued) \in Nat /\ Len(issued) # 0
    BY <1>1, <2>1, EmptySeq DEF AllInv, TypeInv, TypeOK
  <2>4. received[Len(received)] = call
    BY <2>1, <2>2, <2>3
  <2> QED BY <2>1, <2>4 DEF Last
<1> QED BY <1>1, AnswerInductive, PTL
=============================================================================
