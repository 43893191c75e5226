--------------------------- MODULE CmdController ---------------------------
(***************************************************************************)
(* hdl/axi_esdi_cmd_controller.v: the state machine that shifts a command  *)
(* word and its parity bit out to the drive, one request/acknowledge       *)
(* handshake per bit, and for a query shifts the answer in the same way.   *)
(*                                                                         *)
(* One step is one clock.  The ESDI lines are active low in the code; here *)
(* TRUE is "asserted".  A word is the sequence of its bits, most           *)
(* significant first.                                                      *)
(***************************************************************************)
EXTENDS Integers, Sequences, FiniteSets

CONSTANTS
    WordLength,         \* 16
    DataSetup,          \* DATA_SETUP: command data before the request
    AckToNreq,          \* ACK_TO_NREQ: acknowledge before the request is dropped
    BitTimeout          \* BIT_TIMEOUT: 10 ms

ASSUME CmdAssumption ==
    /\ {WordLength, DataSetup, AckToNreq, BitTimeout} \subseteq Nat \ {0}
    /\ DataSetup <= BitTimeout /\ AckToNreq <= BitTimeout

Bit == BOOLEAN
Word == [1 .. WordLength -> Bit]
Frame == [1 .. WordLength + 1 -> Bit]
FrameLength == WordLength + 1

VARIABLES
    state, reading, is_query, bit_count, cycle_count,
    data_out, data_in,              \* shift registers: bits to go, last bits come
    buffered_data_out_valid, buffered_data_out,     \* [word, query]
    buffered_data_in_valid, buffered_data_in,       \* [word, bad_parity, timeout]
    ack_shift, confstat_shift,      \* synchronisers of the drive's lines
    transfer_req, command_data      \* lines to the drive

fsm == <<state, reading, is_query, bit_count, cycle_count, data_out, data_in>>
registers == <<buffered_data_out_valid, buffered_data_out, buffered_data_in_valid,
               buffered_data_in>>
lines == <<ack_shift, confstat_shift, transfer_req, command_data>>
cmdVars == <<fsm, registers, lines>>

Answer == [word : Word, bad_parity : BOOLEAN, timeout : BOOLEAN]
Zero == [b \in 1 .. WordLength |-> FALSE]

\* cycle_count stops one past the last value it is compared with.
CmdTypeOK ==
    /\ state \in 0 .. 4
    /\ reading \in BOOLEAN /\ is_query \in BOOLEAN
    /\ bit_count \in 0 .. FrameLength
    /\ cycle_count \in 0 .. BitTimeout + 1
    /\ data_out \in Seq(Bit) /\ Len(data_out) <= FrameLength
    /\ data_in \in Frame
    /\ buffered_data_out_valid \in BOOLEAN
    /\ buffered_data_out \in [word : Word, query : BOOLEAN]
    /\ buffered_data_in_valid \in BOOLEAN
    /\ buffered_data_in \in Answer
    /\ ack_shift \in [0 .. 2 -> BOOLEAN] /\ confstat_shift \in [0 .. 2 -> Bit]
    /\ transfer_req \in BOOLEAN /\ command_data \in Bit

CmdInit ==
    /\ state = 0
    /\ reading = FALSE /\ is_query = FALSE
    /\ bit_count = 0 /\ cycle_count = 0
    /\ data_out = <<>>
    /\ data_in = [b \in 1 .. FrameLength |-> FALSE]
    /\ buffered_data_out_valid = FALSE
    /\ buffered_data_out = [word |-> Zero, query |-> FALSE]
    /\ buffered_data_in_valid = FALSE
    /\ buffered_data_in = [word |-> Zero, bad_parity |-> FALSE, timeout |-> FALSE]
    /\ ack_shift = [b \in 0 .. 2 |-> FALSE] /\ confstat_shift = [b \in 0 .. 2 |-> FALSE]
    /\ transfer_req = FALSE /\ command_data = FALSE

-----------------------------------------------------------------------------
(* Frames: a word followed by its odd parity bit.                           *)

Ones(word) == Cardinality({b \in 1 .. WordLength : word[b]})
ParityBit(word) == Ones(word) % 2 = 0
FrameOf(word) == Append(word, ParityBit(word))
WordOf(frame) == SubSeq(frame, 1, WordLength)

ParityError(frame) == ParityBit(WordOf(frame)) # frame[FrameLength]

-----------------------------------------------------------------------------
(* Register accesses.                                                      *)

NoAccess == [kind |-> "none"]
WriteCommand(word, query) == [kind |-> "write", value |-> [word |-> word, query |-> query]]
ReadAnswer == [kind |-> "read"]

-----------------------------------------------------------------------------
(* The state machine.                                                      *)

AckSeen == ack_shift[0]
Counted == IF cycle_count <= BitTimeout THEN cycle_count + 1 ELSE cycle_count
TimedOut == cycle_count = BitTimeout

\* State 0: wait for a word to send.
Start ==
    /\ state = 0
    /\ IF buffered_data_out_valid
       THEN /\ data_out' = FrameOf(buffered_data_out.word)
            /\ is_query' = buffered_data_out.query
            /\ state' = 1 /\ reading' = FALSE /\ bit_count' = 0 /\ cycle_count' = 0
       ELSE /\ cycle_count' = Counted
            /\ UNCHANGED <<state, reading, is_query, bit_count, data_out>>
    /\ transfer_req' = FALSE /\ command_data' = FALSE
    /\ UNCHANGED data_in

\* State 1: present a bit, or get ready for one, then raise the request.
PresentBit ==
    /\ state = 1
    /\ IF cycle_count = 0 /\ ~reading
       THEN command_data' = Head(data_out) /\ data_out' = Tail(data_out)
       ELSE UNCHANGED <<command_data, data_out>>
    /\ bit_count' = IF cycle_count = 0 THEN bit_count + 1 ELSE bit_count
    /\ IF cycle_count = DataSetup
       THEN transfer_req' = TRUE /\ state' = 2 /\ cycle_count' = 0
       ELSE cycle_count' = Counted /\ UNCHANGED <<transfer_req, state>>
    /\ UNCHANGED <<reading, is_query, data_in>>

\* State 2: wait for the acknowledge; take the drive's bit with it.
AwaitAck ==
    /\ state = 2
    /\ IF AckSeen
       THEN /\ state' = 3 /\ cycle_count' = 0
            /\ data_in' = IF reading THEN Append(Tail(data_in), confstat_shift[0]) ELSE data_in
       ELSE /\ state' = IF TimedOut THEN 0 ELSE 2
            /\ cycle_count' = Counted
            /\ UNCHANGED data_in
    /\ UNCHANGED <<reading, is_query, bit_count, data_out, transfer_req, command_data>>

\* State 3: hold the request a little longer.
HoldRequest ==
    /\ state = 3
    /\ IF cycle_count = AckToNreq
       THEN transfer_req' = FALSE /\ state' = 4 /\ cycle_count' = 0
       ELSE cycle_count' = Counted /\ UNCHANGED <<transfer_req, state>>
    /\ UNCHANGED <<reading, is_query, bit_count, data_out, data_in, command_data>>

LastBit == bit_count = FrameLength

\* What follows a bit: the next one, the answer's first one, or the end.
\* (Seeded fault: NextBitKeepsCount starts reading without clearing bit_count.)
NextBitKeepsCount ==
    /\ state' = IF LastBit /\ (reading \/ ~is_query) THEN 0 ELSE 1
    /\ reading' = (reading \/ (LastBit /\ is_query))
    /\ cycle_count' = 0
    /\ UNCHANGED bit_count
NextBit ==
    /\ state' = IF LastBit /\ (reading \/ ~is_query) THEN 0 ELSE 1
    /\ reading' = (reading \/ (LastBit /\ is_query))
    /\ bit_count' = IF LastBit /\ ~reading /\ is_query THEN 0 ELSE bit_count
    /\ cycle_count' = 0

\* State 4: wait for the drive to let go of the bit.
\* (Seeded fault: ReleaseUnawaited does not wait.)
ReleaseUnawaited ==
    /\ state = 4
    /\ NextBit
    /\ UNCHANGED <<is_query, data_out, data_in, transfer_req, command_data>>
AwaitRelease ==
    /\ state = 4
    /\ IF ~AckSeen THEN NextBit
       ELSE /\ state' = IF TimedOut THEN 0 ELSE 4
            /\ cycle_count' = Counted
            /\ UNCHANGED <<reading, bit_count>>
    /\ UNCHANGED <<is_query, data_out, data_in, transfer_req, command_data>>

\* The clock on which state 2 or 4 gives the word up.
GivesUp == TimedOut /\ \/ state = 2 /\ ~AckSeen
                       \/ state = 4 /\ AckSeen

\* What the clock posts for the program.
\* (Seeded fault: PostsLateAcksOnly posts nothing when the drive does not let go.)
Completes == state = 4 /\ ~AckSeen /\ LastBit /\ reading
PostsLateAcksOnly == Completes \/ (GivesUp /\ state = 2 /\ is_query)
Posts == Completes \/ (GivesUp /\ is_query)
Posted == IF GivesUp THEN [word |-> Zero, bad_parity |-> FALSE, timeout |-> TRUE]
          ELSE [word |-> WordOf(data_in), bad_parity |-> ParityError(data_in),
                timeout |-> FALSE]

-----------------------------------------------------------------------------
(* One clock, with the drive's lines and the program's register access.     *)

Clock(ack, confstat, access) ==
    /\ Start \/ PresentBit \/ AwaitAck \/ HoldRequest \/ AwaitRelease
    /\ buffered_data_in' = IF Posts THEN Posted ELSE buffered_data_in
    \* Reading the answer clears the flag even on the clock that posts another.
    /\ buffered_data_in_valid' = (access.kind # "read" /\ (buffered_data_in_valid \/ Posts))
    /\ buffered_data_out_valid' =
           (access.kind = "write" \/ (buffered_data_out_valid /\ state # 0))
    /\ buffered_data_out' = IF access.kind = "write" THEN access.value ELSE buffered_data_out
    /\ ack_shift' = [b \in 0 .. 2 |-> IF b = 2 THEN ack ELSE ack_shift[b + 1]]
    /\ confstat_shift' = [b \in 0 .. 2 |-> IF b = 2 THEN confstat ELSE confstat_shift[b + 1]]
=============================================================================
