---------------------------- MODULE SerialLink ----------------------------
(***************************************************************************)
(* The command controller together with its two neighbours: the drive at   *)
(* the other end of the handshake, and software/serial_command.c, whose    *)
(* serial_query and serial_command hand it words and poll for the answer.  *)
(*                                                                         *)
(* A query is a word whose first bit is set.  The drive answers it with    *)
(* any word; it may be as slow as it likes, or never acknowledge.          *)
(***************************************************************************)
EXTENDS CmdController, SequencesExt

CONSTANTS
    MaxCalls,       \* how many words the program issues
    Retries,        \* serial_retries
    MaxFlips        \* answer bits that arrive wrong

ASSUME CallAssumption == {MaxCalls, Retries, MaxFlips} \subseteq Nat /\ Retries > 0

VARIABLES
    ack, confstat,      \* the drive's lines
    got,                \* bits of the word that the drive is receiving
    toSend,             \* bits of its answer still to send
    pc, call, tries,    \* the program: place, the word it is about to issue, retries left
    result,             \* how the last serial_query returned
    issued,             \* history: the words written to the controller
    received,           \* history: the words that the drive received whole
    given,              \* history: the drive's last answer
    flips,              \* history: answer bits that arrived wrong
    gaveUp,             \* history: the controller gave a word up ...
    adrift,             \* history: ... and then started another one
    owed,               \* history: answers still to be posted to queries issued
    doubtful            \* history: there were some when the last query drained the register

drive == <<ack, confstat, got, toSend>>
program == <<pc, call, tries, result>>
driveHistory == <<received, given, flips>>
linkHistory == <<gaveUp, adrift>>
vars == <<cmdVars, drive, program, issued, driveHistory, linkHistory, owed, doubtful>>

IsQuery(word) == word[1]
Result(kind) == [kind |-> kind, word |-> Zero]

TypeOK ==
    /\ CmdTypeOK
    /\ ack \in BOOLEAN /\ confstat \in Bit
    /\ got \in Seq(Bit) /\ Len(got) <= FrameLength
    /\ toSend \in Seq(Bit) /\ Len(toSend) <= FrameLength
    /\ pc \in {"idle", "ready", "drain", "write", "await"}
    /\ call \in Word /\ tries \in 0 .. Retries
    /\ result \in [kind : {"none", "ok", "error"}, word : Word]
    /\ issued \in Seq(Word) /\ received \in Seq(Word) /\ given \in Word
    /\ flips \in 0 .. MaxFlips /\ owed \in Nat
    /\ {gaveUp, adrift, doubtful} \subseteq BOOLEAN

Init ==
    /\ CmdInit
    /\ ack = FALSE /\ confstat = FALSE /\ got = <<>> /\ toSend = <<>>
    /\ pc = "idle" /\ call = Zero /\ tries = 0 /\ result = Result("none")
    /\ issued = <<>> /\ received = <<>> /\ given = Zero
    /\ flips = 0 /\ gaveUp = FALSE /\ adrift = FALSE /\ owed = 0 /\ doubtful = FALSE

-----------------------------------------------------------------------------
(* The drive: it samples the command data, or presents a bit of its answer, *)
(* when it acknowledges a request.                                          *)

Acknowledge ==
    /\ transfer_req /\ ~ack
    /\ ack' = TRUE
    /\ UNCHANGED <<cmdVars, program, issued, linkHistory, owed, doubtful>>

ReceiveBit ==
    /\ Acknowledge
    /\ toSend = <<>>
    /\ LET frame == Append(got, command_data)
           whole == Len(frame) = FrameLength
           word == WordOf(frame)
       IN  /\ got' = IF whole THEN <<>> ELSE frame
           /\ received' = IF whole THEN Append(received, word) ELSE received
           /\ IF whole /\ IsQuery(word)
              THEN \E answer \in Word : given' = answer /\ toSend' = FrameOf(answer)
              ELSE UNCHANGED <<given, toSend>>
    /\ UNCHANGED <<confstat, flips>>

SendBit ==
    /\ Acknowledge
    /\ toSend # <<>>
    /\ \E flip \in BOOLEAN :
          /\ flip => flips < MaxFlips
          /\ flips' = IF flip THEN flips + 1 ELSE flips
          /\ confstat' = IF flip THEN ~Head(toSend) ELSE Head(toSend)
    /\ toSend' = Tail(toSend)
    /\ UNCHANGED <<got, received, given>>

Release ==
    /\ ~transfer_req /\ ack
    /\ ack' = FALSE
    /\ UNCHANGED <<cmdVars, program, issued, driveHistory, linkHistory, owed, doubtful,
                   confstat, got, toSend>>

Drive == ReceiveBit \/ SendBit \/ Release

-----------------------------------------------------------------------------
(* A clock of the controller, with the program's register access.           *)

Turn(access) ==
    /\ Clock(ack, confstat, access)
    /\ gaveUp' = (gaveUp \/ GivesUp)
    /\ adrift' = (adrift \/ (gaveUp /\ state = 0 /\ buffered_data_out_valid))
    /\ UNCHANGED <<drive, driveHistory>>

Delivered == IF Posts THEN owed - 1 ELSE owed

Tick ==
    /\ Turn(NoAccess)
    /\ owed' = Delivered
    /\ UNCHANGED <<program, issued, doubtful>>

-----------------------------------------------------------------------------
(* serial_query_with_retries, serial_query and serial_command.              *)

\* A status poll: it takes a clock and does not change a register.
Poll(from, to) ==
    /\ pc = from
    /\ Turn(NoAccess)
    /\ owed' = Delivered
    /\ pc' = to

Call ==
    /\ Len(issued) < MaxCalls
    /\ Poll("idle", "ready")
    /\ call' \in Word
    /\ tries' = Retries
    /\ result' = Result("none")
    /\ UNCHANGED <<issued, doubtful>>

\* serial_query_with_retries goes round again; serial_command has no retries.
Fail == IF IsQuery(call) /\ tries > 1 /\ Len(issued) < MaxCalls
        THEN pc' = "ready" /\ tries' = tries - 1 /\ UNCHANGED <<call, result>>
        ELSE pc' = "idle" /\ result' = Result("error") /\ UNCHANGED <<call, tries>>

\* Wait for module to be ready.
BecomesReady ==
    /\ ~buffered_data_out_valid
    /\ Poll("ready", IF IsQuery(call) THEN "drain" ELSE "write")
    /\ UNCHANGED <<call, tries, result, issued, doubtful>>

\* Serial interface never became ready.
NeverReady ==
    /\ pc = "ready"
    /\ buffered_data_out_valid
    /\ Turn(NoAccess)
    /\ owed' = Delivered
    /\ Fail
    /\ UNCHANGED <<issued, doubtful>>

\* Read any leftover response that may be present.
\* (Seeded fault: IgnoreLeftover leaves it in the register.)
IgnoreLeftover ==
    /\ Poll("drain", "write")
    /\ doubtful' = (owed > 0)
    /\ UNCHANGED <<call, tries, result, issued>>
DrainLeftover ==
    /\ pc = "drain"
    /\ Turn(IF buffered_data_in_valid THEN ReadAnswer ELSE NoAccess)
    /\ owed' = Delivered
    /\ doubtful' = (owed > 0)
    /\ pc' = "write"
    /\ UNCHANGED <<call, tries, result, issued>>

\* Issue the command.  serial_command returns at once, whatever becomes of it.
Issue ==
    /\ pc = "write"
    /\ Turn(WriteCommand(call, IsQuery(call)))
    /\ owed' = IF IsQuery(call) THEN Delivered + 1 ELSE Delivered
    /\ issued' = Append(issued, call)
    /\ pc' = IF IsQuery(call) THEN "await" ELSE "idle"
    /\ UNCHANGED <<call, tries, result, doubtful>>

\* Wait for response to arrive and read.  What is read is in the register already.
TakeAnswer ==
    /\ pc = "await"
    /\ buffered_data_in_valid
    /\ Turn(ReadAnswer)
    /\ owed' = Delivered
    /\ IF buffered_data_in.bad_parity \/ buffered_data_in.timeout THEN Fail
       ELSE /\ pc' = "idle"
            /\ result' = [kind |-> "ok", word |-> buffered_data_in.word]
            /\ UNCHANGED <<call, tries>>
    /\ UNCHANGED <<issued, doubtful>>

\* Device did not respond (within 1 s): the answer is still owed.
NoResponse ==
    /\ pc = "await"
    /\ ~buffered_data_in_valid
    /\ Turn(NoAccess)
    /\ owed' = Delivered
    /\ Fail
    /\ UNCHANGED <<issued, doubtful>>

Polls == BecomesReady \/ DrainLeftover \/ Issue \/ TakeAnswer
GivesUpWaiting == NeverReady \/ NoResponse

Next == Drive \/ Tick \/ Call \/ Polls \/ GivesUpWaiting

Spec == Init /\ [][Next]_vars

\* The clock never stops and the program polls; of the drive nothing is assumed,
\* and that the program gives up waiting is never needed.
FairSpec == Spec /\ WF_vars(Tick) /\ WF_vars(Polls)

-----------------------------------------------------------------------------
(* What the program relies on.                                             *)

\* The drive takes in exactly the words that were issued, bit by bit and in order,
\* however slow it is and however the next word is queued behind the last: until
\* the controller gives a word up and starts another one on a drive that still
\* waits for the rest.
DriveGetsWords == ~adrift => IsPrefix(received, issued)

\* A query that returns without an error returns what the drive answered to that
\* very query: a wrong bit is caught by the parity, a lost handshake is flagged,
\* the late answer to an abandoned query is drained ("Read any leftover response
\* that may be present", serial_command.c:45) if it came before the drain.  Exempt is
\* a query issued while an earlier answer was still owed: it takes that one, and
\* leaves its own to the next query.
AnswerIsOwn ==
    result.kind = "ok" /\ ~adrift /\ ~doubtful =>
        /\ Len(received) = Len(issued)
        /\ Last(received) = call
        /\ result.word = given

\* Every call returns, from a drive that stops acknowledging at any point, without
\* its own timeouts: the controller's bit timeout answers every query.
EveryCallReturns == pc # "idle" ~> pc = "idle"
=============================================================================
