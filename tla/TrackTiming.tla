---------------------------- MODULE TrackTiming ----------------------------
(***************************************************************************)
(* The sector timer together with its two neighbours: the disk that turns  *)
(* under the heads, and software/datapath.c, whose read_track_sg restarts  *)
(* the timer, queues one task per sector and waits for the packets.        *)
(*                                                                         *)
(* read_track_sg tells the packets of a pass apart by nothing but their    *)
(* order: descriptor 2n must be sector n's address area and 2n + 1 its     *)
(* data area.  The windows the timer opens have to come in that order.     *)
(***************************************************************************)
EXTENDS SectorTimer

CONSTANTS
    Sectors,            \* physical sectors per track
    MinLength,          \* shortest and longest sector, in clocks: the spindle
    MaxLength,          \*   speed varies
    IndexGap,           \* soft sectors: clocks from the index to the first mark
    Sleep,              \* usleep(10000) before the first task, in clocks
    Passes,             \* how many times read_track_sg runs
    Timeouts            \* in how many passes, the first ones, the wait may be given up

ASSUME DriveAssumption ==
    /\ Sectors \in Nat /\ Sectors > 0
    /\ {MinLength, MaxLength, IndexGap, Sleep, Passes, Timeouts} \subseteq Nat
    \* sector_counter survives a restart: it must not wrap to 0 even when every
    \* index pulse falls into the time the timer is disabled.
    /\ (2 * Passes + 2) * Sectors < CounterMod
    /\ MinLength <= MaxLength
\* The windows end before the shortest sector does, and a soft-sectored drive's
\* first mark comes before the address window would open after the index.
ASSUME FitAssumption ==
    /\ DataDeassert + 2 < MinLength
    /\ 0 < IndexGap /\ IndexGap <= AddressAssert
\* A soft-sectored drive reports at least one mark while the program sleeps.
ASSUME SleepAssumption == TRUE \in SoftSectors => Sleep > MaxLength + IndexGap

VARIABLES
    under,      \* sector under the heads; Gap between the index and the first mark
    offset,     \* clocks since its start
    pc,         \* where read_track_sg is
    task,       \* its loop counter over the sectors
    slept,      \* clocks it has slept, to Sleep
    settling,   \* the bus is completing a transaction: the program waits
    pass,       \* passes begun
    windows,    \* history: the gate openings of this pass, <<under, cycle_count>>
    turns       \* history: index pulses since the pass queued its last task, to 2

spindle == <<under, offset>>
program == <<pc, task, slept, settling, pass>>
history == <<windows, turns>>
vars == <<timerVars, spindle, program, history>>

Gap == Sectors
Sector == 0 .. Sectors - 1

TypeOK ==
    /\ TimerTypeOK
    /\ under \in 0 .. Sectors /\ offset \in 0 .. MaxLength - 1
    /\ pc \in {"idle", "disable", "reset", "unreset", "enable", "sleep", "queue",
               "wait", "stopDisable", "stopReset", "stopUnreset", "stopEnable"}
    /\ task \in 0 .. Sectors
    /\ slept \in 0 .. Sleep
    /\ settling \in BOOLEAN
    /\ pass \in 0 .. Passes
    /\ turns \in 0 .. 2

\* The program starts at any moment of a revolution with datapath_start, which
\* resets and enables the timer as the end of a pass does.
Init ==
    /\ TimerInit
    /\ under \in Sector /\ offset \in 0 .. MinLength - 1
    /\ pc = "stopReset"
    /\ task = 0
    /\ slept = 0
    /\ settling = FALSE
    /\ pass = 0
    /\ windows = <<>>
    /\ turns = 0

-----------------------------------------------------------------------------
(* The disk.  A hard-sectored drive marks sector 0 with the index pulse and *)
(* the others with sector pulses; a soft-sectored one pulses the index some *)
(* time before sector 0 and reports an address mark as a sector pulse, when *)
(* the timer has enabled the search for it.                                 *)

MayEnd == offset + 1 >= (IF under = Gap THEN IndexGap ELSE MinLength)
MustEnd == offset + 1 >= (IF under = Gap THEN IndexGap ELSE MaxLength)

Following == IF under = Gap THEN 0
             ELSE IF under < Sectors - 1 THEN under + 1
             ELSE IF SoftSector THEN Gap ELSE 0

IndexPulse(ends) == ends /\ under = Sectors - 1
SectorPulse(ends) ==
    /\ ends
    /\ IF SoftSector THEN under # Sectors - 1 /\ esdi_address_mark_enable
       ELSE under # Sectors - 1

Spin(ends) ==
    /\ ends => MayEnd
    /\ ~ends => ~MustEnd
    /\ under' = IF ends THEN Following ELSE under
    /\ offset' = IF ends THEN 0 ELSE offset + 1

-----------------------------------------------------------------------------
(* One clock of timer and disk, with the program's register write.          *)

Turn(ends, write, newPass) ==
    /\ Spin(ends)
    /\ Clock(IndexPulse(ends), SectorPulse(ends), write)
    /\ windows' = IF newPass THEN <<>>
                  ELSE IF esdi_read_gate' /\ ~esdi_read_gate
                  THEN Append(windows, <<under, cycle_count>>) ELSE windows
    /\ turns' = IF newPass THEN 0
                ELSE IF IndexPulse(ends) /\ pc = "wait" /\ turns < 2 THEN turns + 1
                ELSE turns

\* Time passes; a transaction on the bus completes.
Tick == /\ \E ends \in BOOLEAN : Turn(ends, NoWrite, FALSE)
        /\ settling' = FALSE
        /\ slept' = IF pc = "sleep" /\ slept < Sleep THEN slept + 1 ELSE slept
        /\ UNCHANGED <<pc, task, pass>>

\* The program goes from one place to the next with a register write.  The next
\* step waits until the bus has completed it.
Step(from, to, write) ==
    /\ pc = from
    /\ ~settling
    /\ \E ends \in BOOLEAN : Turn(ends, write, FALSE)
    /\ pc' = to
    /\ settling' = TRUE

Enabled(value) == WriteControl([control EXCEPT !.enable = value])
SoftReset(value) == WriteControl([control EXCEPT !.soft_reset = value])

-----------------------------------------------------------------------------
(* read_track_sg                                                            *)

\* datapath_sector_timer_set_address_area_enable and ..._data_area_enable.
BeginPass ==
    /\ pc = "idle" /\ ~settling
    /\ pass < Passes
    /\ \E ends \in BOOLEAN :
          Turn(ends, WriteControl([control EXCEPT !.read_address_area = TRUE,
                                                  !.read_data_areas = TRUE]), TRUE)
    /\ pc' = "disable"
    /\ settling' = TRUE
    /\ pass' = pass + 1
    /\ UNCHANGED <<task, slept>>

Write(from, to, write) == Step(from, to, write) /\ UNCHANGED <<task, slept, pass>>

Disable == Write("disable", "reset", Enabled(FALSE))
Reset == Write("reset", "unreset", SoftReset(TRUE))
Unreset == Write("unreset", "enable", SoftReset(FALSE))

\* (Seeded fault: EnableWithoutSleep queues the first task at once.)
EnableWithoutSleep ==
    /\ Step("enable", "queue", Enabled(TRUE))
    /\ task' = 0
    /\ UNCHANGED <<slept, pass>>
Enable ==
    /\ Step("enable", "sleep", Enabled(TRUE))
    /\ slept' = 0
    /\ UNCHANGED <<task, pass>>

\* The DMA is started and gets its descriptors, then the program sleeps.
Wake ==
    /\ slept = Sleep
    /\ Step("sleep", "queue", NoWrite)
    /\ task' = 0
    /\ UNCHANGED <<slept, pass>>

\* One task per sector, in order, while the timer can take it.
QueueTask ==
    /\ task < Sectors /\ ~task_write_valid
    /\ Step("queue", "queue", WriteTask(task))
    /\ task' = task + 1
    /\ UNCHANGED <<slept, pass>>

\* All tasks are queued, or "Sector timer FIFO is full!".
EndQueue ==
    /\ task = Sectors \/ task_write_valid
    /\ Write("queue", "wait", NoWrite)

AllRead == Len(windows) = 2 * Sectors /\ ~esdi_read_gate

\* The DMA has completed the last descriptor, or the wait is given up after 3 s.
EndWait ==
    /\ AllRead \/ pass <= Timeouts
    /\ Write("wait", "stopDisable", NoWrite)

StopDisable == Write("stopDisable", "stopReset", Enabled(FALSE))
StopReset == Write("stopReset", "stopUnreset", SoftReset(TRUE))
StopUnreset == Write("stopUnreset", "stopEnable", SoftReset(FALSE))
StopEnable == Write("stopEnable", "idle", Enabled(TRUE))

Program == BeginPass \/ Disable \/ Reset \/ Unreset \/ Enable \/ Wake \/ QueueTask \/ EndQueue
           \/ EndWait \/ StopDisable \/ StopReset \/ StopUnreset \/ StopEnable

Next == Tick \/ Program

Spec == Init /\ [][Next]_vars

\* The clock never stops, the program is scheduled eventually.
FairSpec == Spec /\ WF_vars(Tick) /\ WF_vars(Program)

-----------------------------------------------------------------------------
(* What read_track_sg relies on.                                            *)

ExpectedWindow(n) == <<(n - 1) \div 2, IF n % 2 = 1 THEN AddressAssert ELSE DataAssert>>

\* The n-th packet of a pass is the area that descriptor n is taken for: address
\* and data area of sector 0, then of sector 1, ... none twice, none skipped, no
\* window of a neighbouring sector, wherever in a revolution the pass began and
\* whatever the timer was doing before (a pass that timed out leaves tasks).
PacketsInOrder == \A n \in 1 .. Len(windows) : windows[n] = ExpectedWindow(n)

\* The gate is open only inside the window and over the sector it was opened for:
\* it never runs on into the next sector, across the index or over a restart.
GateInsideWindow ==
    esdi_read_gate =>
        /\ \/ cycle_count \in AddressAssert + 1 .. AddressDeassert
           \/ cycle_count \in DataAssert + 1 .. DataDeassert
        /\ windows # <<>> => windows[Len(windows)][1] = under

\* The drive is never asked to search for an address mark while it is being read:
\* the search waits until the data window of the sector has closed.
SearchOrRead == ~(esdi_address_mark_enable /\ esdi_read_gate)

\* Once its tasks are queued a pass needs two index pulses at most, however late
\* the queueing was: the 3 s that read_track_sg waits are only for a dead drive.
TwoTurnsSuffice == pc = "wait" /\ task = Sectors /\ turns = 2 => AllRead

\* And it does come to that: a pass that is not given up gets all its packets, even
\* after passes that were.
EveryPassCompletes == pc = "wait" /\ pass > Timeouts /\ task = Sectors ~> AllRead
=============================================================================
