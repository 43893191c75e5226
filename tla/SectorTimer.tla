---------------------------- MODULE SectorTimer ----------------------------
(***************************************************************************)
(* hdl/axi_esdi_sector_timing.v: the sector timer.  It counts index and    *)
(* sector pulses, takes the next sector number to read from its task FIFO  *)
(* and opens the read gate during the address window and the data window   *)
(* of a sector whose number is the current task's.                         *)
(*                                                                         *)
(* One step is one clock.  Its inputs are the pulses (the edges that the   *)
(* majority filters let through) and the register write, if any, that the  *)
(* bus completes on that clock.  All assignments are non-blocking: they    *)
(* read the old values, and the last one of a register wins.               *)
(***************************************************************************)
EXTENDS Integers, Sequences

CONSTANTS
    AddressAssert, AddressDeassert,     \* registers 2 and 3: the address window
    DataAssert, DataDeassert,           \* registers 4 and 5: the data window
    SoftSectors,                        \* values control bit 5 may be configured with
    CounterMod,                         \* 2^16: sector_counter wraps
    TaskSlots                           \* how many tasks the FIFO holds

ASSUME WindowAssumption ==
    /\ {AddressAssert, AddressDeassert, DataAssert, DataDeassert} \subseteq Nat
    /\ 0 < AddressAssert /\ AddressAssert < AddressDeassert
    /\ AddressDeassert < DataAssert /\ DataAssert < DataDeassert
ASSUME TimerAssumption ==
    /\ SoftSectors \subseteq BOOLEAN
    /\ CounterMod \in Nat /\ CounterMod > 1
    /\ TaskSlots \in Nat /\ TaskSlots > 0

VARIABLES
    control,                \* enable, soft_reset, the areas to read, soft_sector_enable
    cycle_count,            \* clocks since the last pulse
    sector_counter,         \* sector under the heads
    sector_reached,         \* it is the one the last task asked for
    task_write_valid, task_write_data,      \* the word on its way into the FIFO
    tasks,                                  \* the FIFO
    current_task_valid, current_task_data,  \* the task waiting for its sector
    next_ame_countdown,
    esdi_read_gate, esdi_address_mark_enable

gating == <<cycle_count, sector_counter, sector_reached, next_ame_countdown,
            esdi_read_gate, esdi_address_mark_enable>>
tasking == <<task_write_valid, task_write_data, tasks, current_task_valid,
             current_task_data>>
timerVars == <<control, gating, tasking>>

\* cycle_count only matters up to the last register it is compared with: the
\* model stops counting there (the 32-bit counter would wrap after 43 s).
CycleBound == DataDeassert + 1

\* Control bit 5: the drive reports address marks instead of sector pulses.
SoftSector == control.soft_sector_enable

ControlType == [enable : BOOLEAN, soft_reset : BOOLEAN, read_address_area : BOOLEAN,
                read_data_areas : BOOLEAN, soft_sector_enable : BOOLEAN]
CounterValue == 0 .. CounterMod - 1

TimerTypeOK ==
    /\ control \in ControlType
    /\ cycle_count \in 0 .. CycleBound
    /\ sector_counter \in CounterValue
    /\ sector_reached \in BOOLEAN
    /\ task_write_valid \in BOOLEAN /\ task_write_data \in CounterValue
    /\ tasks \in Seq(CounterValue) /\ Len(tasks) <= TaskSlots
    /\ current_task_valid \in BOOLEAN /\ current_task_data \in CounterValue
    /\ next_ame_countdown \in 0 .. DataDeassert
    /\ esdi_read_gate \in BOOLEAN /\ esdi_address_mark_enable \in BOOLEAN

\* After reset and datapath_configure; the registers without a reset value start
\* at the 0 of the bitstream.
TimerInit ==
    /\ control \in [enable : {FALSE}, soft_reset : {FALSE},
                    read_address_area : {FALSE}, read_data_areas : {FALSE},
                    soft_sector_enable : SoftSectors]
    /\ cycle_count = 0
    /\ sector_counter = 0
    /\ sector_reached = FALSE
    /\ task_write_valid = FALSE /\ task_write_data = 0
    /\ tasks = <<>>
    /\ current_task_valid = FALSE /\ current_task_data = 0
    /\ next_ame_countdown = 0
    /\ esdi_read_gate = FALSE
    /\ esdi_address_mark_enable = FALSE

-----------------------------------------------------------------------------
(* Register writes.                                                        *)

NoWrite == [reg |-> "none"]
WriteControl(c) == [reg |-> "control", value |-> c]
WriteTask(n) == [reg |-> "task", value |-> n]

-----------------------------------------------------------------------------
(* The task FIFO and the current task.                                     *)

TaskReady == Len(tasks) < TaskSlots

\* The pulse of this clock starts the sector the current task waits for.
Reaches(number) == current_task_valid /\ current_task_data = number

\* A sector pulse announces the next number.  In soft-sector mode the index only
\* prepares the count: the first address mark then makes it 0.
\* (Seeded fault: IncrementedUnwrapped is a counter that does not wrap.)
IncrementedUnwrapped == sector_counter + 1
Incremented == (sector_counter + 1) % CounterMod

\* (Seeded fault: StartsByMarkOnly forgets that an index pulse starts sector 0.)
StartsByMarkOnly(index, sector) == sector /\ Reaches(Incremented)
Starts(index, sector) ==
    \/ sector /\ Reaches(Incremented)
    \/ index /\ ~sector /\ ~SoftSector /\ Reaches(0)

\* A task is used up when its pulse comes.  When both pulses fall on one clock the
\* index uses task 0 up, but it is the sector pulse that decides sector_reached.
Consumes(index, sector) ==
    \/ sector /\ Reaches(Incremented)
    \/ index /\ ~SoftSector /\ Reaches(0)

CurrentTask(loads, index, sector) ==
    /\ ~control.soft_reset
    /\ \/ loads
       \/ current_task_valid /\ ~(control.enable /\ Consumes(index, sector))

Tasking(index, sector, write) ==
    LET loads == control.enable /\ ~current_task_valid /\ tasks # <<>>
        accepts == task_write_valid /\ TaskReady
        kept == IF loads THEN Tail(tasks) ELSE tasks
    IN  /\ tasks' = IF control.soft_reset THEN <<>>
                    ELSE IF accepts THEN Append(kept, task_write_data) ELSE kept
        /\ current_task_valid' = CurrentTask(loads, index, sector)
        /\ current_task_data' = IF loads THEN Head(tasks) ELSE current_task_data
        /\ task_write_valid' = \/ write.reg = "task"
                               \/ task_write_valid /\ ~TaskReady /\ ~control.soft_reset
        /\ task_write_data' = IF write.reg = "task" THEN write.value ELSE task_write_data

-----------------------------------------------------------------------------
(* Counting and gating.                                                    *)

Opens == /\ sector_reached
         /\ \/ cycle_count = AddressAssert /\ control.read_address_area
            \/ cycle_count = DataAssert /\ control.read_data_areas

\* The search for an address mark begins so many clocks after the last one: when
\* the data window has closed.
\* (Seeded fault: SearchFromDataAssert begins it one register early.)
SearchAfter(delay, sector) ==
    /\ esdi_address_mark_enable' =
           (~sector /\ (esdi_address_mark_enable \/ (SoftSector /\ next_ame_countdown = 0)))
    /\ next_ame_countdown' = IF sector THEN delay
                             ELSE IF next_ame_countdown > 0 THEN next_ame_countdown - 1
                             ELSE 0
SearchFromDataAssert(sector) == SearchAfter(DataAssert, sector)
MarkSearch(sector) == SearchAfter(DataDeassert, sector)

\* (Seeded fault: CloseAtDataEnd forgets the end of the address window.)
CloseAtDataEnd == cycle_count = DataDeassert
Closes == cycle_count \in {AddressDeassert, DataDeassert}

Counting(index, sector) ==
    /\ cycle_count' = IF index \/ sector THEN 0
                      ELSE IF cycle_count < CycleBound THEN cycle_count + 1
                      ELSE cycle_count
    /\ sector_counter' = IF sector THEN Incremented
                         ELSE IF ~index THEN sector_counter
                         ELSE IF SoftSector THEN CounterMod - 1 ELSE 0
    /\ sector_reached' = IF sector \/ (index /\ ~SoftSector) THEN Starts(index, sector)
                        ELSE sector_reached
    /\ esdi_read_gate' = (Opens \/ (esdi_read_gate /\ ~Closes))
    /\ MarkSearch(sector)

\* Disabled: pulses are not counted, the gate is cut at once.
\* (Seeded fault: IdleWithGate leaves the gate as it is.)
IdleWithGate ==
    /\ esdi_address_mark_enable' = FALSE
    /\ next_ame_countdown' = 0
    /\ sector_reached' = FALSE
    /\ UNCHANGED <<cycle_count, sector_counter, esdi_read_gate>>
Idling ==
    /\ esdi_read_gate' = FALSE
    /\ esdi_address_mark_enable' = FALSE
    /\ next_ame_countdown' = 0
    /\ sector_reached' = FALSE
    /\ UNCHANGED <<cycle_count, sector_counter>>

Clock(index, sector, write) ==
    /\ IF control.enable THEN Counting(index, sector) ELSE Idling
    /\ Tasking(index, sector, write)
    /\ control' = IF write.reg = "control" THEN write.value ELSE control
=============================================================================
