------------------------- MODULE TrackTimingProofs -------------------------
(***************************************************************************)
(* For every geometry, every setting of the windows, every spindle and     *)
(* every number of passes, given up anywhere: the timer's registers stay   *)
(* in range, the gate is open only inside its window and over its sector,  *)
(* and no address mark is searched for meanwhile.                          *)
(*                                                                         *)
(* The argument.  cycle_count and next_ame_countdown keep still while the  *)
(* timer is disabled and the disk does not: they tell nothing of where the *)
(* heads are, except when sector_reached is set.  That bit is only set on  *)
(* a pulse, which clears the counter, and is lost when the timer is        *)
(* disabled; so as long as it is set the counters are the disk's.          *)
(***************************************************************************)
EXTENDS TrackTiming, TLAPS

\* The timer counts in step with the disk.
Elapsed == IF offset < CycleBound THEN offset ELSE CycleBound
Remaining == IF offset < DataDeassert THEN DataDeassert - offset ELSE 0

InStep ==
    sector_reached =>
        /\ cycle_count = Elapsed
        /\ SoftSector /\ under = Gap => esdi_address_mark_enable
        /\ SoftSector /\ under # Gap =>
              /\ next_ame_countdown = Remaining
              /\ esdi_address_mark_enable <=> offset > DataDeassert

InWindow == \/ cycle_count \in AddressAssert + 1 .. AddressDeassert
            \/ cycle_count \in DataAssert + 1 .. DataDeassert

GateInv ==
    esdi_read_gate =>
        /\ sector_reached /\ under # Gap
        /\ InWindow
        /\ windows # <<>> => windows[Len(windows)][1] = under

DiskInv ==
    /\ under = Gap => SoftSector /\ offset < IndexGap
    /\ ~SoftSector => ~esdi_address_mark_enable
    /\ windows \in Seq((0 .. Sectors) \X (0 .. CycleBound))

IInv == TypeOK /\ DiskInv /\ InStep /\ GateInv

LEMMA Numbers ==
    /\ AddressAssert \in Nat /\ AddressDeassert \in Nat /\ DataAssert \in Nat
    /\ DataDeassert \in Nat
    /\ 0 < AddressAssert /\ AddressAssert < AddressDeassert
    /\ AddressDeassert < DataAssert /\ DataAssert < DataDeassert
    /\ CycleBound = DataDeassert + 1
    /\ MinLength \in Nat /\ MaxLength \in Nat /\ MinLength <= MaxLength
    /\ DataDeassert + 2 < MinLength
    /\ IndexGap \in Nat /\ 0 < IndexGap /\ IndexGap <= AddressAssert
    /\ Sectors \in Nat /\ Sectors > 0 /\ Gap = Sectors
    /\ Sleep \in Nat /\ Passes \in Nat /\ TaskSlots \in Nat /\ TaskSlots > 0
    /\ CounterMod \in Nat /\ CounterMod > 1 /\ Sectors < CounterMod
<1>1. /\ Sectors \in Nat /\ Sectors > 0 /\ Passes \in Nat /\ CounterMod \in Nat
      /\ (2 * Passes + 2) * Sectors < CounterMod
  BY DriveAssumption, TimerAssumption
<1>2. Passes * Sectors \in Nat /\ (2 * Passes + 2) * Sectors = 2 * (Passes * Sectors) + 2 * Sectors
  BY <1>1
<1>3. Sectors < CounterMod
  BY <1>1, <1>2
<1> QED
  BY <1>1, <1>3, WindowAssumption, TimerAssumption, DriveAssumption, FitAssumption
     DEF CycleBound, Gap

-----------------------------------------------------------------------------
(* Every step is a clock of timer and disk.                                 *)

\* The registers that the program writes: it never changes the sector mode.
GoodWrite(write) ==
    /\ write.reg = "control" =>
          /\ write.value \in ControlType
          /\ write.value.soft_sector_enable = control.soft_sector_enable
    /\ write.reg = "task" => write.value \in CounterValue

LEMMA ControlWrites ==
    ASSUME control \in ControlType, NEW value \in BOOLEAN
    PROVE  /\ GoodWrite(Enabled(value)) /\ GoodWrite(SoftReset(value))
           /\ GoodWrite(WriteControl([control EXCEPT !.read_address_area = TRUE,
                                                     !.read_data_areas = TRUE]))
           /\ GoodWrite(NoWrite)
BY DEF GoodWrite, Enabled, SoftReset, WriteControl, NoWrite, ControlType

LEMMA TaskWrite ==
    ASSUME TypeOK, task < Sectors
    PROVE  GoodWrite(WriteTask(task))
BY Numbers DEF TypeOK, GoodWrite, WriteTask, CounterValue

\* What a write of the program does, whatever the write is.
LEMMA StepTurns ==
    ASSUME NEW from, NEW to, NEW write, Step(from, to, write), GoodWrite(write)
    PROVE  \E w : GoodWrite(w) /\ \E ends, newPass \in BOOLEAN : Turn(ends, w, newPass)
<1>1. PICK ends \in BOOLEAN : Turn(ends, write, FALSE)
  BY DEF Step
<1> QED BY <1>1, Zenon

LEMMA NextTurns ==
    ASSUME TypeOK, Next
    PROVE  \E w : GoodWrite(w) /\ \E ends, newPass \in BOOLEAN : Turn(ends, w, newPass)
<1>1. control \in ControlType /\ TRUE \in BOOLEAN /\ FALSE \in BOOLEAN
  BY DEF TypeOK, TimerTypeOK
<1>2. CASE Tick
  <2>1. PICK ends \in BOOLEAN : Turn(ends, NoWrite, FALSE)
    BY <1>2 DEF Tick
  <2> QED BY <1>1, <2>1, ControlWrites, Zenon
<1>3. CASE BeginPass
  <2>1. PICK ends \in BOOLEAN :
             Turn(ends, WriteControl([control EXCEPT !.read_address_area = TRUE,
                                                     !.read_data_areas = TRUE]), TRUE)
    BY <1>3 DEF BeginPass
  <2> QED BY <1>1, <2>1, ControlWrites, Zenon
<1>4. CASE Disable
  BY <1>1, <1>4, StepTurns, ControlWrites, Zenon DEF Disable, Write
<1>5. CASE Reset
  BY <1>1, <1>5, StepTurns, ControlWrites, Zenon DEF Reset, Write
<1>6. CASE Unreset
  BY <1>1, <1>6, StepTurns, ControlWrites, Zenon DEF Unreset, Write
<1>7. CASE Enable
  BY <1>1, <1>7, StepTurns, ControlWrites, Zenon DEF Enable
<1>8. CASE Wake
  BY <1>1, <1>8, StepTurns, ControlWrites, Zenon DEF Wake
<1>9. CASE QueueTask
  BY <1>9, StepTurns, TaskWrite, Zenon DEF QueueTask
<1>10. CASE EndQueue
  BY <1>1, <1>10, StepTurns, ControlWrites, Zenon DEF EndQueue, Write
<1>11. CASE EndWait
  BY <1>1, <1>11, StepTurns, ControlWrites, Zenon DEF EndWait, Write
<1>12. CASE StopDisable
  BY <1>1, <1>12, StepTurns, ControlWrites, Zenon DEF StopDisable, Write
<1>13. CASE StopReset
  BY <1>1, <1>13, StepTurns, ControlWrites, Zenon DEF StopReset, Write
<1>14. CASE StopUnreset
  BY <1>1, <1>14, StepTurns, ControlWrites, Zenon DEF StopUnreset, Write
<1>15. CASE StopEnable
  BY <1>1, <1>15, StepTurns, ControlWrites, Zenon DEF StopEnable, Write
<1> QED
  BY <1>2, <1>3, <1>4, <1>5, <1>6, <1>7, <1>8, <1>9, <1>10, <1>11, <1>12, <1>13, <1>14,
     <1>15 DEF Next, Program

-----------------------------------------------------------------------------
(* Types.                                                                   *)

\* The registers of the timer, whatever pulses and writes come.
LEMMA TimerTypes ==
    ASSUME TimerTypeOK, NEW index \in BOOLEAN, NEW sector \in BOOLEAN,
           NEW write, GoodWrite(write), Clock(index, sector, write)
    PROVE  TimerTypeOK' /\ SoftSector' = SoftSector
<1>1. control' \in ControlType /\ control'.soft_sector_enable = control.soft_sector_enable
  BY DEF Clock, GoodWrite, TimerTypeOK
<1>2. /\ cycle_count' \in 0 .. CycleBound /\ sector_counter' \in CounterValue
      /\ next_ame_countdown' \in 0 .. DataDeassert
  <2>1. Incremented \in CounterValue /\ 0 \in CounterValue /\ CounterMod - 1 \in CounterValue
    BY Numbers DEF TimerTypeOK, Incremented, CounterValue
  <2>2. CASE control.enable
    <3>1. Counting(index, sector)
      BY <2>2 DEF Clock
    <3>2. cycle_count' \in 0 .. CycleBound
      BY <3>1, Numbers DEF Counting, TimerTypeOK
    <3>3. sector_counter' \in CounterValue
      BY <2>1, <3>1 DEF Counting, TimerTypeOK
    <3>4. next_ame_countdown' \in 0 .. DataDeassert
      BY <3>1, Numbers DEF Counting, MarkSearch, SearchAfter, TimerTypeOK
    <3> QED BY <3>2, <3>3, <3>4
  <2>3. CASE ~control.enable
    BY <2>3, Numbers DEF Clock, Idling, TimerTypeOK
  <2> QED BY <2>2, <2>3
<1>3. sector_reached' \in BOOLEAN
  <2>1. CASE control.enable
    <3>1. Starts(index, sector) \in BOOLEAN
      BY DEF Starts
    <3>2. sector_reached' = IF sector \/ (index /\ ~SoftSector) THEN Starts(index, sector)
                            ELSE sector_reached
      BY <2>1 DEF Clock, Counting
    <3>3. sector_reached \in BOOLEAN
      BY DEF TimerTypeOK
    <3> QED BY <3>1, <3>2, <3>3, Zenon
  <2>2. CASE ~control.enable
    BY <2>2 DEF Clock, Idling
  <2> QED BY <2>1, <2>2
<1>4. esdi_read_gate' \in BOOLEAN
  BY DEF Clock, Counting, Idling
<1>5. esdi_address_mark_enable' \in BOOLEAN
  BY DEF Clock, Counting, Idling, MarkSearch, SearchAfter
<1>6. Tasking(index, sector, write)
  BY DEF Clock
<1>7. current_task_valid' \in BOOLEAN /\ task_write_valid' \in BOOLEAN
  BY <1>6 DEF Tasking, CurrentTask
<1>8. tasks \in Seq(CounterValue) /\ Len(tasks) \in Nat /\ Len(tasks) <= TaskSlots
      /\ task_write_data \in CounterValue /\ current_task_data \in CounterValue
  BY DEF TimerTypeOK
<1>9. task_write_data' \in CounterValue
  BY <1>6, <1>8 DEF Tasking, GoodWrite
<1>10. current_task_data' \in CounterValue
  <2>1. tasks # <<>> => Head(tasks) \in CounterValue
    BY <1>8
  <2> QED BY <1>6, <1>8, <2>1 DEF Tasking
<1>11. tasks' \in Seq(CounterValue) /\ Len(tasks') <= TaskSlots
  <2> DEFINE loads == control.enable /\ ~current_task_valid /\ tasks # <<>>
             kept == IF loads THEN Tail(tasks) ELSE tasks
  <2>1. kept \in Seq(CounterValue) /\ Len(kept) \in Nat /\ Len(kept) <= Len(tasks)
    <3>1. CASE loads
      BY <1>8, <3>1
    <3>2. CASE ~loads
      BY <1>8, <3>2
    <3> QED BY <3>1, <3>2
  <2>2. \/ tasks' = <<>>
        \/ tasks' = Append(kept, task_write_data) /\ Len(tasks) < TaskSlots
        \/ tasks' = kept
    BY <1>6 DEF Tasking, TaskReady
  <2> HIDE DEF kept
  <2>3. CASE tasks' = <<>>
    BY <2>3, Numbers
  <2>4. CASE tasks' = Append(kept, task_write_data) /\ Len(tasks) < TaskSlots
    BY <1>8, <2>1, <2>4, Numbers
  <2>5. CASE tasks' = kept
    BY <1>8, <2>1, <2>5, Numbers
  <2> QED BY <2>2, <2>3, <2>4, <2>5
<1> QED
  BY <1>1, <1>2, <1>3, <1>4, <1>5, <1>7, <1>9, <1>10, <1>11 DEF TimerTypeOK, SoftSector

\* The variables of the program.
LEMMA ProgramTypes ==
    ASSUME TypeOK, Next
    PROVE  /\ pc' \in {"idle", "disable", "reset", "unreset", "enable", "sleep", "queue",
                       "wait", "stopDisable", "stopReset", "stopUnreset", "stopEnable"}
           /\ task' \in 0 .. Sectors
           /\ slept' \in 0 .. Sleep
           /\ pass' \in 0 .. Passes
<1>1. pc' \in {"idle", "disable", "reset", "unreset", "enable", "sleep", "queue",
               "wait", "stopDisable", "stopReset", "stopUnreset", "stopEnable"}
  BY DEF TypeOK, Next, Program, Tick, BeginPass, Disable, Reset, Unreset, Enable, Wake,
         QueueTask, EndQueue, EndWait, StopDisable, StopReset, StopUnreset, StopEnable, Write,
         Step
<1>2. task' \in 0 .. Sectors
  <2>1. task' = task \/ task' = 0 \/ (task' = task + 1 /\ task < Sectors)
    BY DEF Next, Program, Tick, BeginPass, Disable, Reset, Unreset, Enable, Wake,
           QueueTask, EndQueue, EndWait, StopDisable, StopReset, StopUnreset, StopEnable, Write
  <2> QED BY <2>1, Numbers DEF TypeOK
<1>3. slept' \in 0 .. Sleep
  <2>1. slept' = slept \/ slept' = 0 \/ (slept' = slept + 1 /\ slept < Sleep)
    BY DEF Next, Program, Tick, BeginPass, Disable, Reset, Unreset, Enable, Wake,
           QueueTask, EndQueue, EndWait, StopDisable, StopReset, StopUnreset, StopEnable, Write
  <2> QED BY <2>1, Numbers DEF TypeOK
<1>4. pass' \in 0 .. Passes
  <2>1. pass' = pass \/ (pass' = pass + 1 /\ pass < Passes)
    BY DEF Next, Program, Tick, BeginPass, Disable, Reset, Unreset, Enable, Wake,
           QueueTask, EndQueue, EndWait, StopDisable, StopReset, StopUnreset, StopEnable, Write
  <2> QED BY <2>1, Numbers DEF TypeOK
<1> QED BY <1>1, <1>2, <1>3, <1>4

LEMMA SettlingType ==
    ASSUME Next
    PROVE  settling' \in BOOLEAN
BY DEF Next, Program, Tick, BeginPass, Disable, Reset, Unreset, Enable, Wake,
       QueueTask, EndQueue, EndWait, StopDisable, StopReset, StopUnreset, StopEnable, Write, Step

\* The disk.
LEMMA SpinTypes ==
    ASSUME TypeOK, under = Gap => SoftSector /\ offset < IndexGap,
           NEW ends \in BOOLEAN, Spin(ends), SoftSector' = SoftSector
    PROVE  /\ under' \in 0 .. Sectors /\ offset' \in 0 .. MaxLength - 1
           /\ under' = Gap => SoftSector' /\ offset' < IndexGap
<1>1. /\ under \in 0 .. Sectors /\ offset \in 0 .. MaxLength - 1
  BY DEF TypeOK
<1>2. CASE ends
  <2>1. under' = Following /\ offset' = 0
    BY <1>2 DEF Spin
  <2>2. Following \in 0 .. Sectors /\ (Following = Gap => SoftSector)
    BY <1>1, Numbers DEF Following
  <2> QED BY <2>1, <2>2, Numbers
<1>3. CASE ~ends
  <2>1. under' = under /\ offset' = offset + 1
    BY <1>3 DEF Spin
  <2>2. ~(offset + 1 >= (IF under = Gap THEN IndexGap ELSE MaxLength))
    BY <1>3 DEF Spin, MustEnd
  <2> QED BY <1>1, <2>1, <2>2, Numbers
<1> QED BY <1>2, <1>3

\* A pulse is one of the two.
LEMMA Pulses ==
    ASSUME NEW ends \in BOOLEAN
    PROVE  /\ IndexPulse(ends) \in BOOLEAN /\ SectorPulse(ends) \in BOOLEAN
           /\ ~(IndexPulse(ends) /\ SectorPulse(ends))
           /\ IndexPulse(ends) \/ SectorPulse(ends) => ends
           /\ ends /\ ~SoftSector => IndexPulse(ends) \/ SectorPulse(ends)
           /\ ends /\ esdi_address_mark_enable => IndexPulse(ends) \/ SectorPulse(ends)
BY DEF IndexPulse, SectorPulse

-----------------------------------------------------------------------------
(* The counters, and the gate.                                              *)

\* While the gate is open, or opens, the sector goes on.
LEMMA NoPulse ==
    ASSUME IInv, esdi_read_gate \/ Opens, NEW ends \in BOOLEAN, Spin(ends)
    PROVE  /\ ~ends /\ under # Gap /\ sector_reached
           /\ cycle_count = offset /\ offset <= DataDeassert
<1>1. sector_reached /\ cycle_count = Elapsed /\ cycle_count \in Nat /\ offset \in Nat
  BY DEF IInv, TypeOK, TimerTypeOK, GateInv, InStep, Opens
<1>2. cycle_count <= DataDeassert
  BY <1>1, Numbers DEF IInv, GateInv, InWindow, Opens
<1>3. cycle_count = offset
  BY <1>1, <1>2, Numbers DEF Elapsed
<1>4. under # Gap
  <2>1. CASE esdi_read_gate
    BY <2>1 DEF IInv, GateInv
  <2>2. CASE Opens
    BY <1>3, <2>2, Numbers DEF IInv, DiskInv, Opens
  <2> QED BY <2>1, <2>2
<1>5. ~ends
  BY <1>1, <1>2, <1>3, <1>4, Numbers DEF Spin, MayEnd
<1> QED BY <1>1, <1>2, <1>3, <1>4, <1>5

\* A sector that was reached does not end before the timer searches for the next
\* address mark, and a pulse decides about the next one.
LEMMA InStepTurns ==
    ASSUME IInv, NEW ends \in BOOLEAN, NEW newPass \in BOOLEAN, NEW write,
           GoodWrite(write), Turn(ends, write, newPass)
    PROVE  InStep'
<1> DEFINE index == IndexPulse(ends)
           sector == SectorPulse(ends)
<1>1. /\ index \in BOOLEAN /\ sector \in BOOLEAN /\ ~(index /\ sector)
      /\ index \/ sector => ends
      /\ ends /\ ~SoftSector => index \/ sector
      /\ ends /\ esdi_address_mark_enable => index \/ sector
  BY Pulses
<1>2. Spin(ends) /\ Clock(index, sector, write)
  BY DEF Turn
<1>3. SoftSector' = SoftSector
  BY <1>1, <1>2, TimerTypes DEF IInv, TypeOK
<1>4. /\ under \in 0 .. Sectors /\ offset \in Nat /\ cycle_count \in 0 .. CycleBound
      /\ next_ame_countdown \in 0 .. DataDeassert
  BY DEF IInv, TypeOK, TimerTypeOK
<1> SUFFICES ASSUME sector_reached' PROVE InStep'
  BY DEF InStep
<1>5. control.enable /\ Counting(index, sector)
  BY <1>2 DEF Clock, Idling
<1>6. CASE sector
  <2>1. /\ cycle_count' = 0 /\ next_ame_countdown' = DataDeassert
        /\ ~esdi_address_mark_enable' /\ ends
    BY <1>1, <1>5, <1>6 DEF Counting, MarkSearch, SearchAfter
  <2>2. offset' = 0 /\ under' = Following /\ under # Sectors - 1
    BY <1>2, <1>6, <2>1 DEF Spin, SectorPulse
  <2>3. under' # Gap
    BY <1>4, <2>2, Numbers DEF Following
  <2> QED BY <1>3, <2>1, <2>2, <2>3, Numbers DEF InStep, Elapsed, Remaining
<1>7. CASE index /\ ~sector
  <2>1. cycle_count' = 0 /\ ends /\ under = Sectors - 1 /\ offset' = 0
    BY <1>1, <1>2, <1>5, <1>7 DEF Counting, Spin, IndexPulse
  <2>2. CASE ~SoftSector
    BY <1>3, <2>1, <2>2, Numbers DEF InStep, Elapsed
  <2>3. CASE SoftSector
    <3>1. sector_reached
      BY <1>5, <1>7, <2>3 DEF Counting
    <3>2. under' = Gap /\ under # Gap
      BY <1>2, <1>4, <2>1, <2>3, Numbers DEF Spin, Following
    <3>3. offset > DataDeassert
      BY <1>2, <1>4, <2>1, <3>2, Numbers DEF Spin, MayEnd
    <3>4. esdi_address_mark_enable
      BY <2>3, <3>1, <3>2, <3>3 DEF IInv, InStep
    <3>5. esdi_address_mark_enable'
      BY <1>5, <1>7, <3>4 DEF Counting, MarkSearch, SearchAfter
    <3> QED BY <1>3, <2>1, <3>2, <3>5, Numbers DEF InStep, Elapsed
  <2> QED BY <2>2, <2>3
<1>8. CASE ~index /\ ~sector
  <2>1. sector_reached
    BY <1>5, <1>8 DEF Counting
  <2>2. cycle_count = Elapsed
    BY <2>1 DEF IInv, InStep
  <2>3. ~ends
    <3> SUFFICES ASSUME ends PROVE FALSE
      OBVIOUS
    <3>1. SoftSector /\ ~esdi_address_mark_enable
      BY <1>1, <1>8
    <3>2. under # Gap /\ ~(offset > DataDeassert)
      BY <2>1, <3>1 DEF IInv, InStep
    <3> QED BY <1>2, <1>4, <3>2, Numbers DEF Spin, MayEnd
  <2>4. under' = under /\ offset' = offset + 1
    BY <1>2, <2>3 DEF Spin
  <2>5. cycle_count' = Elapsed'
    <3>1. cycle_count' = IF cycle_count < CycleBound THEN cycle_count + 1 ELSE cycle_count
      BY <1>5, <1>8 DEF Counting
    <3> QED BY <1>4, <2>2, <2>4, <3>1, Numbers DEF Elapsed
  <2>6. esdi_address_mark_enable' <=> esdi_address_mark_enable
                                      \/ (SoftSector /\ next_ame_countdown = 0)
    BY <1>5, <1>8 DEF Counting, MarkSearch, SearchAfter
  <2>7. next_ame_countdown' = IF next_ame_countdown > 0 THEN next_ame_countdown - 1 ELSE 0
    BY <1>5, <1>8 DEF Counting, MarkSearch, SearchAfter
  <2>8. ASSUME SoftSector, under = Gap PROVE esdi_address_mark_enable'
    BY <2>1, <2>6, <2>8 DEF IInv, InStep
  <2>9. ASSUME SoftSector, under # Gap
        PROVE  /\ next_ame_countdown' = Remaining'
               /\ esdi_address_mark_enable' <=> offset' > DataDeassert
    <3>1. next_ame_countdown = Remaining /\ (esdi_address_mark_enable <=> offset > DataDeassert)
      BY <2>1, <2>9 DEF IInv, InStep
    <3>2. next_ame_countdown' = Remaining'
      BY <1>4, <2>4, <2>7, <3>1, Numbers DEF Remaining
    <3>3. (next_ame_countdown = 0) <=> offset >= DataDeassert
      BY <1>4, <3>1, Numbers DEF Remaining
    <3>4. (offset + 1 > DataDeassert) <=> (offset > DataDeassert \/ offset >= DataDeassert)
      BY <1>4, Numbers
    <3> QED BY <2>4, <2>6, <2>9, <3>1, <3>2, <3>3, <3>4
  <2> QED BY <1>3, <2>4, <2>5, <2>8, <2>9 DEF InStep
<1> QED BY <1>6, <1>7, <1>8

\* The gate closes with its window, or with the timer.
LEMMA GateTurns ==
    ASSUME IInv, NEW ends \in BOOLEAN, NEW newPass \in BOOLEAN, NEW write,
           GoodWrite(write), Turn(ends, write, newPass)
    PROVE  /\ windows' \in Seq((0 .. Sectors) \X (0 .. CycleBound))
           /\ GateInv'
<1> DEFINE index == IndexPulse(ends)
           sector == SectorPulse(ends)
<1>1. /\ Spin(ends) /\ Clock(index, sector, write)
      /\ windows' = IF newPass THEN <<>>
                    ELSE IF esdi_read_gate' /\ ~esdi_read_gate
                    THEN Append(windows, <<under, cycle_count>>) ELSE windows
  BY DEF Turn
<1>2. /\ under \in 0 .. Sectors /\ cycle_count \in 0 .. CycleBound
      /\ windows \in Seq((0 .. Sectors) \X (0 .. CycleBound))
  BY DEF IInv, TypeOK, TimerTypeOK, DiskInv
<1>3. <<under, cycle_count>> \in (0 .. Sectors) \X (0 .. CycleBound)
  BY <1>2
<1>4. windows' \in Seq((0 .. Sectors) \X (0 .. CycleBound))
  BY <1>1, <1>2, <1>3
<1> SUFFICES ASSUME esdi_read_gate' PROVE GateInv'
  BY <1>4 DEF GateInv
<1>5. control.enable /\ Counting(index, sector)
  BY <1>1 DEF Clock, Idling
<1>6. Opens \/ (esdi_read_gate /\ ~Closes)
  BY <1>5 DEF Counting
<1>7. /\ ~ends /\ under # Gap /\ sector_reached
      /\ cycle_count = offset /\ offset <= DataDeassert
  BY <1>1, <1>6, NoPulse
<1>8. ~index /\ ~sector /\ under' = under
  BY <1>1, <1>7, Pulses DEF Spin
<1>9. cycle_count' = cycle_count + 1 /\ sector_reached'
  BY <1>2, <1>5, <1>7, <1>8, Numbers DEF Counting
<1>10. InWindow'
  <2>1. CASE Opens
    BY <1>9, <2>1, Numbers DEF Opens, InWindow
  <2>2. CASE esdi_read_gate /\ ~Closes
    BY <1>2, <1>9, <2>2, Numbers DEF IInv, GateInv, InWindow, Closes
  <2> QED BY <1>6, <2>1, <2>2
<1>11. windows' # <<>> => windows'[Len(windows')][1] = under
  <2>1. CASE windows' = <<>>
    BY <2>1
  <2>2. CASE windows' = windows /\ esdi_read_gate
    BY <2>2 DEF IInv, GateInv
  <2>3. CASE windows' = Append(windows, <<under, cycle_count>>)
    <3>1. Len(windows') = Len(windows) + 1 /\ windows'[Len(windows) + 1] = <<under, cycle_count>>
      BY <1>2, <2>3
    <3> QED BY <3>1
  <2> QED BY <1>1, <2>1, <2>2, <2>3
<1> QED BY <1>7, <1>8, <1>9, <1>10, <1>11 DEF GateInv, Gap

LEMMA TurnStep ==
    ASSUME IInv, Next
    PROVE  IInv'
<1>0. PICK write : GoodWrite(write) /\ \E ends, newPass \in BOOLEAN : Turn(ends, write, newPass)
  BY NextTurns DEF IInv
<1>1. PICK ends \in BOOLEAN, newPass \in BOOLEAN :
         GoodWrite(write) /\ Turn(ends, write, newPass)
  BY <1>0
<1>2. Spin(ends) /\ Clock(IndexPulse(ends), SectorPulse(ends), write)
  BY <1>1 DEF Turn
<1>3. TimerTypeOK' /\ SoftSector' = SoftSector
  BY <1>1, <1>2, Pulses, TimerTypes DEF IInv, TypeOK
<1>4. /\ under' \in 0 .. Sectors /\ offset' \in 0 .. MaxLength - 1
      /\ under' = Gap => SoftSector' /\ offset' < IndexGap
  BY <1>2, <1>3, SpinTypes DEF IInv, DiskInv
<1>5. turns' \in 0 .. 2
  BY <1>1 DEF Turn, IInv, TypeOK
<1>6. TypeOK'
  BY <1>3, <1>4, <1>5, ProgramTypes, SettlingType DEF IInv, TypeOK
<1>7. InStep' /\ GateInv' /\ windows' \in Seq((0 .. Sectors) \X (0 .. CycleBound))
  BY <1>1, InStepTurns, GateTurns
<1>8. ~SoftSector' => ~esdi_address_mark_enable'
  <2>1. ~SoftSector => ~esdi_address_mark_enable
    BY DEF IInv, DiskInv
  <2>2. esdi_address_mark_enable' => esdi_address_mark_enable \/ SoftSector
    BY <1>2 DEF Clock, Counting, Idling, MarkSearch, SearchAfter
  <2> QED BY <1>3, <2>1, <2>2
<1>9. DiskInv'
  BY <1>4, <1>7, <1>8 DEF DiskInv, Gap
<1> QED BY <1>6, <1>7, <1>9 DEF IInv

LEMMA Inductive == Spec => []IInv
<1>1. ASSUME Init PROVE IInv
  <2>1. TimerTypeOK
    <3>1. control \in ControlType
      BY <1>1, TimerAssumption DEF Init, TimerInit, ControlType
    <3>2. 0 \in CounterValue /\ 0 \in 0 .. CycleBound /\ 0 \in 0 .. DataDeassert
      BY Numbers, TimerAssumption DEF CounterValue, CycleBound
    <3>3. tasks \in Seq(CounterValue) /\ Len(tasks) <= TaskSlots
      <4>1. tasks = <<>>
        BY <1>1 DEF Init, TimerInit
      <4> QED BY <4>1, TimerAssumption
    <3>4. /\ sector_reached = FALSE /\ task_write_valid = FALSE
          /\ current_task_valid = FALSE /\ esdi_read_gate = FALSE
          /\ esdi_address_mark_enable = FALSE
      BY <1>1 DEF Init, TimerInit
    <3>5. /\ cycle_count = 0 /\ sector_counter = 0 /\ task_write_data = 0
          /\ current_task_data = 0 /\ next_ame_countdown = 0
      BY <1>1 DEF Init, TimerInit
    <3> QED BY <3>1, <3>2, <3>3, <3>4, <3>5 DEF TimerTypeOK
  <2>2. TypeOK
    <3>1. under \in 0 .. Sectors /\ offset \in 0 .. MaxLength - 1
      BY <1>1, Numbers, DriveAssumption DEF Init, Sector
    <3>2. pc = "stopReset" /\ settling = FALSE /\ task = 0 /\ slept = 0 /\ pass = 0 /\ turns = 0
      BY <1>1 DEF Init
    <3>3. 0 \in 0 .. Sectors /\ 0 \in 0 .. Sleep /\ 0 \in 0 .. Passes /\ 0 \in 0 .. 2
      BY DriveAssumption
    <3> QED BY <2>1, <3>1, <3>2, <3>3 DEF TypeOK
  <2>3. DiskInv
    BY <1>1, Numbers DEF Init, TimerInit, DiskInv, Sector, Gap
  <2>4. InStep /\ GateInv
    BY <1>1 DEF Init, TimerInit, InStep, GateInv
  <2> QED BY <2>2, <2>3, <2>4 DEF IInv
<1>2. IInv /\ [Next]_vars => IInv'
  <2> SUFFICES ASSUME IInv, [Next]_vars PROVE IInv'
    OBVIOUS
  <2>1. CASE UNCHANGED vars
    BY <2>1
       DEF IInv, TypeOK, TimerTypeOK, DiskInv, InStep, GateInv, Elapsed, Remaining, InWindow,
           SoftSector, Gap, vars, timerVars, gating, tasking, spindle, program, history
  <2> QED BY <2>1, TurnStep
<1>3. Init => IInv
  BY <1>1
<1> QED BY <1>2, <1>3, PTL DEF Spec

\* TypeOK: among other things the task FIFO, the counters and the loop of read_track_sg
\* never leave their ranges.
THEOREM TypeCorrect == Spec => []TypeOK
<1>1. IInv => TypeOK
  BY DEF IInv
<1> QED BY <1>1, Inductive, PTL

\* GateInsideWindow: the gate is open only inside its window and over the sector it was
\* opened for, whenever the timer is disabled, reset and enabled again.
THEOREM GateStaysInside == Spec => []GateInsideWindow
<1>1. IInv => GateInsideWindow
  BY DEF IInv, GateInv, InWindow, GateInsideWindow
<1> QED BY <1>1, Inductive, PTL

\* SearchOrRead: address marks are not searched for while the gate is open.
THEOREM NeverBoth == Spec => []SearchOrRead
<1>1. ASSUME IInv PROVE SearchOrRead
  <2> SUFFICES ASSUME esdi_address_mark_enable, esdi_read_gate PROVE FALSE
    BY DEF SearchOrRead
  <2>1. SoftSector /\ sector_reached /\ under # Gap /\ InWindow
    BY <1>1 DEF IInv, DiskInv, GateInv
  <2>2. cycle_count = Elapsed /\ offset > DataDeassert
    BY <1>1, <2>1 DEF IInv, InStep
  <2>3. offset \in Nat
    BY <1>1 DEF IInv, TypeOK
  <2> QED BY <2>1, <2>2, <2>3, Numbers DEF Elapsed, InWindow
<1>2. IInv => SearchOrRead
  BY <1>1
<1> QED BY <1>2, Inductive, PTL
=============================================================================
