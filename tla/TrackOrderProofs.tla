------------------------- MODULE TrackOrderProofs -------------------------
(***************************************************************************)
(* For every geometry, every setting of the windows, every spindle and     *)
(* every number of passes, given up anywhere: the windows of a pass open   *)
(* in the order of the descriptors, and two index pulses are enough for    *)
(* them.                                                                   *)
(*                                                                         *)
(* The argument.  Tasks reach the timer in order, so what is missing is    *)
(* that the number a pulse announces is the sector's.  sector_counter      *)
(* survives a restart and is anything at first; but it does not wrap, so   *)
(* the first task, 0, is only started by what sets the counter right: the  *)
(* index pulse, or the first mark after it.  A soft-sectored drive's index *)
(* could be followed by a restart; the sleep before the first task lets    *)
(* the mark come by that would be mistaken.                                *)
(***************************************************************************)
EXTENDS TrackTimingProofs

\* The timer may have tasks.
Active == pc \in {"queue", "wait", "stopDisable"}

\* The timer has been enabled for a clock at least.
Running == control.enable /\ ~(pc \in {"sleep", "idle"} /\ settling)

ControlInv ==
    /\ control.enable <=> pc \in {"idle", "disable", "sleep", "queue", "wait", "stopDisable"}
    /\ control.soft_reset <=> pc \in {"unreset", "stopUnreset"}
    /\ SoftSector \in SoftSectors
    /\ pass > 0 => control.read_address_area /\ control.read_data_areas
    /\ pc \notin {"idle", "stopReset", "stopUnreset", "stopEnable"} => pass > 0
    /\ pc \in {"disable", "reset", "unreset", "enable", "sleep", "queue"} => turns = 0

\* From the soft reset on there are no tasks, and no sector is reached meanwhile.
Empty == ~task_write_valid /\ tasks = <<>> /\ ~current_task_valid
Quiet == \/ pc \in {"stopEnable", "idle", "disable", "reset", "unreset", "enable", "sleep"}
         \/ pc = "stopUnreset" /\ ~settling
QuietInv ==
    /\ Quiet => Empty
    /\ ~Active /\ ~(pc = "stopReset" /\ settling) => ~sector_reached /\ ~esdi_read_gate
    /\ pc \in {"disable", "reset", "unreset", "enable", "sleep"} => windows = <<>>

\* A running timer searches for the next mark before it comes.
SearchInv ==
    /\ control.enable /\ ~Running => next_ame_countdown = 0
    /\ Running /\ SoftSector =>
          \/ esdi_address_mark_enable
          \/ under # Gap /\ offset <= DataDeassert /\ next_ame_countdown = Remaining

\* How often the timer has been enabled, times the sectors it could count each time.
Intervals == 2 * pass + (IF pc = "idle" THEN 1
                         ELSE IF pc \in {"disable", "reset", "unreset", "enable"} THEN -1
                         ELSE 0)
Earlier == Intervals * Sectors
SinceIndex == IF ~control.enable THEN Sectors ELSE IF under = Gap THEN 0 ELSE under + 1

\* The index of a soft-sectored drive: the next mark will be sector 0.
Primed == sector_counter = CounterMod - 1
CounterRight == sector_counter = IF under = Gap THEN CounterMod - 1 ELSE under

\* The tasks are Consumed, Consumed + 1, ..., task - 1: the current one, those in the
\* FIFO, the one on its way into it.
Front == task - Len(tasks) - (IF task_write_valid THEN 1 ELSE 0)
Consumed == Front - (IF current_task_valid THEN 1 ELSE 0)

Consecutive ==
    /\ Consumed >= 0
    /\ current_task_valid => current_task_data = Consumed
    /\ \A i \in 1 .. Len(tasks) : tasks[i] = Front + i - 1
    /\ task_write_valid => task_write_data = task - 1
PipelineInv == Active => Consecutive

CounterInv ==
    /\ (SoftSector /\ Primed) \/ sector_counter <= Earlier + SinceIndex
    /\ pc = "sleep" /\ settling => slept = 0
    /\ pc = "sleep" /\ Primed /\ under # Gap => slept <= offset + 1
    /\ Active /\ Primed => under = Gap
    /\ Active /\ (Consumed > 0 \/ turns > 0) => CounterRight

\* How many windows of the sector under the heads have been opened.
Opened == IF under = Gap \/ cycle_count > DataAssert THEN 2
          ELSE IF cycle_count > AddressAssert THEN 1 ELSE 0

WindowInv ==
    /\ PacketsInOrder
    /\ Active /\ ~sector_reached => Len(windows) = 2 * Consumed
    /\ Active /\ sector_reached =>
          /\ Consumed = IF under = Gap THEN Sectors ELSE under + 1
          /\ Len(windows) = 2 * (Consumed - 1) + Opened

\* The next task is the current one before its sector comes.
LoadInv ==
    /\ pc = "queue" /\ ~current_task_valid /\ tasks = <<>> /\ task_write_valid => settling
    /\ pc = "wait" /\ ~current_task_valid =>
          /\ tasks # <<>> => offset = 0 /\ under # Gap
          /\ tasks = <<>> => ~task_write_valid

\* From the first index pulse on every sector that passes has its task used up.
TurnsInv ==
    pc = "wait" /\ task = Sectors =>
        /\ turns > 0 /\ under # Gap => Consumed > under
        /\ turns = 2 => Consumed = Sectors /\ (sector_reached => under = Gap)

OrderInv ==
    /\ ControlInv /\ QuietInv /\ SearchInv /\ PipelineInv /\ CounterInv
    /\ WindowInv /\ LoadInv /\ TurnsInv

-----------------------------------------------------------------------------
(* What the program does in a step, beside the clock.                       *)

Moved(from, to) == pc = from /\ pc' = to /\ ~settling /\ settling'
ControlOnly == /\ UNCHANGED <<task, pass>>
               /\ slept' = slept

Moves(write, newPass) ==
    \/ /\ ~newPass /\ write.reg # "task" /\ control' = control
       /\ ~settling' /\ UNCHANGED <<pc, task, pass>>
       /\ slept' = IF pc = "sleep" /\ slept < Sleep THEN slept + 1 ELSE slept
    \/ /\ newPass /\ write.reg # "task" /\ Moved("idle", "disable")
       /\ control' = [control EXCEPT !.read_address_area = TRUE, !.read_data_areas = TRUE]
       /\ pass' = pass + 1 /\ pass < Passes
       /\ UNCHANGED <<task, slept>>
    \/ /\ ~newPass /\ write.reg # "task" /\ UNCHANGED <<task, pass>>
       /\ Moved("enable", "sleep") /\ control' = [control EXCEPT !.enable = TRUE] /\ slept' = 0
    \/ /\ ~newPass /\ write.reg # "task" /\ control' = control
       /\ Moved("sleep", "queue") /\ slept = Sleep /\ task' = 0 /\ UNCHANGED <<slept, pass>>
    \/ /\ ~newPass /\ write.reg = "task" /\ write.value = task /\ control' = control
       /\ Moved("queue", "queue") /\ task < Sectors /\ ~task_write_valid /\ task' = task + 1
       /\ UNCHANGED <<slept, pass>>
    \/ /\ ~newPass /\ write.reg # "task" /\ UNCHANGED <<task, slept, pass>>
       /\ \/ /\ Moved("disable", "reset") \/ Moved("stopDisable", "stopReset")
             /\ control' = [control EXCEPT !.enable = FALSE]
          \/ /\ Moved("reset", "unreset") \/ Moved("stopReset", "stopUnreset")
             /\ control' = [control EXCEPT !.soft_reset = TRUE]
          \/ /\ Moved("unreset", "enable") \/ Moved("stopUnreset", "stopEnable")
             /\ control' = [control EXCEPT !.soft_reset = FALSE]
          \/ /\ Moved("queue", "wait") \/ Moved("wait", "stopDisable")
             /\ control' = control
          \/ /\ Moved("stopEnable", "idle")
             /\ control' = [control EXCEPT !.enable = TRUE]

\* A step of the program is a clock with its write, and moves it on.
LEMMA StepMoves ==
    ASSUME NEW from, NEW to, NEW write, Step(from, to, write)
    PROVE  /\ Moved(from, to)
           /\ \E ends \in BOOLEAN : Turn(ends, write, FALSE)
           /\ control' = IF write.reg = "control" THEN write.value ELSE control
BY DEF Step, Moved, Turn, Clock

LEMMA NextMoves ==
    ASSUME Next
    PROVE  \E write : \E ends, newPass \in BOOLEAN :
              Turn(ends, write, newPass) /\ Moves(write, newPass)
<1> DEFINE Goal == \E write : \E ends, newPass \in BOOLEAN :
                      Turn(ends, write, newPass) /\ Moves(write, newPass)
<1>0. ASSUME NEW write, NEW newPass \in BOOLEAN, Moves(write, newPass),
             \E ends \in BOOLEAN : Turn(ends, write, newPass)
      PROVE  Goal
  BY <1>0
<1> SUFFICES Goal
  OBVIOUS
<1> HIDE DEF Goal
<1>1. ASSUME Tick PROVE Goal
  <2>1. \E ends \in BOOLEAN : Turn(ends, NoWrite, FALSE)
    BY <1>1 DEF Tick
  <2>2. control' = control
    BY <2>1 DEF NoWrite, Turn, Clock
  <2>3. Moves(NoWrite, FALSE)
    BY <1>1, <2>2 DEF Tick, Moves, NoWrite
  <2> QED BY <1>0, <2>1, <2>3
<1>2. ASSUME BeginPass PROVE Goal
  <2> DEFINE c == [control EXCEPT !.read_address_area = TRUE, !.read_data_areas = TRUE]
  <2>1. \E ends \in BOOLEAN : Turn(ends, WriteControl(c), TRUE)
    BY <1>2 DEF BeginPass
  <2>2. control' = c
    BY <2>1 DEF WriteControl, Turn, Clock
  <2>3. /\ Moved("idle", "disable") /\ pass' = pass + 1 /\ pass < Passes
        /\ UNCHANGED <<task, slept>>
    BY <1>2 DEF BeginPass, Moved
  <2>4. WriteControl(c).reg # "task"
    BY DEF WriteControl
  <2>5. Moves(WriteControl(c), TRUE)
    BY <2>2, <2>3, <2>4, Zenon DEF Moves
  <2> QED BY <1>0, <2>1, <2>5
<1>3. ASSUME NEW from, NEW to, NEW value, Step(from, to, Enabled(value))
      PROVE  control' = [control EXCEPT !.enable = value] /\ Enabled(value).reg # "task"
  <2>1. /\ Enabled(value).reg = "control"
        /\ Enabled(value).value = [control EXCEPT !.enable = value]
    BY DEF Enabled, WriteControl
  <2> QED BY <1>3, <2>1, StepMoves
<1>4. ASSUME NEW from, NEW to, NEW value, Step(from, to, SoftReset(value))
      PROVE  control' = [control EXCEPT !.soft_reset = value] /\ SoftReset(value).reg # "task"
  <2>1. /\ SoftReset(value).reg = "control"
        /\ SoftReset(value).value = [control EXCEPT !.soft_reset = value]
    BY DEF SoftReset, WriteControl
  <2> QED BY <1>4, <2>1, StepMoves
<1>5. ASSUME NEW from, NEW to, Step(from, to, NoWrite)
      PROVE  control' = control /\ NoWrite.reg # "task"
  <2>1. NoWrite.reg = "none"
    BY DEF NoWrite
  <2> QED BY <1>5, <2>1, StepMoves
<1>6. ASSUME NEW from, NEW to, NEW write, Step(from, to, write), Moves(write, FALSE)
      PROVE  Goal
  BY <1>0, <1>6, StepMoves
<1>7. CASE Disable
  <2>1. Step("disable", "reset", Enabled(FALSE)) /\ UNCHANGED <<task, slept, pass>>
    BY <1>7 DEF Disable, Write
  <2>2. Moves(Enabled(FALSE), FALSE)
    BY <1>3, <2>1, StepMoves, Zenon DEF Moves
  <2> QED BY <1>6, <2>1, <2>2
<1>8. CASE Reset
  <2>1. Step("reset", "unreset", SoftReset(TRUE)) /\ UNCHANGED <<task, slept, pass>>
    BY <1>8 DEF Reset, Write
  <2>2. Moves(SoftReset(TRUE), FALSE)
    BY <1>4, <2>1, StepMoves, Zenon DEF Moves
  <2> QED BY <1>6, <2>1, <2>2
<1>9. CASE Unreset
  <2>1. Step("unreset", "enable", SoftReset(FALSE)) /\ UNCHANGED <<task, slept, pass>>
    BY <1>9 DEF Unreset, Write
  <2>2. Moves(SoftReset(FALSE), FALSE)
    BY <1>4, <2>1, StepMoves, Zenon DEF Moves
  <2> QED BY <1>6, <2>1, <2>2
<1>10. CASE EndQueue
  <2>1. Step("queue", "wait", NoWrite) /\ UNCHANGED <<task, slept, pass>>
    BY <1>10 DEF EndQueue, Write
  <2>2. Moves(NoWrite, FALSE)
    BY <1>5, <2>1, StepMoves, Zenon DEF Moves
  <2> QED BY <1>6, <2>1, <2>2
<1>11. CASE EndWait
  <2>1. Step("wait", "stopDisable", NoWrite) /\ UNCHANGED <<task, slept, pass>>
    BY <1>11 DEF EndWait, Write
  <2>2. Moves(NoWrite, FALSE)
    BY <1>5, <2>1, StepMoves, Zenon DEF Moves
  <2> QED BY <1>6, <2>1, <2>2
<1>12. CASE StopDisable
  <2>1. Step("stopDisable", "stopReset", Enabled(FALSE)) /\ UNCHANGED <<task, slept, pass>>
    BY <1>12 DEF StopDisable, Write
  <2>2. Moves(Enabled(FALSE), FALSE)
    BY <1>3, <2>1, StepMoves, Zenon DEF Moves
  <2> QED BY <1>6, <2>1, <2>2
<1>13. CASE StopReset
  <2>1. Step("stopReset", "stopUnreset", SoftReset(TRUE)) /\ UNCHANGED <<task, slept, pass>>
    BY <1>13 DEF StopReset, Write
  <2>2. Moves(SoftReset(TRUE), FALSE)
    BY <1>4, <2>1, StepMoves, Zenon DEF Moves
  <2> QED BY <1>6, <2>1, <2>2
<1>14. CASE StopUnreset
  <2>1. Step("stopUnreset", "stopEnable", SoftReset(FALSE)) /\ UNCHANGED <<task, slept, pass>>
    BY <1>14 DEF StopUnreset, Write
  <2>2. Moves(SoftReset(FALSE), FALSE)
    BY <1>4, <2>1, StepMoves, Zenon DEF Moves
  <2> QED BY <1>6, <2>1, <2>2
<1>15. CASE StopEnable
  <2>1. Step("stopEnable", "idle", Enabled(TRUE)) /\ UNCHANGED <<task, slept, pass>>
    BY <1>15 DEF StopEnable, Write
  <2>2. Moves(Enabled(TRUE), FALSE)
    BY <1>3, <2>1, StepMoves, Zenon DEF Moves
  <2> QED BY <1>6, <2>1, <2>2
<1>16. CASE Enable
  <2>1. Step("enable", "sleep", Enabled(TRUE)) /\ slept' = 0 /\ UNCHANGED <<task, pass>>
    BY <1>16 DEF Enable
  <2>2. Moves(Enabled(TRUE), FALSE)
    BY <1>3, <2>1, StepMoves, Zenon DEF Moves
  <2> QED BY <1>6, <2>1, <2>2
<1>17. CASE Wake
  <2>1. Step("sleep", "queue", NoWrite) /\ slept = Sleep /\ task' = 0 /\ UNCHANGED <<slept, pass>>
    BY <1>17 DEF Wake
  <2>2. Moves(NoWrite, FALSE)
    BY <1>5, <2>1, StepMoves, Zenon DEF Moves
  <2> QED BY <1>6, <2>1, <2>2
<1>18. CASE QueueTask
  <2>1. /\ Step("queue", "queue", WriteTask(task)) /\ task < Sectors /\ ~task_write_valid
        /\ task' = task + 1 /\ UNCHANGED <<slept, pass>>
    BY <1>18 DEF QueueTask
  <2>2. WriteTask(task).reg = "task" /\ WriteTask(task).value = task
    BY DEF WriteTask
  <2>3. control' = control
    BY <2>1, <2>2, StepMoves
  <2>4. Moves(WriteTask(task), FALSE)
    BY <2>1, <2>2, <2>3, StepMoves, Zenon DEF Moves
  <2> QED BY <1>6, <2>1, <2>4
<1> QED
  BY <1>1, <1>2, <1>7, <1>8, <1>9, <1>10, <1>11, <1>12, <1>13, <1>14, <1>15, <1>16, <1>17, <1>18 DEF Next, Program

-----------------------------------------------------------------------------
(* The program's part of the invariant.                                     *)

LEMMA ControlTurns ==
    ASSUME TypeOK, ControlInv, NEW ends, NEW newPass, NEW write,
           Turn(ends, write, newPass), Moves(write, newPass)
    PROVE  ControlInv'
<1> DEFINE areas == [control EXCEPT !.read_address_area = TRUE, !.read_data_areas = TRUE]
<1>1. control \in ControlType /\ pass \in Nat
  BY DEF TypeOK, TimerTypeOK
<1>2. /\ areas.enable = control.enable /\ areas.soft_reset = control.soft_reset
      /\ areas.soft_sector_enable = control.soft_sector_enable
      /\ areas.read_address_area /\ areas.read_data_areas
  BY <1>1, Zenon DEF ControlType
<1>3. turns' = 0 \/ (turns' = turns /\ ~newPass) \/ (pc = "wait" /\ ~newPass)
  BY DEF Turn
<1>4. CASE newPass
  <2>1. /\ pc = "idle" /\ pc' = "disable" /\ control' = areas /\ pass' = pass + 1
    BY <1>4, Zenon DEF Moves, Moved
  <2>2. turns' = 0
    BY <1>4 DEF Turn
  <2> HIDE DEF areas
  <2> QED BY <1>1, <1>2, <2>1, <2>2 DEF ControlInv, SoftSector
<1>5. pass' = pass \/ newPass
  BY DEF Moves
<1>6. CASE /\ ~newPass /\ control' = control
           /\ \/ pc' = pc
              \/ pc = "sleep" /\ pc' = "queue"
              \/ pc = "queue" /\ pc' = "wait"
              \/ pc = "wait" /\ pc' = "stopDisable"
  BY <1>3, <1>5, <1>6 DEF ControlInv, SoftSector
<1>7. CASE /\ ~newPass /\ control' = [control EXCEPT !.enable = TRUE]
           /\ Moved("enable", "sleep") \/ Moved("stopEnable", "idle")
  BY <1>1, <1>3, <1>5, <1>7 DEF ControlInv, SoftSector, ControlType, Moved
<1>8. CASE /\ ~newPass /\ control' = [control EXCEPT !.enable = FALSE]
           /\ Moved("disable", "reset") \/ Moved("stopDisable", "stopReset")
  BY <1>1, <1>3, <1>5, <1>8 DEF ControlInv, SoftSector, ControlType, Moved
<1>9. CASE /\ ~newPass /\ control' = [control EXCEPT !.soft_reset = TRUE]
           /\ Moved("reset", "unreset") \/ Moved("stopReset", "stopUnreset")
  BY <1>1, <1>3, <1>5, <1>9 DEF ControlInv, SoftSector, ControlType, Moved
<1>10. CASE /\ ~newPass /\ control' = [control EXCEPT !.soft_reset = FALSE]
            /\ Moved("unreset", "enable") \/ Moved("stopUnreset", "stopEnable")
  BY <1>1, <1>3, <1>5, <1>10 DEF ControlInv, SoftSector, ControlType, Moved
<1> QED BY <1>4, <1>6, <1>7, <1>8, <1>9, <1>10 DEF Moves, Moved

\* Without tasks nothing is reached, and no window opens.
LEMMA EmptyStays ==
    ASSUME Empty, ~sector_reached, ~esdi_read_gate,
           NEW ends, NEW newPass, NEW write, write.reg # "task", Turn(ends, write, newPass)
    PROVE  /\ Empty' /\ ~sector_reached' /\ ~esdi_read_gate'
           /\ windows' = IF newPass THEN <<>> ELSE windows
<1>1. /\ Clock(IndexPulse(ends), SectorPulse(ends), write)
      /\ windows' = IF newPass THEN <<>>
                    ELSE IF esdi_read_gate' /\ ~esdi_read_gate
                    THEN Append(windows, <<under, cycle_count>>) ELSE windows
  BY DEF Turn
<1>2. ~sector_reached' /\ ~esdi_read_gate'
  BY <1>1 DEF Empty, Clock, Idling, Counting, Opens, Starts, Reaches
<1>3. Empty'
  BY <1>1 DEF Empty, Clock, Tasking, CurrentTask
<1> QED BY <1>1, <1>2, <1>3

\* Disabled, the timer reaches and opens nothing either; a soft reset empties it.
LEMMA DisabledStays ==
    ASSUME ~control.enable, NEW ends, NEW newPass, NEW write, Turn(ends, write, newPass)
    PROVE  /\ ~sector_reached' /\ ~esdi_read_gate'
           /\ cycle_count' = cycle_count /\ sector_counter' = sector_counter
           /\ ~esdi_address_mark_enable' /\ next_ame_countdown' = 0
           /\ windows' = IF newPass THEN <<>> ELSE windows
           /\ write.reg # "task" /\ control.soft_reset => Empty'
           /\ write.reg # "task" /\ Empty => Empty'
BY DEF Turn, Clock, Idling, Empty, Tasking, CurrentTask

LEMMA QuietTurns ==
    ASSUME TypeOK, ControlInv, QuietInv, NEW ends, NEW newPass, NEW write,
           Turn(ends, write, newPass), Moves(write, newPass)
    PROVE  QuietInv'
<1> DEFINE Still == ~Active /\ ~(pc = "stopReset" /\ settling)
           Before == pc \in {"disable", "reset", "unreset", "enable", "sleep"}
<1>1. /\ Quiet => Empty /\ Still
      /\ Still => ~sector_reached /\ ~esdi_read_gate
      /\ Before => windows = <<>> /\ Quiet
  BY DEF QuietInv, Quiet, Active
<1>2. /\ Quiet' => Quiet \/ (pc = "stopUnreset" /\ settling)
      /\ Still' => Still \/ (pc = "stopReset" /\ settling)
      /\ Before' => Before \/ newPass
      /\ newPass => pc = "idle"
      /\ ~Active => write.reg # "task"
  BY DEF Moves, Moved, Quiet, Active
<1>3. /\ Still /\ ~Quiet => ~control.enable
      /\ pc \in {"stopReset", "stopUnreset"} => ~control.enable
      /\ pc = "stopUnreset" => control.soft_reset
  BY DEF ControlInv, Quiet, Active
<1>4. Quiet' => Empty'
  <2>1. CASE Quiet
    BY <1>1, <1>2, <2>1, EmptyStays DEF Active
  <2>2. CASE pc = "stopUnreset" /\ settling
    BY <1>2, <1>3, <2>2, DisabledStays DEF Active
  <2> QED BY <1>2, <2>1, <2>2
<1>5. Still' => ~sector_reached' /\ ~esdi_read_gate'
  <2>1. CASE Quiet
    BY <1>1, <1>2, <2>1, EmptyStays
  <2>2. CASE ~Quiet
    BY <1>2, <1>3, <2>2, DisabledStays
  <2> QED BY <2>1, <2>2
<1>6. Before' => windows' = <<>>
  <2>1. Before \/ newPass => Quiet
    BY <1>1, <1>2 DEF Quiet
  <2>2. Quiet => windows' = IF newPass THEN <<>> ELSE windows
    BY <1>1, <1>2, EmptyStays DEF Active, Quiet
  <2> QED BY <1>1, <1>2, <2>1, <2>2
<1> QED BY <1>4, <1>5, <1>6 DEF QuietInv, Active

LEMMA SectorModeStays ==
    ASSUME TypeOK, NEW newPass, NEW write, Moves(write, newPass)
    PROVE  SoftSector' = SoftSector
<1>1. control \in ControlType
  BY DEF TypeOK, TimerTypeOK
<1>2. \/ control' = control
      \/ control' = [control EXCEPT !.read_address_area = TRUE, !.read_data_areas = TRUE]
      \/ control' = [control EXCEPT !.enable = TRUE]
      \/ control' = [control EXCEPT !.enable = FALSE]
      \/ control' = [control EXCEPT !.soft_reset = TRUE]
      \/ control' = [control EXCEPT !.soft_reset = FALSE]
  BY Zenon DEF Moves
<1>3. CASE control' = [control EXCEPT !.read_address_area = TRUE, !.read_data_areas = TRUE]
  BY <1>1, <1>3, Zenon DEF SoftSector, ControlType
<1> QED
  BY <1>1, <1>2, <1>3 DEF SoftSector, ControlType

-----------------------------------------------------------------------------
(* The search for address marks, and the sector counter.                    *)

LEMMA SearchTurns ==
    ASSUME IInv, ControlInv, ControlInv', SearchInv, NEW ends \in BOOLEAN, NEW newPass, NEW write,
           Turn(ends, write, newPass), Moves(write, newPass)
    PROVE  SearchInv'
<1>1. /\ Spin(ends) /\ Clock(IndexPulse(ends), SectorPulse(ends), write)
  BY DEF Turn
<1>2. control'.enable /\ ~control.enable => settling' /\ pc' \in {"sleep", "idle"}
  BY DEF ControlInv, Moves, Moved
<1>3. control'.enable /\ pc' \in {"sleep", "idle"} /\ settling' => ~control.enable
  BY DEF ControlInv, Moves, Moved
<1>4. control'.enable /\ ~Running' => next_ame_countdown' = 0
  BY <1>3, DisabledStays DEF Running
<1>5. ASSUME Running', SoftSector'
      PROVE  \/ esdi_address_mark_enable'
             \/ under' # Gap /\ offset' <= DataDeassert /\ next_ame_countdown' = Remaining'
  <2>1. control.enable /\ SoftSector
    BY <1>2, <1>5, SectorModeStays DEF Running, IInv
  <2>2. /\ under \in 0 .. Sectors /\ offset \in Nat /\ next_ame_countdown \in 0 .. DataDeassert
        /\ esdi_address_mark_enable \in BOOLEAN
    BY DEF IInv, TypeOK, TimerTypeOK
  <2>3. CASE SectorPulse(ends)
    <3>1. next_ame_countdown' = DataDeassert /\ ends /\ under # Sectors - 1
      BY <1>1, <2>1, <2>3, Pulses DEF Clock, Counting, MarkSearch, SearchAfter, SectorPulse
    <3>2. offset' = 0 /\ under' = Following
      BY <1>1, <3>1 DEF Spin
    <3> QED BY <2>2, <3>1, <3>2, Numbers DEF Following, Remaining
  <2>4. CASE ~SectorPulse(ends)
    <3>1. /\ esdi_address_mark_enable' <=> esdi_address_mark_enable \/ next_ame_countdown = 0
          /\ next_ame_countdown' = IF next_ame_countdown > 0 THEN next_ame_countdown - 1 ELSE 0
      BY <1>1, <2>1, <2>4 DEF Clock, Counting, MarkSearch, SearchAfter
    <3>2. ASSUME ~esdi_address_mark_enable, next_ame_countdown # 0
          PROVE  under' # Gap /\ offset' <= DataDeassert /\ next_ame_countdown' = Remaining'
      <4>1. /\ under # Gap /\ offset <= DataDeassert /\ next_ame_countdown = Remaining
        BY <2>1, <3>2 DEF SearchInv, Running
      <4>2. offset < DataDeassert
        BY <2>2, <3>2, <4>1, Numbers DEF Remaining
      <4>3. under' = under /\ offset' = offset + 1
        BY <1>1, <2>2, <4>1, <4>2, Numbers DEF Spin, MayEnd
      <4> QED BY <2>2, <3>1, <3>2, <4>1, <4>2, <4>3, Numbers DEF Remaining, Gap
    <3> QED BY <3>1, <3>2
  <2> QED BY <2>3, <2>4
<1> QED BY <1>4, <1>5 DEF SearchInv

\* A running timer gets a pulse at the end of each sector.
LEMMA EndIsSeen ==
    ASSUME IInv, SearchInv, Running, NEW ends \in BOOLEAN, Spin(ends), ends
    PROVE  IndexPulse(ends) \/ SectorPulse(ends)
<1>1. SoftSector => esdi_address_mark_enable
  <2>1. ASSUME under # Gap, offset <= DataDeassert PROVE FALSE
    BY <2>1, Numbers DEF Spin, MayEnd, IInv, TypeOK
  <2> QED BY <2>1 DEF SearchInv
<1> QED BY <1>1, Pulses

-----------------------------------------------------------------------------
(* The tasks.                                                               *)

\* The program writes a task when there is room for it, and writes the next one.
LEMMA WritesTask ==
    ASSUME NEW newPass, NEW write, Moves(write, newPass), Active
    PROVE  /\ ~newPass
           /\ write.reg = "task" => /\ write.value = task /\ task' = task + 1
                                    /\ ~task_write_valid /\ pc = "queue" /\ pc' = "queue"
                                    /\ settling' /\ task < Sectors
           /\ write.reg # "task" => task' = task
           /\ Active' => \/ pc' = pc
                         \/ pc = "queue" /\ pc' = "wait" /\ ~settling
                         \/ pc = "wait" /\ pc' = "stopDisable"
           /\ ~settling' \/ ~settling
           /\ pass' = pass
BY DEF Moves, Moved, Active

\* The first task moves on to be the current one, the one written moves into the FIFO.
LEMMA PipelineStep ==
    ASSUME TypeOK, ControlInv, PipelineInv, Active, NEW ends \in BOOLEAN, NEW newPass, NEW write,
           Turn(ends, write, newPass), Moves(write, newPass)
    PROVE  /\ Consumed' = IF Consumes(IndexPulse(ends), SectorPulse(ends))
                          THEN Consumed + 1 ELSE Consumed
           /\ Consecutive'
<1> DEFINE loads == ~current_task_valid /\ tasks # <<>>
           accepts == task_write_valid /\ TaskReady
           kept == IF loads THEN Tail(tasks) ELSE tasks
           moved == IF loads THEN 1 ELSE 0
           consumes == Consumes(IndexPulse(ends), SectorPulse(ends))
<1>1. /\ tasks \in Seq(CounterValue) /\ Len(tasks) \in Nat /\ task \in 0 .. Sectors
      /\ CounterValue \subseteq Nat /\ Sectors \in Nat
      /\ task_write_data \in CounterValue
  BY Numbers DEF TypeOK, TimerTypeOK, CounterValue
<1>2. control.enable /\ ~control.soft_reset /\ Consecutive
  BY DEF ControlInv, Active, PipelineInv
<1>3. /\ tasks' = IF accepts THEN Append(kept, task_write_data) ELSE kept
      /\ current_task_valid' <=> loads \/ (current_task_valid /\ ~consumes)
      /\ current_task_data' = IF loads THEN Head(tasks) ELSE current_task_data
      /\ task_write_valid' <=> write.reg = "task" \/ (task_write_valid /\ ~TaskReady)
      /\ task_write_data' = IF write.reg = "task" THEN write.value ELSE task_write_data
  BY <1>2 DEF Turn, Clock, Tasking, CurrentTask
<1>4. consumes => current_task_valid
  BY DEF Consumes, Reaches
<1>5. /\ kept \in Seq(CounterValue) /\ Len(kept) \in Nat /\ Len(kept) = Len(tasks) - moved
      /\ \A i \in 1 .. Len(kept) : kept[i] = tasks[i + moved]
  <2>1. CASE loads
    BY <1>1, <2>1
  <2>2. CASE ~loads
    BY <1>1, <2>2
  <2> QED BY <2>1, <2>2
<1>6. Len(tasks') = IF accepts THEN Len(kept) + 1 ELSE Len(kept)
  BY <1>1, <1>3, <1>5
<1>13. /\ write.reg = "task" => write.value = task /\ task' = task + 1 /\ ~task_write_valid
       /\ write.reg # "task" => task' = task
  BY WritesTask
<1> HIDE DEF kept, consumes
<1>7. Front' = Front + moved
  <2>1. CASE write.reg = "task"
    BY <1>1, <1>3, <1>5, <1>6, <1>13, <2>1 DEF Front
  <2>2. CASE write.reg # "task" /\ accepts
    BY <1>1, <1>3, <1>5, <1>6, <1>13, <2>2 DEF Front
  <2>3. CASE write.reg # "task" /\ ~accepts
    <3>1. task_write_valid' <=> task_write_valid
      BY <1>3, <2>3
    <3>2. Len(tasks') = Len(kept) /\ task' = task
      BY <1>6, <1>13, <2>3
    <3> QED BY <1>1, <1>5, <3>1, <3>2 DEF Front
  <2> QED BY <2>1, <2>2, <2>3
<1>14. Front \in Int
  BY <1>1 DEF Front
<1>8. Consumed' = IF consumes THEN Consumed + 1 ELSE Consumed
  BY <1>3, <1>4, <1>7, <1>14 DEF Consumed
<1>9. Consumed' >= 0
  BY <1>1, <1>2, <1>8 DEF Consecutive, Consumed, Front
<1>10. current_task_valid' => current_task_data' = Consumed'
  <2>1. CASE loads
    <3>1. Head(tasks) = tasks[1] /\ 1 \in 1 .. Len(tasks)
      BY <1>1, <2>1
    <3>2. tasks[1] = Front
      BY <1>1, <1>2, <3>1 DEF Consecutive, Front
    <3>3. Consumed' = Front
      BY <1>4, <1>8, <2>1, <1>1 DEF Consumed, Front
    <3> QED BY <1>3, <2>1, <3>1, <3>2, <3>3
  <2>2. CASE ~loads
    BY <1>2, <1>3, <1>8, <2>2 DEF Consecutive
  <2> QED BY <2>1, <2>2
<1>11. ASSUME NEW i \in 1 .. Len(tasks')
       PROVE  tasks'[i] = Front' + i - 1
  <2>1. CASE i \in 1 .. Len(kept)
    <3>1. tasks'[i] = kept[i]
      BY <1>1, <1>3, <1>5, <2>1
    <3>2. i + moved \in 1 .. Len(tasks)
      BY <1>1, <1>5, <2>1
    <3>3. kept[i] = Front + (i + moved) - 1
      BY <1>2, <1>5, <2>1, <3>2 DEF Consecutive
    <3> QED BY <1>5, <1>7, <1>14, <3>1, <3>3
  <2>2. CASE ~(i \in 1 .. Len(kept))
    <3>1. accepts /\ i = Len(kept) + 1 /\ tasks'[i] = task_write_data
      BY <1>1, <1>3, <1>5, <1>6, <2>2
    <3>2. task_write_data = task - 1 /\ task' = task /\ ~task_write_valid'
      BY <1>2, <1>3, <1>13, <3>1 DEF Consecutive
    <3>3. Front' = task - (Len(kept) + 1)
      BY <1>1, <1>5, <1>6, <3>1, <3>2 DEF Front
    <3>4. Len(kept) \in Nat /\ task \in Nat
      BY <1>1, <1>5
    <3> HIDE DEF accepts
    <3> QED BY <3>1, <3>2, <3>3, <3>4
  <2> QED BY <2>1, <2>2
<1>12. task_write_valid' => task_write_data' = task' - 1
  BY <1>1, <1>2, <1>3, <1>13 DEF Consecutive
<1> QED BY <1>8, <1>9, <1>10, <1>11, <1>12 DEF Consecutive, consumes

-----------------------------------------------------------------------------
(* The sector counter.                                                      *)

LEMMA NextNumber ==
    ASSUME TypeOK
    PROVE  /\ sector_counter \in Nat /\ sector_counter < CounterMod
           /\ Incremented = IF Primed THEN 0 ELSE sector_counter + 1
<1>1. sector_counter \in Nat /\ sector_counter < CounterMod /\ CounterMod \in Nat
  BY Numbers DEF TypeOK, TimerTypeOK, CounterValue
<1>2. CASE sector_counter = CounterMod - 1
  <2>1. sector_counter + 1 = CounterMod /\ CounterMod % CounterMod = 0
    BY <1>1, <1>2
  <2> QED BY <1>1, <1>2, <2>1 DEF Incremented, Primed
<1>3. CASE sector_counter # CounterMod - 1
  <2>1. (sector_counter + 1) % CounterMod = sector_counter + 1
    BY <1>1, <1>3
  <2> QED BY <1>1, <1>3, <2>1 DEF Incremented, Primed
<1> QED BY <1>2, <1>3

\* There is room above what the counter can have reached.
LEMMA Room ==
    ASSUME TypeOK, ControlInv
    PROVE  /\ Earlier \in Nat /\ SinceIndex \in 0 .. Sectors
           /\ Earlier + Sectors < CounterMod
           /\ pc = "sleep" \/ Active => Earlier + 2 * Sectors < CounterMod
<1>1. /\ Sectors \in Nat /\ Passes \in Nat /\ CounterMod \in Nat /\ Sectors > 0
      /\ (2 * Passes + 2) * Sectors < CounterMod
      /\ pass \in 0 .. Passes /\ under \in 0 .. Sectors
  BY Numbers, DriveAssumption DEF TypeOK
<1>2. Intervals \in Nat /\ Intervals <= 2 * Passes + 1
  BY <1>1 DEF ControlInv, Intervals
<1>3. pc = "sleep" \/ Active => Intervals <= 2 * Passes
  BY <1>1 DEF Intervals, Active
<1>4. \A m, n, k \in Nat : m <= n => m * k <= n * k
  OBVIOUS
<1>5. Earlier \in Nat /\ Earlier <= (2 * Passes + 1) * Sectors
  BY <1>1, <1>2, <1>4 DEF Earlier
<1>6. pc = "sleep" \/ Active => Earlier <= (2 * Passes) * Sectors
  BY <1>1, <1>2, <1>3, <1>4 DEF Earlier
<1>7. /\ (2 * Passes + 2) * Sectors = (2 * Passes + 1) * Sectors + Sectors
      /\ (2 * Passes + 2) * Sectors = (2 * Passes) * Sectors + 2 * Sectors
      /\ (2 * Passes + 1) * Sectors \in Nat /\ (2 * Passes) * Sectors \in Nat
  BY <1>1
<1>8. SinceIndex \in 0 .. Sectors
  BY <1>1, Numbers DEF SinceIndex
<1> QED BY <1>1, <1>5, <1>6, <1>7, <1>8

\* Each time the timer is enabled it may count one revolution's sectors more.
LEMMA EarlierMoves ==
    ASSUME TypeOK, ControlInv, ControlInv', NEW newPass, NEW write, Moves(write, newPass)
    PROVE  Earlier' = IF ~control.enable /\ control'.enable THEN Earlier + Sectors ELSE Earlier
<1>1. pass \in Nat /\ Sectors \in Nat /\ Intervals \in Int
  BY Numbers DEF TypeOK, Intervals
<1>2. ~control.enable /\ control'.enable <=> \/ pc = "enable" /\ pc' = "sleep"
                                             \/ pc = "stopEnable" /\ pc' = "idle"
  BY DEF ControlInv, Moves, Moved
<1>3. Intervals' = IF ~control.enable /\ control'.enable THEN Intervals + 1 ELSE Intervals
  BY <1>1, <1>2 DEF Intervals, Moves, Moved
<1>4. (Intervals + 1) * Sectors = Intervals * Sectors + Sectors
  BY <1>1
<1> QED BY <1>3, <1>4 DEF Earlier

\* What a clock does to the counter and the disk, by its pulse.
LEMMA CounterClock ==
    ASSUME IInv, control.enable, NEW ends \in BOOLEAN, NEW newPass, NEW write,
           Turn(ends, write, newPass)
    PROVE  \/ /\ SectorPulse(ends) /\ ~IndexPulse(ends) /\ sector_counter' = Incremented
              /\ under # Sectors - 1 /\ offset' = 0
              /\ under' = IF under = Gap THEN 0 ELSE under + 1
           \/ /\ IndexPulse(ends) /\ ~SectorPulse(ends)
              /\ under = Sectors - 1 /\ offset' = 0
              /\ IF SoftSector THEN under' = Gap /\ sector_counter' = CounterMod - 1
                 ELSE under' = 0 /\ sector_counter' = 0
           \/ /\ ~IndexPulse(ends) /\ ~SectorPulse(ends) /\ sector_counter' = sector_counter
              /\ ~ends /\ under' = under /\ offset' = offset + 1
           \/ /\ ~IndexPulse(ends) /\ ~SectorPulse(ends) /\ sector_counter' = sector_counter
              /\ ends /\ SoftSector /\ under # Sectors - 1 /\ offset' = 0
              /\ under' = IF under = Gap THEN 0 ELSE under + 1
<1>1. Spin(ends) /\ Clock(IndexPulse(ends), SectorPulse(ends), write)
  BY DEF Turn
<1>2. under \in 0 .. Sectors /\ (under = Gap => SoftSector)
  BY DEF IInv, TypeOK, DiskInv
<1>3. /\ IndexPulse(ends) \in BOOLEAN /\ SectorPulse(ends) \in BOOLEAN
      /\ ~(IndexPulse(ends) /\ SectorPulse(ends))
      /\ IndexPulse(ends) \/ SectorPulse(ends) => ends
      /\ ends /\ ~SoftSector => IndexPulse(ends) \/ SectorPulse(ends)
      /\ IndexPulse(ends) <=> ends /\ under = Sectors - 1
  BY Pulses DEF IndexPulse
<1>4. /\ SectorPulse(ends) => sector_counter' = Incremented
      /\ IndexPulse(ends) => sector_counter' = IF SoftSector THEN CounterMod - 1 ELSE 0
      /\ ~IndexPulse(ends) /\ ~SectorPulse(ends) => sector_counter' = sector_counter
  BY <1>1, <1>3 DEF Clock, Counting
<1>5. /\ ends => under' = Following /\ offset' = 0
      /\ ~ends => under' = under /\ offset' = offset + 1
  BY <1>1 DEF Spin
<1>6. SectorPulse(ends) => under # Sectors - 1
  BY DEF SectorPulse
<1>7. /\ under # Sectors - 1 => Following = IF under = Gap THEN 0 ELSE under + 1
      /\ under = Sectors - 1 => Following = IF SoftSector THEN Gap ELSE 0
  BY <1>2, Numbers DEF Following
<1> QED BY <1>3, <1>4, <1>5, <1>6, <1>7

\* While the program sleeps, and later, the counter is only primed by the index.
LEMMA NotPrimedByMark ==
    ASSUME IInv, ControlInv, CounterInv, pc = "sleep" \/ Active,
           NEW ends \in BOOLEAN, SectorPulse(ends)
    PROVE  Incremented # CounterMod - 1
<1>1. CounterMod \in Nat /\ CounterMod > 1 /\ Sectors \in Nat /\ Sectors > 0
  BY Numbers
<1>2. CASE Primed
  BY <1>1, <1>2, NextNumber DEF IInv
<1>3. CASE ~Primed
  <2>1. sector_counter <= Earlier + SinceIndex
    BY <1>3 DEF CounterInv
  <2>2. SinceIndex \in 0 .. Sectors - 1
    <3>1. control.enable /\ under # Sectors - 1 /\ under \in 0 .. Sectors
      BY DEF ControlInv, Active, SectorPulse, IInv, TypeOK
    <3> QED BY <1>1, <3>1, Numbers DEF SinceIndex
  <2>3. Earlier \in Nat /\ Earlier + 2 * Sectors < CounterMod
    BY Room DEF IInv
  <2>4. sector_counter \in Nat /\ Incremented = sector_counter + 1
    BY <1>3, NextNumber DEF IInv
  <2> QED BY <1>1, <2>1, <2>2, <2>3, <2>4
<1> QED BY <1>2, <1>3

LEMMA BoundTurns ==
    ASSUME IInv, ControlInv, ControlInv', CounterInv, NEW ends \in BOOLEAN, NEW newPass,
           NEW write, Turn(ends, write, newPass), Moves(write, newPass),
           TypeOK'
    PROVE  (SoftSector' /\ Primed') \/ sector_counter' <= Earlier' + SinceIndex'
<1>1. /\ CounterMod \in Nat /\ CounterMod > 1 /\ Sectors \in Nat /\ Sectors > 0
      /\ under \in 0 .. Sectors /\ Gap = Sectors
  BY Numbers DEF IInv, TypeOK
<1>2. SoftSector' = SoftSector
  BY SectorModeStays DEF IInv
<1>3. Earlier \in Nat /\ SinceIndex \in 0 .. Sectors /\ Earlier + Sectors < CounterMod
  BY Room DEF IInv
<1>4. PICK u \in 0 .. Sectors : under' = u
  BY DEF TypeOK
<1>5. PICK since \in 0 .. Sectors : SinceIndex' = since
  BY <1>1, <1>4 DEF SinceIndex, Gap
<1>6. u # Gap => since > u
  BY <1>1, <1>4, <1>5 DEF SinceIndex, Gap
<1>7. Earlier' \in Nat /\ Earlier' = IF ~control.enable /\ control'.enable THEN Earlier + Sectors ELSE Earlier
  <2>1. Earlier' = IF ~control.enable /\ control'.enable THEN Earlier + Sectors ELSE Earlier
    BY EarlierMoves DEF IInv
  <2> QED BY <1>1, <1>3, <2>1
<1>8. /\ sector_counter \in Nat /\ sector_counter < CounterMod
      /\ Incremented = IF Primed THEN 0 ELSE sector_counter + 1
  BY NextNumber DEF IInv
<1>9. (SoftSector /\ Primed) \/ sector_counter <= Earlier + SinceIndex
  BY DEF CounterInv
<1>10. CASE ~control.enable
  <2>1. sector_counter' = sector_counter
    BY <1>10, DisabledStays
  <2>2. SinceIndex = Sectors
    BY <1>10 DEF SinceIndex
  <2>3. SinceIndex' = Sectors \/ Earlier' = Earlier + Sectors
    BY <1>7, <1>10 DEF SinceIndex
  <2> QED BY <1>1, <1>2, <1>3, <1>6, <1>4, <1>5, <1>7, <1>8, <1>9, <2>1, <2>2, <2>3 DEF Primed
<1>11. CASE control.enable
  <2>1. /\ under = Gap => SinceIndex = 0
        /\ under # Gap => SinceIndex = under + 1
    BY <1>11 DEF SinceIndex
  <2>3. Earlier' = Earlier
    BY <1>7, <1>11
  <2>4. CASE /\ sector_counter' = Incremented /\ under # Sectors - 1
             /\ under' = IF under = Gap THEN 0 ELSE under + 1
    BY <1>1, <1>3, <1>6, <1>4, <1>5, <1>8, <1>9, <2>1, <2>3, <2>4
  <2>5. CASE IF SoftSector THEN sector_counter' = CounterMod - 1 ELSE sector_counter' = 0
    BY <1>1, <1>2, <1>3, <1>6, <1>4, <1>5, <2>3, <2>5 DEF Primed
  <2>6. CASE sector_counter' = sector_counter /\ under' = under
    BY <1>1, <1>2, <1>3, <1>6, <1>4, <1>5, <1>8, <1>9, <2>1, <2>3, <2>6 DEF Primed
  <2>7. CASE /\ sector_counter' = sector_counter /\ under # Sectors - 1
             /\ under' = IF under = Gap THEN 0 ELSE under + 1
    BY <1>1, <1>2, <1>3, <1>6, <1>4, <1>5, <1>8, <1>9, <2>1, <2>3, <2>7 DEF Primed
  <2> QED BY <1>11, <2>4, <2>5, <2>6, <2>7, CounterClock
<1> QED BY <1>10, <1>11

\* Asleep the program waits for a mark; awake it finds the counter primed in the gap only.
LEMMA PrimedTurns ==
    ASSUME IInv, ControlInv, SearchInv, CounterInv, NEW ends \in BOOLEAN, NEW newPass,
           NEW write, Turn(ends, write, newPass), Moves(write, newPass)
    PROVE  /\ pc' = "sleep" /\ settling' => slept' = 0
           /\ pc' = "sleep" /\ Primed' /\ under' # Gap => slept' <= offset' + 1
           /\ Active' /\ Primed' => under' = Gap
<1>1. /\ CounterMod \in Nat /\ CounterMod > 1 /\ Sectors \in Nat /\ Sectors > 0
      /\ under \in 0 .. Sectors /\ offset \in 0 .. MaxLength - 1 /\ MaxLength \in Nat
      /\ slept \in Nat /\ Gap = Sectors
  BY Numbers DEF IInv, TypeOK
<1>2. Spin(ends) /\ offset' \in Nat
  BY <1>1 DEF Turn, Spin
<1>3. pc' = "sleep" /\ settling' => slept' = 0
  BY DEF Moves, Moved
<1>4. CASE pc = "enable"
  BY <1>2, <1>3, <1>4 DEF Moves, Moved, Active
<1>5. CASE pc = "sleep" \/ Active
  <2>1. control.enable
    BY <1>5 DEF ControlInv, Active
  <2>2. Primed' => under' = Gap \/ (sector_counter' = sector_counter /\ ~IndexPulse(ends)
                                    /\ ~SectorPulse(ends))
    <3>1. SectorPulse(ends) => Incremented # CounterMod - 1
      BY <1>5, NotPrimedByMark
    <3> QED BY <1>1, <2>1, <3>1, CounterClock DEF Primed
  <2>3. ASSUME Primed', under' # Gap, pc = "sleep", settling
        PROVE  slept' <= offset' + 1 /\ pc' = "sleep"
    <3>1. slept = 0 /\ pc' = "sleep" /\ (slept' = slept \/ slept' = slept + 1)
      BY <2>3 DEF CounterInv, Moves, Moved
    <3> QED BY <1>1, <1>2, <3>1
  <2>4. ASSUME Primed', under' # Gap, Running
        PROVE  Primed /\ under # Gap /\ offset' = offset + 1
    <3>1. ~ends
      BY <1>2, <2>2, <2>4, EndIsSeen
    <3> QED BY <1>2, <2>2, <2>4, <3>1 DEF Spin, Primed, Gap
  <2>5. ASSUME Primed', under' # Gap, pc = "sleep", ~settling
        PROVE  pc' = "sleep" /\ slept' <= offset' + 1
    <3>1. Primed /\ under # Gap /\ offset' = offset + 1
      BY <2>1, <2>4, <2>5 DEF Running
    <3>2. slept <= offset + 1
      BY <2>5, <3>1 DEF CounterInv
    <3>3. SoftSector
      <4>1. ~(sector_counter <= Earlier + SinceIndex)
        BY <1>1, <2>5, <3>1, Room DEF Primed, IInv
      <4> QED BY <4>1 DEF CounterInv
    <3>4. Sleep > MaxLength + IndexGap
      <4>1. TRUE \in SoftSectors
        BY <3>3 DEF ControlInv, IInv, TypeOK, TimerTypeOK, ControlType, SoftSector
      <4> QED BY <4>1, SleepAssumption
    <3>5. slept # Sleep
      BY <1>1, <3>2, <3>4, Numbers
    <3>6. pc' = "sleep" /\ slept' \in {slept, slept + 1}
      BY <2>5, <3>5 DEF Moves, Moved
    <3> QED BY <1>1, <3>1, <3>2, <3>6
  <2>6. ASSUME Primed', Active, Active' PROVE under' = Gap
    <3> SUFFICES ASSUME under' # Gap PROVE FALSE
      OBVIOUS
    <3>1. Primed /\ under # Gap
      BY <2>1, <2>4, <2>6 DEF Running, Active
    <3> QED BY <2>6, <3>1 DEF CounterInv
  <2>7. pc' = "sleep" => pc = "sleep"
    BY <1>5 DEF Moves, Moved, Active
  <2>8. Active' => Active \/ pc = "sleep"
    BY <1>5
  <2> QED BY <1>3, <1>5, <2>3, <2>5, <2>6, <2>7, <2>8 DEF Active
<1>6. CASE ~(pc = "enable" \/ pc = "sleep" \/ Active)
  BY <1>3, <1>6 DEF Moves, Moved, Active
<1> QED BY <1>4, <1>5, <1>6

\* From the first task that was started on, or the first index pulse, the counter is right.
LEMMA RightTurns ==
    ASSUME IInv, ControlInv, SearchInv, CounterInv, PipelineInv, Active,
           NEW ends \in BOOLEAN, NEW newPass, NEW write,
           Turn(ends, write, newPass), Moves(write, newPass),
           Consumed' > 0 \/ turns' > 0
    PROVE  CounterRight'
<1>1. /\ CounterMod \in Nat /\ CounterMod > 1 /\ Sectors \in Nat /\ Sectors > 0
      /\ Sectors < CounterMod /\ under \in 0 .. Sectors /\ Gap = Sectors
      /\ turns \in Nat /\ task \in Nat /\ Len(tasks) \in Nat
  BY Numbers DEF IInv, TypeOK, TimerTypeOK
<1>2. control.enable /\ Running /\ ~newPass
  BY WritesTask DEF ControlInv, Active, Running
<1>3. Spin(ends)
  BY DEF Turn
<1>4. /\ Consumed \in Nat /\ (current_task_valid => current_task_data = Consumed)
      /\ Consumed' = IF Consumes(IndexPulse(ends), SectorPulse(ends))
                     THEN Consumed + 1 ELSE Consumed
  BY <1>1, PipelineStep DEF IInv, PipelineInv, Consecutive, Consumed, Front
<1>5. turns' = IF IndexPulse(ends) /\ pc = "wait" /\ turns < 2 THEN turns + 1 ELSE turns
  BY <1>2 DEF Turn
<1>6. /\ sector_counter \in Nat /\ sector_counter < CounterMod
      /\ Incremented = IF Primed THEN 0 ELSE sector_counter + 1
  BY NextNumber DEF IInv
<1>7. CASE IndexPulse(ends)
  BY <1>1, <1>2, <1>7, CounterClock DEF CounterRight, Gap
<1>8. CASE SectorPulse(ends) /\ ~IndexPulse(ends)
  <2>1. CounterRight
    <3>1. CASE Consumed > 0 \/ turns > 0
      BY <3>1 DEF CounterInv
    <3>2. CASE ~(Consumed > 0 \/ turns > 0)
      <4>1. Consumes(IndexPulse(ends), SectorPulse(ends)) /\ Consumed = 0
        <5>1. Consumed = 0 /\ turns = 0
          BY <1>1, <1>4, <3>2
        <5>2. turns' = 0
          BY <1>5, <1>8, <5>1
        <5>3. Consumed' # 0
          BY <5>2
        <5> QED BY <1>4, <5>1, <5>3
      <4>2. Incremented = 0
        BY <1>4, <1>8, <4>1 DEF Consumes, Reaches
      <4>3. Primed /\ under = Gap
        BY <1>6, <4>2 DEF CounterInv
      <4> QED BY <4>3 DEF Primed, CounterRight
    <3> QED BY <3>1, <3>2
  <2>2. /\ sector_counter' = Incremented /\ under # Sectors - 1
        /\ under' = IF under = Gap THEN 0 ELSE under + 1
    BY <1>2, <1>8, CounterClock
  <2> QED BY <1>1, <1>6, <2>1, <2>2 DEF CounterRight, Primed, Gap
<1>9. CASE ~SectorPulse(ends) /\ ~IndexPulse(ends)
  <2>1. ~ends
    BY <1>2, <1>3, <1>9, EndIsSeen
  <2>2. sector_counter' = sector_counter /\ under' = under
    BY <1>2, <1>3, <1>9, <2>1, CounterClock DEF Spin
  <2>3. ~Consumes(IndexPulse(ends), SectorPulse(ends))
    BY <1>9 DEF Consumes
  <2>4. Consumed > 0 \/ turns > 0
    BY <1>4, <1>5, <1>9, <2>3
  <2> QED BY <2>2, <2>4 DEF CounterInv, CounterRight, Gap
<1> QED BY <1>7, <1>8, <1>9

-----------------------------------------------------------------------------
(* The windows.                                                             *)

\* The counts are numbers.
LEMMA Counts ==
    ASSUME IInv, PipelineInv, Active
    PROVE  /\ Consumed \in Nat /\ Consumed <= task /\ task <= Sectors /\ task \in Nat
           /\ current_task_valid => current_task_data = Consumed /\ Consumed < task
           /\ ~current_task_valid /\ tasks = <<>> /\ ~task_write_valid => Consumed = task
<1>1. /\ task \in 0 .. Sectors /\ Sectors \in Nat /\ Len(tasks) \in Nat
      /\ (tasks = <<>> => Len(tasks) = 0)
  BY Numbers DEF IInv, TypeOK, TimerTypeOK
<1>2. Consumed >= 0 /\ (current_task_valid => current_task_data = Consumed)
  BY DEF PipelineInv, Consecutive
<1> QED BY <1>1, <1>2 DEF Consumed, Front

\* When a sector ends, its windows have been open.
LEMMA EndIsComplete ==
    ASSUME IInv, PipelineInv, WindowInv, Active, NEW ends \in BOOLEAN, Spin(ends), ends
    PROVE  Len(windows) = 2 * Consumed
<1>1. CASE ~sector_reached
  BY <1>1 DEF WindowInv
<1>2. CASE sector_reached
  <2>1. Opened = 2
    <3>1. CASE under = Gap
      BY <3>1 DEF Opened
    <3>2. CASE under # Gap
      <4>1. offset > DataAssert /\ offset \in Nat
        BY <3>2, Numbers DEF Spin, MayEnd, IInv, TypeOK
      <4>2. cycle_count = Elapsed
        BY <1>2 DEF IInv, InStep
      <4>3. cycle_count > DataAssert
        BY <4>1, <4>2, Numbers DEF Elapsed
      <4> QED BY <4>3 DEF Opened
    <3> QED BY <3>1, <3>2
  <2>2. Consumed \in Nat
    BY Counts
  <2> QED BY <1>2, <2>1, <2>2 DEF WindowInv
<1> QED BY <1>1, <1>2

\* What opens is the next window of the sector under the heads.
LEMMA OpensInOrder ==
    ASSUME IInv, ControlInv, PipelineInv, WindowInv, Active, Opens
    PROVE  /\ Consumed = under + 1 /\ under \in Nat
           /\ \/ cycle_count = AddressAssert /\ Len(windows) = 2 * under
              \/ cycle_count = DataAssert /\ Len(windows) = 2 * under + 1
           /\ <<under, cycle_count>> = ExpectedWindow(Len(windows) + 1)
<1>1. sector_reached /\ cycle_count \in {AddressAssert, DataAssert}
  BY DEF Opens
<1>2. /\ under \in 0 .. Sectors /\ offset \in Nat /\ cycle_count = Elapsed
      /\ (under = Gap => offset < IndexGap)
  BY <1>1 DEF IInv, TypeOK, InStep, DiskInv
<1>3. under # Gap
  BY <1>1, <1>2, Numbers DEF Elapsed
<1>4. Consumed = under + 1 /\ Len(windows) = 2 * (Consumed - 1) + Opened
  BY <1>1, <1>3 DEF WindowInv
<1>5. \/ cycle_count = AddressAssert /\ Opened = 0
      \/ cycle_count = DataAssert /\ Opened = 1
  BY <1>1, <1>3, Numbers DEF Opened
<1>6. \/ cycle_count = AddressAssert /\ Len(windows) = 2 * under
      \/ cycle_count = DataAssert /\ Len(windows) = 2 * under + 1
  BY <1>2, <1>4, <1>5, Numbers
<1>7. <<under, cycle_count>> = ExpectedWindow(Len(windows) + 1)
  <2>1. CASE cycle_count = AddressAssert /\ Len(windows) = 2 * under
    <3>1. (2 * under + 1 - 1) \div 2 = under /\ (2 * under + 1) % 2 = 1
      BY <1>2, Numbers
    <3> QED BY <2>1, <3>1 DEF ExpectedWindow
  <2>2. CASE cycle_count = DataAssert /\ Len(windows) = 2 * under + 1
    <3>1. ((2 * under + 2) - 1) \div 2 = under /\ (2 * under + 2) % 2 = 0
      BY <1>2, Numbers
    <3>2. Len(windows) + 1 = 2 * under + 2
      BY <1>2, <2>2, Numbers
    <3>3. ExpectedWindow(2 * under + 2) = <<under, DataAssert>>
      BY <3>1 DEF ExpectedWindow
    <3> QED BY <2>2, <3>2, <3>3
  <2> QED BY <1>6, <2>1, <2>2
<1> QED BY <1>2, <1>4, <1>6, <1>7, Numbers

LEMMA WindowTurns ==
    ASSUME IInv, ControlInv, SearchInv, PipelineInv, CounterInv, WindowInv, Active,
           NEW ends \in BOOLEAN, NEW newPass, NEW write,
           Turn(ends, write, newPass), Moves(write, newPass)
    PROVE  WindowInv'
<1> DEFINE index == IndexPulse(ends)
           sector == SectorPulse(ends)
           opening == esdi_read_gate' /\ ~esdi_read_gate
<1>1. /\ Spin(ends) /\ Counting(index, sector) /\ control.enable /\ Running /\ ~newPass
      /\ control.read_address_area /\ control.read_data_areas
  BY WritesTask DEF Turn, Clock, ControlInv, Active, Running, TypeOK, IInv
<1>2. windows' = IF opening THEN Append(windows, <<under, cycle_count>>) ELSE windows
  BY <1>1 DEF Turn
<1>3. opening <=> Opens
  <2>1. esdi_read_gate' = (Opens \/ (esdi_read_gate /\ ~Closes))
    BY <1>1 DEF Counting
  <2>2. esdi_read_gate => ~Opens
    BY Numbers DEF IInv, TypeOK, TimerTypeOK, GateInv, InWindow, Opens
  <2> QED BY <2>1, <2>2
<1>4. /\ Consumed \in Nat /\ (current_task_valid => current_task_data = Consumed)
      /\ Consumed' = IF Consumes(index, sector) THEN Consumed + 1 ELSE Consumed
  BY Counts, PipelineStep DEF IInv
<1>5. /\ index \in BOOLEAN /\ sector \in BOOLEAN /\ ~(index /\ sector)
      /\ index \/ sector => ends
  BY Pulses
<1>6. /\ under \in 0 .. Sectors /\ cycle_count \in Nat /\ Gap = Sectors /\ Sectors \in Nat
      /\ windows \in Seq((0 .. Sectors) \X (0 .. CycleBound)) /\ Len(windows) \in Nat
  BY Numbers DEF IInv, TypeOK, TimerTypeOK, DiskInv
<1> DEFINE Right == /\ ~sector_reached => Len(windows) = 2 * Consumed
                    /\ sector_reached =>
                          /\ Consumed = IF under = Gap THEN Sectors ELSE under + 1
                          /\ Len(windows) = 2 * (Consumed - 1) + Opened
<1>7. CASE Opens
  <2>1. ~ends /\ under # Gap /\ sector_reached
    BY <1>1, <1>7, NoPulse
  <2>2. windows' = Append(windows, <<under, cycle_count>>) /\ under' = under
    BY <1>1, <1>2, <1>3, <1>7, <2>1 DEF Spin
  <2>3. /\ Consumed = under + 1
        /\ \/ cycle_count = AddressAssert /\ Len(windows) = 2 * under
           \/ cycle_count = DataAssert /\ Len(windows) = 2 * under + 1
        /\ <<under, cycle_count>> = ExpectedWindow(Len(windows) + 1)
    BY <1>7, OpensInOrder
  <2>4. <<under, cycle_count>> \in (0 .. Sectors) \X (0 .. CycleBound)
    BY <1>6 DEF IInv, TypeOK, TimerTypeOK
  <2>5. /\ Len(windows') = Len(windows) + 1
        /\ \A n \in 1 .. Len(windows) : windows'[n] = windows[n]
        /\ windows'[Len(windows) + 1] = <<under, cycle_count>>
    BY <1>6, <2>2, <2>4
  <2>6. PacketsInOrder'
    <3>1. ASSUME NEW n \in 1 .. Len(windows') PROVE windows'[n] = ExpectedWindow(n)
      <4>1. n \in 1 .. Len(windows) \/ n = Len(windows) + 1
        BY <1>6, <2>5
      <4>2. CASE n \in 1 .. Len(windows)
        BY <2>5, <4>2 DEF WindowInv, PacketsInOrder
      <4>3. CASE n = Len(windows) + 1
        BY <2>3, <2>5, <4>3
      <4> QED BY <4>1, <4>2, <4>3
    <3> QED BY <3>1 DEF PacketsInOrder, ExpectedWindow
  <2>7. sector_reached' /\ cycle_count' = cycle_count + 1
    BY <1>1, <1>5, <2>1, <1>6, <2>3, Numbers DEF Counting
  <2>8. Consumed' = Consumed
    BY <1>4, <1>5, <2>1 DEF Consumes
  <2>9. \/ cycle_count = AddressAssert /\ Opened' = 1
        \/ cycle_count = DataAssert /\ Opened' = 2
    BY <1>6, <2>1, <2>2, <2>3, <2>7, Numbers DEF Opened, Gap
  <2>10. Len(windows') = 2 * (Consumed - 1) + Opened'
    <3>1. 2 * (Consumed - 1) = 2 * under
      BY <1>6, <2>3
    <3>2. CASE cycle_count = AddressAssert /\ Opened' = 1
      BY <1>6, <2>3, <2>5, <3>1, <3>2, Numbers
    <3>3. CASE cycle_count = DataAssert /\ Opened' = 2
      <4>1. Len(windows) = 2 * under + 1
        BY <1>6, <2>3, <3>3, Numbers
      <4>2. Len(windows') = 2 * under + 2
        BY <1>6, <2>5, <4>1
      <4> QED BY <3>1, <3>3, <4>2
    <3> QED BY <2>9, <3>2, <3>3
  <2>11. Consumed' = under' + 1 /\ under' # Gap'
    BY <2>1, <2>2, <2>3, <2>8 DEF Gap
  <2>12. Right'
    BY <2>7, <2>8, <2>10, <2>11
  <2> QED BY <2>6, <2>12 DEF WindowInv
<1>8. CASE ~Opens
  <2>1. windows' = windows
    BY <1>2, <1>3, <1>8
  <2>2. PacketsInOrder'
    BY <2>1 DEF WindowInv, PacketsInOrder, ExpectedWindow
  <2>3. CASE ~ends
    <3>1. /\ under' = under /\ Consumed' = Consumed /\ sector_reached' = sector_reached
          /\ cycle_count' = IF cycle_count < CycleBound THEN cycle_count + 1 ELSE cycle_count
      BY <1>1, <1>4, <1>5, <2>3 DEF Spin, Consumes, Counting
    <3>2. sector_reached /\ under # Gap => cycle_count # AddressAssert /\ cycle_count # DataAssert
      BY <1>1, <1>8 DEF Opens
    <3>3. sector_reached => Opened' = Opened
      BY <1>6, <3>1, <3>2, Numbers DEF Opened, Gap
    <3>4. Right'
      BY <2>1, <3>1, <3>3 DEF WindowInv, Gap
    <3> QED BY <2>2, <3>4 DEF WindowInv
  <2>4. CASE ends
    <3>1. Len(windows) = 2 * Consumed
      BY <1>1, <2>4, EndIsComplete
    <3>2. index \/ sector
      BY <1>1, <2>4, EndIsSeen
    <3>3. cycle_count' = 0
      BY <1>1, <3>2 DEF Counting
    <3>4. CASE index /\ SoftSector
      <4>1. ~Consumes(index, sector) /\ sector_reached' = sector_reached
        BY <1>1, <1>5, <3>4 DEF Consumes, Counting
      <4>2. under' = Gap /\ under = Sectors - 1
        BY <1>1, <3>4, CounterClock
      <4>3. Consumed' = Consumed /\ Opened' = 2
        BY <1>4, <4>1, <4>2 DEF Opened, Gap
      <4>4. sector_reached => Consumed = Sectors
        BY <1>6, <4>2 DEF WindowInv
      <4>5. Right'
        BY <1>4, <1>6, <2>1, <3>1, <4>1, <4>2, <4>3, <4>4 DEF Gap
      <4> QED BY <2>2, <4>5 DEF WindowInv
    <3>5. CASE sector \/ ~SoftSector
      <4>1. sector_reached' = Starts(index, sector)
        BY <1>1, <3>2, <3>5 DEF Counting
      <4>2. Starts(index, sector) <=> Consumes(index, sector)
        BY <1>5 DEF Starts, Consumes
      <4>3. CASE ~Consumes(index, sector)
        <5>1. Consumed' = Consumed /\ ~sector_reached'
          BY <1>4, <4>1, <4>2, <4>3
        <5>2. Right'
          BY <2>1, <3>1, <5>1
        <5> QED BY <2>2, <5>2 DEF WindowInv
      <4>4. CASE Consumes(index, sector)
        <5>1. Consumed' = Consumed + 1 /\ current_task_valid
          BY <1>4, <4>4 DEF Consumes, Reaches
        <5>2. CounterRight'
          BY <1>4, <1>6, <5>1, RightTurns
        <5>3. under' = Consumed /\ under' # Gap
          <6>1. sector_counter' = Consumed /\ under' # Gap
            <7>1. CASE sector
              <8>1. /\ sector_counter' = Incremented /\ under # Sectors - 1
                    /\ under' = IF under = Gap THEN 0 ELSE under + 1
                BY <1>1, <1>5, <7>1, CounterClock
              <8>2. Incremented = Consumed
                BY <1>4, <1>5, <4>4, <7>1 DEF Consumes, Reaches
              <8> QED BY <1>6, <8>1, <8>2, Numbers
            <7>2. CASE ~sector
              <8>1. sector_counter' = 0 /\ under' = 0
                BY <1>1, <3>2, <3>5, <7>2, CounterClock
              <8>2. Consumed = 0
                BY <1>4, <4>4, <7>2 DEF Consumes, Reaches
              <8> QED BY <1>6, <8>1, <8>2, Numbers
            <7> QED BY <7>1, <7>2
          <6> QED BY <5>2, <6>1 DEF CounterRight, Gap
        <5>4. Opened' = 0
          BY <3>3, <5>3, Numbers DEF Opened, Gap
        <5>5. Right'
          BY <1>4, <2>1, <3>1, <5>1, <5>3, <5>4, <4>1, <4>2, <4>4 DEF Gap
        <5> QED BY <2>2, <5>5 DEF WindowInv
      <4> QED BY <4>3, <4>4
    <3> QED BY <3>2, <3>4, <3>5
  <2> QED BY <2>3, <2>4
<1> QED BY <1>7, <1>8

-----------------------------------------------------------------------------
(* The next task is waiting when its sector comes.                          *)

LEMMA LoadTurns ==
    ASSUME IInv, ControlInv, PipelineInv, LoadInv, Active,
           NEW ends \in BOOLEAN, NEW newPass, NEW write,
           Turn(ends, write, newPass), Moves(write, newPass)
    PROVE  LoadInv'
<1> DEFINE index == IndexPulse(ends)
           sector == SectorPulse(ends)
           loads == ~current_task_valid /\ tasks # <<>>
           accepts == task_write_valid /\ TaskReady
           kept == IF loads THEN Tail(tasks) ELSE tasks
<1>1. control.enable /\ ~control.soft_reset
  BY DEF ControlInv, Active
<1>2. /\ tasks' = IF accepts THEN Append(kept, task_write_data) ELSE kept
      /\ current_task_valid' <=> loads \/ (current_task_valid /\ ~Consumes(index, sector))
      /\ task_write_valid' <=> write.reg = "task" \/ (task_write_valid /\ ~TaskReady)
  BY <1>1 DEF Turn, Clock, Tasking, CurrentTask
<1>3. ~TaskReady => tasks # <<>>
  BY Numbers DEF TaskReady, IInv, TypeOK, TimerTypeOK
<1>4. tasks # <<>> => current_task_valid' \/ (current_task_valid /\ kept = tasks)
  BY <1>2
<1>5. tasks # <<>> /\ ~current_task_valid' => tasks' # <<>>
  BY <1>2, <1>4 DEF IInv, TypeOK, TimerTypeOK
<1>6. write.reg = "task" => pc' = "queue" /\ settling'
  BY WritesTask
<1>7. ~current_task_valid' /\ tasks' = <<>> /\ task_write_valid' => write.reg = "task"
  BY <1>2, <1>3, <1>5
<1>8. ASSUME pc' = "wait", ~current_task_valid', tasks' # <<>>
      PROVE  offset' = 0 /\ under' # Gap'
  <2>1. CASE current_task_valid
    <3>1. Consumes(index, sector)
      BY <1>2, <1>8, <2>1
    <3>2. (index /\ ~SoftSector) \/ sector
      BY <3>1 DEF Consumes
    <3> QED BY <1>1, <3>2, CounterClock, Numbers DEF Gap, IInv, TypeOK
  <2>2. CASE ~current_task_valid
    <3>1. tasks = <<>> /\ task_write_valid
      BY <1>2, <1>8, <2>2
    <3>2. \/ pc = "wait"
          \/ pc = "queue" /\ ~settling
      <4>1. Active'
        BY <1>8 DEF Active
      <4> QED BY <1>8, <4>1, WritesTask
    <3> QED BY <2>2, <3>1, <3>2 DEF LoadInv
  <2> QED BY <2>1, <2>2
<1> QED BY <1>6, <1>7, <1>8 DEF LoadInv

-----------------------------------------------------------------------------
(* Two index pulses.                                                        *)

LEMMA TurnsTurns ==
    ASSUME IInv, ControlInv, SearchInv, PipelineInv, CounterInv, WindowInv, LoadInv, TurnsInv,
           Active, CounterInv', PipelineInv', WindowInv', IInv',
           NEW ends \in BOOLEAN, NEW newPass, NEW write,
           Turn(ends, write, newPass), Moves(write, newPass)
    PROVE  TurnsInv'
<1> DEFINE index == IndexPulse(ends)
           sector == SectorPulse(ends)
<1> SUFFICES ASSUME pc' = "wait", task' = Sectors
             PROVE  /\ turns' > 0 /\ under' # Gap' => Consumed' > under'
                    /\ turns' = 2 => /\ Consumed' = Sectors
                                     /\ sector_reached' => under' = Gap'
  BY DEF TurnsInv
<1>1. /\ Spin(ends) /\ Counting(index, sector) /\ control.enable /\ Running /\ ~newPass
      /\ Active'
  BY WritesTask DEF Turn, Clock, ControlInv, Active, Running
<1>2. /\ turns' = IF index /\ pc = "wait" /\ turns < 2 THEN turns + 1 ELSE turns
      /\ turns \in 0 .. 2
  BY <1>1 DEF Turn, IInv, TypeOK
<1>3. CASE pc = "queue"
  <2>1. turns = 0 /\ turns' = 0
    BY <1>2, <1>3 DEF ControlInv
  <2> QED BY <2>1
<1>4. CASE pc = "wait"
  <2>1. task = Sectors
    BY <1>1, <1>4, WritesTask
  <2>2. /\ Consumed \in Nat /\ (current_task_valid => current_task_data = Consumed)
        /\ Consumed' = IF Consumes(index, sector) THEN Consumed + 1 ELSE Consumed
        /\ Consumed <= Sectors /\ Sectors \in Nat /\ Sectors > 0
        /\ under \in 0 .. Sectors /\ Gap = Sectors
    BY <2>1, Counts, PipelineStep, Numbers DEF IInv, TypeOK
  <2>3. ends /\ Consumed < Sectors => current_task_valid
    <3> SUFFICES ASSUME ends, Consumed < Sectors, ~current_task_valid PROVE FALSE
      OBVIOUS
    <3>1. tasks # <<>>
      <4>1. Consumed # task
        BY <2>1, <2>2
      <4>2. tasks = <<>> => ~task_write_valid
        BY <1>4 DEF LoadInv
      <4> QED BY <4>1, <4>2, Counts
    <3>2. offset = 0 /\ under # Gap
      BY <1>4, <3>1 DEF LoadInv
    <3> QED BY <1>1, <3>2, Numbers DEF Spin, MayEnd
  <2>4. CASE ~ends
    <3>1. ~index /\ ~sector
      BY <2>4, Pulses
    <3>2. /\ turns' = turns /\ under' = under /\ Consumed' = Consumed
          /\ sector_reached' = sector_reached
      BY <1>1, <1>2, <2>2, <2>4, <3>1 DEF Spin, Consumes, Counting
    <3> QED BY <1>4, <2>1, <3>2 DEF TurnsInv, Gap
  <2>5. CASE ends /\ Consumed = Sectors
    <3>1. ~Consumes(index, sector)
      <4>1. ~current_task_valid
        BY <2>1, <2>2, <2>5, Counts
      <4> QED BY <4>1 DEF Consumes, Reaches
    <3>2. Consumed' = Sectors
      BY <2>2, <2>5, <3>1
    <3>3. sector_reached' => under' = Gap'
      BY <1>1, <2>2, <2>5, <3>1, CounterClock, EndIsSeen DEF Counting, Starts, Consumes, Gap
    <3>4. under' # Gap' => under' < Sectors
      BY <2>2 DEF IInv, TypeOK, Gap
    <3> QED BY <2>2, <3>2, <3>3, <3>4
  <2>6. CASE ends /\ Consumed < Sectors
    <3>1. current_task_valid /\ current_task_data = Consumed /\ Consumed \in 0 .. Sectors - 1
      BY <2>2, <2>3, <2>6
    <3>2. /\ index \/ sector
          /\ index \in BOOLEAN /\ sector \in BOOLEAN /\ ~(index /\ sector)
      BY <1>1, <2>6, EndIsSeen, Pulses
    <3>3. turns < 2 /\ (turns > 0 /\ under # Gap => Consumed > under)
      BY <1>2, <1>4, <2>1, <2>2, <2>6 DEF TurnsInv
    <3>4. CASE index
      <4>1. /\ turns' = turns + 1 /\ under = Sectors - 1
            /\ IF SoftSector THEN under' = Gap ELSE under' = 0
        BY <1>1, <1>2, <1>4, <3>2, <3>3, <3>4, CounterClock
      <4>2. turns' # 2
        <5>1. turns > 0 => Consumed > Sectors - 1
          BY <2>2, <3>3, <4>1
        <5>2. turns = 0
          BY <1>2, <2>2, <2>6, <5>1
        <5> QED BY <4>1, <5>2
      <4>3. ~SoftSector => Consumed' > 0
        BY <2>2, <3>1, <3>4 DEF Consumes, Reaches
      <4> QED BY <4>1, <4>2, <4>3 DEF Gap
    <3>5. CASE sector /\ ~index
      <4>1. turns' = turns
        BY <1>2, <3>5
      <4>2. PICK number \in 0 .. Sectors - 1 :
               under' = number /\ number = IF under = Gap THEN 0 ELSE under + 1
        BY <1>1, <2>2, <3>5, CounterClock
      <4>3. turns > 0 => Incremented = number
        <5> SUFFICES ASSUME turns > 0 PROVE Incremented = number
          OBVIOUS
        <5>1. CounterRight
          BY DEF CounterInv
        <5> QED BY <2>2, <4>2, <5>1, NextNumber, Numbers DEF CounterRight, Primed, IInv
      <4>4. turns > 0 => Consumed >= number
        BY <2>2, <3>3, <4>2
      <4>5. turns > 0 /\ Consumed = number => Consumed' = Consumed + 1
        BY <2>2, <3>1, <3>5, <4>3 DEF Consumes, Reaches
      <4>6. turns > 0 => Consumed' > number
        BY <2>2, <4>4, <4>5
      <4> QED BY <1>2, <3>3, <4>1, <4>2, <4>6
    <3> QED BY <3>2, <3>4, <3>5
  <2> QED BY <2>2, <2>4, <2>5, <2>6
<1> QED BY <1>1, <1>3, <1>4, WritesTask

-----------------------------------------------------------------------------
(* A pass begins with nothing left of the one before.                       *)

LEMMA PassBegins ==
    ASSUME IInv, ControlInv, QuietInv, ~Active, NEW ends, NEW newPass, NEW write,
           Turn(ends, write, newPass), Moves(write, newPass)
    PROVE  Active' => /\ pc = "sleep" /\ pc' = "queue" /\ task' = 0 /\ turns' = 0
                      /\ Empty' /\ ~sector_reached' /\ windows' = <<>>
<1> SUFFICES ASSUME Active'
             PROVE  /\ pc = "sleep" /\ pc' = "queue" /\ task' = 0 /\ turns' = 0
                    /\ Empty' /\ ~sector_reached' /\ windows' = <<>>
  OBVIOUS
<1>1. pc = "sleep" /\ pc' = "queue" /\ task' = 0 /\ ~newPass /\ write.reg # "task"
  BY DEF Active, Moves, Moved
<1>2. Empty /\ ~sector_reached /\ ~esdi_read_gate /\ windows = <<>>
  BY <1>1 DEF QuietInv, Quiet, Active
<1>3. turns = 0
  BY <1>1 DEF ControlInv
<1>4. turns' = 0
  BY <1>1, <1>3 DEF Turn
<1> QED BY <1>1, <1>2, <1>4, EmptyStays

\* Between passes the windows of the last one stay as they are.
LEMMA WindowsStay ==
    ASSUME IInv, ControlInv, QuietInv, ~Active, NEW ends, NEW newPass, NEW write,
           Turn(ends, write, newPass), Moves(write, newPass)
    PROVE  windows' \in {<<>>, windows}
<1>1. CASE ~control.enable
  BY <1>1, DisabledStays
<1>2. CASE control.enable
  <2>1. Empty /\ ~sector_reached /\ ~esdi_read_gate
    BY <1>2 DEF ControlInv, QuietInv, Quiet, Active
  <2>2. write.reg # "task"
    BY DEF Moves, Moved, Active
  <2> QED BY <2>1, <2>2, EmptyStays
<1> QED BY <1>1, <1>2

LEMMA PassInv ==
    ASSUME IInv, ControlInv, QuietInv, WindowInv, ~Active, NEW ends, NEW newPass, NEW write,
           Turn(ends, write, newPass), Moves(write, newPass)
    PROVE  /\ PipelineInv' /\ WindowInv' /\ LoadInv' /\ TurnsInv'
           /\ Active' => ~(Consumed' > 0 \/ turns' > 0)
<1>1. Active' => /\ pc = "sleep" /\ pc' = "queue" /\ task' = 0 /\ turns' = 0
                 /\ Empty' /\ ~sector_reached' /\ windows' = <<>>
  BY PassBegins
<1>2. PacketsInOrder'
  <2>1. windows' \in {<<>>, windows}
    BY WindowsStay
  <2>2. CASE windows' = <<>>
    BY <2>2 DEF PacketsInOrder
  <2>3. CASE windows' = windows
    BY <2>3 DEF WindowInv, PacketsInOrder, ExpectedWindow
  <2> QED BY <2>1, <2>2, <2>3
<1>3. Active' => Consumed' = 0 /\ Consecutive'
  <2> SUFFICES ASSUME Active' PROVE Consumed' = 0 /\ Consecutive'
    OBVIOUS
  <2>1. task' = 0 /\ ~task_write_valid' /\ tasks' = <<>> /\ ~current_task_valid'
    BY <1>1 DEF Empty
  <2>2. Len(tasks') = 0
    BY <2>1
  <2>3. Front' = 0 - 0 - 0
    BY <2>1, <2>2, Zenon DEF Front
  <2>4. Consumed' = Front' - 0
    BY <2>1, Zenon DEF Consumed
  <2>5. Consumed' = 0 /\ Front' = 0
    BY <2>3, <2>4
  <2> QED BY <2>1, <2>2, <2>5 DEF Consecutive
<1>4. Active' => Len(windows') = 2 * Consumed'
  BY <1>1, <1>3
<1>5. LoadInv' /\ TurnsInv'
  BY <1>1 DEF LoadInv, TurnsInv, Active, Empty
<1> QED BY <1>1, <1>2, <1>3, <1>4, <1>5 DEF PipelineInv, WindowInv

-----------------------------------------------------------------------------
LEMMA OrderStep ==
    ASSUME IInv, OrderInv, Next
    PROVE  OrderInv'
<1>1. IInv'
  BY TurnStep
<1>2. PICK write : \E ends, newPass \in BOOLEAN : Turn(ends, write, newPass) /\ Moves(write, newPass)
  BY NextMoves
<1>3. PICK ends \in BOOLEAN, newPass \in BOOLEAN : Turn(ends, write, newPass) /\ Moves(write, newPass)
  BY <1>2
<1>4. /\ ControlInv /\ QuietInv /\ SearchInv /\ PipelineInv /\ CounterInv
      /\ WindowInv /\ LoadInv /\ TurnsInv
  BY DEF OrderInv
<1>5. TypeOK /\ TypeOK'
  BY <1>1 DEF IInv
<1>6. ControlInv'
  BY <1>3, <1>4, <1>5, ControlTurns
<1>7. QuietInv'
  BY <1>3, <1>4, <1>5, QuietTurns
<1>8. SearchInv'
  BY <1>3, <1>4, <1>6, SearchTurns
<1>9. PipelineInv' /\ WindowInv' /\ LoadInv'
  <2>1. CASE Active
    <3>1. Consecutive'
      BY <1>3, <1>4, <1>5, <2>1, PipelineStep
    <3>2. WindowInv'
      BY <1>3, <1>4, <2>1, WindowTurns
    <3>3. LoadInv'
      BY <1>3, <1>4, <2>1, LoadTurns
    <3> QED BY <3>1, <3>2, <3>3 DEF PipelineInv
  <2>2. CASE ~Active
    BY <1>3, <1>4, <2>2, PassInv
  <2> QED BY <2>1, <2>2
<1>10. CounterInv'
  <2>1. (SoftSector' /\ Primed') \/ sector_counter' <= Earlier' + SinceIndex'
    BY <1>3, <1>4, <1>5, <1>6, BoundTurns
  <2>2. /\ pc' = "sleep" /\ settling' => slept' = 0
        /\ pc' = "sleep" /\ Primed' /\ under' # Gap => slept' <= offset' + 1
        /\ Active' /\ Primed' => under' = Gap
    BY <1>3, <1>4, PrimedTurns
  <2>3. Active' /\ (Consumed' > 0 \/ turns' > 0) => CounterRight'
    <3>1. CASE Active
      BY <1>3, <1>4, <3>1, RightTurns
    <3>2. CASE ~Active
      BY <1>3, <1>4, <3>2, PassInv
    <3> QED BY <3>1, <3>2
  <2> QED BY <2>1, <2>2, <2>3 DEF CounterInv, Gap
<1>11. TurnsInv'
  <2>1. CASE Active
    BY <1>1, <1>3, <1>4, <1>9, <1>10, <2>1, TurnsTurns
  <2>2. CASE ~Active
    BY <1>3, <1>4, <2>2, PassInv
  <2> QED BY <2>1, <2>2
<1> QED BY <1>6, <1>7, <1>8, <1>9, <1>10, <1>11 DEF OrderInv

LEMMA OrderInductive == Spec => [](IInv /\ OrderInv)
<1>1. ASSUME Init PROVE OrderInv
  <2>1. /\ SoftSector \in SoftSectors /\ ~control.enable /\ ~control.soft_reset
    BY <1>1 DEF Init, TimerInit, SoftSector
  <2>2. /\ pc = "stopReset" /\ pass = 0 /\ windows = <<>> /\ turns = 0 /\ ~settling
        /\ ~sector_reached /\ ~esdi_read_gate /\ next_ame_countdown = 0
        /\ sector_counter = 0 /\ under \in 0 .. Sectors - 1
    BY <1>1 DEF Init, TimerInit, Sector
  <2>3. ControlInv /\ QuietInv /\ SearchInv
    BY <2>1, <2>2 DEF ControlInv, QuietInv, SearchInv, Quiet, Active, Running
  <2>4. Earlier + SinceIndex = Sectors
    BY <2>1, <2>2, Numbers DEF Earlier, Intervals, SinceIndex
  <2>5. PipelineInv /\ CounterInv
    BY <2>2, <2>4, Numbers DEF PipelineInv, CounterInv, Active
  <2>6. WindowInv /\ LoadInv /\ TurnsInv
    BY <2>2 DEF WindowInv, PacketsInOrder, LoadInv, TurnsInv, Active
  <2> QED BY <2>3, <2>5, <2>6 DEF OrderInv
<1>2. ASSUME IInv, OrderInv, [Next]_vars PROVE OrderInv'
  <2>1. CASE Next
    BY <1>2, <2>1, OrderStep
  <2>2. CASE UNCHANGED vars
    <3>1. UNCHANGED <<timerVars, spindle, program, history>>
      BY <2>2 DEF vars
    <3>2. ControlInv' /\ QuietInv' /\ SearchInv'
      BY <1>2, <3>1
      DEF timerVars, gating, tasking, spindle, program, history, OrderInv, ControlInv,
          QuietInv, SearchInv, Active, Running, Empty, Quiet, SoftSector, Remaining, Gap
    <3>3. Active' = Active /\ Consumed' = Consumed /\ Front' = Front
      BY <3>1 DEF timerVars, gating, tasking, program, Active, Consumed, Front
    <3>4. PipelineInv' /\ LoadInv' /\ TurnsInv'
      BY <1>2, <3>1, <3>3
      DEF timerVars, gating, tasking, spindle, program, history, OrderInv, PipelineInv,
          LoadInv, TurnsInv, Consecutive, Gap
    <3>5. CounterInv'
      BY <1>2, <3>1, <3>3
      DEF timerVars, gating, tasking, spindle, program, history, OrderInv, CounterInv,
          SoftSector, Primed, CounterRight, Earlier, Intervals, SinceIndex, Gap
    <3>6. WindowInv'
      BY <1>2, <3>1, <3>3
      DEF timerVars, gating, tasking, spindle, program, history, OrderInv, WindowInv,
          Opened, PacketsInOrder, ExpectedWindow, Gap
    <3> QED BY <3>2, <3>4, <3>5, <3>6 DEF OrderInv
  <2> QED BY <1>2, <2>1, <2>2
<1> QED BY <1>1, <1>2, Inductive, PTL DEF Spec

\* PacketsInOrder: the n-th packet of a pass is the area that descriptor n of
\* read_track_sg is taken for, whatever passes, given up or not, went before.
THEOREM PacketsComeInOrder == Spec => []PacketsInOrder
<1>1. OrderInv => PacketsInOrder
  BY DEF OrderInv, WindowInv
<1> QED BY <1>1, OrderInductive, PTL

\* TwoTurnsSuffice: once its tasks are queued a pass of read_track_sg has all its
\* packets after two index pulses.
THEOREM TwoTurnsAreEnough == Spec => []TwoTurnsSuffice
<1>1. ASSUME IInv, OrderInv PROVE TwoTurnsSuffice
  <2> SUFFICES ASSUME pc = "wait", task = Sectors, turns = 2
               PROVE  Len(windows) = 2 * Sectors /\ ~esdi_read_gate
    BY DEF TwoTurnsSuffice, AllRead
  <2>1. Active /\ PipelineInv /\ WindowInv
    BY <1>1 DEF OrderInv, Active
  <2>2. Consumed = Sectors /\ (sector_reached => under = Gap)
    BY <1>1 DEF OrderInv, TurnsInv
  <2>3. ~esdi_read_gate
    BY <1>1, <2>2 DEF IInv, GateInv
  <2>4. CASE ~sector_reached
    BY <2>1, <2>2, <2>3, <2>4 DEF WindowInv
  <2>5. CASE sector_reached
    <3>1. Opened = 2 /\ Len(windows) = 2 * (Sectors - 1) + Opened
      BY <2>1, <2>2, <2>5 DEF WindowInv, Opened
    <3> QED BY <2>3, <3>1, Numbers
  <2> QED BY <2>4, <2>5
<1> QED BY <1>1, OrderInductive, PTL
=============================================================================
