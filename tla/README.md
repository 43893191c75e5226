# Verification of the ESDI disk interface

TLA+ models of the hardware (`src/hdl`) and the imaging program (`src/software`) that read
ESDI drives through a Zynq board, the TLC configurations that check them on small
instances, and theorems about them that TLAPS checks for every instance.

Check a configuration with `tlc -config X.cfg M`, a proof with `tlapm M.tla`.

## 1. Inventory

| component | source | state it keeps | operations | correct when |
|---|---|---|---|---|
| Stream FIFO | `hdl/fifo.v` | memory, two wrapping pointers | reset, push, pop, both | it is a bounded queue: nothing lost, duplicated or reordered |
| Sector timer | `hdl/axi_esdi_sector_timing.v` | cycle and sector counters, task FIFO and current task, read gate, address mark search | one clock with pulses and a register write | the gate opens over the sectors asked for, in order, inside their windows |
| Command controller | `hdl/axi_esdi_cmd_controller.v` | serial state machine, shift registers, one word each way | one clock with the drive's lines and a register access | words and answers cross the handshake intact or are flagged |
| Read datapath | `hdl/axi_esdi_read_datapath.v` | deserialiser, byte held back, byte offered, overflow flag | one clock with a bit, the gate and the consumer | one packet per opening of the gate, no bit lost silently |
| Track read | `software/datapath.c` | DMA descriptors, raw sectors, leftovers in stream and DMA | configure, start, `read_track_sg`, `flush_fifo`, `reset_dma` | a buffer holds the area of its sector of this pass, garbage, or what it held |
| Bit alignment | `findbyte`, `copy_buff_*` | none | find the sync byte at any bit, realign | what is copied is what was read |
| CRC | `software/crc.c` | none | CRC-16, 32, 48, 56 | the remainder of the division of polynomials |
| Formats | `software/{adaptec_acb2322,ibm_*,ultrastor_12f}.c` | none | expected LBAs, decode a sector | layouts partition the LBAs, a block is only accepted from its place |
| Imaging loop | `software/main.c`, `util.c` | loops, sector statuses, processed LBAs, image, emulation file | seek, read, decode, save, retry, report, interrupt | the image holds right blocks, and what is missing is reported |
| Emulation file | `software/main.c` | header, drive configuration, one slot per sector | write a slot, read one | an area read from a slot is the one written |
| Serial commands | `software/serial_command.c`, `drive.c` | none | query, command, retry | a query returns its own answer or an error |
| Auxiliary | `test.c`, `rechs.c`, `*.py`, top levels, board | | | not modelled: experiments, wiring, PCB |

How they meet. `main` calls `serial_command.c` to seek and `datapath.c` to read a track.
`read_track_sg` shares registers with the sector timer, which reacts to the disk's pulses
and opens the gate; the read datapath turns what passes under the gate into packets, the DMA
stores the packets into consecutive descriptors. Nothing but the order of the packets tells
`read_track_sg` which sector they belong to. It finds the areas in the packets at any bit;
`main` then has the controller's `process_sector` decode the raw sectors and decides
what to save and what to read again.

What is hard here: two clocked state machines run beside the program and the disk; the
program restarts them at any moment of a revolution; handshakes are given up by timeouts on
both sides; buffers are reused across passes and tracks; every area of every sector can fail
in its own way, and retries mix results of several passes. `PROJECT.json` lists each hazard
at its line with the property that covers it.

## 2. Modules

| module | models | extends / composes |
|---|---|---|
| `BoundedQueue` | what the FIFO promises (abstract) | |
| `Fifo` | `fifo.v`, one step per clock | refines `BoundedQueue` |
| `TrackPass` | what a pass of `read_track_sg` may do to the raw buffers (abstract) | |
| `Imager` | the loops of `main.c`, `all_sectors_accounted_for`, a controller's decoder | built on `TrackPass` |
| `TrackRead` | packets, stream, DMA, descriptors, `read_track_sg`, `flush_fifo`, `reset_dma` | keeps `TrackPass` |
| `SectorTimer` | the sector timer, `Clock(index, sector, write)` | |
| `TrackTiming` | spindle + sector timer + the control part of `read_track_sg` | `SectorTimer` |
| `BitAlign` | bits and bytes, the deserialiser's result, `findbyte`, `copy_buff_*` | |
| `ReadDatapath` | the read datapath, one step per clock | its bytes are `BitAlign`'s |
| `Crc`, `Formats` | `crc.c`; the five controllers: layout and `process_sector` | `BitAlign`; `Crc` |
| `SectorPath` | one sector from the bits under the heads to its block, and through an emulation slot | `Formats` |
| `CmdController` | the command controller, `Clock(ack, confstat, access)` | |
| `SerialLink` | drive + command controller + `serial_command.c` | `CmdController` |
| `*Proofs` | theorems about `Fifo`, `Imager`, `TrackRead`, `TrackTiming` (also `TrackOrderProofs`), `ReadDatapath`, `SectorPath` (with `Formats`, `Crc` and `BitAlign` below it), `SerialLink` | their module |
| `MC*` | instances for TLC | |

Together they are a chain: `TrackTiming` shows that the windows of a pass open in the order
of the descriptors, `ReadDatapath` that each opening becomes one packet of the bits that
passed, `TrackRead` that the packets reach the buffers as `TrackPass` promises, `SectorPath`
that an area is found in its packet and decoded into its block, and `Imager` that the
image, the report and the emulation file hold what the passes delivered.

Operators commented "Seeded fault" are not part of a specification: each is a plausible
mistake in the definition beside it and shows that some property notices.

**Fifo.** `Clock` is the `always` block; `Slot` and `Contents` give the abstract queue: the
words from `bottom` to `top` around the wrap. An item is `{tdata, tlast}`.

**TrackPass, Imager.** One action per loop step: `SeekCylinder`, `BeginTrack`, `ReadTrack`
(`ReadTrackFromFile`), `ProcessSector` for each sector, `EndPass`, `CloseTrack` (the report),
`Interrupt` at any moment. Contents are abstracted to where they come from: a position names
what its address and data areas hold; `Garbage` fails its CRC; `Blank` is memory that passes
by accident (all zeroes do). `TrackPass!PassOutcome` takes for each area a result (good,
corrupt, absent, incomplete descriptor) and follows the descriptor loop: it stops at an
incomplete descriptor and skips the data of a sector without an address; what is not copied
keeps its old content. `ChecksPosition` selects the decoder (IBM_RT_ENHANCED and
ULTRASTOR_12F compare the header with the track, the others do not); `Marked` and
`Unexpected` sectors are the layout's. The variable `mode`, chosen from `Modes`, says whether
main images a drive, also writes an emulation file, or reads one. `residue` is what malloc
left in the marks that a decoder does not assign (ADAPTEC_ACB2322 leaves `marked_spare`).
`MayMisSeek` lets a seek land anywhere: `serial_command` cannot report a failure. `stale`
and `closed` are history.

**TrackRead.** A packet carries what the program can tell of it (length, sync byte) and, for
the properties, the pass and area it came from. The disk opens the gate area by area while
the timer has tasks. `StopTimer` cuts an open gate and leaves a packet of uncertain length,
`Halt` stops a DMA that may still wait for the packet of the descriptor it has fetched
(external: the AXI DMA's documented behaviour as `datapath.c` uses it), and `DMA_CURRDESC` is
only heeded by a halted channel. `EndWait` may come at any moment, as after 3 s. `Begin` has
one guard that is not in the code: a DMA that was waiting has taken what there was. It needs
microseconds for a packet, and milliseconds of decoding and printing lie between two passes.

**SectorTimer, TrackTiming.** A step of the composition is a clock of timer and disk. The
program's register writes happen on a clock, with at least one clock (`settling`) and any
number more between two of them. The disk's sectors last `MinLength..MaxLength` clocks. On a
hard-sectored drive sector 0 starts with the index pulse, the others with a sector pulse; on a
soft-sectored one the index comes `IndexGap` clocks before sector 0 and a mark is only seen
while the search for it is enabled. Which of the two it is, is chosen at the start.
`windows` records each opening of the gate; it stands for the packets. `datapath_start` is
the initial `stopReset`. Left out: the majority filters on the pulse lines (the model's
pulses are the edges they let through), `read_without_tasking` (the software never sets it)
and `max_sector_seen` (printed only).

**ReadDatapath.** A step is a clock: the sampled bit, the shift register, the byte completed
on the last clock (`new_byte`), the byte held back until it is known whether it is the last
(`pending`), the byte offered to the stream (`parallel`). The gate may close on any clock,
also on the one that samples a bit. `openings` and `delivered` are history. Left out:
`ignore_gate` and the internal clock (never selected), clearing `overflow` (between passes).

**BitAlign, Crc, Formats, SectorPath.** Bytes are sequences of bits. `SectorPath` formats a
sector as its controller does (external), lets it pass in its windows at some lead, at most
one thing being wrong with it (a burst of damaged bits anywhere, an area too late, a
mis-seek), and then follows the code: packets, `findbyte`, realignment, CRC,
`process_sector`, the slot of an emulation file, and back out of it. An area's `bytes` are all
that `copy_buff_start_at` writes, which may end behind the buffer that `main.c:450` and `:453`
allocate; `InBuffer` is what readers take, who all go by the area's length. `Formats!controllers`
has the five `esdi_controller` records. Sectors hold `SectorSize` = 2 bytes instead of 512
or 256, and the lengths and windows of data areas are shortened by the difference.

**CmdController, SerialLink.** One action per state of the machine, synchronisers included;
lines are asserted when TRUE. The drive acknowledges when it likes or never, samples the data
on the acknowledge, answers a query with any word and may get one bit wrong. The program
polls, writes, drains and reads; its 1 s give-ups may happen at any poll. A history
(`gaveUp`, `adrift`) records that a word was given up and another started, a second one
(`owed`, `doubtful`) that an earlier answer was still to come when a query was issued.

## 3. Runs

| run | question | bounds |
|---|---|---|
| `fifo` | is it a queue across wrap, with push, pop and reset together? | depth 4: pointers wrap, full and empty reached; 2 words, so order is visible |
| `imager_rt` | image, report and statuses on a failing, mis-seeking drive | 2 cylinders x 1 head x 2 sectors, 2 attempts, last sector flagged |
| `imager_emulation` | slots and termination while an emulation file is written, or read | starts at cylinder 1, 2 attempts |
| `imager_stale` | (violated) is every block read together with its header? | as above, no mis-seek |
| `imager_misseek` | (violated) is a loss reported without position checks? | as above |
| `timing` | packet order, gate, two revolutions, does a pass complete? hard and soft sectors | 4 sectors, 2 passes, the first given up anywhere, sector lengths 7..8, task FIFO of 1 so that it fills |
| `datapath` | is the stream what passed? | bytes of 3 bits, packets of at most 2 bytes, 2 openings, 7 bits in all, gate closed for 2 clocks at least |
| `track_read` | what do passes given up anywhere leave to the next ones? | 2 sectors, 3 passes, flush chain of 6 |
| `sector_path` | is a written block the sector's own, in all five formats? | 1792 cylinders, 7 heads, 6 sectors, of which 45 positions; 3 leads, each alone and, for damage and mis-seeks, under both areas; 5 bursts at every bit of both areas |
| `ps2_heads` | (violated) is every good block of a PS/2 drive of eight heads expected once? | 8 cylinders, the last three heads |
| `serial_calls` | do words and answers arrive? | words of 1 bit and parity, 3 words, 2 tries, bit timeout 4 clocks |
| `serial_live` | does every call return? | 2 words |

Why the bounds are enough. Two tracks and two sectors per track are what a mix-up needs:
another track's content in the same buffer, another sector's on the same track. Two attempts
make a retry; what a third could do, it does to a state a second already reached. Two passes
are what leftovers of a timed-out pass need in the timer. In the DMA a leftover shifts the
next pass, and what that one leaves the third would take: hence three. The timer compares its
counter with four values; the windows 1..2 and 3..4 keep them distinct and one clock apart.
Seven bits over two openings give the first packet every length up to two bytes and one bit,
which splits it at `MaxBytes`, and leave the second one to be confused with it. The positions
of `sector_path` lie on both sides of the header's byte boundary and of the PS/2's sixth
head, and at the ends of the drive; 1792 cylinders are what the ULTRASTOR_12F's table of
cylinder bytes holds; the bursts go up to 30 bits, beyond the width of the 16-bit checks
only with patterns these detect. Two-bit frames already distinguish first,
last and parity bit, and queries from commands; three words allow a word in progress, one
waiting and one refused.

Assumptions the runs make explicit, as `ASSUME` in the modules:
- `FitAssumption`: the windows end before the shortest sector does, and the first mark of a
  soft-sectored track comes no later after the index than `addr_area_assert` clocks (the
  index clears `cycle_count` but not `sector_reached`).
- `SleepAssumption`: `usleep(10000)` lasts longer than a sector. Without it a timer disabled
  between the index and the first mark keeps `0xFFFF` in `sector_counter` and takes the next
  mark it sees for sector 0; the seeded fault `EnableWithoutSleep` shows this.
- `DriveAssumption`: `sector_counter`, which a restart does not clear, cannot wrap within the
  passes of a run. In the code it would take hundreds of passes without an index pulse.
- `GapAssumption`: the gate stays closed for two clocks at least. The windows of the five
  controllers are 59 clocks apart or more.
- `PathAssumption`, `UltrastorAssumption`: positions are on the drive, an area may begin late
  but not without bound, and a drive of the ULTRASTOR_12F has no more cylinders than its table
  of seven high bytes can number: no header of it names another.
- `AddressAssumption`: an address fits what sends it and the headers it is decoded from: 12 bits of
  cylinder in a seek, four head select lines, a number of sectors taken from one byte.
- `SlotAssumption`: a slot holds both windows. `main.c:409` gives it the unformatted bytes of a
  sector and one more, and the windows lie in a sector.
- `TrackAssumption`: the chain that `flush_fifo` drains into (128 descriptors) is longer
  than a track has areas, and a track has more than one sector.

**Fairness.** `Imager`: the process keeps running (`WF` of the main loop, none of the
interrupt). `TrackTiming`: the clock ticks, the spindle turns because no sector lasts longer
than `MaxLength`, and the program is scheduled. `ReadDatapath`: the clock ticks, and the
FIFO and DMA behind it take a byte now and then; nothing is assumed of the drive. `SerialLink`:
the clock ticks and the program polls; nothing is assumed of the drive, and the program's own
timeouts are not fair, so that the liveness shown is the controller's. Deadlock is checked
everywhere but in `Imager` and `SectorPath`, where the program or the sector's way ends, and
in `TrackRead`, where the number of passes is bounded.

## 4. What the properties say

- `ImplementsQueue`: `fifo.v` is a `BoundedQueue` of `Depth - 1` words.
- `ImageFaithful`: a block written from a pass that read its data area is the one its header
  names. `NoSilentLoss`: a track left without interrupt has each expected LBA in the image or
  in the report. `OkMeansExtracted`: a sector that will not be retried reached the image.
  `SlotFaithful`, `GoodCopyKept`: retries do not spoil what was good. `Terminates`.
- `PacketsInOrder`: the n-th opening of the gate in a pass is the area descriptor n is taken
  for. `GateInsideWindow`, `SearchOrRead`. `TwoTurnsSuffice`, `EveryPassCompletes`: two index
  pulses after the last task is queued are enough, and they come.
- `StreamIsWhatPassed`: as long as no overflow is flagged, the stream is the bytes that
  passed, a packet per opening. `EveryPacketEnds`: the last byte of a packet comes out without
  another opening to push it.
- `ImplementsPass`: the raw buffers change as `TrackPass` promises, that is never to another
  sector's content or another pass's, whatever is left over in stream and DMA.
  `LeftoverIsLastPacket`: without a recommended reset at most the last area's packet, or the
  wait for it, is left over. `Resynchronises`: when such a leftover shifts all packets of the
  next pass by one, that pass recommends a reset, so one track is misread and not the rest.
- `WrittenIsOwn`: a block goes into the image only if it is, bit for bit, the one the
  controller wrote, at its number. `ExpectedOnce`: a good sector that passes well is written,
  and its block is expected of its own track and of no other nearby. `SlotRoundTrip`: what
  went into an emulation slot comes out of it. `CrcIsDivision`: the remainders are those of
  polynomial division, whatever passed. `OneBytePast`: a copy ends behind its buffer exactly if
  the area began between two bytes, and by one byte (see below); the seeded fault `SpareAlways`
  has it do so for every area.
- `DriveGetsWords`: the drive takes in exactly the words issued, in order. `AnswerIsOwn`: a
  query without an error returns the drive's answer to that query. `EveryCallReturns`.

The limits of `DriveGetsWords` and `AnswerIsOwn` are part of the result. Once a word was
given up and another started, nothing resynchronises the two ends. And a query issued while
an earlier answer is owed takes that answer and leaves its own to the next query, so the
program stays one answer behind: draining the register beforehand (`serial_command.c:45`)
does not help against an answer that is still to come. It takes a drive so slow that a query
outlasts the 1 s of `serial_query` (102 bit times of 10 ms after a command).

Two limits of the track read. A pass that is given up before the first sector has passed may
be shifted without noticing (`Resynchronises` asks for more than one area). And
`SlotRoundTrip` speaks of controllers whose areas fit the windows that a file is read with:
`main.c` computes them for 10 Mbit/s, and the ULTRASTOR_12F's data area, on a drive of
15 Mbit/s, does not fit.

A copy that ends behind its buffer. `read_track_sg` (`datapath.c:391`, `:422`) and `main`
(`main.c:586`, `:605`) have `copy_buff_start_at` copy up to `offset + (bit ? 1 : 0) + length`.
The loop stores one byte for each byte of that range, so an area that begins between two bytes
(seven of eight places) is stored with `length + 1` bytes, in memory of `length` bytes
(`main.c:450`, `:453`). Nothing reads the byte, and `OneBytePast` bounds the harm: it is never
more than one byte, in no format, from a packet or from a slot. But it is outside of the
memory, and what it overwrites is up to the allocator. That of glibc, with
which the Makefile's two compilers link (external, and not modelled), rounds the areas' real
lengths, 8, 9 and 10 bytes and 263, 517, 519 and 521 bytes, up by at least one byte, so the
byte falls into padding; the model therefore follows the code with the other buffers
intact. This stands in the list of hazards and not among the findings below, because no document,
comment or test of the repository says anything else.

### Findings

1. `main.c:620` (`imager_stale`). A sector whose data area was not read is still decoded when
   its address area was; `data_area` then holds an earlier track's sector, whose CRC is good.
   The wrong block lands in the image and the sector counts as read.
2. `main.c:713` (`imager_misseek`). The report compares two counts. With a controller that
   does not check positions a failed seek fills the count with another track's LBAs, and the
   missing ones are neither in the image nor reported.
3. `ibm_ps2.c:76` (`ps2_heads`). The track four blocks short is taken to be that of head 6 and
   above, where `Notes.md:25` says the last head. On a drive of eight heads the last four
   blocks of head 6 are expected of no track: failing to read them is not reported.

## 5. Proofs

| theorem | statement |
|---|---|
| `FifoProofs!TypeCorrect` | `Spec => []TypeOK` |
| `FifoProofs!FifoImplementsQueue` | `Spec => ImplementsQueue`, every depth >= 2, both modes |
| `ImagerProofs!TypeCorrect` | `Spec => []TypeOK` |
| `ImagerProofs!ImageIsFaithful` | `Spec => []ImageFaithful` |
| `ImagerProofs!NothingIsLostSilently` | `Spec => []NoSilentLoss`, given `PositionKnown` and `UnexpectedAreMarked` |
| `ImagerProofs!GoodCopiesAreKept` | `Spec => GoodCopyKept` |
| `ImagerProofs!OkIsExtracted` | `Spec => []OkMeansExtracted` |
| `ImagerProofs!SlotsAreFaithful` | `Spec => []SlotFaithful` |
| `TrackReadProofs!TypeCorrect` | `Spec => []TypeOK` |
| `TrackReadProofs!LeftoverCorrect` | `Spec => []LeftoverIsLastPacket` |
| `TrackReadProofs!KeepsPromise` | `Spec => ImplementsPass` |
| `TrackReadProofs!ShiftIsNoticed` | `Spec => Resynchronises` |
| `TrackTimingProofs!TypeCorrect` | `Spec => []TypeOK` |
| `TrackTimingProofs!GateStaysInside` | `Spec => []GateInsideWindow` |
| `TrackTimingProofs!NeverBoth` | `Spec => []SearchOrRead` |
| `TrackOrderProofs!PacketsComeInOrder` | `Spec => []PacketsInOrder` |
| `TrackOrderProofs!TwoTurnsAreEnough` | `Spec => []TwoTurnsSuffice` |
| `ReadDatapathProofs!TypeCorrect` | `Spec => []TypeOK` |
| `ReadDatapathProofs!StreamComesThrough` | `Spec => []StreamIsWhatPassed` |
| `SectorPathProofs!TypeCorrect` | `Spec => []TypeOK` |
| `SectorPathProofs!OverrunIsOneByte` | `Spec => []OneBytePast` |
| `SectorPathProofs!RemaindersAreDivisions` | `Spec => []CrcIsDivision` |
| `SectorPathProofs!SlotsHoldAreas` | `Spec => []SlotRoundTrip` |
| `SectorPathProofs!BlocksAreOwn` | `Spec => [](fault # "damage" => WrittenIsOwn)` |
| `SectorPathProofs!GoodSectorsAreExpected` | `SevenHeads => (Spec => []ExpectedOnce)` |
| `SerialLinkProofs!TypeCorrect` | `Spec => []TypeOK` |
| `SerialLinkProofs!WordsArrive` | `Spec => []DriveGetsWords` |
| `SerialLinkProofs!AnswersAreOwn` | `Spec => []AnswerIsOwn`, given `MaxFlips <= 1` |

*FIFO.* Lemmas give the length and the elements of `Contents` after a push, a pop and both,
by cases on whether a pointer wraps; each step is then a step of the abstract queue or a
stutter. The type invariant is all the strengthening that is needed.

*ImageIsFaithful.* The image alone is not inductive. The invariant adds what ties the raw
buffers together: a data area copied in this pass comes from the same position as the
address area beside it.

*NothingIsLostSilently.* The report compares cardinalities, so the invariant says that the
LBAs processed on a track are among the expected ones (`ProcessedAreExpected`); a subset of a
finite set with as many elements is the whole set (`CountsSuffice`). That the processed LBAs
are expected ones needs `PositionKnown` (no mis-seek, or a controller that checks the header)
and `UnexpectedAreMarked` (a sector without an expected LBA is flagged). Finding 2
is what happens without the first.

*OkIsExtracted, SlotsAreFaithful.* `RetryInv` adds that during the loop over the sectors each
header in the buffers is of the track that the heads are over (`HeadersOfTrack`): a sector
that decodes was then read under its own position. `GoodCopiesAreKept` follows action by
action, because the status is tested before anything is written.

*TrackRead.* The packets of a pass, in the descriptors first and in the stream behind them,
are numbered without gaps (`InOrder`, `Chained`); a packet left over makes all numbers off by one, or is
still waited for at the last descriptor (`Stuck`). `FilledPrefix` shows that a pass that
recommends no reset filled its descriptors up to the last but one, `StuckResets` and
`ShiftedResets` that the two kinds of leftovers end in a reset. A shifted packet is of the
other kind of area, so that its content fails its CRC: that is why `ImplementsPass` holds
although a shift may go by before it is noticed (`OwnContent`).

*TrackTiming.* `cycle_count` and the countdown to the address mark search stand still while
the timer is disabled, and the disk does not: they tell nothing of where the heads are, except
while `sector_reached` is set. That bit is set by a pulse, which clears the counter, and lost
when the timer is disabled; so the invariant says that as long as it is set the counters are
the disk's (`InStep`), and that an open gate implies it (`GateInv`).

*PacketsInOrder, TwoTurnsSuffice.* Tasks reach the timer in the order they were queued, so
what is to be shown is that the number a pulse announces is the sector's. `sector_counter`
survives a restart of the timer and is anything at first. But it does not wrap
(`DriveAssumption`), so task 0 is only ever taken up at what sets the counter right: the index pulse, or
the first mark after it. On a soft-sectored drive the timer could be enabled between the two;
the sleep before the first task lets that mark go by (`SleepAssumption`). From the first
window on the counter is the disk's, and the windows of a pass are two per task. For the two
revolutions the invariant counts the windows that each sector still has to pass.

*Read datapath.* The shift register holds the last bits that passed, and a byte in hand is a
function of the bits of its opening (`ShiftInv`, `Piped`). The packet of the last opening is
being made, is complete, is out, or is not even begun while the one before it is on its way
(`Making`, `Ended`, `Idle`, `Behind`); the last case ends before the new opening has a byte,
because the gate was closed for `MinGap >= 2` clocks. The stream counts the byte that is
offered as out, which is true unless an overflow is flagged. The concatenation of all packets is a
fold of the community modules; what it is for one packet more (`StreamOf`) is shown for the
least number of packets for which it would fail, by the well-foundedness of `<` on `Nat`.

*RemaindersAreDivisions.* A set of exponents stands for the sum, modulo the polynomial, of
these powers of x (`Sum`). Adding two sums is the symmetric difference of the sets
(`SumOfDifference`, by the parity of its size); a step of the table of powers moves every
exponent up by one (`SumUp`). The register is compared with the bits consumed: after each byte
its low bits are the sum of the exponents that the bytes so far and the initial value stand for
(`RegisterIs`, `NextRegister`). The 64-bit loops leave above the remainder what was shifted out,
until the last mask: the invariant says nothing of those bits and does not need them, because
the bit that is tested is the remainder's own. Loops are recursive functions; that such a
function has a value at every index is shown once with `Induction`, the least number that fails.

*OverrunIsOneByte.* The invariant `Inv` says it of each area (`EndsIn`, in `AreasAre`). That a
step keeps it follows from the length of the copy (`CopyIs`) and the place at which `findbyte`
found the sync byte (`AreaIs`): `Spare` is what the check for enough data and the copy agree on. An
area that is not found keeps what was copied to its buffer before (`TakenIs`).

*SlotsHoldAreas.* The invariant (`Inv`) has the types, the length of each packet, where an
area that was found lies (`InPlace`: `InBuffer` begins with its sync byte and was all in its window)
and, once a slot is written, each of its bytes (`SlotIs`). An area that was in its window is then
in the window of the slot (`AreaInSlot`): its place is rounded down to a whole byte, and the
window's end is rounded up. Zeros come before it, and `findbyte` looks for the sync byte at every
bit; but all sync bytes begin with a one, so it cannot be seen earlier than the area's own first
bit (`AreaAlone`). The address area ends before the data window begins (`WindowsLie`), so neither
window shows the other's area. An area that was not found leaves its window zero, where there is
no sync byte (`NoAreaAlone`). What is used of the five formats, the widths of the
polynomials, the sync bytes and the order of the windows, is in `FormatsAre`, `AllWide` and `ChecksAre`.
`WindowsHold` is needed for the ULTRASTOR_12F only, and false for it (`NotUltrastor`).

*BlocksAreOwn, GoodSectorsAreExpected.* What a sector's header and data say depends on four
things. Each area on the disk passes its check, because a message followed by its own
remainder leaves none (`WithRemainder`; sums of powers again). The packet holds the area
after `lead` zeros, bit for bit as far as the window has whole bytes (`Carries`), and
`findbyte` finds it exactly there: an earlier sync byte would have to begin in the zeros, and
one that begins behind the area's last whole byte leaves no room for the area
(`FoundInPacket`). So an area that was found is the disk's except perhaps for its last byte,
which the end of the window may have cut (`Unharmed`). And if it then passes its check, the last
byte is the disk's too (`PassesOnce`): the polynomials have a constant term, so eight steps of the
register that leave its last byte zero have shifted out zeros (`TopIsZero`), which means that the
last byte is what the register held on top. This is true of the whole
remainder and of the 32 bits of it that `process_sector` compares (`Truncated`). Last, each
controller's header is read as the numbers it was written with: bytes back from bits
(`ValueOfByte`), the byte table of the ULTRASTOR, the 24 bits of the PS/2's block
(`GoodHeader`), and the marks of bad and spare sectors are seen (`MarkedHeader`).

`OwnInv` carries this through the stages: `Delivered` for the packets, `Unharmed` from
`read_track_sg` to the slot and back (`RoundTrip`), and that `marked_bad` and `marked_spare`
are clear before the first decode, since three of the decoders never assign one of them
(ADAPTEC_ACB2322 `marked_spare`, IBM_5364 `marked_bad`, ULTRASTOR_12F either). That `Unharmed` is only
claimed when the data area was found is because `read_track_sg` leaves an area that it does
not find as it was (finding 1). For `ExpectedOnce`, a sector's place in its cylinder and its track are
unique (`OneTrack`, by `DivUnique`). `SevenHeads`, that a PS/2 drive has 7 heads, is what
`ibm_ps2_get_expected_lbas` assumes; without it the theorem is false, which is finding 3.

*Serial link.* `TypeInv` says which answers are owed: one for the word in hand and one for
the word in the register, if they are queries. `LinkInv` says in each state of the controller
where the drive's acknowledge can be in the synchroniser and how many bits have
passed to the other side. A word that times out leaves the drive in the middle of a
handshake; `DriveGetsWords` still holds for the one acknowledge that may follow, and until
the next word is started (`adrift`). For the answers, `TailInv`, `BitInv` and `AnswerInv` follow the bits from the
drive to the register: at most one is wrong, and then parity fails. With two wrong bits
parity cannot notice; hence the hypothesis `MaxFlips <= 1`, which the run's instances satisfy.

Assumptions are the modules' own `ASSUME`s, which TLC evaluates in every run, and the
hypotheses named in the table.

Only model-checked: all liveness (`Terminates`, `EveryPassCompletes`, `EveryPacketEnds`,
`EveryCallReturns`; fairness is out of the prover's reach), and `WrittenIsOwn` of sectors with
damaged bits. That a check detects a burst is a fact about one polynomial, one length and one
set of bursts: a burst in the sync byte moves the place where the area is found, the 48- and
56-bit checks are compared in 32 bits only, and what is then missed depends on the
polynomial. TLC's bounds are the statement.

## 6. Plan

1. Proofs: that a single burst of up to 16 bits behind the sync byte is detected by the 16- and
   32-bit checks, from `WithRemainder` and the constant term; `WrittenIsOwn` for such damage.
2. The set-up of `main.c`: drive parameters from the drive or from an emulation file, options
   that override them, the file's header. Two disagreements wait there: the soft-sector
   bit is bit 2 in `serial_command.c:119` and bit 0 in `main.c:352`, and geometry given by
   options when a file was written is in its header but not in what `main.c:353` reads.
3. Pulse filters of the sector timer.

Not modelled and not planned: `read_area` and `read_track`, which `main` does not call; the
`_lsb` CRCs, which nothing calls; `test.c`, `rechs.c`, the Python scripts, the top levels and
block design, the board, command line parsing, and drives with more than 120 sectors
(descriptor buffers would run past the block RAM, `datapath.c:305`).
