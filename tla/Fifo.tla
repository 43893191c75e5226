------------------------------- MODULE Fifo -------------------------------
(***************************************************************************)
(* hdl/fifo.v: the synchronous FIFO that holds the sector timer's tasks.   *)
(* One step is one rising clock edge; the inputs are what the neighbours   *)
(* drive on the two stream ports before that edge.                         *)
(***************************************************************************)
EXTENDS Integers, Sequences

CONSTANTS
    Item,           \* values of {in_tdata, in_tlast}
    Depth,          \* 2**DEPTH_EXP memory words
    WriteWhenFull   \* WRITE_WHEN_FULL: overwrite the oldest word when full

ASSUME DepthAssumption == Depth \in Nat /\ Depth >= 2
ASSUME ModeAssumption == WriteWhenFull \in BOOLEAN

VARIABLES mem, top, bottom

vars == <<mem, top, bottom>>

Address == 0 .. Depth - 1

TypeOK == /\ mem \in [Address -> Item]
          /\ top \in Address
          /\ bottom \in Address

-----------------------------------------------------------------------------
\* Seeded fault: a pointer wide enough not to wrap.
IncWide(p) == p + 1

\* Pointers are DEPTH_EXP bits wide: incrementing and subtracting wrap.
Inc(p) == IF p = Depth - 1 THEN 0 ELSE p + 1

\* Seeded fault: no word is kept free, so a full FIFO looks like an empty one.
NumFreeUnreserved == Depth - (IF top >= bottom THEN top - bottom ELSE top - bottom + Depth)

NumUsed == IF top >= bottom THEN top - bottom ELSE top - bottom + Depth
NumFree == Depth - NumUsed - 1

InReady == NumFree > 0 \/ WriteWhenFull
OutValid == NumUsed > 0
OutData == mem[bottom]

-----------------------------------------------------------------------------
\* The memory is not cleared: after power-up it holds anything.
Init == /\ mem \in [Address -> Item]
        /\ top = 0
        /\ bottom = 0

Reset == /\ top' = 0
         /\ bottom' = 0
         /\ UNCHANGED mem

\* A clock edge with in_tvalid = inValid, in_tdata = d, out_tready = outReady.
\* Both pointer assignments to bottom are non-blocking: it advances once even
\* when a word is overwritten and another is read.
Clock(inValid, d, outReady) ==
    LET push == inValid /\ InReady
        pop == OutValid /\ outReady
    IN  /\ mem' = IF push THEN [mem EXCEPT ![top] = d] ELSE mem
        /\ top' = IF push THEN Inc(top) ELSE top
        /\ bottom' = IF pop \/ (push /\ NumFree = 0) THEN Inc(bottom) ELSE bottom

Next == \/ Reset
        \/ \E inValid, outReady \in BOOLEAN, d \in Item : Clock(inValid, d, outReady)

Spec == Init /\ [][Next]_vars

-----------------------------------------------------------------------------
\* The words between bottom and top, oldest first.
Slot(i) == IF bottom + i - 1 < Depth THEN bottom + i - 1 ELSE bottom + i - 1 - Depth
Contents == [i \in 1 .. NumUsed |-> mem[Slot(i)]]

Queue == INSTANCE BoundedQueue WITH q <- Contents, Capacity <- Depth - 1,
                                    DropOldest <- WriteWhenFull

\* hdl/fifo.v implements the queue its users rely on: words leave in the
\* order they entered, none is lost or duplicated across pointer wrap-around,
\* and a full FIFO refuses a word (or, if so configured, drops the oldest).
ImplementsQueue == Queue!Spec
=============================================================================
