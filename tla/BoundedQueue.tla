--------------------------- MODULE BoundedQueue ---------------------------
(***************************************************************************)
(* What the stream FIFO of hdl/fifo.v promises the modules that use it: a  *)
(* queue of at most Capacity items that loses and reorders nothing, or,    *)
(* when DropOldest, one that makes room by giving up its oldest item.      *)
(***************************************************************************)
EXTENDS Naturals, Sequences

CONSTANTS
    Item,           \* what is queued: a data word with its tlast flag
    Capacity,       \* how many items fit
    DropOldest      \* may a full queue accept an item, dropping its head?

VARIABLE q

Init == q = <<>>

Clear == q' = <<>>

Put(x) == /\ Len(q) < Capacity
          /\ q' = Append(q, x)

Take == /\ q # <<>>
        /\ q' = Tail(q)

\* The reader takes the head while the writer adds an item.
Exchange(x) == /\ q # <<>>
               /\ Len(q) < Capacity \/ DropOldest
               /\ q' = Append(Tail(q), x)

\* The writer pushes the head of a full queue out.
Overwrite(x) == /\ DropOldest
                /\ Len(q) = Capacity
                /\ q' = Append(Tail(q), x)

Next == \/ Clear
        \/ Take
        \/ \E x \in Item : Put(x) \/ Exchange(x) \/ Overwrite(x)

Spec == Init /\ [][Next]_q
=============================================================================
