----------------------------- MODULE BoundedFifo -----------------------------
(***************************************************************************)
(* What the enclave's buffer promises: a queue of at most Capacity items,  *)
(* taken out in the order in which they were put in.  The items are the    *)
(* ring positions 0, 1, ..., Capacity - 1, 0, ... that ecall_producer      *)
(* stores.                                                                 *)
(***************************************************************************)
EXTENDS Integers, Sequences

CONSTANT Capacity

VARIABLES items, \* what is in the buffer, oldest first
          next   \* the item put in next

fifo == <<items, next>>

Init == items = <<>> /\ next = 0

Put ==
    /\ Len(items) < Capacity
    /\ items' = Append(items, next)
    /\ next' = (next + 1) % Capacity

Get ==
    /\ items # <<>>
    /\ items' = Tail(items)
    /\ next' = next

Next == Put \/ Get

Spec == Init /\ [][Next]_fifo
=============================================================================
