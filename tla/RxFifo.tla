------------------------------- MODULE RxFifo -------------------------------
(***************************************************************************)
(* What the receive path of a NIC driver promises: every frame the device  *)
(* managed to store is handed to the stack once, unchanged and in order.   *)
(* A frame for which there was no buffer is dropped as a whole, which is a *)
(* stuttering step here.                                                   *)
(***************************************************************************)
EXTENDS Integers, Sequences

CONSTANTS
  Capacity,   \* how many stored frames may wait
  Frame,
  NULL

VARIABLES
  stored,   \* frames in host memory, not yet given to the stack
  up        \* the frame given to the stack last

rx_fifo_vars == <<stored, up>>

Init == stored = <<>> /\ up = NULL

Store(f) ==
  /\ Len(stored) < Capacity
  /\ stored' = Append(stored, f)
  /\ UNCHANGED up

HandUp ==
  /\ stored # <<>>
  /\ up' = Head(stored)
  /\ stored' = Tail(stored)

Next == (\E f \in Frame : Store(f)) \/ HandUp

Spec == Init /\ [][Next]_rx_fifo_vars
=============================================================================
