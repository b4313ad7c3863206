------------------------------- MODULE TxFifo -------------------------------
(***************************************************************************)
(* What the transmit path of a NIC driver promises: a bounded first-in     *)
(* first-out pipeline.  An accepted frame is put on the wire once, in      *)
(* order, is reported done only after that, and is given back to the stack *)
(* only after it was reported done.  Each stage may lag behind the one     *)
(* before it.                                                              *)
(***************************************************************************)
EXTENDS Integers, Sequences

CONSTANTS
  Capacity,   \* how many frames the driver may hold
  Frame,
  NULL        \* the loopback copy could not be made

VARIABLES
  fifo,   \* the frames the driver holds, oldest first
  sent,   \* how many of them the device has read
  acked,  \* how many of them the device has reported done
  wire    \* the frame on the wire, not reported yet

fifo_vars == <<fifo, sent, acked, wire>>

Init == fifo = <<>> /\ sent = 0 /\ acked = 0 /\ wire = NULL

Accept(f) ==
  /\ Len(fifo) < Capacity
  /\ fifo' = Append(fifo, f)
  /\ UNCHANGED <<sent, acked, wire>>

Transmit ==
  /\ sent = acked /\ sent < Len(fifo)
  /\ sent' = sent + 1
  /\ wire' \in {fifo[sent + 1], NULL}
  /\ UNCHANGED <<fifo, acked>>

Report ==
  /\ acked < sent
  /\ acked' = acked + 1 /\ wire' = NULL
  /\ UNCHANGED <<fifo, sent>>

Reclaim ==
  /\ acked > 0
  /\ fifo' = Tail(fifo) /\ acked' = acked - 1 /\ sent' = sent - 1
  /\ UNCHANGED wire

Next == (\E f \in Frame : Accept(f)) \/ Transmit \/ Report \/ Reclaim

Spec == Init /\ [][Next]_fifo_vars
=============================================================================
