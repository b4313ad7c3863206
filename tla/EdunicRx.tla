------------------------------ MODULE EdunicRx ------------------------------
(***************************************************************************)
(* The receive half of the edunic driver (linux_nic_lab/driver/nic_rx.c):  *)
(* buffers posted by edunic_alloc_rx_buffers(), frames written by          *)
(* edunic_hw_deliver_rx_frame() in the worker's context, harvested by      *)
(* edunic_clean_rx_irq() in the poll, with the interrupt and NAPI protocol *)
(* of nic_irq.c between them, while the interface is up.                   *)
(*                                                                         *)
(* The worker and the poll run concurrently and share the descriptors,     *)
(* the buffers, RDH, RDT, ICR and the NAPI word.  A memory allocation or   *)
(* DMA mapping may fail whenever one is made.  The device of this          *)
(* repository never sets RXE, so the error branch of the harvest has no    *)
(* action here.                                                            *)
(***************************************************************************)
EXTENDS Integers, Sequences, Napi

CONSTANTS
  N,        \* EDUNIC_RING_SIZE
  Budget,   \* the budget NAPI gives one poll
  Frame,    \* what a frame may contain
  EMPTY,    \* the contents of a posted buffer nothing was written to
  NULL      \* no buffer in the slot, no frame yet

ASSUME RingAssumption == N \in Nat /\ N >= 2
ASSUME BudgetAssumption == Budget \in Nat /\ Budget >= 1
ASSUME FrameAssumption == NULL \notin Frame /\ EMPTY \notin Frame /\ NULL # EMPTY

Slot == 0 .. N - 1

VARIABLES
  next_to_use, next_to_clean,  \* rx_ring indices, used by the poll alone
  buf,              \* rx_ring.buf[i].skb: NULL, EMPTY or the frame in it
  done,             \* the slots whose desc.status has DD set
  RDH, RDT,         \* the device's head and tail registers
  ICR,              \* pending interrupt causes
  napi,             \* adapter.napi, see Napi
  wpc, frame,       \* worker: program counter, the frame being delivered
  ppc, i, work_done, cleaned_count,  \* poll: program counter and locals
  up                \* the skb last given to napi_gro_receive()

worker_vars == <<wpc, frame>>
poll_vars == <<ppc, i, work_done, cleaned_count>>
vars == <<next_to_use, next_to_clean, buf, done, RDH, RDT, ICR, napi,
          worker_vars, poll_vars, up>>

\* (i + 1) & EDUNIC_RING_MASK
SuccNoMask(s) == s + 1
Succ(s) == IF s = N - 1 THEN 0 ELSE s + 1

\* Slots from a forward to b.
Dist(a, b) == IF b >= a THEN b - a ELSE b - a + N

-----------------------------------------------------------------------------
(* The emulated device, in the context of edunic_hw_tx_worker().           *)

\* A frame is looped back.  No posted buffer: it is counted in rx_dropped.
deliver_rx_frame(f) ==
  /\ wpc \in {"idle", "next"}
  /\ IF RDH = RDT THEN wpc' = "next" /\ UNCHANGED frame
                  ELSE wpc' = "write" /\ frame' = f
  /\ UNCHANGED <<next_to_use, next_to_clean, buf, done, RDH, RDT, ICR, napi,
                 poll_vars, up>>

\* memcpy() into buf->skb->data, length and errors.
deliver_write ==
  /\ wpc = "write" /\ wpc' = "status"
  /\ buf' = [buf EXCEPT ![RDH] = frame] /\ frame' = NULL
  /\ UNCHANGED <<next_to_use, next_to_clean, done, RDH, RDT, ICR, napi,
                 poll_vars, up>>

\* After dma_wmb(): desc->status = DD | ...
deliver_status ==
  /\ wpc = "status" /\ wpc' = "advance"
  /\ done' = done \cup {RDH}
  /\ UNCHANGED <<next_to_use, next_to_clean, buf, RDH, RDT, ICR, napi, frame,
                 poll_vars, up>>

\* RDH and the RX cause.
deliver_advance ==
  /\ wpc = "advance" /\ wpc' = "next"
  /\ RDH' = Succ(RDH)
  /\ ICR' = ICR \cup {"RX"}
  /\ UNCHANGED <<next_to_use, next_to_clean, buf, done, RDT, napi, frame,
                 poll_vars, up>>

\* The transmit side of the worker sets its own cause when the batch ends.
worker_raise ==
  /\ wpc = "next" /\ wpc' = "intr"
  /\ ICR' = ICR \cup {"TX"}
  /\ UNCHANGED <<next_to_use, next_to_clean, buf, done, RDH, RDT, napi, frame,
                 poll_vars, up>>

\* edunic_intr(): read-to-clear ICR and schedule NAPI.
IntrIfNotPolling ==
  /\ wpc = "intr" /\ wpc' = "idle"
  /\ ICR' = {}
  /\ napi' = IF napi_schedule_prep(napi) THEN AfterSchedulePrep(napi) ELSE napi
  /\ UNCHANGED <<next_to_use, next_to_clean, buf, done, RDH, RDT, frame,
                 poll_vars, up>>
edunic_intr ==
  /\ wpc = "intr" /\ wpc' = "idle"
  /\ ICR' = {}
  /\ napi' = IF ICR \cap {"RX", "TX"} # {} THEN AfterSchedulePrep(napi) ELSE napi
  /\ UNCHANGED <<next_to_use, next_to_clean, buf, done, RDH, RDT, frame,
                 poll_vars, up>>

device ==
  deliver_write \/ deliver_status \/ deliver_advance \/ worker_raise \/ edunic_intr

-----------------------------------------------------------------------------
(* edunic_poll() -> edunic_clean_rx_irq() -> edunic_alloc_rx_buffers().    *)

poll_start ==
  /\ ppc = "idle" /\ "SCHED" \in napi
  /\ ppc' = "harvest" /\ i' = next_to_clean
  /\ work_done' = 0 /\ cleaned_count' = 0
  /\ UNCHANGED <<next_to_use, next_to_clean, buf, done, RDH, RDT, ICR, napi,
                 worker_vars, up>>

\* One descriptor: unmap, take the skb out of the slot, hand it to GRO.
Harvestable == work_done < Budget /\ i \in done
HarvestKeepsDD ==
  /\ ppc = "harvest" /\ Harvestable
  /\ up' = buf[i] /\ buf' = [buf EXCEPT ![i] = NULL]
  /\ i' = Succ(i)
  /\ work_done' = work_done + 1 /\ cleaned_count' = cleaned_count + 1
  /\ UNCHANGED <<next_to_use, next_to_clean, done, RDH, RDT, ICR, napi, ppc,
                 worker_vars>>
clean_rx_slot ==
  /\ ppc = "harvest" /\ Harvestable
  /\ up' = buf[i] /\ buf' = [buf EXCEPT ![i] = NULL]
  /\ done' = done \ {i}
  /\ i' = Succ(i)
  /\ work_done' = work_done + 1 /\ cleaned_count' = cleaned_count + 1
  /\ UNCHANGED <<next_to_use, next_to_clean, RDH, RDT, ICR, napi, ppc,
                 worker_vars>>

\* next_to_clean = i; refill if anything was harvested.
RefillWholeRing ==
  /\ ppc = "harvest" /\ ~Harvestable
  /\ next_to_clean' = i
  /\ IF cleaned_count > 0 THEN ppc' = "refill" /\ i' = next_to_use
                          ELSE ppc' = "exit" /\ UNCHANGED i
  /\ cleaned_count' = IF cleaned_count > 0 THEN N ELSE 0
  /\ UNCHANGED <<next_to_use, buf, done, RDH, RDT, ICR, napi, work_done,
                 worker_vars, up>>
clean_rx_end ==
  /\ ppc = "harvest" /\ ~Harvestable
  /\ next_to_clean' = i
  /\ IF cleaned_count > 0 THEN ppc' = "refill" /\ i' = next_to_use
                          ELSE ppc' = "exit" /\ UNCHANGED i
  /\ UNCHANGED <<next_to_use, buf, done, RDH, RDT, ICR, napi, work_done,
                 cleaned_count, worker_vars, up>>

\* One turn of edunic_alloc_rx_buffers(): skb allocated and mapped, slot filled.
alloc_rx_slot ==
  /\ ppc = "refill" /\ cleaned_count > 0
  /\ buf' = [buf EXCEPT ![i] = EMPTY] /\ done' = done \ {i}
  /\ i' = Succ(i) /\ cleaned_count' = cleaned_count - 1
  /\ UNCHANGED <<next_to_use, next_to_clean, RDH, RDT, ICR, napi, ppc,
                 work_done, worker_vars, up>>

\* netdev_alloc_skb_ip_align() or dma_map_single() failed: break.
alloc_rx_fail ==
  /\ ppc = "refill" /\ cleaned_count > 0
  /\ cleaned_count' = 0
  /\ UNCHANGED <<next_to_use, next_to_clean, buf, done, RDH, RDT, ICR, napi,
                 ppc, i, work_done, worker_vars, up>>

\* One doorbell for the whole batch, if anything was posted.
alloc_rx_end ==
  /\ ppc = "refill" /\ cleaned_count = 0
  /\ next_to_use' = i /\ RDT' = i
  /\ ppc' = "exit"
  /\ UNCHANGED <<next_to_clean, buf, done, RDH, ICR, napi, i, work_done,
                 cleaned_count, worker_vars, up>>

\* work_done >= budget: the core polls again, without completing.
poll_again ==
  /\ ppc = "exit" /\ work_done >= Budget
  /\ ppc' = "idle" /\ i' = 0 /\ work_done' = 0
  /\ UNCHANGED <<next_to_use, next_to_clean, buf, done, RDH, RDT, ICR, napi,
                 cleaned_count, worker_vars, up>>

\* napi_complete_done(): a request missed during the poll keeps it scheduled.
poll_complete ==
  /\ ppc = "exit" /\ work_done < Budget
  /\ napi' = AfterCompleteDone(napi)
  /\ ppc' = "idle" /\ i' = 0 /\ work_done' = 0
  /\ UNCHANGED <<next_to_use, next_to_clean, buf, done, RDH, RDT, ICR,
                 cleaned_count, worker_vars, up>>

edunic_poll ==
  \/ poll_start \/ clean_rx_slot \/ clean_rx_end
  \/ alloc_rx_slot \/ alloc_rx_fail \/ alloc_rx_end
  \/ poll_again \/ poll_complete

-----------------------------------------------------------------------------
\* edunic_probe(): rings set up, edunic_alloc_rx_buffers(count - 1) posted at
\* least one buffer, then edunic_open().
Init ==
  \E posted \in 1 .. N - 1 :
    /\ next_to_use = posted /\ RDT = posted
    /\ buf = [s \in Slot |-> IF s < posted THEN EMPTY ELSE NULL]
    /\ next_to_clean = 0 /\ RDH = 0 /\ done = {} /\ ICR = {} /\ napi = {}
    /\ wpc = "idle" /\ frame = NULL
    /\ ppc = "idle" /\ i = 0 /\ work_done = 0 /\ cleaned_count = 0
    /\ up = NULL

Next == (\E f \in Frame : deliver_rx_frame(f)) \/ device \/ edunic_poll

Spec == Init /\ [][Next]_vars

\* A worker that started finishes its batch, a scheduled poll runs; nothing makes
\* frames arrive.
Fairness == WF_vars(device) /\ WF_vars(edunic_poll)
FairSpec == Spec /\ Fairness

-----------------------------------------------------------------------------
(* Properties.                                                             *)

TypeOK ==
  /\ next_to_use \in Slot /\ next_to_clean \in Slot
  /\ buf \in [Slot -> Frame \cup {EMPTY, NULL}] /\ done \in SUBSET Slot
  /\ RDH \in Slot /\ RDT \in Slot /\ ICR \in SUBSET {"RX", "TX"}
  /\ napi \in SUBSET {"SCHED", "MISSED"}
  /\ wpc \in {"idle", "next", "write", "status", "advance", "intr"}
  /\ frame \in Frame \cup {NULL}
  /\ ppc \in {"idle", "harvest", "refill", "exit"}
  /\ i \in Slot /\ work_done \in 0 .. Budget
  /\ cleaned_count \in 0 .. Budget
  /\ up \in Frame \cup {EMPTY, NULL}

\* The device writes only into a buffer the driver posted and nobody else uses
\* (nic_rx.c:327 dereferences buf->skb without a test), a frame is taken from a
\* slot only after it was written there, and a refill overwrites no buffer.
BufferOwnership ==
  /\ wpc = "write" => buf[RDH] = EMPTY /\ RDH \notin done
  /\ wpc = "status" => buf[RDH] \in Frame /\ RDH \notin done
  /\ ppc = "harvest" /\ Harvestable => buf[i] \in Frame
  /\ ppc = "refill" /\ cleaned_count > 0 => buf[i] = NULL

\* Nothing runs and nothing is scheduled.
Quiescent == wpc = "idle" /\ ppc = "idle" /\ "SCHED" \notin napi

\* When the worker and the poll have come to rest no stored frame is left in the
\* ring: an interrupt raised during a poll is never lost between
\* napi_schedule_prep() and napi_complete_done() (nic_irq.c:83, nic_irq.c:134).
NoForgottenFrame == Quiescent => done = {}

\* The frames of the done slots, from the poll's index on.
Oldest == IF ppc = "harvest" THEN i ELSE next_to_clean
Stored ==
  LET last == IF wpc = "advance" THEN Succ(RDH) ELSE RDH
  IN  [k \in 1 .. Dist(Oldest, last) |->
         LET s == Oldest + k - 1 IN buf[IF s < N THEN s ELSE s - N]]

Fifo == INSTANCE RxFifo WITH Capacity <- N - 1, stored <- Stored

\* Stored frames reach the stack once, unchanged and in order.
ImplementsRxFifo == Fifo!Spec

\* A stored frame is eventually handed up: a done slot does not stay done.
DoneIsHarvested == \A s \in Slot : (s \in done) ~> (s \notin done)

-----------------------------------------------------------------------------
(* The inductive invariant behind BufferOwnership, NoForgottenFrame and the *)
(* refinement.                                                              *)

\* Distance from next_to_clean.
D(s) == Dist(next_to_clean, s)

\* The first slot without a status of the device, and the first without a buffer.
Written == IF wpc = "advance" THEN Succ(RDH) ELSE RDH
Posted  == IF ppc = "refill" THEN i ELSE next_to_use

\* The indices stand in pipeline order and a refill leaves the gap slot alone.
RingOrder ==
  /\ RDT = next_to_use
  /\ D(Oldest) <= D(Written) /\ D(Written) <= D(next_to_use)
  /\ wpc \in {"write", "status"} => RDH # RDT
  /\ ppc = "harvest" => cleaned_count = D(i) /\ work_done = cleaned_count
  /\ ppc = "refill" => D(next_to_use) <= D(i) /\ D(i) + cleaned_count < N
  /\ ppc \in {"idle", "exit"} => cleaned_count = 0

\* What each slot holds follows from where it stands among the indices.
SlotState ==
  /\ \A s \in Slot : s \in done <=> D(Oldest) <= D(s) /\ D(s) < D(Written)
  /\ \A s \in Slot : buf[s] # NULL <=> D(Oldest) <= D(s) /\ D(s) < D(Posted)
  /\ \A s \in Slot :
       buf[s] \in Frame <=> s \in done \/ (wpc = "status" /\ s = RDH)
  /\ wpc = "write" => frame \in Frame

RingInv == TypeOK /\ RingOrder /\ SlotState

\* No stored frame is forgotten: once the worker has raised its interrupt a done
\* descriptor is a coming poll, or a request that poll will see when it completes.
WakeInv ==
  /\ wpc = "intr" => "TX" \in ICR
  /\ ppc # "idle" => "SCHED" \in napi
  /\ done # {} /\ wpc = "idle" =>
       /\ "SCHED" \in napi
       /\ \/ ppc \in {"idle", "harvest"}
          \/ "MISSED" \in napi
          \/ work_done >= Budget

\* IInv: the descriptors, the buffers and the indices always agree, and every
\* stored frame has an agent that will fetch it (nic_rx.c, nic_irq.c together).
IInv == RingInv /\ WakeInv
=============================================================================
