------------------------------ MODULE EdunicTx ------------------------------
(***************************************************************************)
(* The transmit half of the edunic driver (linux_nic_lab/driver/nic_tx.c)  *)
(* together with the emulated DMA engine that consumes the ring            *)
(* (nic_hw.c), the interrupt handler and the NAPI poll (nic_irq.c), while  *)
(* the interface is up.                                                    *)
(*                                                                         *)
(* Three contexts run concurrently:                                        *)
(*   xmit    edunic_start_xmit(), serialised by the queue's tx lock;       *)
(*   worker  edunic_hw_tx_worker() on an ordered workqueue;                *)
(*   poll    edunic_poll() -> edunic_clean_tx_irq() in softirq context.    *)
(* Every load or store of a variable another context uses is a step of its *)
(* own.  The receive half is EdunicRx; here the receive work of a poll is  *)
(* only the choice between "budget used up" and "done".                    *)
(***************************************************************************)
EXTENDS Integers, Sequences, Napi

CONSTANTS
  N,            \* EDUNIC_RING_SIZE (256 in nic.h, a power of two)
  Frame,        \* what a packet may contain
  NULL,         \* an empty tx_buf, a failed kmalloc
  MemoryModel   \* "TSO": the CPU running the poll has a store buffer (x86 and
                \* anything weaker); "SC": stores become visible at once

ASSUME RingAssumption == N \in Nat /\ N >= 2
ASSUME FrameAssumption == NULL \notin Frame /\ NULL \notin 0 .. N - 1
ASSUME MemoryAssumption == MemoryModel \in {"SC", "TSO"}

Slot == 0 .. N - 1

VARIABLES
  next_to_use,    \* tx_ring.next_to_use, written by xmit alone
  next_to_clean,  \* tx_ring.next_to_clean as other CPUs see it
  store_buf,      \* a next_to_clean store not yet visible (a slot), or NULL
  buf,            \* tx_ring.buf[i]: the frame of the mapped skb, or NULL
  done,           \* the slots whose desc.status has DD set
  TDH, TDT,       \* the device's head and tail registers
  ICR,            \* pending interrupt causes
  queue,          \* netdev queue state: "started" or "stopped"
  work,           \* hw_tx_work: "idle" or "pending" on hw_wq
  napi,           \* adapter.napi, see Napi
  xpc, skb, posted,            \* xmit: program counter, its packet, packet posted
  wpc, head, tail, frame_copy, \* worker: program counter and locals
  ppc, clean, packets          \* poll: program counter, i, reclaimed anything

xmit_vars   == <<xpc, skb, posted>>
worker_vars == <<wpc, head, tail, frame_copy>>
poll_vars   == <<ppc, clean, packets>>
vars == <<next_to_use, next_to_clean, store_buf, buf, done, TDH, TDT, ICR,
          queue, work, napi, xmit_vars, worker_vars, poll_vars>>

-----------------------------------------------------------------------------
(* Ring arithmetic.                                                        *)

\* (i + 1) & EDUNIC_RING_MASK
Succ(i) == IF i = N - 1 THEN 0 ELSE i + 1

\* Slots from a forward to b.
Dist(a, b) == IF b >= a THEN b - a ELSE b - a + N

\* Free slots; c is next_to_clean as the reading CPU sees it.
UnusedNoGap(c) == N - Dist(c, next_to_use)
edunic_tx_unused(c) == (c - next_to_use - 1 + N) % N

EDUNIC_TX_DESC_PER_PKT == 1
Room(c) == edunic_tx_unused(c) >= EDUNIC_TX_DESC_PER_PKT

\* next_to_clean as the CPU of the poll sees it: its own store is forwarded.
OwnNextToClean == IF store_buf # NULL THEN store_buf ELSE next_to_clean

-----------------------------------------------------------------------------
(* edunic_start_xmit().  The stack calls it only while the queue is        *)
(* started; maybe_stop_tx is called twice, before and after posting.       *)

xmit_call(f) ==
  /\ xpc = "idle" /\ queue = "started"
  /\ xpc' = "check" /\ skb' = f /\ posted' = "no"
  /\ UNCHANGED <<next_to_use, next_to_clean, store_buf, buf, done, TDH, TDT,
                 ICR, queue, work, napi, worker_vars, poll_vars>>

\* NETDEV_TX_OK or NETDEV_TX_BUSY: the locals are gone.
XmitReturn == xpc' = "idle" /\ skb' = NULL /\ posted' = "no"

\* edunic_maybe_stop_tx() returned 0.
RoomFound ==
  IF posted = "yes" THEN XmitReturn ELSE xpc' = "map" /\ UNCHANGED <<skb, posted>>

\* edunic_maybe_stop_tx(): the first look.
maybe_stop_check ==
  /\ xpc = "check"
  /\ IF Room(next_to_clean) THEN RoomFound
                            ELSE xpc' = "stop" /\ UNCHANGED <<skb, posted>>
  /\ UNCHANGED <<next_to_use, next_to_clean, store_buf, buf, done, TDH, TDT,
                 ICR, queue, work, napi, worker_vars, poll_vars>>

\* netif_stop_queue(), then smp_mb() before the next look.
maybe_stop_stop ==
  /\ xpc = "stop"
  /\ queue' = "stopped" /\ xpc' = "recheck"
  /\ UNCHANGED <<next_to_use, next_to_clean, store_buf, buf, done, TDH, TDT,
                 ICR, work, napi, skb, posted, worker_vars, poll_vars>>

\* The second look: still full means NETDEV_TX_BUSY (or return after posting),
\* otherwise the stop is undone.
RecheckDropped ==
  /\ xpc = "recheck"
  /\ XmitReturn
  /\ UNCHANGED <<next_to_use, next_to_clean, store_buf, buf, done, TDH, TDT,
                 ICR, queue, work, napi, worker_vars, poll_vars>>
maybe_stop_recheck ==
  /\ xpc = "recheck"
  /\ IF Room(next_to_clean)
       THEN queue' = "started" /\ RoomFound
       ELSE queue' = queue     /\ XmitReturn
  /\ UNCHANGED <<next_to_use, next_to_clean, store_buf, buf, done, TDH, TDT,
                 ICR, work, napi, worker_vars, poll_vars>>

\* dma_map_single() failed: the skb is freed and counted in tx_errors.
xmit_map_error ==
  /\ xpc = "map" /\ XmitReturn
  /\ UNCHANGED <<next_to_use, next_to_clean, store_buf, buf, done, TDH, TDT,
                 ICR, queue, work, napi, worker_vars, poll_vars>>

\* Fill buf and desc at next_to_use: nobody else looks at this slot yet.
xmit_fill ==
  /\ xpc = "map" /\ xpc' = "bump" /\ skb' = NULL
  /\ buf'  = [buf EXCEPT ![next_to_use] = skb]
  /\ done' = done \ {next_to_use}
  /\ UNCHANGED <<next_to_use, next_to_clean, store_buf, TDH, TDT, ICR, queue,
                 work, napi, posted, worker_vars, poll_vars>>

\* After dma_wmb(): advance next_to_use ...
xmit_bump ==
  /\ xpc = "bump" /\ xpc' = "doorbell"
  /\ next_to_use' = Succ(next_to_use)
  /\ UNCHANGED <<next_to_clean, store_buf, buf, done, TDH, TDT, ICR, queue,
                 work, napi, skb, posted, worker_vars, poll_vars>>

\* ... ring the doorbell ...
xmit_doorbell ==
  /\ xpc = "doorbell" /\ xpc' = "kick"
  /\ TDT' = next_to_use
  /\ UNCHANGED <<next_to_use, next_to_clean, store_buf, buf, done, TDH, ICR,
                 queue, work, napi, skb, posted, worker_vars, poll_vars>>

\* ... and edunic_hw_kick_tx(): queue_work() on hw_wq, a no-op while pending.
KickIfIdle ==
  /\ xpc = "kick" /\ xpc' = "check" /\ posted' = "yes"
  /\ work' = IF wpc = "idle" THEN "pending" ELSE work
  /\ UNCHANGED <<next_to_use, next_to_clean, store_buf, buf, done, TDH, TDT,
                 ICR, queue, napi, skb, worker_vars, poll_vars>>
edunic_hw_kick_tx ==
  /\ xpc = "kick" /\ xpc' = "check" /\ posted' = "yes"
  /\ work' = "pending"
  /\ UNCHANGED <<next_to_use, next_to_clean, store_buf, buf, done, TDH, TDT,
                 ICR, queue, napi, skb, worker_vars, poll_vars>>

edunic_start_xmit ==
  \/ maybe_stop_check \/ maybe_stop_stop \/ maybe_stop_recheck
  \/ xmit_map_error \/ xmit_fill \/ xmit_bump \/ xmit_doorbell
  \/ edunic_hw_kick_tx

-----------------------------------------------------------------------------
(* edunic_hw_tx_worker(): the emulated DMA engine.                         *)

\* The workqueue clears "pending" before it calls the function, which reads
\* TDH and TDT once.
worker_start ==
  /\ wpc = "idle" /\ work = "pending"
  /\ work' = "idle"
  /\ head' = TDH /\ tail' = TDT
  /\ wpc' = IF TDH = TDT THEN "idle" ELSE "copy"
  /\ UNCHANGED <<next_to_use, next_to_clean, store_buf, buf, done, TDH, TDT,
                 ICR, queue, napi, frame_copy, xmit_vars, poll_vars>>

\* Copy the frame out of buf->skb and loop it back (a failed kmalloc loses the
\* loopback copy, not the transmission).
worker_copy ==
  /\ wpc = "copy" /\ wpc' = "mark"
  /\ frame_copy' \in {buf[head], NULL}
  /\ UNCHANGED <<next_to_use, next_to_clean, store_buf, buf, done, TDH, TDT,
                 ICR, queue, work, napi, head, tail, xmit_vars, poll_vars>>

\* kfree(frame_copy); after dma_wmb(): desc->status = DD, on to the next descriptor.
MarkNext ==
  /\ wpc = "mark"
  /\ done' = done \cup {Succ(head)}
  /\ head' = Succ(head)
  /\ wpc' = IF Succ(head) = tail THEN "raise" ELSE "copy"
  /\ frame_copy' = NULL
  /\ UNCHANGED <<next_to_use, next_to_clean, store_buf, buf, TDH, TDT, ICR,
                 queue, work, napi, tail, xmit_vars, poll_vars>>
worker_mark ==
  /\ wpc = "mark"
  /\ done' = done \cup {head}
  /\ head' = Succ(head)
  /\ wpc' = IF Succ(head) = tail THEN "raise" ELSE "copy"
  /\ frame_copy' = NULL
  /\ UNCHANGED <<next_to_use, next_to_clean, store_buf, buf, TDH, TDT, ICR,
                 queue, work, napi, tail, xmit_vars, poll_vars>>

\* sent_any: publish TDH and set the TX cause ...
worker_raise ==
  /\ wpc = "raise" /\ wpc' = "intr"
  /\ TDH' = head
  /\ ICR' = ICR \cup {"TX"}
  /\ UNCHANGED <<next_to_use, next_to_clean, store_buf, buf, done, TDT, queue,
                 work, napi, head, tail, frame_copy, xmit_vars, poll_vars>>

\* ... and call edunic_intr(): read-to-clear ICR, then napi_schedule_prep() and,
\* if it may, __napi_schedule().
edunic_intr ==
  /\ wpc = "intr" /\ wpc' = "idle"
  /\ ICR' = {}
  /\ napi' = IF "TX" \in ICR THEN AfterSchedulePrep(napi) ELSE napi
  /\ UNCHANGED <<next_to_use, next_to_clean, store_buf, buf, done, TDH, TDT,
                 queue, work, head, tail, frame_copy, xmit_vars, poll_vars>>

edunic_hw_tx_worker ==
  worker_start \/ worker_copy \/ worker_mark \/ worker_raise \/ edunic_intr

-----------------------------------------------------------------------------
(* edunic_poll() -> edunic_clean_tx_irq().                                 *)

\* i = next_to_clean
poll_start ==
  /\ ppc = "idle" /\ "SCHED" \in napi
  /\ ppc' = "clean" /\ clean' = OwnNextToClean /\ packets' = "none"
  /\ UNCHANGED <<next_to_use, next_to_clean, store_buf, buf, done, TDH, TDT,
                 ICR, queue, work, napi, xmit_vars, worker_vars>>

\* One turn of the loop: unmap, free the skb, clear buf and status.
ReclaimNoDD == clean # next_to_use
Reclaimable == clean # next_to_use /\ clean \in done
clean_tx_slot ==
  /\ ppc = "clean" /\ Reclaimable
  /\ buf' = [buf EXCEPT ![clean] = NULL]
  /\ done' = done \ {clean}
  /\ clean' = Succ(clean) /\ packets' = "some"
  /\ UNCHANGED <<next_to_use, next_to_clean, store_buf, TDH, TDT, ICR, queue,
                 work, napi, ppc, xmit_vars, worker_vars>>

\* The loop ends: next_to_clean = i.  No barrier follows, so with a store buffer
\* the store may stay invisible while the next statements run.
clean_tx_store ==
  /\ ppc = "clean" /\ ~Reclaimable
  /\ IF MemoryModel = "TSO" THEN store_buf' = clean /\ UNCHANGED next_to_clean
                            ELSE next_to_clean' = clean /\ UNCHANGED store_buf
  /\ ppc' = IF packets = "some" THEN "stopped?" ELSE "rx"
  /\ packets' = "none"
  /\ UNCHANGED <<next_to_use, buf, done, TDH, TDT, ICR, queue, work, napi,
                 clean, xmit_vars, worker_vars>>

\* netif_queue_stopped(netdev) && edunic_tx_unused(tx_ring) >= ...
clean_tx_test ==
  /\ ppc = "stopped?"
  /\ ppc' = IF queue = "stopped" /\ Room(OwnNextToClean) THEN "wake" ELSE "rx"
  /\ UNCHANGED <<next_to_use, next_to_clean, store_buf, buf, done, TDH, TDT,
                 ICR, queue, work, napi, clean, packets, xmit_vars, worker_vars>>

\* netif_wake_queue(): a locked bit operation, so the store buffer is drained.
clean_tx_wake ==
  /\ ppc = "wake" /\ store_buf = NULL
  /\ queue' = "started" /\ ppc' = "rx"
  /\ UNCHANGED <<next_to_use, next_to_clean, store_buf, buf, done, TDH, TDT,
                 ICR, work, napi, clean, packets, xmit_vars, worker_vars>>

\* edunic_clean_rx_irq() used the whole budget: the core polls again.
poll_again ==
  /\ ppc = "rx" /\ ppc' = "idle"
  /\ UNCHANGED <<next_to_use, next_to_clean, store_buf, buf, done, TDH, TDT,
                 ICR, queue, work, napi, clean, packets, xmit_vars, worker_vars>>

\* napi_complete_done(), a locked operation.
poll_complete ==
  /\ ppc = "rx" /\ store_buf = NULL
  /\ napi' = AfterCompleteDone(napi) /\ ppc' = "idle"
  /\ UNCHANGED <<next_to_use, next_to_clean, store_buf, buf, done, TDH, TDT,
                 ICR, queue, work, clean, packets, xmit_vars, worker_vars>>

edunic_poll ==
  \/ poll_start \/ clean_tx_slot \/ clean_tx_store \/ clean_tx_test
  \/ clean_tx_wake \/ poll_again \/ poll_complete

\* The buffered store reaches memory.
drain ==
  /\ store_buf # NULL
  /\ next_to_clean' = store_buf /\ store_buf' = NULL
  /\ UNCHANGED <<next_to_use, buf, done, TDH, TDT, ICR, queue, work, napi,
                 xmit_vars, worker_vars, poll_vars>>

-----------------------------------------------------------------------------
\* edunic_setup_tx_resources() and edunic_hw_init_rings(), then edunic_open().
Init ==
  /\ next_to_use = 0 /\ next_to_clean = 0 /\ store_buf = NULL
  /\ buf = [i \in Slot |-> NULL] /\ done = {}
  /\ TDH = 0 /\ TDT = 0 /\ ICR = {}
  /\ queue = "started" /\ work = "idle" /\ napi = {}
  /\ xpc = "idle" /\ skb = NULL /\ posted = "no"
  /\ wpc = "idle" /\ head = 0 /\ tail = 0 /\ frame_copy = NULL
  /\ ppc = "idle" /\ clean = 0 /\ packets = "none"

Next ==
  \/ \E f \in Frame : xmit_call(f)
  \/ edunic_start_xmit
  \/ edunic_hw_tx_worker
  \/ edunic_poll
  \/ drain

Spec == Init /\ [][Next]_vars

\* The scheduler runs every started thread, the workqueue every queued item and
\* the softirq every scheduled poll; a store buffer drains.  Nothing makes the
\* stack send.
Fairness ==
  /\ WF_vars(edunic_start_xmit)
  /\ WF_vars(edunic_hw_tx_worker)
  /\ WF_vars(edunic_poll)
  /\ WF_vars(drain)
FairSpec == Spec /\ Fairness

-----------------------------------------------------------------------------
(* Properties.                                                             *)

TypeOK ==
  /\ next_to_use \in Slot /\ next_to_clean \in Slot
  /\ store_buf \in Slot \cup {NULL}
  /\ buf \in [Slot -> Frame \cup {NULL}] /\ done \in SUBSET Slot
  /\ TDH \in Slot /\ TDT \in Slot /\ ICR \in SUBSET {"TX"}
  /\ queue \in {"started", "stopped"} /\ work \in {"idle", "pending"}
  /\ napi \in SUBSET {"SCHED", "MISSED"}
  /\ xpc \in {"idle", "check", "stop", "recheck", "map", "bump", "doorbell",
              "kick"}
  /\ skb \in Frame \cup {NULL} /\ posted \in {"yes", "no"}
  /\ wpc \in {"idle", "copy", "mark", "raise", "intr"}
  /\ head \in Slot /\ tail \in Slot /\ frame_copy \in Frame \cup {NULL}
  /\ ppc \in {"idle", "clean", "stopped?", "wake", "rx"}
  /\ clean \in Slot /\ packets \in {"some", "none"}

\* The worker dereferences buf->skb only while the skb is there, and the poll
\* frees only an skb that is there: "buf->skb is still valid: completion (which
\* frees it) has not happened yet" (nic_hw.c:302), no double free in
\* edunic_clean_tx_irq(), and edunic_start_xmit() overwrites no live skb.
SlotOwnership ==
  /\ wpc \in {"copy", "mark"} => buf[head] # NULL
  /\ ppc = "clean" /\ Reclaimable => buf[clean] # NULL
  /\ xpc = "map" => buf[next_to_use] = NULL

\* Nothing runs, nothing is scheduled and nothing is in a store buffer.
Quiescent ==
  /\ xpc = "idle" /\ wpc = "idle" /\ ppc = "idle"
  /\ work = "idle" /\ "SCHED" \notin napi /\ store_buf = NULL

\* When every context has come to rest the queue is not left stopped and every
\* posted descriptor has been reclaimed: the check/stop/recheck of
\* edunic_maybe_stop_tx() and the wake in edunic_clean_tx_irq() never miss each
\* other (nic_tx.c:53-60), and no completion is forgotten.
NoStrandedQueue ==
  Quiescent => queue = "started" /\ next_to_clean = next_to_use

\* "edunic_clean_tx_irq() will wake it once space frees up" (nic_tx.c:179): a
\* stopped queue is started again.
StoppedIsWoken == queue = "stopped" ~> queue = "started"

\* The ring implements the first-in first-out pipeline of TxFifo: the frames held
\* are the buffers from the poll's index to next_to_use.
Held == [k \in 1 .. Dist(clean, next_to_use) |->
           LET i == clean + k - 1 IN buf[IF i < N THEN i ELSE i - N]]
Acked == Dist(clean, head)
Sent  == Acked + (IF wpc = "mark" THEN 1 ELSE 0)

Fifo == INSTANCE TxFifo WITH
          Capacity <- N - 1, fifo <- Held, sent <- Sent, acked <- Acked,
          wire <- frame_copy

\* Frames are transmitted once and in order, reported after transmission and
\* freed after the report, with at most N - 1 of them in the driver.
ImplementsTxFifo == Fifo!Spec

-----------------------------------------------------------------------------
(* The inductive invariant behind SlotOwnership and NoStrandedQueue.       *)

\* Distance from the visible next_to_clean, the oldest index anybody holds.
D(i) == Dist(next_to_clean, i)

\* The indices stand in pipeline order and the posting context found room.
RingOrder ==
  /\ D(clean) <= D(head) /\ D(head) <= D(tail) /\ D(tail) <= D(TDT)
  /\ D(TDT) <= D(next_to_use)
  /\ next_to_use = IF xpc = "doorbell" THEN Succ(TDT) ELSE TDT
  /\ wpc \in {"copy", "mark"} => head # tail
  /\ wpc \in {"idle", "raise", "intr"} => head = tail
  /\ wpc \in {"idle", "intr"} => TDH = head
  /\ xpc \in {"map", "bump"} => D(next_to_use) < N - 1

\* What each slot holds follows from where it stands among the indices.
SlotState ==
  /\ \A i \in Slot : i \in done <=> D(clean) <= D(i) /\ D(i) < D(head)
  /\ \A i \in Slot :
       buf[i] # NULL <=> \/ D(clean) <= D(i) /\ D(i) < D(next_to_use)
                         \/ xpc = "bump" /\ i = next_to_use

\* The poll's index, the store buffer and the packet in xmit's hands.
LocalState ==
  /\ MemoryModel = "SC" => store_buf = NULL
  /\ store_buf # NULL => D(store_buf) <= D(clean)
  /\ ppc # "clean" => clean = OwnNextToClean
  /\ posted = "yes" => xpc \in {"check", "stop", "recheck"}
  /\ xpc = "map" => skb # NULL
  /\ xpc \in {"check", "stop", "recheck"} /\ posted = "no" => skb # NULL

RingInv == TypeOK /\ RingOrder /\ SlotState /\ LocalState

\* Nothing is forgotten on a machine without store buffers: a posted descriptor
\* the worker has not read is queued work, a done descriptor the poll has not
\* reclaimed is a coming poll, a stopped queue is a coming wake.
WakeInv ==
  /\ TDT # tail => work = "pending" \/ xpc = "kick"
  /\ wpc = "intr" => "TX" \in ICR
  /\ ppc # "idle" => "SCHED" \in napi
  /\ clean # head /\ wpc = "idle" =>
       /\ "SCHED" \in napi
       /\ ppc \in {"idle", "clean"} \/ "MISSED" \in napi
  /\ queue = "stopped" => xpc \in {"idle", "recheck"}
  /\ ppc = "clean" /\ packets = "none" => clean = next_to_clean
  /\ queue = "stopped" /\ xpc = "idle" =>
       \/ clean # next_to_use
       \/ ppc = "clean" /\ packets = "some"
       \/ ppc \in {"stopped?", "wake"}

\* IInv: the descriptors, buffers and indices always agree, and on a machine
\* without store buffers every pending duty has an agent that will discharge it
\* (nic_tx.c, nic_hw.c and nic_irq.c together).
IInv == RingInv /\ (MemoryModel = "SC" => WakeInv)
=============================================================================
