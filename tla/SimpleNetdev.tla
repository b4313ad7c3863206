---------------------------- MODULE SimpleNetdev ----------------------------
(***************************************************************************)
(* The running half of net_device/simple_netdev.c: my_start_xmit(),        *)
(* my_irq_handler() with my_tx_clean(), my_poll(), my_open() and my_stop() *)
(* of a driver for a hypothetical PCI NIC.  SimpleNetdevLifecycle adds     *)
(* probe and remove and holds the specification.                           *)
(*                                                                         *)
(* The transmitter, the handler, the poll and the RTNL thread may run on   *)
(* four CPUs; the interrupt is requested with IRQF_SHARED, so the handler  *)
(* may also be called for somebody else's interrupt.  The NIC is external: *)
(* it fills the receive descriptors it owns in order, sends the transmit   *)
(* descriptors up to REG_TX_TAIL in order, sets the cause with the result, *)
(* and asserts its line while an unmasked cause is pending (level).        *)
(* Frames have no contents here, so a frame that is delivered and one that *)
(* is dropped for want of an skb take the same step, and a failed DMA      *)
(* mapping in my_start_xmit(), which drops the packet, takes none.         *)
(***************************************************************************)
EXTENDS Integers, FiniteSets, Napi

CONSTANTS
  TX_RING_SIZE, RX_RING_SIZE,
  Budget,        \* the budget NAPI gives one poll
  MaxCompleting  \* bound: polls between napi_complete_done() and their last write

ASSUME SizeAssumption ==
  /\ TX_RING_SIZE \in Nat /\ TX_RING_SIZE >= 2
  /\ RX_RING_SIZE \in Nat /\ RX_RING_SIZE >= 1
  /\ Budget \in Nat /\ Budget >= 1
  /\ MaxCompleting \in Nat /\ MaxCompleting >= 1

TxSlot == 0 .. TX_RING_SIZE - 1
RxSlot == 0 .. RX_RING_SIZE - 1
Causes == {"RX", "TX"}   \* IRQ_RX, IRQ_TX

VARIABLES
  op,                 \* what the RTNL thread is doing
  tx_head, tx_clean,  \* priv->tx_head, priv->tx_clean
  tx,                 \* tx_ring[i]: "free" (no skb), "hw" (owned), "done"
  TX_TAIL, dev_tx,    \* the doorbell register; the slot the NIC sends next
  dma,                \* the NIC works on the rings: "off" or "on"
  stopped,            \* the netdev queue is stopped
  xpc,                \* my_start_xmit(): program counter
  rx_head,            \* priv->rx_head
  rx_done,            \* receive slots that are done and not owned by the NIC
  dev_rx,             \* the slot the NIC fills next
  IRQ_STATUS, IRQ_MASK,
  hpc, hstatus,       \* my_irq_handler(): program counter, status
  napi, ppc, work_done,  \* priv->napi, see Napi; my_poll()
  completing,         \* polls that completed and did not write IRQ_MASK yet
  blind               \* history: a frame may have come when nobody would look

tx_vars   == <<tx_head, tx_clean, tx, stopped, xpc>>
rx_vars   == <<rx_head, rx_done>>
dev_vars  == <<TX_TAIL, dev_tx, dma, dev_rx>>
irq_vars  == <<IRQ_STATUS, IRQ_MASK, hpc, hstatus>>
poll_vars == <<napi, ppc, work_done, completing>>
netdev_vars == <<op, tx_vars, rx_vars, dev_vars, irq_vars, poll_vars, blind>>

\* (i + 1) % TX_RING_SIZE
SuccNoModulo(i) == i + 1
TxSucc(i) == (i + 1) % TX_RING_SIZE
TxPred(i) == (i - 1) % TX_RING_SIZE
RxSucc(i) == (i + 1) % RX_RING_SIZE

-----------------------------------------------------------------------------
(* my_start_xmit(), called by the stack while the interface is up and the  *)
(* queue is not stopped, by one CPU at a time.                             *)

FullNoGap == tx_head = tx_clean /\ tx[tx_head] # "free"
my_tx_ring_full == TxSucc(tx_head) = tx_clean

\* The ring is full: netif_stop_queue() and NETDEV_TX_BUSY, no second look.
xmit_full ==
  /\ op = "up" /\ ~stopped /\ xpc = "idle" /\ my_tx_ring_full
  /\ xpc' = "stop"
  /\ UNCHANGED <<op, tx_head, tx_clean, tx, stopped, rx_vars, dev_vars,
                 irq_vars, poll_vars, blind>>
xmit_busy ==
  /\ xpc = "stop" /\ xpc' = "idle" /\ stopped' = TRUE
  /\ UNCHANGED <<op, tx_head, tx_clean, tx, rx_vars, dev_vars, irq_vars,
                 poll_vars, blind>>

\* The descriptor is filled and owned by the NIC, tx_head advances; the
\* doorbell follows.
xmit_post ==
  /\ op = "up" /\ ~stopped /\ xpc = "idle" /\ ~my_tx_ring_full
  /\ tx' = [tx EXCEPT ![tx_head] = "hw"] /\ tx_head' = TxSucc(tx_head)
  /\ xpc' = "doorbell"
  /\ UNCHANGED <<op, tx_clean, stopped, rx_vars, dev_vars, irq_vars,
                 poll_vars, blind>>
xmit_doorbell ==
  /\ xpc = "doorbell" /\ xpc' = "report" /\ TX_TAIL' = tx_head
  /\ UNCHANGED <<op, tx_head, tx_clean, tx, stopped, rx_vars, dev_tx, dma,
                 dev_rx, irq_vars, poll_vars, blind>>
\* pr_info() reads skb->len, of the descriptor before tx_head, and xmit returns.
xmit_report ==
  /\ xpc = "report" /\ xpc' = "idle"
  /\ UNCHANGED <<op, tx_head, tx_clean, tx, stopped, rx_vars, dev_vars,
                 irq_vars, poll_vars, blind>>

my_start_xmit == xmit_full \/ xmit_post \/ xmit_busy \/ xmit_doorbell \/ xmit_report

-----------------------------------------------------------------------------
(* The NIC.                                                                *)

device_send ==
  /\ dma = "on" /\ dev_tx # TX_TAIL
  /\ tx' = [tx EXCEPT ![dev_tx] = "done"] /\ dev_tx' = TxSucc(dev_tx)
  /\ IRQ_STATUS' = IRQ_STATUS \cup {"TX"}
  /\ UNCHANGED <<op, tx_head, tx_clean, stopped, xpc, rx_vars, TX_TAIL, dma,
                 dev_rx, IRQ_MASK, hpc, hstatus, poll_vars, blind>>

\* A handler that already asked for the poll will acknowledge this cause too.
AckWindow == hpc \in {"clean", "ack"} /\ "RX" \in hstatus

\* A frame is stored; without a free descriptor the NIC drops it.
device_receive ==
  /\ dma = "on" /\ dev_rx \notin rx_done
  /\ rx_done' = rx_done \cup {dev_rx} /\ dev_rx' = RxSucc(dev_rx)
  /\ IRQ_STATUS' = IRQ_STATUS \cup {"RX"}
  /\ blind' = (blind \/ AckWindow)
  /\ UNCHANGED <<op, tx_vars, rx_head, TX_TAIL, dev_tx, dma, IRQ_MASK, hpc,
                 hstatus, poll_vars>>

device == device_send \/ device_receive

-----------------------------------------------------------------------------
(* my_irq_handler().                                                       *)

InterruptLine == IRQ_STATUS \cap IRQ_MASK # {}

\* status = readl(REG_IRQ_STATUS), not masked; 0 returns IRQ_NONE.
irq_read ==
  /\ hpc = "idle" /\ IRQ_STATUS # {}
  /\ hstatus' = IRQ_STATUS
  /\ hpc' = IF "RX" \in IRQ_STATUS THEN "rx" ELSE "clean"
  /\ UNCHANGED <<op, tx_vars, rx_vars, dev_vars, IRQ_STATUS, IRQ_MASK,
                 poll_vars, blind>>

\* IRQ_RX: mask the receive interrupt, then napi_schedule().
Schedule ==
  /\ napi' = AfterSchedulePrep(napi)
  /\ ppc' = IF napi_schedule_prep(napi) THEN "queued" ELSE ppc
AfterRx == IF "TX" \in hstatus THEN "clean" ELSE "ack"
ScheduleThenMask ==
  /\ \/ /\ hpc = "rx" /\ hpc' = "schedule" /\ Schedule /\ UNCHANGED IRQ_MASK
     \/ /\ hpc = "schedule" /\ hpc' = AfterRx
        /\ IRQ_MASK' = {"TX"} /\ UNCHANGED <<napi, ppc>>
  /\ UNCHANGED <<op, tx_vars, rx_vars, dev_vars, IRQ_STATUS, hstatus,
                 work_done, completing, blind>>
irq_rx ==
  /\ \/ /\ hpc = "rx" /\ hpc' = "schedule"
        /\ IRQ_MASK' = {"TX"} /\ UNCHANGED <<napi, ppc>>
     \/ /\ hpc = "schedule" /\ hpc' = AfterRx /\ Schedule /\ UNCHANGED IRQ_MASK
  /\ UNCHANGED <<op, tx_vars, rx_vars, dev_vars, IRQ_STATUS, hstatus,
                 work_done, completing, blind>>

\* IRQ_TX: my_tx_clean() frees one completed descriptor after the other ...
Cleanable == tx_clean # tx_head /\ tx[tx_clean] = "done"
clean_slot ==
  /\ hpc = "clean" /\ Cleanable
  /\ tx' = [tx EXCEPT ![tx_clean] = "free"] /\ tx_clean' = TxSucc(tx_clean)
  /\ UNCHANGED <<op, tx_head, stopped, xpc, rx_vars, dev_vars, irq_vars,
                 poll_vars, blind>>
\* ... and wakes a stopped queue when there is room.
clean_end ==
  /\ hpc = "clean" /\ ~Cleanable /\ hpc' = "ack"
  /\ stopped' = (stopped /\ my_tx_ring_full)
  /\ UNCHANGED <<op, tx_head, tx_clean, tx, xpc, rx_vars, dev_vars, IRQ_STATUS,
                 IRQ_MASK, hstatus, poll_vars, blind>>

\* Write one to clear: what was read at the start, acknowledged at the end.
AckEverything ==
  /\ hpc = "ack" /\ hpc' = "idle" /\ hstatus' = {} /\ IRQ_STATUS' = {}
  /\ UNCHANGED <<op, tx_vars, rx_vars, dev_vars, IRQ_MASK, poll_vars, blind>>
irq_ack ==
  /\ hpc = "ack" /\ hpc' = "idle" /\ hstatus' = {}
  /\ IRQ_STATUS' = IRQ_STATUS \ hstatus
  /\ UNCHANGED <<op, tx_vars, rx_vars, dev_vars, IRQ_MASK, poll_vars, blind>>

handler_step == irq_rx \/ clean_slot \/ clean_end \/ irq_ack

-----------------------------------------------------------------------------
(* my_poll().                                                              *)

poll_start ==
  /\ ppc = "queued" /\ ppc' = "harvest" /\ work_done' = 0
  /\ UNCHANGED <<op, tx_vars, rx_vars, dev_vars, irq_vars, napi, completing,
                 blind>>

\* One frame: copied and given up, the descriptor back to the NIC, RX_TAIL.
poll_frame ==
  /\ ppc = "harvest" /\ work_done < Budget /\ rx_head \in rx_done
  /\ rx_done' = rx_done \ {rx_head} /\ rx_head' = RxSucc(rx_head)
  /\ work_done' = work_done + 1
  /\ UNCHANGED <<op, tx_vars, dev_vars, irq_vars, napi, ppc, completing, blind>>

\* The NIC owns the next descriptor: the poll has seen everything there is.
poll_empty ==
  /\ ppc = "harvest" /\ work_done < Budget /\ rx_head \notin rx_done
  /\ ppc' = "complete" /\ blind' = FALSE
  /\ UNCHANGED <<op, tx_vars, rx_vars, dev_vars, irq_vars, napi, work_done,
                 completing>>

\* napi_complete_done(); only then may IRQ_MASK be written.
poll_complete ==
  /\ ppc = "complete" /\ completing < MaxCompleting
  /\ napi' = AfterCompleteDone(napi) /\ work_done' = 0
  /\ IF napi_complete_done(napi)
       THEN ppc' = "idle" /\ completing' = completing + 1
       ELSE ppc' = "queued" /\ UNCHANGED completing
  /\ UNCHANGED <<op, tx_vars, rx_vars, dev_vars, irq_vars, blind>>
poll_unmask ==
  /\ completing > 0 /\ completing' = completing - 1
  /\ IRQ_MASK' = Causes
  /\ UNCHANGED <<op, tx_vars, rx_vars, dev_vars, IRQ_STATUS, hpc, hstatus,
                 napi, ppc, work_done, blind>>

\* The budget is used up: the core polls again, or completes on its behalf
\* when napi_disable() is waiting.
poll_again ==
  /\ ppc = "harvest" /\ work_done = Budget /\ work_done' = 0
  /\ IF "DISABLE" \in napi
       THEN /\ napi' = AfterCompleteDone(napi)
            /\ ppc' = IF napi_complete_done(napi) THEN "idle" ELSE "queued"
       ELSE ppc' = "queued" /\ UNCHANGED napi
  /\ UNCHANGED <<op, tx_vars, rx_vars, dev_vars, irq_vars, completing, blind>>

poll_steps ==
  poll_start \/ poll_frame \/ poll_empty \/ poll_complete \/ poll_again
my_poll == poll_steps \/ poll_unmask

-----------------------------------------------------------------------------
(* my_open() and my_stop().                                                *)

OpenWithoutEnable ==
  /\ op = "down" /\ op' = "open_mask"
  /\ UNCHANGED <<tx_vars, rx_vars, dev_vars, irq_vars, poll_vars, blind>>
open_napi ==
  /\ op = "down" /\ op' = "open_mask" /\ napi' = AfterEnable(napi)
  /\ UNCHANGED <<tx_vars, rx_vars, dev_vars, irq_vars, ppc, work_done,
                 completing, blind>>
open_mask ==
  /\ op = "open_mask" /\ op' = "open_queue" /\ IRQ_MASK' = Causes
  /\ UNCHANGED <<tx_vars, rx_vars, dev_vars, IRQ_STATUS, hpc, hstatus,
                 poll_vars, blind>>
open_queue ==
  /\ op = "open_queue" /\ op' = "up" /\ stopped' = FALSE
  /\ UNCHANGED <<tx_head, tx_clean, tx, xpc, rx_vars, dev_vars, irq_vars,
                 poll_vars, blind>>

\* The stack deactivated the queue before: no my_start_xmit() is running.
stop_queue ==
  /\ op = "up" /\ xpc = "idle" /\ op' = "stop_mask" /\ stopped' = TRUE
  /\ UNCHANGED <<tx_head, tx_clean, tx, xpc, rx_vars, dev_vars, irq_vars,
                 poll_vars, blind>>
stop_mask ==
  /\ op = "stop_mask" /\ op' = "stop_napi" /\ IRQ_MASK' = {}
  /\ UNCHANGED <<tx_vars, rx_vars, dev_vars, IRQ_STATUS, hpc, hstatus,
                 poll_vars, blind>>
\* napi_disable() announces itself, waits for the poll and takes NAPI away.
stop_napi ==
  /\ op = "stop_napi" /\ op' = "stop_wait" /\ napi' = NapiDisableBegin(napi)
  /\ UNCHANGED <<tx_vars, rx_vars, dev_vars, irq_vars, ppc, work_done,
                 completing, blind>>
stop_wait ==
  /\ op = "stop_wait" /\ NapiDisableReady(napi) /\ op' = "down"
  /\ napi' = NapiDisableEnd(napi) /\ blind' = TRUE
  /\ UNCHANGED <<tx_vars, rx_vars, dev_vars, irq_vars, ppc, work_done,
                 completing>>

my_open == open_mask \/ open_queue
my_stop == stop_mask \/ stop_napi \/ stop_wait
=============================================================================
