----------------------- MODULE SimpleNetdevLifecycle -----------------------
(***************************************************************************)
(* The whole of net_device/simple_netdev.c: my_pci_probe() with its error  *)
(* labels, my_pci_remove(), and between them the interface of SimpleNetdev *)
(* opened, used and stopped any number of times.                           *)
(*                                                                         *)
(* Neither my_stop() nor my_pci_remove() stops the NIC's DMA; a comment in *)
(* my_pci_remove() says a real driver has to.  The model switches the NIC  *)
(* off at the first release of memory it works on, so NoUseAfterFree       *)
(* speaks of the driver's own code only.                                   *)
(***************************************************************************)
EXTENDS SimpleNetdev, Sequences

VARIABLES
  step,  \* how far probe, its error path or remove is
  held   \* the resources acquired and not released

vars == <<netdev_vars, step, held>>

-----------------------------------------------------------------------------
(* my_pci_probe().                                                         *)

\* Its calls in order.
Acquire == << "device", "regions", "dma_mask", "netdev", "mmio", "napi",
              "rx_ring", "tx_ring", "rx_buffers", "irq", "hw_init",
              "registered" >>
CannotFail == {"napi", "hw_init"}
NotHeld == {"dma_mask", "hw_init"}

\* What the error labels do, in the order they fall through.
Unwind == << "mask", "irq", "sync_irq", "rx_buffers", "tx_ring", "rx_ring",
             "napi", "mmio", "netdev", "regions", "device" >>

\* goto: where the failure of a call enters Unwind; past its end is "return".
LabelSkipsMmio(r) ==
  CASE r = "device" -> 12 [] r = "regions" -> 11
    [] r \in {"dma_mask", "netdev"} -> 10 [] r = "mmio" -> 9
    [] r = "rx_ring" -> 9 [] r = "tx_ring" -> 6 [] r = "rx_buffers" -> 5
    [] r = "irq" -> 4 [] r = "registered" -> 1
ErrLabel(r) ==
  CASE r = "device" -> 12 [] r = "regions" -> 11
    [] r \in {"dma_mask", "netdev"} -> 10 [] r = "mmio" -> 9
    [] r = "rx_ring" -> 7 [] r = "tx_ring" -> 6 [] r = "rx_buffers" -> 5
    [] r = "irq" -> 4 [] r = "registered" -> 1

probe_call ==
  /\ op = "unbound" /\ op' = "probe" /\ step' = 1
  /\ UNCHANGED <<tx_vars, rx_vars, dev_vars, irq_vars, poll_vars, blind, held>>

\* my_alloc_rx_desc_ring(), my_alloc_tx_desc_ring(): an empty ring.
my_alloc_rx_desc_ring(r) ==
  IF r = "rx_ring" THEN rx_head' = 0 /\ rx_done' = {} ELSE UNCHANGED rx_vars
my_alloc_tx_desc_ring(r) ==
  IF r = "tx_ring"
    THEN /\ tx_head' = 0 /\ tx_clean' = 0 /\ tx' = [s \in TxSlot |-> "free"]
         /\ UNCHANGED <<stopped, xpc>>
    ELSE UNCHANGED tx_vars
\* my_hw_init(): ring bases and tails, interrupts off; the NIC starts.
my_hw_init(r) ==
  IF r = "hw_init"
    THEN /\ TX_TAIL' = tx_head /\ dev_tx' = 0 /\ dev_rx' = 0 /\ dma' = "on"
         /\ IRQ_MASK' = {}
    ELSE UNCHANGED <<dev_vars, IRQ_MASK>>

\* The next call succeeds.  netif_napi_add() leaves NAPI disabled, a new
\* net_device has its queue started; my_alloc_rx_buffers() fills every slot.
probe_acquire ==
  /\ op = "probe"
  /\ LET r == Acquire[step] IN
       /\ held' = IF r \in NotHeld THEN held ELSE held \cup {r}
       /\ my_alloc_rx_desc_ring(r)
       /\ IF r = "netdev"
            THEN stopped' = FALSE /\ UNCHANGED <<tx_head, tx_clean, tx, xpc>>
            ELSE my_alloc_tx_desc_ring(r)
       /\ my_hw_init(r)
       /\ IF r = "napi" THEN napi' = {"SCHED"} /\ blind' = TRUE
                        ELSE UNCHANGED <<napi, blind>>
       /\ op' = IF r = "registered" THEN "down" ELSE "probe"
       /\ step' = IF r = "registered" THEN 0 ELSE step + 1
  /\ UNCHANGED <<IRQ_STATUS, hpc, hstatus, ppc, work_done, completing>>

\* The next call fails; my_alloc_rx_buffers() undoes its own part first.
probe_fail ==
  /\ op = "probe" /\ Acquire[step] \notin CannotFail
  /\ op' = "unwind" /\ step' = ErrLabel(Acquire[step])
  /\ UNCHANGED <<tx_vars, rx_vars, dev_vars, irq_vars, poll_vars, blind, held>>

-----------------------------------------------------------------------------
(* Releases, of the error path and of my_pci_remove().                     *)

\* unregister_netdev() waits for a grace period, in which polls return;
\* free_irq() takes the handler off the line and then waits for it to return.
ReleaseWaits(r) ==
  /\ r = "registered" => completing = 0 /\ ppc = "idle"
  /\ r = "sync_irq"   => hpc = "idle"

ReleaseNothing == {"mask", "sync_irq", "pending_tx"}
Release(r) ==
  /\ ReleaseWaits(r)
  /\ held' = held \ (IF r = "rings" THEN {"rx_ring", "tx_ring"} ELSE {r})
  /\ IRQ_MASK' = IF r = "mask" THEN {} ELSE IRQ_MASK
  /\ dma' = IF r \in {"pending_tx", "rx_buffers"} THEN "off" ELSE dma
  /\ tx' = IF r = "pending_tx" THEN [s \in TxSlot |-> "free"] ELSE tx
  /\ UNCHANGED <<tx_head, tx_clean, stopped, xpc, rx_vars, TX_TAIL, dev_tx,
                 dev_rx, IRQ_STATUS, hpc, hstatus, poll_vars, blind>>

probe_unwind ==
  /\ op = "unwind" /\ step <= Len(Unwind)
  /\ Release(Unwind[step]) /\ step' = step + 1
  /\ UNCHANGED op
probe_return ==
  /\ op = "unwind" /\ step > Len(Unwind)
  /\ op' = "unbound" /\ step' = 0
  /\ UNCHANGED <<tx_vars, rx_vars, dev_vars, irq_vars, poll_vars, blind, held>>

\* my_pci_remove().  unregister_netdev() first runs my_stop() on an interface that
\* is up: that is stop_queue and what follows, and then remove_call.
RemovalIrqLate ==
  << "registered", "mask", "napi", "pending_tx", "rx_buffers", "rings", "irq",
     "sync_irq", "mmio", "netdev", "regions", "device" >>
Removal ==
  << "registered", "mask", "irq", "sync_irq", "napi", "pending_tx",
     "rx_buffers", "rings", "mmio", "netdev", "regions", "device" >>

remove_call ==
  /\ op = "down" /\ op' = "remove" /\ step' = 1
  /\ UNCHANGED <<tx_vars, rx_vars, dev_vars, irq_vars, poll_vars, blind, held>>
remove_release ==
  /\ op = "remove" /\ step <= Len(Removal)
  /\ Release(Removal[step]) /\ step' = step + 1
  /\ UNCHANGED op
remove_return ==
  /\ op = "remove" /\ step > Len(Removal)
  /\ op' = "unbound" /\ step' = 0
  /\ UNCHANGED <<tx_vars, rx_vars, dev_vars, irq_vars, poll_vars, blind, held>>

-----------------------------------------------------------------------------
Init ==
  /\ op = "unbound" /\ step = 0 /\ held = {}
  /\ tx_head = 0 /\ tx_clean = 0 /\ tx = [s \in TxSlot |-> "free"]
  /\ TX_TAIL = 0 /\ dev_tx = 0 /\ dma = "off" /\ stopped = FALSE /\ xpc = "idle"
  /\ rx_head = 0 /\ rx_done = {} /\ dev_rx = 0
  /\ IRQ_STATUS = {} /\ IRQ_MASK = {} /\ hpc = "idle" /\ hstatus = {}
  /\ napi = {"SCHED"} /\ ppc = "idle" /\ work_done = 0 /\ completing = 0
  /\ blind = TRUE

\* The handler is called while the interrupt is requested: because the line is
\* asserted, or because another device shares it.
my_irq_handler == "irq" \in held /\ irq_read

request == probe_call \/ remove_call
interface == open_napi \/ stop_queue
admin == probe_acquire \/ probe_fail \/ probe_unwind \/ probe_return
         \/ remove_release \/ remove_return
bound == UNCHANGED <<step, held>>
running == my_start_xmit \/ device \/ my_irq_handler \/ handler_step \/ my_poll
           \/ my_open \/ my_stop

Next ==
  \/ request \/ admin
  \/ (interface \/ running) /\ bound

Spec == Init /\ [][Next]_vars

\* CPUs run what they started, NAPI and the NIC do their work, an asserted line
\* is served; nobody has to start an operation, send a packet or share a line.
Fairness ==
  /\ WF_vars(admin)
  /\ WF_vars((my_open \/ my_stop) /\ bound)
  /\ WF_vars((xmit_busy \/ xmit_doorbell \/ xmit_report) /\ bound)
  /\ WF_vars((device_send) /\ bound)
  /\ WF_vars(my_irq_handler /\ InterruptLine /\ bound)
  /\ WF_vars(handler_step /\ bound)
  /\ WF_vars(poll_steps /\ bound)
  /\ WF_vars(poll_unmask /\ bound)

FairSpec == Spec /\ Fairness

-----------------------------------------------------------------------------
(* Properties.                                                             *)

TypeOK ==
  /\ op \in {"unbound", "probe", "unwind", "down", "open_mask", "open_queue",
             "up", "stop_mask", "stop_napi", "stop_wait", "remove"}
  /\ step \in 0 .. Len(Removal) + 1
  /\ held \subseteq {Acquire[k] : k \in 1 .. Len(Acquire)}
  /\ tx_head \in TxSlot /\ tx_clean \in TxSlot /\ tx \in [TxSlot -> {"free", "hw", "done"}]
  /\ TX_TAIL \in TxSlot /\ dev_tx \in TxSlot /\ dma \in {"off", "on"}
  /\ stopped \in BOOLEAN /\ xpc \in {"idle", "stop", "doorbell", "report"}
  /\ rx_head \in RxSlot /\ rx_done \subseteq RxSlot /\ dev_rx \in RxSlot
  /\ IRQ_STATUS \subseteq Causes /\ IRQ_MASK \subseteq Causes
  /\ hpc \in {"idle", "rx", "schedule", "clean", "ack"} /\ hstatus \subseteq Causes
  /\ napi \subseteq NapiFlags /\ ppc \in {"idle", "queued", "harvest", "complete"}
  /\ work_done \in 0 .. Budget /\ completing \in 0 .. MaxCompleting
  /\ blind \in BOOLEAN

\* Slots from a forward to b, b excluded.
Between(a, b) ==
  {s \in TxSlot : (s - a) % TX_RING_SIZE < (b - a) % TX_RING_SIZE}

\* my_start_xmit(), the NIC and my_tx_clean() agree on every transmit slot: an
\* skb sits exactly in the slots from tx_clean to tx_head, the NIC is done with
\* exactly those before its own position, the doorbell never runs past the
\* posted descriptors (the NIC never sends from a slot whose skb is gone), and a
\* descriptor is the NIC's from the moment it is posted until its doorbell.  What
\* my_start_xmit() does with the skb after the doorbell is XmitReadsItsSkb.
SlotOwnership ==
  dma # "off" =>
    /\ \A s \in TxSlot : tx[s] = IF s \in Between(tx_clean, dev_tx) THEN "done"
                                 ELSE IF s \in Between(dev_tx, tx_head) THEN "hw"
                                 ELSE "free"
    /\ Between(dev_tx, TX_TAIL) \subseteq Between(dev_tx, tx_head)
    /\ xpc = "doorbell" => tx[TxPred(tx_head)] = "hw"

\* my_tx_clean()'s comment, "the NIC is done with the packet, the skb may be freed
\* now" (simple_netdev.c:235-238), takes the NIC for the skb's last user: when
\* my_start_xmit() reads skb->len behind its doorbell, the skb is still there.
XmitReadsItsSkb == xpc = "report" => tx[TxPred(tx_head)] # "free"

\* A stored frame is never left without somebody who will look at it (a pending
\* cause, a handler about to schedule the poll, a poll that has not yet looked
\* or will be repeated), except when it came in one of two windows: between the
\* handler's napi_schedule() and its acknowledge, or while NAPI was disabled.
NoStrandedFrame ==
  /\ rx_head \in rx_done /\ ~blind /\ "DISABLE" \notin napi
  => \/ "RX" \in IRQ_STATUS
     \/ hpc \in {"rx", "schedule"} /\ "RX" \in hstatus
     \/ ppc \in {"queued", "harvest"}
     \/ ppc = "complete" /\ "MISSED" \in napi

\* An interface that is up and has neither a handler nor a poll under way
\* listens to both interrupts: the writes of IRQ_MASK in my_irq_handler(),
\* my_poll(), my_open() and my_stop() cannot overtake each other so that the
\* receive interrupt stays masked.
QuietMeansListening ==
  op = "up" /\ hpc = "idle" /\ ppc = "idle" /\ completing = 0
    => IRQ_MASK = Causes

\* No code of the driver is running, or queued to run, on a resource that probe's
\* error path or remove has released.
NoUseAfterFree ==
  /\ hpc # "idle" => {"netdev", "mmio", "napi", "rx_ring", "tx_ring"} \subseteq held
  /\ ppc # "idle" \/ completing > 0
       => {"netdev", "mmio", "napi", "rx_ring", "rx_buffers"} \subseteq held
  /\ xpc # "idle" => {"netdev", "mmio", "tx_ring", "registered"} \subseteq held

\* A probe that failed and a remove that returned leave nothing held and no skb in
\* the ring, and the way there releases nothing twice.
ExactUnwind ==
  /\ op = "unbound" => held = {} /\ (\A s \in TxSlot : tx[s] = "free") /\ dma = "off"
  /\ op = "unwind" /\ step <= Len(Unwind) /\ Unwind[step] \notin ReleaseNothing
       => Unwind[step] \in held
  /\ op = "remove" /\ step <= Len(Removal)
       /\ Removal[step] \notin ReleaseNothing \cup {"rings"}
       => Removal[step] \in held

\* Every open, stop, probe and remove returns: napi_disable() always gets its
\* turn, and free_irq() and unregister_netdev() stop waiting.
OperationsReturn ==
  op \notin {"unbound", "down", "up"} ~> op \in {"unbound", "down", "up"}

\* my_tx_clean()'s comment, "if the queue was stopped because the ring was full
\* and there is room now, start it again": a queue stopped while the interface
\* is up is started again, or the interface goes down.
StoppedIsWoken == op = "up" /\ stopped ~> ~stopped \/ op # "up"

-----------------------------------------------------------------------------
(* The inductive invariant behind the safety properties.                   *)

\* What is held before step s of probe, of its error path and of remove.
Released(r) == IF r = "rings" THEN {"rx_ring", "tx_ring"} ELSE {r}
AcquiredBefore(s) == {Acquire[k] : k \in 1 .. s - 1} \ NotHeld
UnwoundFrom(s) == {Unwind[k] : k \in s .. Len(Unwind)} \ ReleaseNothing
RemovedFrom(s) ==
  (UNION {Released(Removal[k]) : k \in s .. Len(Removal)}) \ ReleaseNothing
Everything == {Acquire[k] : k \in 1 .. Len(Acquire)} \ NotHeld

\* The operations during which NAPI is enabled, and during which the net_device
\* is registered.
Enabled == {"open_mask", "open_queue", "up", "stop_mask", "stop_napi", "stop_wait"}
Registered == Enabled \cup {"down"}

\* The position in probe, unwind or remove says exactly what is held.
HeldExactly ==
  /\ op = "unbound" => held = {}
  /\ op = "probe"  => step \in 1 .. Len(Acquire) /\ held = AcquiredBefore(step)
  /\ op = "unwind" => step \in 1 .. Len(Unwind) + 1 /\ held = UnwoundFrom(step)
  /\ op = "remove" => step \in 1 .. Len(Removal) + 1 /\ held = RemovedFrom(step)
  /\ op \in Registered => held = Everything

\* Where in probe, unwind and remove the handler may run, a poll may still have to
\* write IRQ_MASK, a packet may be under way, and the NIC works on the rings.
Contexts ==
  /\ hpc # "idle" => \/ op \in Registered
                     \/ op = "probe" /\ step \in 11 .. 12
                     \/ op = "unwind" /\ step \in 1 .. 3
                     \/ op = "remove" /\ step \in 1 .. 4
  /\ completing > 0 => op \in Registered \/ (op = "remove" /\ step = 1)
  /\ xpc # "idle" => op = "up"
  /\ dma = "on" => \/ op \in Registered
                   \/ op = "probe" /\ step = 12
                   \/ op = "unwind" /\ step \in 1 .. 4
                   \/ op = "remove" /\ step \in 1 .. 6
  /\ op \in Registered \/ (op = "probe" /\ step = 12) => dma = "on"

\* NAPI is owned by a poll exactly while one is queued or running, and by
\* napi_disable() while the interface is not open.
NapiOwner ==
  /\ op \in Enabled => ("SCHED" \in napi <=> ppc # "idle")
  /\ op \notin Enabled => ppc = "idle"
  /\ op \in {"down", "remove"} => "SCHED" \in napi
  /\ op = "probe" /\ step > 6 => "SCHED" \in napi
  /\ op = "unwind" /\ step \in 1 .. 3 => "SCHED" \in napi
  /\ "DISABLE" \in napi => op = "stop_wait"

\* The three transmit indices stand in order and every slot's state follows; no
\* skb is in the ring before the interface was opened or after it was removed.
TxDist(a, b) == IF b >= a THEN b - a ELSE b - a + TX_RING_SIZE
TxD(s) == TxDist(tx_clean, s)
TxRing ==
  /\ dma = "on" =>
       /\ TxD(dev_tx) <= TxD(TX_TAIL) /\ TxD(TX_TAIL) <= TxD(tx_head)
       /\ tx_head = IF xpc = "doorbell" THEN TxSucc(TX_TAIL) ELSE TX_TAIL
       /\ \A s \in TxSlot : tx[s] = IF TxD(s) < TxD(dev_tx) THEN "done"
                                    ELSE IF TxD(s) < TxD(tx_head) THEN "hw"
                                    ELSE "free"
  /\ op \in {"unbound", "probe", "unwind"} => tx = [s \in TxSlot |-> "free"]
  /\ op = "remove" /\ step > 6 => tx = [s \in TxSlot |-> "free"]
  /\ op = "probe" /\ step \in 9 .. 11 => tx_head = 0 /\ tx_clean = 0

\* While the interface is open IRQ_MASK lacks a cause only if somebody is about
\* to schedule a poll, a poll is coming, or its write of IRQ_MASK is.
MaskOwner ==
  op \in {"open_queue", "up", "stop_mask"} =>
    \/ IRQ_MASK = Causes
    \/ hpc = "schedule" \/ ppc # "idle" \/ completing > 0

\* A stored frame that nobody was blind to has somebody who will look at it; a
\* cause the handler will acknowledge with the next write does not count.
FrameOwner ==
  /\ hpc \in {"rx", "schedule"} => "RX" \in hstatus
  /\ op \notin Enabled => blind
  /\ rx_head \in rx_done /\ ~blind /\ "DISABLE" \notin napi =>
       \/ "RX" \in IRQ_STATUS /\ ~AckWindow
       \/ hpc \in {"rx", "schedule"}
       \/ ppc \in {"queued", "harvest"}
       \/ ppc = "complete" /\ "MISSED" \in napi

\* IInv: resources, running contexts, NAPI, the transmit ring, the interrupt mask
\* and the stored frames agree with each other and with the RTNL thread
\* (my_start_xmit(), my_irq_handler(), my_poll(), my_open(), my_stop(), probe, remove).
IInv ==
  TypeOK /\ HeldExactly /\ Contexts /\ NapiOwner /\ TxRing /\ MaskOwner
    /\ FrameOwner
=============================================================================
