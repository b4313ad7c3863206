-------------------------- MODULE EdunicLifecycle --------------------------
(***************************************************************************)
(* The life of one edunic device: edunic_probe() and its error unwinding,  *)
(* edunic_open(), edunic_stop() and edunic_remove() (nic_pci.c, nic_main.c *)
(* and the parts of nic_hw.c and nic_irq.c they call), run by one thread   *)
(* at a time under the RTNL lock, against the contexts they start and must *)
(* stop: the worker on hw_wq, the link timer and the NAPI poll.            *)
(*                                                                         *)
(* The transmit ring is reduced to two counters, since EdunicTx shows how  *)
(* its slots move; the receive ring to nothing but the buffers it owns.    *)
(* The registers IMS, IMC and CTRL are written here but the device of this *)
(* repository never reads them (edunic_hw_tx_worker() tests neither TXEN   *)
(* nor the mask), so they have no variable.                                *)
(***************************************************************************)
EXTENDS Integers, Sequences, Napi

CONSTANT Capacity    \* EDUNIC_RING_SIZE - 1: descriptors a full ring holds

ASSUME CapacityAssumption == Capacity \in Nat /\ Capacity >= 1

VARIABLES
  op, step,        \* the RTNL thread: what it is doing and how far it is
  removing,        \* "yes" while edunic_remove() runs
  held,            \* the resources edunic_probe() acquired and nobody released
  irq,             \* "requested" or "free"
  queue, carrier,  \* netdev queue state and carrier
  link_up,         \* adapter.link_up: "up" or "down"
  inflight,        \* descriptors between TDH and TDT
  completed,       \* descriptors with DD set, not reclaimed
  ICR, napi,       \* pending causes; adapter.napi, see Napi
  work, wpc, batch,  \* hw_tx_work; worker: program counter, tail - head
  timer, tpc,      \* link_timer: "armed" or "idle"; its callback
  ppc              \* NAPI poll: "idle", "queued" on a poll list, "running"

admin_vars  == <<op, step, removing, held, irq>>
link_vars   == <<link_up, carrier>>
worker_vars == <<work, wpc, batch>>
timer_vars  == <<timer, tpc>>
vars == <<admin_vars, link_vars, worker_vars, timer_vars, queue, inflight,
          completed, ICR, napi, ppc>>

-----------------------------------------------------------------------------
(* edunic_probe().                                                         *)

\* The calls of edunic_probe() that can fail or acquire something, in order.
Acquire == << "device", "regions", "iomap", "dma_mask", "netdev", "tx", "rx",
              "rx_buffers", "emulation", "napi", "registered" >>
CannotFail == {"napi"}
NotHeld == {"dma_mask", "rx_buffers"}   \* nothing of its own to release

\* The labels of the error path, in the order they fall through.
Unwind == << "napi", "emulation", "rx", "tx", "netdev", "iomap", "regions",
             "device" >>

\* goto: where the failure of a call enters Unwind; after its end is "return".
LabelSkipsRx ==
  [r \in {"device", "regions", "iomap", "dma_mask", "netdev", "tx", "rx",
          "rx_buffers", "emulation", "registered"} |->
     CASE r = "device"   -> 9
       [] r = "regions"  -> 8
       [] r = "iomap"    -> 7
       [] r \in {"dma_mask", "netdev"} -> 6
       [] r = "tx"       -> 5
       [] r \in {"rx", "rx_buffers", "emulation"} -> 4
       [] r = "registered" -> 1]
ErrLabel ==
  [r \in {"device", "regions", "iomap", "dma_mask", "netdev", "tx", "rx",
          "rx_buffers", "emulation", "registered"} |->
     CASE r = "device"   -> 9
       [] r = "regions"  -> 8
       [] r = "iomap"    -> 7
       [] r \in {"dma_mask", "netdev"} -> 6
       [] r = "tx"       -> 5
       [] r = "rx"       -> 4
       [] r \in {"rx_buffers", "emulation"} -> 3
       [] r = "registered" -> 1]

probe_call ==
  /\ op = "unbound" /\ op' = "probe" /\ step' = 1
  /\ UNCHANGED <<removing, held, irq, link_vars, worker_vars, timer_vars,
                 queue, inflight, completed, ICR, napi, ppc>>

\* The next call succeeds.  netif_carrier_off() and edunic_hw_reset() follow
\* alloc_etherdev(); setting up the rings empties them; netif_napi_add() leaves
\* NAPI disabled; after register_netdev() the interface is down.
probe_acquire ==
  /\ op = "probe"
  /\ LET r == Acquire[step] IN
       /\ held' = IF r \in NotHeld THEN held ELSE held \cup {r}
       /\ link_up' = IF r = "netdev" THEN "down" ELSE link_up
       /\ carrier' = IF r = "netdev" THEN "off" ELSE carrier
       /\ inflight'  = IF r = "tx" THEN 0 ELSE inflight
       /\ completed' = IF r = "tx" THEN 0 ELSE completed
       /\ napi' = IF r = "napi" THEN {"SCHED"} ELSE napi
       /\ op' = IF r = "registered" THEN "down" ELSE "probe"
       /\ step' = IF r = "registered" THEN 0 ELSE step + 1
  /\ UNCHANGED <<removing, irq, worker_vars, timer_vars, queue, ICR, ppc>>

\* The next call fails.
probe_fail ==
  /\ op = "probe" /\ Acquire[step] \notin CannotFail
  /\ op' = "unwind" /\ step' = ErrLabel[Acquire[step]]
  /\ UNCHANGED <<removing, held, irq, link_vars, worker_vars, timer_vars,
                 queue, inflight, completed, ICR, napi, ppc>>

\* edunic_hw_emulation_uninit(): hrtimer_cancel() and cancel_work_sync() wait for
\* a running callback and drop a pending one.
CancelTimerOnly ==
  /\ tpc = "idle"
  /\ timer' = "idle" /\ UNCHANGED <<tpc, worker_vars>>
edunic_hw_emulation_uninit ==
  /\ tpc = "idle" /\ wpc = "idle"
  /\ timer' = "idle" /\ work' = "idle" /\ UNCHANGED <<tpc, wpc, batch>>

\* Release r: what the emulation runs is stopped, a ring's skbs are freed.
Release(r) ==
  /\ held' = held \ {r}
  /\ IF r = "emulation" THEN edunic_hw_emulation_uninit
                        ELSE UNCHANGED <<worker_vars, timer_vars>>
  /\ inflight'  = IF r = "tx" THEN 0 ELSE inflight
  /\ completed' = IF r = "tx" THEN 0 ELSE completed

\* One label of the error path, then the next; edunic_probe() returns an error.
probe_unwind ==
  /\ op = "unwind" /\ step <= Len(Unwind)
  /\ Release(Unwind[step]) /\ step' = step + 1
  /\ UNCHANGED <<op, removing, irq, link_vars, queue, ICR, napi, ppc>>
probe_return ==
  /\ op = "unwind" /\ step > Len(Unwind)
  /\ op' = "unbound" /\ step' = 0
  /\ UNCHANGED <<removing, held, irq, link_vars, worker_vars, timer_vars,
                 queue, inflight, completed, ICR, napi, ppc>>

-----------------------------------------------------------------------------
(* edunic_open().                                                          *)

open_napi_enable ==
  /\ op = "down" /\ op' = "open_irq"
  /\ napi' = AfterEnable(napi)
  /\ UNCHANGED <<step, removing, held, irq, link_vars, worker_vars, timer_vars,
                 queue, inflight, completed, ICR, ppc>>

\* edunic_setup_interrupts() succeeds, or fails and NAPI is disabled again.
open_request_irq ==
  /\ op = "open_irq" /\ op' = "open_start" /\ irq' = "requested"
  /\ UNCHANGED <<step, removing, held, link_vars, worker_vars, timer_vars,
                 queue, inflight, completed, ICR, napi, ppc>>
OpenFailKeepsNapi ==
  /\ op = "open_irq" /\ op' = "down"
  /\ UNCHANGED <<step, removing, held, irq, link_vars, worker_vars, timer_vars,
                 queue, inflight, completed, ICR, napi, ppc>>
open_fail ==
  /\ op = "open_irq" /\ op' = "open_disable"
  /\ napi' = NapiDisableBegin(napi)
  /\ UNCHANGED <<step, removing, held, irq, link_vars, worker_vars, timer_vars,
                 queue, inflight, completed, ICR, ppc>>
open_fail_return ==
  /\ op = "open_disable" /\ NapiDisableReady(napi) /\ op' = "down"
  /\ napi' = NapiDisableEnd(napi)
  /\ UNCHANGED <<step, removing, held, irq, link_vars, worker_vars, timer_vars,
                 queue, inflight, completed, ICR, ppc>>

\* edunic_hw_start() arms the link timer, netif_start_queue() lets packets in.
StartWhenLinkDown ==
  /\ op = "open_start" /\ op' = "up"
  /\ timer' = IF link_up = "down" THEN "armed" ELSE timer
  /\ queue' = "started"
  /\ UNCHANGED <<step, removing, held, irq, link_vars, worker_vars, tpc,
                 inflight, completed, ICR, napi, ppc>>
open_start ==
  /\ op = "open_start" /\ op' = "up"
  /\ timer' = "armed"
  /\ queue' = "started"
  /\ UNCHANGED <<step, removing, held, irq, link_vars, worker_vars, tpc,
                 inflight, completed, ICR, napi, ppc>>

-----------------------------------------------------------------------------
(* edunic_stop(), called for "ip link set down" or by unregister_netdev(). *)

\* netif_stop_queue(), edunic_hw_stop().
stop_queue ==
  /\ op = "up" /\ op' = "stop_irq" /\ queue' = "stopped"
  /\ UNCHANGED <<step, removing, held, irq, link_vars, worker_vars, timer_vars,
                 inflight, completed, ICR, napi, ppc>>

\* edunic_free_interrupts(): free_irq() waits for handlers run by the interrupt
\* line, and the worker and the timer call edunic_intr() directly.  Then
\* napi_disable(), which waits for the poll.
stop_free_irq ==
  /\ op = "stop_irq" /\ op' = "stop_disable" /\ irq' = "free"
  /\ napi' = NapiDisableBegin(napi)
  /\ UNCHANGED <<step, removing, held, link_vars, worker_vars, timer_vars,
                 queue, inflight, completed, ICR, ppc>>
stop_napi_disable ==
  /\ op = "stop_disable" /\ NapiDisableReady(napi)
  /\ op' = "stop_carrier" /\ napi' = NapiDisableEnd(napi)
  /\ UNCHANGED <<step, removing, held, irq, link_vars, worker_vars, timer_vars,
                 queue, inflight, completed, ICR, ppc>>

\* netif_carrier_off(); neither the timer nor the worker is cancelled.
stop_carrier ==
  /\ op = "stop_carrier" /\ carrier' = "off"
  /\ op' = IF removing = "yes" THEN "remove" ELSE "down"
  /\ UNCHANGED <<step, removing, held, irq, link_up, worker_vars, timer_vars,
                 queue, inflight, completed, ICR, napi, ppc>>

-----------------------------------------------------------------------------
(* edunic_remove().                                                        *)

Removal == << "registered", "napi", "emulation", "rx", "tx", "iomap",
              "regions", "netdev", "device" >>

remove_call ==
  /\ op \in {"down", "up"} /\ removing = "no" /\ removing' = "yes" /\ step' = 1
  /\ IF op = "up" THEN op' = "stop_irq" /\ queue' = "stopped"
                  ELSE op' = "remove" /\ UNCHANGED queue
  /\ UNCHANGED <<held, irq, link_vars, worker_vars, timer_vars, inflight,
                 completed, ICR, napi, ppc>>
remove_release ==
  /\ op = "remove" /\ step <= Len(Removal)
  /\ Release(Removal[step]) /\ step' = step + 1
  /\ UNCHANGED <<op, removing, irq, link_vars, queue, ICR, napi, ppc>>
remove_return ==
  /\ op = "remove" /\ step > Len(Removal)
  /\ op' = "unbound" /\ step' = 0 /\ removing' = "no"
  /\ UNCHANGED <<held, irq, link_vars, worker_vars, timer_vars, queue,
                 inflight, completed, ICR, napi, ppc>>

\* What the RTNL thread starts on request, and the rest of each operation.
request == probe_call \/ open_napi_enable \/ stop_queue \/ remove_call
admin_step ==
  \/ probe_acquire \/ probe_fail \/ probe_unwind \/ probe_return
  \/ open_request_irq \/ open_fail \/ open_fail_return \/ open_start
  \/ stop_free_irq \/ stop_napi_disable \/ stop_carrier
  \/ remove_release \/ remove_return

-----------------------------------------------------------------------------
(* Packets, the worker, the timer and the poll.                            *)

\* edunic_start_xmit(), called while the interface is up, has carrier and the
\* queue is started: a full ring stops the queue (NETDEV_TX_BUSY), otherwise a
\* descriptor is posted and the queue stops if that was the last one.
XmitNoRoomTest ==
  /\ op = "up" /\ carrier = "on" /\ queue = "started"
  /\ inflight' = inflight + 1 /\ work' = "pending"
  /\ queue' = IF inflight + completed + 1 = Capacity THEN "stopped" ELSE "started"
  /\ UNCHANGED <<admin_vars, link_vars, wpc, batch, timer_vars, completed, ICR,
                 napi, ppc>>
edunic_start_xmit ==
  /\ op = "up" /\ carrier = "on" /\ queue = "started"
  /\ IF inflight + completed = Capacity
       THEN queue' = "stopped" /\ UNCHANGED <<inflight, work>>
       ELSE /\ inflight' = inflight + 1 /\ work' = "pending"
            /\ queue' = IF inflight + completed + 1 = Capacity THEN "stopped"
                                                              ELSE "started"
  /\ UNCHANGED <<admin_vars, link_vars, wpc, batch, timer_vars, completed, ICR,
                 napi, ppc>>

\* edunic_intr(): read-to-clear ICR; carrier follows link_up; NAPI is scheduled.
edunic_intr ==
  /\ ICR' = {}
  /\ carrier' = IF "LSC" \notin ICR THEN carrier
                ELSE IF link_up = "up" THEN "on" ELSE "off"
  /\ IF "TX" \in ICR
       THEN /\ napi' = AfterSchedulePrep(napi)
            /\ ppc' = IF napi_schedule_prep(napi) THEN "queued" ELSE ppc
       ELSE UNCHANGED <<napi, ppc>>

\* edunic_hw_tx_worker(): TDH and TDT are read once ...
worker_start ==
  /\ work = "pending" /\ wpc = "idle"
  /\ work' = "idle" /\ batch' = inflight
  /\ wpc' = IF inflight = 0 THEN "idle" ELSE "run"
  /\ UNCHANGED <<admin_vars, link_vars, timer_vars, queue, inflight, completed,
                 ICR, napi, ppc>>
\* ... descriptors are marked done one by one ...
worker_mark ==
  /\ wpc = "run" /\ batch' = batch - 1
  /\ inflight' = inflight - 1 /\ completed' = completed + 1
  /\ wpc' = IF batch = 1 THEN "intr" ELSE "run"
  /\ ICR' = IF batch = 1 THEN ICR \cup {"TX"} ELSE ICR
  /\ UNCHANGED <<admin_vars, link_vars, work, timer_vars, queue, napi, ppc>>
\* ... and edunic_intr() is called directly.
worker_intr ==
  /\ wpc = "intr" /\ wpc' = "idle" /\ edunic_intr
  /\ UNCHANGED <<admin_vars, link_up, work, batch, timer_vars, queue, inflight,
                 completed>>
edunic_hw_tx_worker == worker_start \/ worker_mark \/ worker_intr

\* edunic_link_timer_fn() in hard interrupt context.
timer_fire ==
  /\ timer = "armed" /\ tpc = "idle" /\ timer' = "idle" /\ tpc' = "intr"
  /\ link_up' = "up" /\ ICR' = ICR \cup {"LSC"}
  /\ UNCHANGED <<admin_vars, carrier, worker_vars, queue, inflight, completed,
                 napi, ppc>>
timer_intr ==
  /\ tpc = "intr" /\ tpc' = "idle" /\ edunic_intr
  /\ UNCHANGED <<admin_vars, link_up, worker_vars, timer, queue, inflight,
                 completed>>
edunic_link_timer_fn == timer_fire \/ timer_intr

\* edunic_poll(): reclaim everything done and wake a stopped queue ...
poll_clean ==
  /\ ppc = "queued" /\ ppc' = "running"
  /\ completed' = 0
  /\ queue' = IF completed > 0 THEN "started" ELSE queue
  /\ UNCHANGED <<admin_vars, link_vars, worker_vars, timer_vars, inflight, ICR,
                 napi>>
\* ... then napi_complete_done(), or the receive side used the whole budget and
\* the core polls again, unless napi_disable() waits: then the core completes.
CompleteAlwaysRequeues ==
  /\ ppc = "running" /\ ppc' = "queued"
  /\ UNCHANGED <<admin_vars, link_vars, worker_vars, timer_vars, queue,
                 inflight, completed, ICR, napi>>
poll_complete ==
  /\ ppc = "running"
  /\ napi' = AfterCompleteDone(napi)
  /\ ppc' = IF napi_complete_done(napi) THEN "idle" ELSE "queued"
  /\ UNCHANGED <<admin_vars, link_vars, worker_vars, timer_vars, queue,
                 inflight, completed, ICR>>
poll_again ==
  /\ ppc = "running" /\ "DISABLE" \notin napi /\ ppc' = "queued"
  /\ UNCHANGED <<admin_vars, link_vars, worker_vars, timer_vars, queue,
                 inflight, completed, ICR, napi>>
edunic_poll == poll_clean \/ poll_complete \/ poll_again

-----------------------------------------------------------------------------
\* The module is loaded and no device is bound.
Init ==
  /\ op = "unbound" /\ step = 0 /\ removing = "no" /\ held = {}
  /\ irq = "free" /\ queue = "stopped" /\ carrier = "off" /\ link_up = "down"
  /\ inflight = 0 /\ completed = 0 /\ ICR = {} /\ napi = {}
  /\ work = "idle" /\ wpc = "idle" /\ batch = 0
  /\ timer = "idle" /\ tpc = "idle" /\ ppc = "idle"

Next ==
  \/ request \/ admin_step \/ edunic_start_xmit
  \/ edunic_hw_tx_worker \/ edunic_link_timer_fn \/ edunic_poll

Spec == Init /\ [][Next]_vars

\* An operation that was begun is carried on, an armed timer fires, queued work
\* and queued polls run.  Nobody has to open the interface or send.
Fairness ==
  /\ WF_vars(admin_step) /\ WF_vars(edunic_hw_tx_worker)
  /\ WF_vars(edunic_link_timer_fn) /\ WF_vars(edunic_poll)
FairSpec == Spec /\ Fairness

-----------------------------------------------------------------------------
(* Properties.                                                             *)

Resources == { Removal[i] : i \in 1 .. Len(Removal) }

TypeOK ==
  /\ op \in {"unbound", "probe", "unwind", "down", "open_irq", "open_disable",
             "open_start", "up", "stop_irq", "stop_disable", "stop_carrier",
             "remove"}
  /\ step \in 0 .. Len(Acquire) /\ removing \in {"yes", "no"}
  /\ held \in SUBSET Resources /\ irq \in {"requested", "free"}
  /\ queue \in {"started", "stopped"} /\ carrier \in {"on", "off"}
  /\ link_up \in {"up", "down"}
  /\ inflight \in 0 .. Capacity /\ completed \in 0 .. Capacity
  /\ inflight + completed <= Capacity
  /\ ICR \in SUBSET {"TX", "LSC"} /\ napi \in SUBSET NapiFlags
  /\ work \in {"idle", "pending"} /\ wpc \in {"idle", "run", "intr"}
  /\ batch \in 0 .. Capacity
  /\ timer \in {"idle", "armed"} /\ tpc \in {"idle", "intr"}
  /\ ppc \in {"idle", "queued", "running"}

\* No context touches what was released: the worker uses rings, registers, the
\* netdev and its workqueue, the timer registers and the netdev, the poll the
\* rings (nic_hw.c:411 "Cancels any in-flight emulated work before the memory it
\* touches (rings, adapter struct) is freed out from under it").
NoUseAfterFree ==
  /\ wpc # "idle" \/ work = "pending" =>
       {"emulation", "tx", "rx", "iomap", "netdev"} \subseteq held
  /\ tpc # "idle" \/ timer = "armed" =>
       {"emulation", "iomap", "netdev"} \subseteq held
  /\ ppc # "idle" => {"registered", "napi", "tx", "rx", "netdev"} \subseteq held

\* Every label "undoes precisely the steps above it and nothing more"
\* (nic_pci.c:233): nothing is released twice or before it was acquired, and
\* nothing is left when probe failed or remove returned.
ExactUnwind ==
  /\ op = "unwind" /\ step <= Len(Unwind) => Unwind[step] \in held
  /\ op = "remove" /\ step <= Len(Removal) => Removal[step] \in held
  /\ op = "unbound" => held = {}

\* napi_enable() is called on a disabled instance (it is a BUG otherwise), and no
\* poll is queued or running once napi_disable() returned: "napi_disable() blocks
\* until any in-progress edunic_poll() call finishes" (nic_irq.c:223).
NapiBalanced ==
  op \in {"down", "stop_carrier", "remove"} =>
    "SCHED" \in napi /\ "DISABLE" \notin napi /\ ppc = "idle"

\* probe, open, stop and remove return: napi_disable() and the cancellations
\* never wait forever.
OperationsReturn ==
  op \notin {"unbound", "down", "up"} ~> op \in {"unbound", "down", "up"}

\* An interface that stays up gets its carrier: the timer of edunic_hw_start()
\* and the LSC interrupt reach netif_carrier_on() (nic_hw.c:365).
LinkComesUp == op = "up" ~> (carrier = "on" \/ op # "up")

\* "edunic_clean_tx_irq() will wake it once space frees up" (nic_tx.c:179): the
\* queue of an interface that stays up does not stay stopped.
StoppedIsWoken ==
  (op = "up" /\ queue = "stopped") ~> (queue = "started" \/ op # "up")

-----------------------------------------------------------------------------
(* The inductive invariant behind NoUseAfterFree, ExactUnwind and           *)
(* NapiBalanced.                                                            *)

\* What is held before step s of probe, of its error path and of remove.
AcquiredBefore(s) == {Acquire[k] : k \in 1 .. s - 1} \ NotHeld
UnwoundFrom(s)    == {Unwind[k] : k \in s .. Len(Unwind)}
RemovedFrom(s)    == {Removal[k] : k \in s .. Len(Removal)}

\* The operations during which the device is registered, and among them those
\* during which NAPI is enabled.
Enabled == {"open_irq", "open_disable", "open_start", "up", "stop_irq",
            "stop_disable"}
Bound == Enabled \cup {"down", "stop_carrier"}

\* The position in probe, unwind or remove says exactly what is held.
HeldExactly ==
  /\ op = "unbound" => held = {}
  /\ op = "probe"  => step \in 1 .. Len(Acquire) /\ held = AcquiredBefore(step)
  /\ op = "unwind" => step \in 1 .. Len(Unwind) + 1 /\ held = UnwoundFrom(step)
  /\ op = "remove" => step \in 1 .. Len(Removal) + 1 /\ held = RemovedFrom(step)
  /\ op \in Bound  => held = Resources
  /\ removing = "yes" =>
       op \in {"stop_irq", "stop_disable", "stop_carrier", "remove"}
  /\ removing = "yes" /\ op # "remove" => step = 1
  /\ op = "remove" => removing = "yes"

\* Nothing runs unless the device is registered or remove has not yet reached
\* edunic_hw_emulation_uninit(); the worker marks only what was posted.
Contexts ==
  /\ ~(wpc = "idle" /\ work = "idle" /\ timer = "idle" /\ tpc = "idle") =>
       op \in Bound \/ (op = "remove" /\ "emulation" \in held)
  /\ wpc = "run" => batch \in 1 .. inflight

\* NAPI is owned by a poll exactly while one is queued or running, and by
\* napi_disable() while the interface is down.
NapiOwner ==
  /\ op \in Enabled => ("SCHED" \in napi <=> ppc # "idle")
  /\ op \notin Enabled => ppc = "idle"
  /\ op \in {"down", "stop_carrier", "remove"} => "SCHED" \in napi
  /\ op = "probe" /\ step = Len(Acquire) => "SCHED" \in napi
  /\ "DISABLE" \in napi => op \in {"open_disable", "stop_disable"}

\* IInv: what is held, what runs and who owns NAPI agree with the position of
\* the RTNL thread (nic_pci.c, nic_main.c, nic_hw.c and nic_irq.c together).
IInv == TypeOK /\ HeldExactly /\ Contexts /\ NapiOwner
=============================================================================
