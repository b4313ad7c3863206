# A TLA+ model of linux-network-lab

This directory holds TLA+ specifications of the programs in this repository that
keep state and run concurrently with something: the `edunic` network driver
(`linux_nic_lab/driver`), the `simple_netdev` driver (`net_device`), the TCP
accelerator (`tcp_accelerator`) and the two chat servers (`chat`). Each module
is checked by TLC on small instances. The invariants of all seven components, the
two refinements and one action property are also proved with TLAPS, for every ring
size, table size and number of messages (section 6). `PROJECT.json` maps every
definition to the lines it models.

## 1. Inventory

| Part | State it keeps | Operations | Interacts through | What is hard | What makes it correct |
|---|---|---|---|---|---|
| edunic transmit (`nic_tx.c`, `nic_hw.c`, `nic_irq.c`) | tx ring (`buf`, `desc`, `next_to_use`, `next_to_clean`), TDH, TDT, ICR, queue state | `edunic_start_xmit`, `edunic_hw_tx_worker`, `edunic_intr`, `edunic_poll` / `edunic_clean_tx_irq` | shared memory, workqueue, NAPI word | three lock-free contexts, stop and wake of the queue, memory ordering | no skb touched by two owners, order kept, no stopped queue without a coming wake |
| edunic receive (`nic_rx.c`) | rx ring, RDH, RDT | `edunic_hw_deliver_rx_frame`, `edunic_clean_rx_irq`, `edunic_alloc_rx_buffers` | descriptors, RDT, NAPI | allocation failure inside a refill, interrupt during a poll | buffer ownership, every stored frame handed up once and in order |
| edunic life cycle (`nic_pci.c`, `nic_main.c`) | resources, IRQ, NAPI enabled, carrier, link timer | `edunic_probe`, `edunic_remove`, `edunic_open`, `edunic_stop`, `edunic_link_timer_fn` | starts and stops all of the above | failure at every call, teardown against running callbacks | exact unwinding, no use after free, nothing hangs |
| edunic statistics (`nic_main.c`) | counters under `u64_stats_sync` | increments in three contexts, `edunic_get_stats64` | shared memory | several writers of one sequence count | reader sees a consistent snapshot |
| `simple_netdev` (`net_device/simple_netdev.c`) | tx and rx rings of a hypothetical NIC | `my_start_xmit`, `my_tx_clean`, `my_poll`, `my_irq_handler`, `my_open`, `my_stop`, probe, remove | MMIO, interrupts, NAPI | late acknowledge, stop without recheck, mask overwritten by handler and poll | no lost completion, no stranded queue, interrupts never left masked, exact teardown |
| TCP accelerator (`tcp_accelerator/tcp_accelerator.c`) | per connection two forward buffers, four flags, epoll interest | `process_client_event`, `process_server_event`, `create_connection`, `destroy_connection` | sockets, epoll batches | backpressure, half close, reset, events of one batch | byte stream kept and dropped only behind a reset or a hang-up, no stall, close relayed |
| chat server (`chat/server.c`) | users (memory and `users.db`), messages file, client table with a page per client | login, menu, chat, admin, disconnect | sockets, files, epoll batches | one session per user, failing and torn saves, crash and restart, removal of somebody who is online, events of a batch that outlive their client | a session per active account, ids never change hands, a restart loses only what a failed save lost or cut |
| group chat (`chat/server_group.c`) | client table | login, broadcast, disconnect | sockets | dead members in a broadcast, SIGPIPE, ways out of the group with and without notice | names unique, members know who is online, everybody is served |
| epoll echo server (`epoll_server/epoll_server.c`) | none but the sockets | accept, echo | sockets | close before the last bytes are read, short writes | what was sent is echoed |
| MAC firewall, packet capture, XDP, skb example, TCP/UDP demos, chat client | none or constant | straight-line | - | - | not modelled, see section 7 |

The repository has no tests; comments and `linux_nic_lab/README.md` are its only
statements of intent. Hazards are listed with their lines in `PROJECT.json`.

## 2. Modules

| Module | Models | Notes |
|---|---|---|
| `Napi` | the kernel's NAPI state word | external; one operator per atomic operation |
| `EdunicTx` | transmit path, interface up | one action per shared load or store of xmit, worker and poll |
| `TxFifo` | what the transmit path promises | abstract: accept, transmit, acknowledge, free, in order |
| `EdunicRx` | receive path, interface up | worker against poll, failing allocations |
| `RxFifo` | what the receive path promises | abstract: stored frames come out once and in order |
| `EdunicLifecycle` | probe, unwind, open, stop, remove, link timer | transmit ring reduced to two counters |
| `TcpAccelerator` | one relayed connection and the event loop | sockets, epoll and peers external |
| `SimpleNetdev` | transmit, handler, poll, open and stop of `simple_netdev` | the NIC is external |
| `SimpleNetdevLifecycle` | composes it with probe, error labels and remove | holds the specification and the properties |
| `ChatServer` | the chat server, its files, crash and restart | peers, process death and failing writes are its environment |
| `GroupChat` | the group chat server | sockets and peers external |
| `MC*` | TLC instances | |
| `RingLemmas` | windows of a ring as sequences | used by the two refinement proofs |
| `*Proofs` | the theorems about the module of that name | section 6 |

### EdunicTx

`next_to_use`, `next_to_clean`, `buf`, `done` (the slots whose `status` has DD),
`TDH`, `TDT`, `ICR` are the driver's and the device's fields. `queue` is the
netdev queue's XOFF bit, `work` the pending bit of `hw_tx_work`, `napi` the NAPI
word. `xpc`, `wpc` and `ppc` are the program counters of `edunic_start_xmit()`
(serialised by the kernel's tx lock), `edunic_hw_tx_worker()` (an ordered
workqueue: one instance at a time) and `edunic_poll()` (one CPU at a time).
The stack calls xmit only while the queue is started. A frame is an opaque value;
`len`, DMA addresses and checksums are left out, `dma_map_single()` and `kmalloc()`
may fail. The receive work of a poll is reduced to "budget used" or "not".

`MemoryModel` chooses whether a store by the polling CPU is visible at once
(`"SC"`) or may wait in a store buffer (`"TSO"`) until `drain` or a locked
operation (`netif_wake_queue()`, `napi_complete_done()`). Only the store to
`next_to_clean` can wait: it is the one store in this code followed by a load of
another shared word with no full barrier between them. The other accesses are
ordered by `dma_wmb()`, `smp_mb()` or MMIO.

### EdunicRx

`buf[i]` is `NULL`, `EMPTY` (posted) or the frame written into it. The worker's
`deliver_*` steps and the poll's `clean_rx_*` and `alloc_rx_*` steps interleave
freely; `alloc_rx_fail` may happen at every allocation. `Init` has between 1 and
N - 1 posted buffers: `edunic_probe()` accepts any partial success.

### EdunicLifecycle

`op` and `step` say where the thread holding the RTNL lock is; `held` is the set
of resources acquired. `ErrLabel` is the `goto` of each failing call and `Unwind`
the order of the labels. `edunic_stop()` is split where another context can be
seen: queue stop, `free_irq()` and the start of `napi_disable()`, its end, carrier
off. `edunic_hw_emulation_uninit()` waits for a running timer callback and a
running worker. `IMS`, `IMC` and `CTRL` have no variable: the emulated device never
reads them. The kernel stops the queue's qdisc before `ndo_stop`, so xmit and stop
do not overlap.

### TcpAccelerator

`buf[e]` holds the bytes read from `e` (`c2s` is `buf["client"]`) and the offset
`start`; `end` is `start` plus their number. The two handlers are the same code
with the directions exchanged, so they are one action, `process_event`, which
contains the receive, flush, error, RDHUP, FIN, interest and finished parts in the
order of the source. `batch` is the rest of the array `epoll_wait()` filled, with
the events as they were then. A `recv()` takes what there is up to the free space;
a `send()` what the send queue takes. `epoll_ctl(MOD)` on a registered socket does
not fail. Using a freed connection leads to the state `"undefined"`, where nothing
more is claimed.

The relay gives up a connection at once when a socket reports an error or a hang-up
(lines 876-880 and 973-977). A hang-up also comes when a peer has closed and the proxy
has shut down its own side of that socket, that is when the connection is half closed
in both directions: bytes of that peer that are unread, or read and not yet sent on,
are then dropped. The properties about a living connection (`NoStall`, `CloseIsRelayed`,
`FinMeansComplete`) say nothing of what is lost there; `DroppedOnlyAfterHangUp` says
that this case and a reset are the only ones in which data is thrown away, and
`EndedByPeers` that before it the connection stays.

### SimpleNetdev and SimpleNetdevLifecycle

`tx[i]` says whether slot i holds no skb, is `owned_by_hw`, or is `done`; `rx_done` is
the set of receive slots that are done. `my_start_xmit()`, `my_irq_handler()`,
`my_poll()` and the RTNL thread (`op`) are split at every access to state another of
them uses, and may run on four CPUs; a handler may be called whenever the interrupt is
requested, since the line is shared. `completing` counts polls between
`napi_complete_done()` and their write of `IRQ_MASK`: NAPI may already be scheduled
again, or disabled, at that point.

The NIC exists only as the registers and flags the driver uses. It is taken to own a
receive descriptor by its flag (all of them are owned at the start, with RX_TAIL at 0),
to send up to TX_TAIL, to set a cause together with the result and to hold its line
while an unmasked cause is pending. Ring memory is sequentially consistent here.
`Release` covers both the error labels and `my_pci_remove()`: `unregister_netdev()` waits
a grace period, `free_irq()` for the running handler. `blind` is a history variable: it
becomes true when a frame is stored after the handler's `napi_schedule()` and before its
acknowledge, or when NAPI is disabled, and false when a poll finds the ring empty.
`xmit_report` is the read of `skb->len` behind the doorbell. The interrupt handler cleans
the transmit ring, so it may free that skb first, on another CPU or in the middle of
`my_start_xmit()` on this one.

### ChatServer

`users` and `users_db` are the array and the lines of the file, `messages` the lines of
`messages.db` with, as a history variable, the names behind the ids when the line was
written. `clients[s]` holds `mode`, `user_id`, `chat_partner_id` and the ids of the last
list shown. A client's descriptor and its slot are identified: both are taken lowest first
and freed together. `batch`, `cur` and `lines` say where the event loop is. One line is one
action: the process is single-threaded, a handler writes at most one file and writes it
before it sends anything, so a crash in its middle leaves what a crash before or after it
leaves. What a line says is chosen when it is handled; lines that only produce an answer
are `reply_only`. A peer acts when the server is about to look at its socket, which no
other moment can be told apart from.

A line of `users.db` is the id and a text: the name that was typed, as one symbol, and the
`|`, `0` and `1` behind it. `save_users()` has three kinds of outcome: the whole file, the
old file with an error return, or, since `fprintf()` and `fclose()` are not checked, a part
of the file whose last line may be cut, in its name or behind it. `load_users()` tries the
two formats in the order of the code. A line cut behind its name has too few fields for the
new one; the old one takes what follows for a part of the name, up to 31 characters and the
first blank. So a name in memory is a text too, and it is written back as it is:
`2|ali|1` is read as the name `ali|1`, saved as `2|ali|1|1|0` and read the next time as
`ali` with admin rights. A name cut inside may be another username.

The usernames are a set with, as constants, what the code's `sscanf()` and `strcmp()` see of
them: `Pieces[n]`, the usernames n begins with; `Word[n]`, what `%31s` reads of it, which
ends at a blank; and `Room[n]`, how many characters behind it `%31s` still takes. A username
of blanks only, which `%31s` skips, is left out. No relation between these is assumed.

`crash` may happen at any time and `start` is `main()` up to the loop. While the server is
down `users` keeps what memory held last, so that properties can compare it with what is
loaded. Two history variables and a field follow the restarts: `cut` marks a line that was
cut short, `torn` the accounts that a start read from such a line, now or earlier, and
`lost` that a restart dropped an account or changed its name or rights. `reused` holds the
slots `accept()` filled while the batch still had an event for them. Not told apart: the
text and time of messages, the order of lists, and what `show_last_messages()` prints. A
line of `messages.db` that is cut counts as not stored (the next message would be appended
to it).

### GroupChat

The same loop without accounts and files. `sock[s]` is the kernel's side of a connection:
unread bytes and how the peer ended. A reset leaves one error, which the next `recv()` or
`send()` takes; after that `recv()` returns 0 and `send()` raises SIGPIPE, which ends the
process (`pc = "down"`). A peer that had closed before it reset leaves no error and the
first `send()` raises it. `clients[s].view` is a history variable: the names its user has
been sent in the list and in the join and leave notices. A notice counts as told whether or
not its `send()` succeeded, since the server only logs a failure: `view` is what the server
told a member, not what arrived. `silent` holds the names that left by
a receive error, the one way out without a notice.

In both chat models `send()` does not block: a peer that stops reading would stop the
server, which blocking sockets and one thread cannot avoid.

## 3. Runs

| Run | Bounds | Result |
|---|---|---|
| `edunic_tx` | N = 4, two frames, SC | passes, 552 thousand states |
| `edunic_tx_tso` | N = 4, two frames, TSO | passes, 1.1 million states |
| `edunic_rx` | N = 4, budget 2, two frames | passes, 30 thousand states |
| `edunic_lifecycle` | 3 usable descriptors | passes, 26 thousand states |
| `tcp_accelerator` | buffer 2, send queue 1, 3 bytes one way and 1 the other | passes, 77 thousand states |
| `tcp_accelerator_truncation` | the same | `FinMeansComplete` violated |
| `chat_server` | 2 clients, 3 accounts, 2 names, 1 message, 2 lines a chunk, 1 failing write, any number of crashes | passes, 970 thousand states |
| `chat_server_torn` | 1 client, 2 accounts, 3 names, 1 failing write | `ConvertedToNewFormat` violated |
| `group_chat` | 2 clients, 2 names, 2 lines a chunk | passes, 49 thousand states |
| `simple_netdev` | two usable transmit slots, one receive slot, budget 1 | passes, 434 thousand states |
| `simple_netdev_skb_read` | one usable transmit slot | `XmitReadsItsSkb` violated |
| `simple_netdev_lost_wake` | one usable transmit slot | `StoppedIsWoken` violated |

Three further configurations show behaviours that section 4 describes and no run of the
list covers. TLC reports the violation within seconds of
`tlc -config <configuration> <module>`:

| Configuration | Module | Bounds | Result |
|---|---|---|---|
| `EdunicTxStoreBuffer.cfg` | `MCEdunicTx` | N = 2, one frame, TSO | `NoStrandedQueue` violated |
| `EdunicWedge.cfg` | `MCEdunicLifecycle` | 2 usable descriptors | `StoppedIsWoken` violated |
| `TcpAcceleratorStaleEvent.cfg` | `MCTcpAccelerator` | buffer 2, send queue 1, 1 byte each way | `DispatchedAlive` violated |

What the passing runs show (`IInv` in a run is the inductive invariant the proofs of
section 6 use; `TypeOK` is its first conjunct everywhere, and the other invariants of a run
are what it is for):

* `edunic_tx`. `NoStrandedQueue`: when everything is at rest the queue is started and
  the ring empty. `StoppedIsWoken`: a stopped queue starts again.
* `edunic_tx_tso`. `SlotOwnership`: the worker reads only live skbs, the poll frees each
  once, xmit overwrites none. `ImplementsTxFifo`: the ring refines `TxFifo`. Neither
  depends on when a store becomes visible.
* `edunic_rx`. `BufferOwnership`, `NoForgottenFrame` (an interrupt during a poll is not
  lost), `ImplementsRxFifo`, `DoneIsHarvested`.
* `edunic_lifecycle`. `NoUseAfterFree`, `ExactUnwind`, `NapiBalanced`,
  `OperationsReturn` (probe, open, stop and remove never wait forever),
  `LinkComesUp`.
* `tcp_accelerator`. `Conservation` (what a peer has read, what is queued for it, what
  the buffer holds and what is unread make up what the other peer sent),
  `NoDataAfterFin`, `NoStall`, `CloseIsRelayed`, `ClosedIsFreed`. Two say what a connection
  may end with, unless a peer has reset. `EndedByPeers`: once a peer has acted it is
  destroyed only when both have closed, so a half-closed connection goes on relaying, and
  no event meets a freed connection before that. `DroppedOnlyAfterHangUp`: bytes are left in
  a buffer only if the peer they came from had closed and the proxy had shut down the other
  direction as well.
* `chat_server`. `SessionsSound`: a session belongs to an active account and an account has
  one session, the admin page is of accounts with the rights, which only the default admin
  has unless an account was read from a cut line, and a chat has a known partner.
  `HistoryKeepsItsPeople`: ids are unique, names are unless one of the two accounts was read
  from a cut line, and as long as no account was lost or changed the stored conversations
  belong to those who held them. `AccountsKept`: accounts keep place, id, name and rights for
  ever; across restarts too, if the name is one that was typed and not the text of a cut
  line, unless a write has failed and the file has not caught up. `BlockedOnlyOnReusedSlot`:
  the loop blocks in `recv()` in one case only. An admin removes a user whose event is later
  in the same batch, and a connection accepted in between gets the user's descriptor; the
  server then waits for the new client's first line.
* `group_chat`. `RosterAgrees`: names are unique, every member was told of all who are online,
  and of those who are not only of some who left by a receive error as still there. `NeverBlocked`: here a
  client is only disconnected in its own event, so the case above cannot arise. `Served`:
  whatever a peer sends, and its end, is handled, unless a SIGPIPE ended the server.
* `simple_netdev`. `SlotOwnership`; `NoStrandedFrame` (a stored frame always has a
  pending cause, a coming schedule or a poll, except for the two windows `blind`
  records); `QuietMeansListening` (the four writers of `IRQ_MASK` never leave the receive
  interrupt masked on an idle interface; scheduling before masking in the handler would);
  `NoUseAfterFree`, `ExactUnwind`, `OperationsReturn`. A frame caught in one of the
  windows waits for the next frame, and for ever if the ring is full by then.

Why the bounds are enough: with N = 4 the ring wraps, fills (three descriptors) and
leaves one gap, and the worker can have one descriptor behind it, one in hand and one
ahead; two frames are enough to see an exchange. In `EdunicRx` a budget of 2 is less
than the three buffers, so a poll can end with work left. In `TcpAccelerator` three
bytes exceed a buffer of two, so a buffer fills, is partly sent and is compacted. In
`simple_netdev` one clean can find two completions, and the one receive slot can be
filled again during the poll that emptied it, so a budget of 1 is used up with work
left. `MaxCompleting` = 1 keeps a second poll from completing before the first has
written `IRQ_MASK`; both would write the same value.
In `chat_server` two clients are an admin and somebody to remove, or two logins for one
name; the admin's two lines in one chunk can remove and restore. Three accounts are the
admin, one whose line is cut and one that registers beside it. The two usernames are the
default admin's and one it begins with, so that a cut gives another username;
`chat_server_torn` adds one of two words, out of which `%31s` reads the default admin's name.
They have room for five more signs, all a cut line of the new format can add to a name at
once, or for none, and restarts may follow until the name no longer grows. The state after
one stored message and one failing write has all the relations the properties speak of.
In `group_chat` two members
are a sender and a receiver of every kind of notice, and a batch can hold a member's event,
a connection and the other member's event. `MAX_EVENTS` is never reached: level-triggered
events that do not fit come with the next `epoll_wait()`.
Deadlock is checked except in `edunic_tx_tso`, where the stranded queue is a state
without successors, in the relay's runs, which end when the connection is freed, in
`group_chat`, where a server that was killed stays down, and in `chat_server`, where a full table whose line
of the default admin was cut makes every start exit (`server.c:364`).

## 4. What the violations show

Truncation, freed packet, cut line and late acknowledge are runs; store buffer, wedge and
freed connection are the further configurations of section 3.

* **Store buffer** (`nic_tx.c:310`). The comment at `nic_tx.c:69` pairs the `smp_mb()`
  of `edunic_maybe_stop_tx()` with a barrier in `edunic_clean_tx_irq()`. There is none
  between the store to `next_to_clean` and the test of the queue, so each side can miss
  the other and the queue stays stopped. There is no `ndo_tx_timeout`. The run
  `edunic_tx` and the proof show that this barrier is all that is missing.
* **Wedge after close and open** (`nic_main.c:82`). `free_irq()` does not wait for the
  worker, which calls `edunic_intr()` itself. A completion of a full ring that falls
  into the time NAPI is disabled is lost, and the reopened interface finds the ring
  full with nothing left to raise an interrupt.
* **Truncation** (`tcp_accelerator.c:888`). `EPOLLRDHUP` ends reading although bytes are
  unread.
* **Freed connection** (`tcp_accelerator.c:1304`). The first event of a batch destroys the
  connection, the second is dispatched through it: the loop reads the endpoint out of freed
  memory. The comment there has the connection still alive when an event is handled.
* **Freed packet** (`simple_netdev.c:387`). `my_start_xmit()` prints `skb->len` after the
  doorbell; the NIC sends the packet and the handler's `my_tx_clean()` frees the skb first.
* **A cut line** (`server.c:397`). What `load_users()` read from a cut line is saved as it is
  and is not what the next start reads. With one write that failed unseen and two restarts
  an ordinary account may have admin rights, another name, or the name of an account that
  registered in between; the text of a name may grow with every restart. The properties of
  the chat server set such accounts (`torn`) apart and hold for all others.
* **Late acknowledge** (`simple_netdev.c:687`). Causes read at the start of the handler
  are cleared at its end; a completion in between is cleared unseen. If the queue was
  stopped meanwhile, nothing starts it again.

Three more behaviours are part of the models without a run of their own. A refill of the
receive ring asks only for what the same poll harvested (`nic_rx.c:276`), so buffers an
earlier refill could not allocate are never asked for again and a ring may run empty: the
properties of `edunic_rx` hold in those states too. A restart of the chat server after a lost
save may give the id of a lost account, and with it the stored conversations, to the next
new user (`lost` in `ChatServer`). And a full `users.db` from which the default admin's name
was cut stops every further start (`server.c:364-366`).

## 5. Fairness

`EdunicTx`: weak fairness of xmit once called, of the worker, of the poll and of the
store buffer: threads are scheduled, queued work runs, a scheduled softirq runs, store
buffers drain. Nothing obliges the stack to send. `EdunicRx`: the worker finishes the
frame and the batch it began, a scheduled poll runs; nothing obliges frames to arrive.
`EdunicLifecycle`: an operation that was begun goes on, an armed timer fires, worker and
poll run; nothing obliges anybody to open, close or send. `TcpAccelerator`: the loop
runs and a peer reads what has arrived; peers need not send or close. `GroupChat`: weak
fairness of the server's thread, nothing for the peers. `ChatServer` has safety properties
only and no fairness.
`SimpleNetdevLifecycle`: begun operations, handlers, polls and transmits go on, the NIC
sends what it was given and an asserted, unmasked line is served; nobody need send,
receive, share the line or start an operation.

## 6. Proofs

Every invariant and every safety refinement a passing run checks, and the action property
`AccountsKept`, is proved for all values of the constants; what remains with TLC is at the
end of this section.

| Module | Theorems |
|---|---|
| `EdunicTxProofs` | `InductiveInvariant`, `TypeCorrect`, `SlotOwnershipHolds`, `NoStrandedQueueHolds` (for `MemoryModel = "SC"`), `PipelineRefinement` |
| `EdunicRxProofs` | `InductiveInvariant`, `TypeCorrect`, `BufferOwnershipHolds`, `NoForgottenFrameHolds`, `QueueRefinement` |
| `EdunicLifecycleProofs` | `InductiveInvariant`, `TypeCorrect`, `NoUseAfterFreeHolds`, `ExactUnwindHolds`, `NapiBalancedHolds` |
| `SimpleNetdevLifecycleProofs` | `InductiveInvariant`, `TypeCorrect`, `SlotOwnershipHolds`, `NoStrandedFrameHolds`, `QuietMeansListeningHolds`, `NoUseAfterFreeHolds`, `ExactUnwindHolds` |
| `TcpAcceleratorProofs` | `InductiveInvariant`, `TypeCorrect`, `ConservationHolds`, `NoDataAfterFinHolds`, `DroppedOnlyAfterHangUpHolds`, `EndedByPeersHolds` |
| `ChatServerProofs` | `InductiveInvariant`, `TypeCorrect`, `SessionsSoundHolds`, `HistoryKeepsItsPeopleHolds`, `BlockedOnlyOnReusedSlotHolds`, `AccountsKeptHolds` |
| `GroupChatProofs` | `InductiveInvariant`, `TypeCorrect`, `RosterAgreesHolds`, `NeverBlockedHolds` |

`InductiveInvariant` is `Spec => []IInv` in each of them. It follows from `Init => IInv` and
`IInv /\ [Next]_vars => IInv'`; the other theorems follow from it. Assumed are only the
named ASSUMEs of the modules: rings have at least two slots (one for the receive ring of
`simple_netdev`) and a budget is at least 1; the markers `NULL`, `EMPTY` and
`NOBODY` (in `GroupChat`) are told apart from frames and names; buffers and send queues have
room for a byte; the table of users has room for the default admin, who is among the usernames, and `Pieces`,
`Word` and `Room` are functions on them; tables and bounds are
natural numbers, so empty tables, no lines and no faults are included.

What the invariants add to the properties, and why:

* `EdunicTx`. `SlotOwnership` is not inductive: that `buf[head]` is full when the worker
  reads it depends on where `head` stands. `RingInv` adds the order of the indices
  (`next_to_clean`, `clean`, `head`, `tail`, `TDT`, `next_to_use`, measured as distances
  from `next_to_clean`), the gap `edunic_tx_unused()` keeps, and what each slot holds
  according to its place. `WakeInv`, for machines without store buffers, adds the duties:
  an unread doorbell means pending work, an unreclaimed completion a scheduled or missed
  poll, a stopped queue a coming wake.
* `EdunicRx`. The same shape from the other end: `Oldest`, `Written`, `Posted` and
  `next_to_use` stand in order, `cleaned_count` is the distance the harvest has gone, and
  after an interrupt a done descriptor means a poll that is queued, has not looked yet, has
  been told to look again or has used up its budget.
* `EdunicLifecycle`, `SimpleNetdevLifecycle`. `HeldExactly`: the position in the list of
  probe's calls, of the error labels or of remove's calls determines the set of resources.
  That a failing call jumps to the right label is then a lemma (`FailStep`) about the three
  lists, one case per call. `Contexts` says where a worker, timer, handler, poll or transmit
  may be under way, `NapiOwner` whose the SCHED bit is. For `simple_netdev` also `TxRing`
  (slots between the indices), `MaskOwner` (a masked cause has somebody who will unmask it)
  and `FrameOwner` (a stored frame has somebody who will look, but for the two windows).
* `TcpAccelerator`. `FinIsLast` (a direction whose FIN went out is closed and drained),
  `NoReadAfterEof` (neither interest nor an event already in the batch can make the proxy
  read from a closed side), `Lifetime` (what is left of a freed connection), `HangUpStays`
  (an error or hang-up that waits in the batch is still there when it is handled, which
  `DroppedOnlyAfterHangUp` needs), `CloseWasSeen` (a read side is closed only behind the
  peer's FIN or a reset, which `EndedByPeers` needs). `process_event`
  is proved part by part: one lemma per helper says what it does to the buffer and the
  socket, and `Conservation` is carried through their composition.
* `ChatServer`. `AccountsSound`: the k-th account has the id k, whatever was cut. So the
  greatest id is the number of accounts, finding by id is looking at a place, and an admin's
  number stays what it was. The accounts outside `torn` have names that were typed, no two
  the same, and among them the default admin and nobody else has the rights; and always some
  active account found under that name has them. `FileSound` says the same of what a restart
  would read from `users.db`, after any prefix or cut line a failed save may leave (`Saves`,
  `Loads`), with the accounts it would read from a cut line in the place of `torn`, and that
  without a fault the file is up to date. `BatchSound`: an event in the batch whose client is
  there has something to receive, unless its slot was filled again. `AccountsKeptHolds` adds
  that a restart from an up-to-date file reads back every whole name with its rights
  (`ReadBack`).
* `GroupChat`. `BatchSound` without the exception: clients go in their own event only.

In `ChatServerProofs` and `GroupChatProofs` the invariant is first taken apart into predicates
of values (`Parts`), so that the lemmas about saving, loading, clearing slots and taking
events are about values and not about the state.

The refinements. `PipelineRefinement` maps the transmit ring to `TxFifo`: the queue is the
window of `buf` from the poll's index to `next_to_use`, `sent` and `acked` are distances in
it. Posting is the abstract accept, the worker's copy transmits, its status write
acknowledges, the poll's loop frees; every other step leaves the mapped state alone
(`PipelineStutter`). `QueueRefinement` does the same for the receive ring and `RxFifo`.
`RingLemmas` says how a window changes when one end moves; `RingArithmetic`,
`PipelineDistances` and `StoredSlots` tie the ends to the ring invariant. Neither needs
`WakeInv`, so the transmit refinement holds with store buffers too.

Only model-checked: liveness under fairness (`StoppedIsWoken`, `DoneIsHarvested`,
`OperationsReturn`, `LinkComesUp`, `NoStall`, `CloseIsRelayed`, `ClosedIsFreed`, `Served`),
which the provers do not reach, and the violations of section 4, which are behaviours TLC
finds. `TxFifo` and `RxFifo` are not proved about on their own.

## 7. Not modelled

Statistics, MTU, MAC address and ethtool of edunic; `my_change_mtu()` of `simple_netdev`
and its NIC's DMA after the first release of memory (a comment in `my_pci_remove()` says
a real driver has to stop it there); the start-up code of the relay and the group server.
The epoll echo server keeps no state but its descriptors and does one `read()` and one
write per event; the same calls, and a peer that closes with bytes unread, are in
`TcpAccelerator`. Left out for good: the
MAC firewall's pure decision, the capture programs, the skb example, the XDP program, the
TCP and UDP demonstrations and the chat client (straight-line I/O without state), and the
generated files under `netfilter/`.

## 8. Plan

Order of work, most important first. Done: `EdunicTx` with its proof, `EdunicRx`,
`EdunicLifecycle`, `TcpAccelerator`, `SimpleNetdevLifecycle`, `ChatServer`, `GroupChat`.
Next:

1. Within the existing modules: statistics writers, the error branch of the receive
   harvest for a device that sets RXE, several connections in one accelerator batch.
2. Proofs: every safety property a run checks has its theorem. Left are properties no run
   states yet, with the model changes of point 1: the statistics writers, and, for several
   connections, that an event of one never reaches the state of another. Where a model or
   a bound changes, the proof module of that name changes with it.
