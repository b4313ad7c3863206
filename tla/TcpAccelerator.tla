--------------------------- MODULE TcpAccelerator ---------------------------
(***************************************************************************)
(* One relayed connection of the epoll proxy tcp_accelerator.c: two        *)
(* sockets, "client" and "server", a forward buffer per direction, the     *)
(* epoll interest the proxy keeps for each socket, and the batch of events *)
(* the last epoll_wait() returned, which the loop works off one by one     *)
(* while the peers go on sending, reading, closing and resetting.          *)
(*                                                                         *)
(* The sockets and epoll are the kernel's (external): level triggered, HUP *)
(* and ERR reported whatever the interest, HUP once a socket is shut down  *)
(* in both directions.  The n-th byte a peer sends is the number n.  The   *)
(* proxy is one thread, so a handler is one step; peers act between steps. *)
(***************************************************************************)
EXTENDS Integers, Sequences

CONSTANTS
  Size,       \* FORWARD_BUFFER_SIZE
  SendRoom,   \* bytes a socket's send queue takes (SO_SNDBUF)
  ClientBytes, ServerBytes   \* bounds: bytes each peer may send

ASSUME SizeAssumption == Size \in Nat /\ Size >= 1
ASSUME RoomAssumption == SendRoom \in Nat /\ SendRoom >= 1
ASSUME BytesAssumption == ClientBytes \in Nat /\ ServerBytes \in Nat

Endpoint == {"client", "server"}
Other(e) == IF e = "client" THEN "server" ELSE "client"
Bytes(e) == IF e = "client" THEN ClientBytes ELSE ServerBytes

VARIABLES
  conn,          \* "none", "open", "freed", or "undefined" after a use of freed memory
  buf,           \* buf[e]: bytes read from e and not sent on, and their start offset
  read_open,     \* read_open[e]: client_read_open, server_read_open
  write_closed,  \* write_closed[e]: client_write_closed, server_write_closed
  interest,      \* the events epoll watches for each endpoint; none: not registered
  batch,         \* what epoll_wait() returned and the loop has not handled
  sent, rcvq, fin, rst,   \* peer e: bytes sent, bytes unread, closed, reset
  sndq, got               \* bytes in e's send queue, bytes peer e has read

proxy_vars == <<conn, buf, read_open, write_closed, interest, batch>>
net_vars == <<sent, rcvq, fin, rst, sndq, got>>
vars == <<proxy_vars, net_vars>>

-----------------------------------------------------------------------------
(* struct io_buffer.                                                       *)

EmptyBuffer == [start |-> 0, data |-> << >>]
end(b) == b.start + Len(b.data)
buffer_empty(b) == b.data = << >>
SpaceIgnoresStart(b) == Size - Len(b.data)
buffer_space(b) == Size - end(b)
buffer_reset_if_empty(b) == IF buffer_empty(b) THEN EmptyBuffer ELSE b
CompactDrops(b) == EmptyBuffer
buffer_compact(b) == [b EXCEPT !.start = 0]

Least(a, b) == IF a < b THEN a ELSE b
Drop(s, n) == SubSeq(s, n + 1, Len(s))

\* receive_into_buffer(): the buffer afterwards, how much was taken from the
\* socket's queue, and what it returned.
receive_into_buffer(e, b) ==
  LET c == IF buffer_space(b) = 0 /\ b.start > 0 THEN buffer_compact(b) ELSE b
      n == Least(buffer_space(c), Len(rcvq[e]))
  IN  CASE buffer_space(c) = 0 -> [buf |-> c, n |-> 0, result |-> "again"]
        [] buffer_space(c) > 0 /\ rst[e] -> [buf |-> c, n |-> 0, result |-> "error"]
        [] OTHER ->
             [buf |-> [c EXCEPT !.data = @ \o SubSeq(rcvq[e], 1, n)], n |-> n,
              result |-> IF n > 0 THEN "data" ELSE IF fin[e] THEN "eof" ELSE "again"]

\* flush_buffer(): send what e's queue takes.
flush_buffer(e, b) ==
  LET n == Least(Len(b.data), SendRoom - Len(sndq[e]))
  IN  IF ~buffer_empty(b) /\ rst[e]
        THEN [buf |-> b, out |-> << >>, result |-> "error"]
        ELSE [buf |-> buffer_reset_if_empty(
                        [start |-> b.start + n, data |-> Drop(b.data, n)]),
              out |-> SubSeq(b.data, 1, n), result |-> "sent"]

\* update_connection_events(): the interest that goes with buffers b and the
\* open read sides.  RDHUP stays wanted after it was seen.
RdhupOnce(e, b, open) ==
  (IF open[e] /\ (buffer_space(b[e]) > 0 \/ b[e].start > 0) THEN {"IN"} ELSE {})
  \cup (IF buffer_empty(b[Other(e)]) THEN {} ELSE {"OUT"})
  \cup (IF open[e] THEN {"RDHUP"} ELSE {})
OutWhenFull(e, b, open) ==
  (IF open[e] /\ (buffer_space(b[e]) > 0 \/ b[e].start > 0) THEN {"IN"} ELSE {})
  \cup (IF buffer_space(b[Other(e)]) > 0 THEN {} ELSE {"OUT"})
  \cup {"RDHUP"}
update_connection_events(e, b, open) ==
  (IF open[e] /\ (buffer_space(b[e]) > 0 \/ b[e].start > 0) THEN {"IN"} ELSE {})
  \cup (IF buffer_empty(b[Other(e)]) THEN {} ELSE {"OUT"})
  \cup {"RDHUP"}

\* connection_finished()
FinishedWithData(b, open) == \A e \in Endpoint : ~open[e]
FinishedOneSided(b, open) == \E e \in Endpoint : ~open[e] /\ buffer_empty(b[e])
connection_finished(b, open) ==
  \A e \in Endpoint : ~open[e] /\ buffer_empty(b[e])

-----------------------------------------------------------------------------
(* The event loop.                                                         *)

\* accept() and create_connection(): both sockets are watched for IN and RDHUP.
create_connection ==
  /\ conn = "none" /\ conn' = "open"
  /\ interest' = [e \in Endpoint |-> {"IN", "RDHUP"}]
  /\ UNCHANGED <<buf, read_open, write_closed, batch, net_vars>>

\* The remote cannot be reached or a call fails: both sockets are closed.
create_connection_fails ==
  /\ conn = "none" /\ conn' = "freed"
  /\ UNCHANGED <<buf, read_open, write_closed, interest, batch, net_vars>>

\* What epoll reports for e now, if it is registered.
pending(e) ==
  {v \in interest[e] :
     \/ v = "IN" /\ (rcvq[e] # << >> \/ fin[e] \/ rst[e])
     \/ v = "OUT" /\ (Len(sndq[e]) < SendRoom \/ rst[e])
     \/ v = "RDHUP" /\ (fin[e] \/ rst[e])}
  \cup (IF rst[e] THEN {"ERR"} ELSE {})
  \cup (IF rst[e] \/ (fin[e] /\ write_closed[e]) THEN {"HUP"} ELSE {})
ready(e) == IF interest[e] = {} THEN {} ELSE pending(e)

\* epoll_wait() returns the ready endpoints in some order.
epoll_wait ==
  /\ conn # "undefined" /\ batch = << >>
  /\ LET hot == {e \in Endpoint : ready(e) # {}}
         event(e) == [endpoint |-> e, events |-> ready(e)]
     IN  /\ hot # {}
         /\ \/ \E e \in hot : hot = {e} /\ batch' = <<event(e)>>
            \/ \E e \in hot : hot # {e} /\ batch' = <<event(e), event(Other(e))>>
  /\ UNCHANGED <<conn, buf, read_open, write_closed, interest, net_vars>>

\* destroy_connection(): both sockets are taken out of epoll and closed, and the
\* connection is freed.
destroy_connection ==
  conn' = "freed" /\ interest' = [e \in Endpoint |-> {}]

\* process_client_event() and process_server_event() for the next event, and the
\* loop's test for a finished connection.  The handlers differ only in the names
\* of the two directions.
FinBeforeDrain(e, b, open) == ~open[e] /\ ~write_closed[Other(e)]
fin_due(e, b, open) ==
  ~open[e] /\ buffer_empty(b[e]) /\ ~write_closed[Other(e)]

process_event ==
  /\ conn = "open" /\ batch # << >> /\ batch' = Tail(batch)
  /\ LET e    == Head(batch).endpoint
         evs  == Head(batch).events
         o    == Other(e)
         rx   == IF "IN" \in evs THEN receive_into_buffer(e, buf[e])
                 ELSE [buf |-> buf[e], n |-> 0, result |-> "again"]
         tx   == IF "OUT" \in evs /\ rx.result # "error" THEN flush_buffer(e, buf[o])
                 ELSE [buf |-> buf[o], out |-> << >>, result |-> "sent"]
         bad  == rx.result = "error" \/ tx.result = "error" \/ evs \cap {"ERR", "HUP"} # {}
         newb == [buf EXCEPT ![e] = rx.buf, ![o] = tx.buf]
         open == [read_open EXCEPT ![e] = @ /\ rx.result # "eof" /\ (bad \/ "RDHUP" \notin evs)]
     IN  /\ buf' = newb /\ read_open' = open
         /\ rcvq' = [rcvq EXCEPT ![e] = Drop(@, rx.n)]
         /\ sndq' = [sndq EXCEPT ![e] = @ \o tx.out]
         /\ IF bad
              THEN destroy_connection /\ UNCHANGED write_closed
              ELSE /\ write_closed' = [write_closed EXCEPT ![o] = @ \/ fin_due(e, newb, open)]
                   /\ IF connection_finished(newb, open) THEN destroy_connection
                      ELSE /\ UNCHANGED conn
                           /\ interest' = [x \in Endpoint |-> update_connection_events(x, newb, open)]
  /\ UNCHANGED <<sent, fin, rst, got>>

\* The batch still holds an event of the connection that was just freed: the loop
\* reads endpoint->type and endpoint->conn out of freed memory.
process_stale_event ==
  /\ conn = "freed" /\ batch # << >>
  /\ conn' = "undefined" /\ batch' = << >>
  /\ UNCHANGED <<buf, read_open, write_closed, interest, net_vars>>

main_loop ==
  \/ create_connection \/ create_connection_fails \/ epoll_wait
  \/ process_event \/ process_stale_event

-----------------------------------------------------------------------------
(* The peers.                                                              *)

peer_send(e) ==
  /\ conn = "open" /\ ~fin[e] /\ ~rst[e] /\ sent[e] < Bytes(e)
  /\ sent' = [sent EXCEPT ![e] = @ + 1]
  /\ rcvq' = [rcvq EXCEPT ![e] = Append(@, sent[e] + 1)]
  /\ UNCHANGED <<proxy_vars, fin, rst, sndq, got>>
peer_close(e) ==
  /\ conn = "open" /\ ~fin[e] /\ ~rst[e] /\ fin' = [fin EXCEPT ![e] = TRUE]
  /\ UNCHANGED <<proxy_vars, sent, rcvq, rst, sndq, got>>
peer_read(e) ==
  /\ sndq[e] # << >> /\ ~rst[e]
  /\ got' = [got EXCEPT ![e] = Append(@, Head(sndq[e]))]
  /\ sndq' = [sndq EXCEPT ![e] = Tail(@)]
  /\ UNCHANGED <<proxy_vars, sent, rcvq, fin, rst>>
peer_reset(e) ==
  /\ conn = "open" /\ ~rst[e] /\ rst' = [rst EXCEPT ![e] = TRUE]
  /\ UNCHANGED <<proxy_vars, sent, rcvq, fin, sndq, got>>

Init ==
  /\ conn = "none" /\ batch = << >>
  /\ buf = [e \in Endpoint |-> EmptyBuffer]
  /\ read_open = [e \in Endpoint |-> TRUE]
  /\ write_closed = [e \in Endpoint |-> FALSE]
  /\ interest = [e \in Endpoint |-> {}]
  /\ sent = [e \in Endpoint |-> 0] /\ rcvq = [e \in Endpoint |-> << >>]
  /\ fin = [e \in Endpoint |-> FALSE] /\ rst = [e \in Endpoint |-> FALSE]
  /\ sndq = [e \in Endpoint |-> << >>] /\ got = [e \in Endpoint |-> << >>]

Next ==
  \/ main_loop
  \/ \E e \in Endpoint :
       peer_send(e) \/ peer_close(e) \/ peer_read(e) \/ peer_reset(e)

Spec == Init /\ [][Next]_vars

\* The proxy keeps looping and a peer reads what has arrived; no peer has to send,
\* close or reset.
FairSpec ==
  Spec /\ WF_vars(main_loop) /\ \A e \in Endpoint : WF_vars(peer_read(e))

-----------------------------------------------------------------------------
(* Properties.                                                             *)

UpTo(n) == [k \in 1 .. n |-> k]
Event == [endpoint : Endpoint,
          events : SUBSET {"IN", "OUT", "RDHUP", "HUP", "ERR"}]

Buffer == [start : 0 .. Size, data : Seq(Nat)]

TypeOK ==
  /\ conn \in {"none", "open", "freed", "undefined"}
  /\ buf \in [Endpoint -> Buffer] /\ \A e \in Endpoint : end(buf[e]) <= Size
  /\ read_open \in [Endpoint -> BOOLEAN] /\ write_closed \in [Endpoint -> BOOLEAN]
  /\ interest \in [Endpoint -> SUBSET {"IN", "OUT", "RDHUP"}]
  /\ batch \in Seq(Event) /\ Len(batch) <= 2
  /\ sent \in [Endpoint -> Nat] /\ \A e \in Endpoint : sent[e] <= Bytes(e)
  /\ rcvq \in [Endpoint -> Seq(Nat)] /\ got \in [Endpoint -> Seq(Nat)]
  /\ sndq \in [Endpoint -> Seq(Nat)] /\ \A e \in Endpoint : Len(sndq[e]) <= SendRoom
  /\ fin \in [Endpoint -> BOOLEAN] /\ rst \in [Endpoint -> BOOLEAN]

\* Nothing is lost, repeated or reordered between the sockets: what a peer has
\* read, what waits for it, what the forward buffer holds and what is unread are
\* together what the other peer sent (receive_into_buffer(), buffer_compact() and
\* flush_buffer(), tcp_accelerator.c:188-509).
Conservation ==
  \A e \in Endpoint :
    LET o == Other(e)
    IN  got[o] \o sndq[o] \o buf[e].data \o rcvq[e] = UpTo(sent[e])

\* Nothing is left to send to a socket whose write side the proxy has shut down:
\* the FIN goes out after the data it follows (tcp_accelerator.c:892).
NoDataAfterFin == \A e \in Endpoint : write_closed[Other(e)] => buffer_empty(buf[e])

Alive == conn = "open" /\ \A e \in Endpoint : ~rst[e]

\* No stall: whatever a peer that has not closed sent leaves the proxy, with both
\* buffers, both send queues and the interest in EPOLLIN and EPOLLOUT going up and
\* down (update_connection_events()).
NoStall ==
  \A e \in Endpoint :
    (Alive /\ (rcvq[e] # << >> \/ ~buffer_empty(buf[e])))
      ~> (~Alive \/ fin[e] \/ (rcvq[e] = << >> /\ buffer_empty(buf[e])))

\* A peer's close reaches the other peer, as a FIN of its own or because the
\* connection is destroyed.
CloseIsRelayed ==
  \A e \in Endpoint : (Alive /\ fin[e]) ~> (~Alive \/ write_closed[Other(e)])

\* A connection closed by both peers is freed: no connection is leaked.
ClosedIsFreed ==
  (conn = "open" /\ \A e \in Endpoint : fin[e] \/ rst[e]) ~> conn # "open"

\* The proxy generates its own FIN once all the data received from the peer has
\* been forwarded (comment at tcp_accelerator.c:893): when a write side is shut
\* down nothing the other peer sent before its FIN is still unread.
FinMeansComplete ==
  \A e \in Endpoint :
    conn = "open" /\ write_closed[Other(e)] => rcvq[e] = << >>

\* Data is thrown away only behind a reset or a hang-up: unless a peer has reset,
\* what peer e sent is still in its buffer when the connection is destroyed only if
\* e has closed and the proxy has shut down its side of e too, which epoll reports
\* as EPOLLHUP (tcp_accelerator.c:876-880, connection_finished()).
DroppedOnlyAfterHangUp ==
  conn \in {"freed", "undefined"} =>
    \A e \in Endpoint :
      \/ buffer_empty(buf[e])
      \/ fin[e] /\ write_closed[e]
      \/ \E x \in Endpoint : rst[x]

\* A connection ends by its peers: unless one of them has reset, it is destroyed only
\* when both have closed, and a half-closed one goes on relaying.  So before that no
\* event can meet a freed connection (process_client_event(), connection_finished()).
\* A connection whose set-up failed has seen no peer act.
EndedByPeers ==
  conn # "open" =>
    \/ \A e \in Endpoint : sent[e] = 0 /\ ~fin[e]
    \/ \A e \in Endpoint : fin[e]
    \/ \E e \in Endpoint : rst[e]

\* "The endpoint now belongs to a connection" (comment at tcp_accelerator.c:1302,
\* on the test that guards the rest of the loop's body): no event is dispatched to
\* a connection that an earlier event of the batch has freed.
DispatchedAlive == conn # "undefined"

-----------------------------------------------------------------------------
(* The inductive invariant behind the safety properties.                   *)

\* After a connection left the loop epoll watches neither socket and at most the
\* other event of its last batch is left; before it entered nothing happened yet.
Lifetime ==
  /\ conn # "open" => \A e \in Endpoint : interest[e] = {}
  /\ conn = "none" => /\ batch = << >>
                      /\ \A e \in Endpoint : read_open[e] /\ buffer_empty(buf[e])
  /\ conn = "freed" => Len(batch) <= 1

\* A batch names an endpoint once.
BatchOnce == Len(batch) = 2 => batch[1].endpoint # batch[2].endpoint

\* A close, an error or a hang-up that waits in the batch is still there.
HangUpStays ==
  \A k \in 1 .. Len(batch) :
    LET e == batch[k].endpoint
    IN  /\ "RDHUP" \in batch[k].events => fin[e] \/ rst[e]
        /\ batch[k].events \cap {"ERR", "HUP"} # {} => rst[e] \/ (fin[e] /\ write_closed[e])

\* A read side is closed only because its peer has closed or reset.
CloseWasSeen == \A e \in Endpoint : ~read_open[e] => fin[e] \/ rst[e]

\* A closed read side is never read again: neither the interest nor an event that
\* waits in the batch can still make the proxy read from it.
NoReadAfterEof ==
  conn = "open" =>
    \A e \in Endpoint :
      /\ "IN" \in interest[e] => read_open[e]
      /\ \A k \in 1 .. Len(batch) :
           batch[k].endpoint = e /\ "IN" \in batch[k].events => read_open[e]

\* A FIN went out only for a direction that is closed and drained.
FinIsLast ==
  \A e \in Endpoint :
    write_closed[Other(e)] => ~read_open[e] /\ buffer_empty(buf[e])

\* IInv: both directions relay exactly what was sent, and what was closed or freed
\* stays so (receive_into_buffer(), flush_buffer(), destroy_connection()).
IInv ==
  /\ TypeOK /\ Lifetime /\ BatchOnce /\ HangUpStays /\ CloseWasSeen /\ NoReadAfterEof
  /\ FinIsLast /\ Conservation /\ DroppedOnlyAfterHangUp /\ EndedByPeers
=============================================================================
