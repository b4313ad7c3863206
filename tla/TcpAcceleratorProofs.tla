------------------------ MODULE TcpAcceleratorProofs ------------------------
(***************************************************************************)
(* Proofs about TcpAccelerator, for every buffer size, send queue and      *)
(* number of bytes.                                                        *)
(***************************************************************************)
EXTENDS TcpAccelerator, SequenceTheorems, TLAPS

-----------------------------------------------------------------------------
(* Sequences of bytes.                                                     *)

\* Concatenation of byte sequences.
LEMMA Concat ==
  /\ << >> \in Seq(Nat)
  /\ \A s, t \in Seq(Nat) : s \o t \in Seq(Nat) /\ Len(s \o t) = Len(s) + Len(t)
  /\ \A s \in Seq(Nat) : s \o << >> = s /\ Len(s) \in Nat
<1>1. \A s, t \in Seq(Nat) : s \o t \in Seq(Nat) /\ Len(s \o t) = Len(s) + Len(t)
  BY ConcatProperties
<1>2. \A s \in Seq(Nat) : s \o << >> = s
  BY ConcatEmptySeq
<1>3. << >> \in Seq(Nat) /\ \A s \in Seq(Nat) : Len(s) \in Nat
  OBVIOUS
<1> QED BY <1>1, <1>2, <1>3

\* Concatenation is associative.
LEMMA Associative ==
  \A s, t, u \in Seq(Nat) : (s \o t) \o u = s \o (t \o u)
<1> DEFINE Byte == Nat
<1> HIDE DEF Byte
<1>1. \A s, t, u \in Seq(Byte) : (s \o t) \o u = s \o (t \o u)
  BY ConcatAssociative
<1> QED BY <1>1, Zenon DEF Byte

\* Cutting a byte sequence in two and putting it together again.
LEMMA Cut ==
  \A s \in Seq(Nat) : \A n \in 0 .. Len(s) :
    /\ SubSeq(s, 1, n) \in Seq(Nat) /\ Len(SubSeq(s, 1, n)) = n
    /\ Drop(s, n) \in Seq(Nat) /\ Len(Drop(s, n)) = Len(s) - n
    /\ SubSeq(s, 1, n) \o Drop(s, n) = s
<1> SUFFICES ASSUME NEW s \in Seq(Nat), NEW n \in 0 .. Len(s)
             PROVE  /\ SubSeq(s, 1, n) \in Seq(Nat) /\ Len(SubSeq(s, 1, n)) = n
                    /\ Drop(s, n) \in Seq(Nat) /\ Len(Drop(s, n)) = Len(s) - n
                    /\ SubSeq(s, 1, n) \o Drop(s, n) = s
  OBVIOUS
<1>1. SubSeq(s, 1, n) \in Seq(Nat) /\ Len(SubSeq(s, 1, n)) = n
  OBVIOUS
<1>2. SubSeq(s, n + 1, Len(s)) \in Seq(Nat) /\ Len(SubSeq(s, n + 1, Len(s))) = Len(s) - n
  OBVIOUS
<1>3. SubSeq(s, 1, n) \o SubSeq(s, n + 1, Len(s)) = SubSeq(s, 1, Len(s))
  <2>1. /\ Len(s) \in Nat /\ 1 \in 1 .. Len(s) + 1
        /\ n \in 1 - 1 .. Len(s) /\ Len(s) \in n .. Len(s)
    OBVIOUS
  <2> QED BY <2>1, ConcatAdjacentSubSeq, Zenon
<1>4. SubSeq(s, 1, Len(s)) = s
  BY SubSeqFull
<1> QED BY <1>1, <1>2, <1>3, <1>4 DEF Drop

\* Cutting off nothing.
LEMMA CutNothing ==
  \A s \in Seq(Nat) : SubSeq(s, 1, 0) = << >> /\ Drop(s, 0) = s
BY SubSeqFull, SubSeqEmpty DEF Drop

\* Moving the head of the second sequence to the end of the first.
LEMMA MoveHead ==
  \A s, t \in Seq(Nat) : t # << >> =>
    /\ Append(s, Head(t)) \in Seq(Nat) /\ Tail(t) \in Seq(Nat)
    /\ Len(Tail(t)) = Len(t) - 1
    /\ Append(s, Head(t)) \o Tail(t) = s \o t
<1> SUFFICES ASSUME NEW s \in Seq(Nat), NEW t \in Seq(Nat), t # << >>
             PROVE  /\ Append(s, Head(t)) \in Seq(Nat) /\ Tail(t) \in Seq(Nat)
                    /\ Len(Tail(t)) = Len(t) - 1
                    /\ Append(s, Head(t)) \o Tail(t) = s \o t
  OBVIOUS
<1>1. /\ Head(t) \in Nat /\ Tail(t) \in Seq(Nat) /\ Len(Tail(t)) = Len(t) - 1
      /\ Append(s, Head(t)) \in Seq(Nat)
  OBVIOUS
<1>2. Append(s, Head(t)) = s \o <<Head(t)>>
  BY <1>1, AppendIsConcat
<1>3. <<Head(t)>> \o Tail(t) = t
  OBVIOUS
<1>4. <<Head(t)>> \in Seq(Nat)
  BY <1>1
<1>5. (s \o <<Head(t)>>) \o Tail(t) = s \o (<<Head(t)>> \o Tail(t))
  <2> DEFINE h == <<Head(t)>>
             r == Tail(t)
  <2>1. h \in Seq(Nat) /\ r \in Seq(Nat)
    BY <1>1, <1>4
  <2> HIDE DEF h, r
  <2>2. (s \o h) \o r = s \o (h \o r)
    BY <2>1, Associative, Zenon
  <2> QED BY <2>2 DEF h, r
<1>6. Append(s, Head(t)) \o Tail(t) = s \o t
  <2> DEFINE h == <<Head(t)>>
             a == Append(s, Head(t))
             r == Tail(t)
  <2>1. a = s \o h /\ h \o r = t /\ (s \o h) \o r = s \o (h \o r)
    BY <1>2, <1>3, <1>5
  <2> HIDE DEF h, a, r
  <2>2. a \o r = s \o t
    BY <2>1
  <2> QED BY <2>2 DEF a, r
<1> QED BY <1>1, <1>6

\* The next byte a peer sends.
LEMMA NextByte ==
  \A n \in Nat : UpTo(n) \in Seq(Nat) /\ UpTo(n + 1) = Append(UpTo(n), n + 1)
BY DEF UpTo

\* The first and the remaining elements of a sequence of one or two.
LEMMA OneOrTwo ==
  ASSUME NEW S, NEW s \in Seq(S), s # << >>, Len(s) <= 2
  PROVE  /\ Head(s) \in S /\ Tail(s) \in Seq(S)
         /\ Len(Tail(s)) = Len(s) - 1 /\ Len(s) \in {1, 2} /\ Len(Tail(s)) \in {0, 1}
         /\ Len(s) = 2 => Tail(s)[1] = s[2]
         /\ Head(s) = s[1]
<1>1. Len(s) \in Nat \ {0}
  BY EmptySeq, Zenon
<1>2. Head(s) = s[1]
  BY <1>1
<1>3. /\ Head(s) \in S /\ Tail(s) \in Seq(S) /\ Len(Tail(s)) = Len(s) - 1
      /\ \A i \in 1 .. Len(Tail(s)) : Tail(s)[i] = s[i + 1]
  BY HeadTailProperties, Zenon
<1>4. ASSUME NEW m \in Nat \ {0}, m <= 2
      PROVE  m \in {1, 2} /\ m - 1 \in {0, 1} /\ (m = 2 => 1 \in 1 .. m - 1) /\ 1 + 1 = 2
  BY <1>4
<1>5. Len(s) \in {1, 2} /\ Len(s) - 1 \in {0, 1} /\ (Len(s) = 2 => 1 \in 1 .. Len(s) - 1) /\ 1 + 1 = 2
  BY <1>1, <1>4, Zenon
<1> QED BY <1>2, <1>3, <1>5, Zenon

-----------------------------------------------------------------------------
(* The helpers of the event handlers.                                      *)

\* There are two endpoints.
LEMMA Endpoints ==
  /\ Endpoint = {"client", "server"}
  /\ \A e \in Endpoint : /\ Other(e) \in Endpoint /\ Other(e) # e
                        /\ Other(Other(e)) = e
                        /\ \A x \in Endpoint : x = e \/ x = Other(e)
BY DEF Endpoint, Other

\* The smaller of two numbers.
LEMMA LeastFacts ==
  \A a, b \in Nat : Least(a, b) \in 0 .. a /\ Least(a, b) \in 0 .. b
BY DEF Least

\* receive_into_buffer() appends to the buffer exactly the bytes it takes from the
\* socket, whether or not it compacted first, and stays within the buffer.
LEMMA ReceiveFacts ==
  ASSUME TypeOK, NEW e \in Endpoint, NEW b \in Buffer, end(b) <= Size
  PROVE  LET r == receive_into_buffer(e, b)
         IN  /\ r.buf \in Buffer /\ end(r.buf) <= Size
             /\ r.n \in 0 .. Len(rcvq[e])
             /\ r.buf.data = b.data \o SubSeq(rcvq[e], 1, r.n)
             /\ r.result \in {"again", "error", "data", "eof"}
             /\ r.result = "error" => rst[e]
             /\ r.result = "eof" => fin[e]
<1> DEFINE c == IF buffer_space(b) = 0 /\ b.start > 0 THEN buffer_compact(b) ELSE b
           n == Least(buffer_space(c), Len(rcvq[e]))
           r == receive_into_buffer(e, b)
           full == [buf |-> c, n |-> 0, result |-> "again"]
           broken == [buf |-> c, n |-> 0, result |-> "error"]
           some == [buf |-> [c EXCEPT !.data = @ \o SubSeq(rcvq[e], 1, n)], n |-> n,
                    result |-> IF n > 0 THEN "data" ELSE IF fin[e] THEN "eof" ELSE "again"]
<1>1. c \in Buffer /\ end(c) <= Size /\ c.data = b.data
  BY SizeAssumption, Concat DEF Buffer, end, buffer_compact
<1>2. rcvq[e] \in Seq(Nat) /\ Len(rcvq[e]) \in Nat
  BY Concat DEF TypeOK
<1>3. buffer_space(c) \in Nat /\ buffer_space(c) = Size - end(c)
      /\ end(c) = c.start + Len(c.data) /\ c.start \in Nat /\ Len(c.data) \in Nat
  BY <1>1, SizeAssumption, Concat DEF Buffer, end, buffer_space
<1>4. r = full \/ (rst[e] /\ r = broken) \/ (buffer_space(c) > 0 /\ r = some)
  <2>1. r = CASE buffer_space(c) = 0 -> full
              [] buffer_space(c) > 0 /\ rst[e] -> broken
              [] OTHER -> some
    BY DEF receive_into_buffer
  <2> HIDE DEF r, full, broken, some, c
  <2> QED BY <2>1, <1>3
<1>5. CASE r = full \/ (rst[e] /\ r = broken)
  <2>1. /\ r.buf = c /\ r.n = 0 /\ r.result \in {"again", "error"}
        /\ r.result = "error" => rst[e]
    <3> HIDE DEF r, c
    <3> QED BY <1>5
  <2>2. b.data \o SubSeq(rcvq[e], 1, 0) = b.data
    BY <1>2, CutNothing, Concat DEF Buffer
  <2> HIDE DEF r, c
  <2> QED BY <2>1, <2>2, <1>1, <1>2 DEF r
<1>6. CASE buffer_space(c) > 0 /\ r = some
  <2>1. n \in 0 .. Len(rcvq[e]) /\ n <= buffer_space(c)
    <3> HIDE DEF c
    <3>1. n \in 0 .. buffer_space(c) /\ n \in 0 .. Len(rcvq[e])
      BY <1>2, <1>3, LeastFacts, Zenon
    <3> QED BY <3>1, <1>3
  <2> DEFINE taken == SubSeq(rcvq[e], 1, n)
  <2>2. taken \in Seq(Nat) /\ Len(taken) = n
    BY <2>1, <1>2, Cut
  <2>3. c.data \o taken \in Seq(Nat) /\ Len(c.data \o taken) = Len(c.data) + n
    BY <2>2, <1>1, Concat DEF Buffer
  <2>4. r.n = n /\ r.result \in {"again", "data", "eof"} /\ (r.result = "eof" => fin[e])
        /\ r.buf = [c EXCEPT !.data = c.data \o taken]
    <3> HIDE DEF r, c, n
    <3> QED BY <1>6
  <2> HIDE DEF r, c, n, taken
  <2>5. r.buf \in Buffer /\ r.buf.data = c.data \o taken /\ r.buf.start = c.start
    BY <2>3, <2>4, <1>1 DEF Buffer
  <2>6. end(r.buf) <= Size
    BY <2>1, <2>3, <2>5, <1>2, <1>3, SizeAssumption DEF end
  <2>7. r.buf.data = b.data \o SubSeq(rcvq[e], 1, r.n)
    BY <2>4, <2>5, <1>1 DEF taken
  <2> QED BY <2>1, <2>4, <2>5, <2>6, <2>7 DEF r
<1> HIDE DEF c, r
<1> QED BY <1>4, <1>5, <1>6

\* flush_buffer() moves the oldest bytes of the buffer to the send queue, as many
\* as it takes, and nothing when the buffer is empty.
LEMMA FlushFacts ==
  ASSUME TypeOK, NEW e \in Endpoint, NEW b \in Buffer, end(b) <= Size
  PROVE  LET r == flush_buffer(e, b)
         IN  /\ r.buf \in Buffer /\ end(r.buf) <= Size
             /\ r.out \in Seq(Nat) /\ Len(sndq[e]) + Len(r.out) <= SendRoom
             /\ b.data = r.out \o r.buf.data
             /\ buffer_empty(b) => buffer_empty(r.buf)
             /\ r.result \in {"error", "sent"} /\ (r.result = "error" => rst[e])
<1> DEFINE n == Least(Len(b.data), SendRoom - Len(sndq[e]))
           r == flush_buffer(e, b)
           k == [start |-> b.start + n, data |-> Drop(b.data, n)]
           broken == [buf |-> b, out |-> << >>, result |-> "error"]
           done == [buf |-> buffer_reset_if_empty(k), out |-> SubSeq(b.data, 1, n),
                    result |-> "sent"]
<1>1. /\ b.data \in Seq(Nat) /\ Len(b.data) \in Nat
      /\ b.start \in Nat /\ end(b) = b.start + Len(b.data)
  BY Concat DEF Buffer, end
<1>2. SendRoom - Len(sndq[e]) \in Nat /\ Len(sndq[e]) \in Nat
  BY RoomAssumption, Concat DEF TypeOK
<1>3. n \in 0 .. Len(b.data) /\ n <= SendRoom - Len(sndq[e])
  <2>1. n \in 0 .. Len(b.data) /\ n \in 0 .. SendRoom - Len(sndq[e])
    BY <1>1, <1>2, LeastFacts, Zenon
  <2> QED BY <2>1, <1>2
<1>4. (rst[e] /\ r = broken) \/ r = done
  <2> HIDE DEF n, broken, done
  <2> QED BY DEF flush_buffer, n, k, broken, done, r
<1>5. CASE rst[e] /\ r = broken
  <2>1. r.buf = b /\ r.out = << >> /\ r.result = "error"
    <3> HIDE DEF r
    <3> QED BY <1>5
  <2>2. << >> \o b.data = b.data /\ Len(<< >>) = 0 /\ << >> \in Seq(Nat)
    BY <1>1, ConcatEmptySeq, Concat
  <2> HIDE DEF r
  <2>3. Len(sndq[e]) + 0 <= SendRoom
    BY <1>2, RoomAssumption
  <2>4. rst[e] /\ (buffer_empty(b) => buffer_empty(r.buf))
    BY <1>5, <2>1
  <2> QED BY <2>1, <2>2, <2>3, <2>4 DEF r
<1>6. CASE r = done
  <2> DEFINE out == SubSeq(b.data, 1, n)
             rest == Drop(b.data, n)
  <2>1. /\ out \in Seq(Nat) /\ Len(out) = n /\ rest \in Seq(Nat)
        /\ Len(rest) = Len(b.data) - n /\ out \o rest = b.data
    BY <1>1, <1>3, Cut
  <2>2. /\ r.out = out /\ r.result = "sent"
        /\ r.buf = IF rest = << >> THEN EmptyBuffer
                   ELSE [start |-> b.start + n, data |-> rest]
    <3>1. done.out = out /\ done.result = "sent" /\ done.buf = buffer_reset_if_empty(k)
      OBVIOUS
    <3>2. k.data = rest /\ k = [start |-> b.start + n, data |-> rest]
      OBVIOUS
    <3> HIDE DEF r, done, k, out, rest, n
    <3> QED BY <1>6, <3>1, <3>2 DEF buffer_reset_if_empty, buffer_empty
  <2> HIDE DEF r, n, out, rest
  <2>3. r.buf.data = rest /\ r.buf \in Buffer /\ end(r.buf) <= Size
    <3>1. CASE rest = << >>
      <4>1. r.buf.data = << >> /\ r.buf.start = 0 /\ r.buf \in Buffer
        BY <2>2, <3>1, SizeAssumption, Concat DEF EmptyBuffer, Buffer
      <4> QED BY <3>1, <4>1, SizeAssumption DEF end
    <3>2. CASE rest # << >>
      <4>1. r.buf = [start |-> b.start + n, data |-> rest]
        BY <2>2, <3>2
      <4>2. b.start + n \in 0 .. Size /\ b.start + n + Len(rest) <= Size
        <5> DEFINE bs == b.start
                   bl == Len(b.data)
                   rl == Len(rest)
        <5>1. bs \in Nat /\ bl \in Nat /\ bs + bl <= Size
          BY <1>1
        <5>2. n \in 0 .. bl /\ rl = bl - n
          BY <1>3, <2>1
        <5> HIDE DEF bs, bl, rl
        <5>3. bs + n \in 0 .. Size /\ bs + n + rl <= Size
          BY <5>1, <5>2, SizeAssumption
        <5> QED BY <5>3 DEF bs, rl
      <4>3. r.buf.start = b.start + n /\ r.buf.data = rest
        BY <4>1
      <4>4. r.buf \in Buffer
        BY <4>1, <4>2, <2>1 DEF Buffer
      <4> QED BY <4>2, <4>3, <4>4 DEF end
    <3> QED BY <3>1, <3>2
  <2>4. Len(sndq[e]) + Len(r.out) <= SendRoom
    <3>1. n \in Nat /\ n <= SendRoom - Len(sndq[e]) /\ Len(r.out) = n
      BY <1>1, <1>3, <2>1, <2>2
    <3> QED BY <3>1, <1>2, RoomAssumption
  <2>5. buffer_empty(b) => buffer_empty(r.buf)
    BY <1>1, <1>3, <2>1, <2>3 DEF buffer_empty
  <2> QED BY <2>1, <2>2, <2>3, <2>4, <2>5 DEF r
<1> HIDE DEF r, broken, done
<1> QED BY <1>4, <1>5, <1>6

-----------------------------------------------------------------------------
(* The inductive invariant.                                                *)

\* process_event keeps the inductive invariant: whatever the event, the bytes move
\* from one station of their direction to the next.
LEMMA ProcessStep == IInv /\ process_event => IInv'
<1> SUFFICES ASSUME IInv, process_event PROVE IInv'
  OBVIOUS
<1> DEFINE e    == Head(batch).endpoint
           evs  == Head(batch).events
           o    == Other(e)
           rx   == IF "IN" \in evs THEN receive_into_buffer(e, buf[e])
                   ELSE [buf |-> buf[e], n |-> 0, result |-> "again"]
           tx   == IF "OUT" \in evs /\ rx.result # "error" THEN flush_buffer(e, buf[o])
                   ELSE [buf |-> buf[o], out |-> << >>, result |-> "sent"]
           bad  == rx.result = "error" \/ tx.result = "error" \/ evs \cap {"ERR", "HUP"} # {}
           newb == [buf EXCEPT ![e] = rx.buf, ![o] = tx.buf]
           open == [read_open EXCEPT ![e] = @ /\ rx.result # "eof" /\ (bad \/ "RDHUP" \notin evs)]
<1>1. /\ conn = "open" /\ batch # << >> /\ batch' = Tail(batch)
      /\ buf' = newb /\ read_open' = open
      /\ rcvq' = [rcvq EXCEPT ![e] = Drop(@, rx.n)]
      /\ sndq' = [sndq EXCEPT ![e] = @ \o tx.out]
      /\ IF bad
           THEN destroy_connection /\ UNCHANGED write_closed
           ELSE /\ write_closed' = [write_closed EXCEPT ![o] = @ \/ fin_due(e, newb, open)]
                /\ IF connection_finished(newb, open) THEN destroy_connection
                   ELSE /\ UNCHANGED conn
                        /\ interest' = [x \in Endpoint |-> update_connection_events(x, newb, open)]
      /\ UNCHANGED <<sent, fin, rst, got>>
  BY DEF process_event
<1>2. TypeOK
  BY DEF IInv
<1>3. /\ Head(batch) \in Event /\ Tail(batch) \in Seq(Event)
      /\ Len(Tail(batch)) = Len(batch) - 1 /\ Len(batch) \in {1, 2}
      /\ Len(Tail(batch)) \in {0, 1}
      /\ Len(batch) = 2 => Tail(batch)[1] = batch[2]
      /\ Head(batch) = batch[1]
  <2>1. batch \in Seq(Event) /\ Len(batch) <= 2 /\ batch # << >>
    BY <1>1, <1>2 DEF TypeOK
  <2> HIDE DEF Event
  <2> QED BY <2>1, OneOrTwo, Zenon
<1>4. /\ e \in Endpoint /\ o \in Endpoint /\ o # e /\ Other(o) = e
      /\ \A x \in Endpoint : x = e \/ x = o
  BY <1>3, Endpoints DEF Event
<1>5. buf[e] \in Buffer /\ end(buf[e]) <= Size /\ buf[o] \in Buffer /\ end(buf[o]) <= Size
  BY <1>2, <1>4 DEF TypeOK
<1>6. /\ rcvq[e] \in Seq(Nat) /\ sndq[e] \in Seq(Nat) /\ sndq[o] \in Seq(Nat)
      /\ got[e] \in Seq(Nat) /\ got[o] \in Seq(Nat) /\ rcvq[o] \in Seq(Nat)
      /\ Len(sndq[e]) <= SendRoom
  BY <1>2, <1>4 DEF TypeOK
<1> HIDE DEF e, o
<1>7. /\ rx.buf \in Buffer /\ end(rx.buf) <= Size /\ rx.n \in 0 .. Len(rcvq[e])
      /\ rx.buf.data = buf[e].data \o SubSeq(rcvq[e], 1, rx.n)
      /\ "IN" \notin evs => rx.buf = buf[e]
      /\ rx.result \in {"again", "error", "data", "eof"}
      /\ (rx.result = "error" => rst[e]) /\ (rx.result = "eof" => fin[e])
  <2>1. CASE "IN" \in evs
    <3>1. rx = receive_into_buffer(e, buf[e])
      BY <2>1
    <3> HIDE DEF rx
    <3> QED BY <2>1, <3>1, <1>2, <1>4, <1>5, ReceiveFacts
  <2>2. CASE "IN" \notin evs
    <3>1. rx.buf = buf[e] /\ rx.n = 0 /\ rx.result = "again"
      BY <2>2
    <3>2. buf[e].data \o SubSeq(rcvq[e], 1, 0) = buf[e].data
      BY <1>5, <1>6, CutNothing, Concat DEF Buffer
    <3>3. Len(rcvq[e]) \in Nat
      BY <1>6, Concat
    <3> HIDE DEF rx
    <3> QED BY <3>1, <3>2, <3>3, <1>5
  <2> QED BY <2>1, <2>2
<1> HIDE DEF rx
<1>8. /\ tx.buf \in Buffer /\ end(tx.buf) <= Size
      /\ tx.out \in Seq(Nat) /\ Len(sndq[e]) + Len(tx.out) <= SendRoom
      /\ buf[o].data = tx.out \o tx.buf.data
      /\ buffer_empty(buf[o]) => buffer_empty(tx.buf)
      /\ tx.result = "error" => rst[e]
  <2>1. CASE "OUT" \in evs /\ rx.result # "error"
    <3>1. tx = flush_buffer(e, buf[o])
      BY <2>1
    <3> HIDE DEF tx
    <3> QED BY <3>1, <1>2, <1>4, <1>5, FlushFacts
  <2>2. CASE ~("OUT" \in evs /\ rx.result # "error")
    <3>1. tx.buf = buf[o] /\ tx.out = << >> /\ tx.result # "error"
      BY <2>2
    <3>2. /\ << >> \o buf[o].data = buf[o].data /\ << >> \in Seq(Nat)
          /\ Len(sndq[e]) + Len(<< >>) <= SendRoom
      BY <1>5, <1>6, ConcatEmptySeq, Concat DEF Buffer
    <3> HIDE DEF tx
    <3> QED BY <3>1, <3>2, <1>5
  <2> QED BY <2>1, <2>2
<1> HIDE DEF tx, evs
<1>9. /\ newb \in [Endpoint -> Buffer] /\ newb[e] = rx.buf /\ newb[o] = tx.buf
      /\ open \in [Endpoint -> BOOLEAN]
      /\ open[o] = read_open[o] /\ (open[e] => read_open[e])
      /\ ~open[e] => ~read_open[e] \/ rx.result = "eof" \/ "RDHUP" \in evs
  BY <1>2, <1>4, <1>7, <1>8 DEF TypeOK
<1> HIDE DEF newb, open, bad
<1>10. /\ interest' \in [Endpoint -> SUBSET {"IN", "OUT", "RDHUP"}]
       /\ conn' \in {"open", "freed"}
       /\ conn' = "freed" => \A x \in Endpoint : interest'[x] = {}
       /\ conn' = "open" => \A x \in Endpoint : "IN" \in interest'[x] => open[x]
       /\ write_closed' \in [Endpoint -> BOOLEAN] /\ write_closed'[e] = write_closed[e]
       /\ write_closed'[o] => write_closed[o] \/ (~open[e] /\ buffer_empty(newb[e]))
  <2>1. CASE destroy_connection /\ UNCHANGED write_closed
    BY <2>1, <1>2 DEF destroy_connection, TypeOK
  <2>2. CASE ~bad
    <3>1. write_closed' = [write_closed EXCEPT ![o] = @ \/ fin_due(e, newb, open)]
      BY <1>1, <2>2
    <3>2. /\ write_closed' \in [Endpoint -> BOOLEAN] /\ write_closed'[e] = write_closed[e]
          /\ write_closed'[o] => write_closed[o] \/ (~open[e] /\ buffer_empty(newb[e]))
      BY <3>1, <1>2, <1>4 DEF TypeOK, fin_due
    <3>3. CASE destroy_connection
      BY <3>2, <3>3 DEF destroy_connection
    <3>4. CASE UNCHANGED conn /\ interest' =
                 [x \in Endpoint |-> update_connection_events(x, newb, open)]
      BY <3>2, <3>4, <1>1 DEF update_connection_events
    <3> QED BY <1>1, <2>2, <3>3, <3>4
  <2> QED BY <1>1, <2>1, <2>2
<1>11. TypeOK'
  <2>1. \A x \in Endpoint : end(newb[x]) <= Size
    BY <1>4, <1>7, <1>8, <1>9
  <2>2. rcvq' \in [Endpoint -> Seq(Nat)]
    BY <1>1, <1>2, <1>6, <1>7, Cut DEF TypeOK
  <2>3. sndq' \in [Endpoint -> Seq(Nat)] /\ \A x \in Endpoint : Len(sndq'[x]) <= SendRoom
    <3>1. sndq[e] \o tx.out \in Seq(Nat) /\ Len(sndq[e] \o tx.out) <= SendRoom
      BY <1>6, <1>8, Concat
    <3> QED BY <3>1, <1>1, <1>2 DEF TypeOK
  <2>4. batch' \in Seq(Event) /\ Len(batch') <= 2
    <3>1. \A n \in {0, 1} : n <= 2
      OBVIOUS
    <3> QED BY <3>1, <1>1, <1>3, Zenon
  <2>5. buf' \in [Endpoint -> Buffer] /\ \A x \in Endpoint : end(buf'[x]) <= Size
    BY <2>1, <1>1, <1>9, Zenon
  <2>6. read_open' \in [Endpoint -> BOOLEAN] /\ write_closed' \in [Endpoint -> BOOLEAN]
    BY <1>1, <1>9, <1>10, Zenon
  <2>7. /\ conn' \in {"none", "open", "freed", "undefined"}
        /\ interest' \in [Endpoint -> SUBSET {"IN", "OUT", "RDHUP"}]
    BY <1>10, Zenon
  <2>8. /\ sent' \in [Endpoint -> Nat] /\ \A x \in Endpoint : sent'[x] <= Bytes(x)
        /\ got' \in [Endpoint -> Seq(Nat)]
        /\ fin' \in [Endpoint -> BOOLEAN] /\ rst' \in [Endpoint -> BOOLEAN]
    <3>1. UNCHANGED <<sent, fin, rst, got>>
      BY <1>1
    <3> QED BY <3>1, <1>2 DEF TypeOK
  <2> QED BY <2>2, <2>3, <2>4, <2>5, <2>6, <2>7, <2>8, Zenon DEF TypeOK
<1>12. Lifetime'
  <2>1. conn' # "open" => \A x \in Endpoint : interest'[x] = {}
    BY <1>10
  <2>2. conn' # "none"
    BY <1>10
  <2>3. Len(batch') <= 1
    <3>1. \A n \in {0, 1} : n <= 1
      OBVIOUS
    <3> QED BY <3>1, <1>1, <1>3, Zenon
  <2> QED BY <2>1, <2>2, <2>3, Zenon DEF Lifetime
<1>13. BatchOnce'
  <2>1. \A n \in {0, 1} : n # 2
    OBVIOUS
  <2>2. Len(batch') # 2
    BY <2>1, <1>1, <1>3, Zenon
  <2> QED BY <2>2 DEF BatchOnce
<1>14. NoReadAfterEof'
  <2> SUFFICES ASSUME conn' = "open", NEW x \in Endpoint
               PROVE  /\ "IN" \in interest'[x] => open[x]
                      /\ \A k \in 1 .. Len(Tail(batch)) :
                           Tail(batch)[k].endpoint = x /\ "IN" \in Tail(batch)[k].events
                             => open[x]
    BY <1>1 DEF NoReadAfterEof
  <2>1. "IN" \in interest'[x] => open[x]
    BY <1>10, Zenon
  <2>2. ASSUME NEW k \in 1 .. Len(Tail(batch)), Tail(batch)[k].endpoint = x,
               "IN" \in Tail(batch)[k].events
        PROVE  open[x]
    <3>1. Len(batch) = 2 /\ k = 1 /\ Tail(batch)[k] = batch[2]
      BY <1>3
    <3>2. x = o
      BY <3>1, <2>2, <1>3, <1>4 DEF IInv, BatchOnce, e
    <3>3. read_open[x]
      BY <3>1, <2>2, <1>1 DEF IInv, NoReadAfterEof
    <3> QED BY <3>2, <3>3, <1>9
  <2> QED BY <2>1, <2>2
<1>15. FinIsLast'
  <2>1. write_closed[o] => ~read_open[e] /\ buffer_empty(buf[e])
    BY <1>4 DEF IInv, FinIsLast, o
  <2>2. write_closed[e] => ~read_open[o] /\ buffer_empty(buf[o])
    BY <1>4 DEF IInv, FinIsLast
  <2>3. "IN" \in evs => read_open[e]
    <3>1. 1 \in 1 .. Len(batch) /\ batch[1].endpoint = e /\ batch[1].events = evs
      BY <1>3 DEF e, evs
    <3> QED BY <3>1, <1>1, <1>4 DEF IInv, NoReadAfterEof
  <2>4. write_closed'[o] => ~open[e] /\ buffer_empty(newb[e])
    BY <2>1, <2>3, <1>7, <1>9, <1>10, Zenon
  <2>5. write_closed'[e] => ~open[o] /\ buffer_empty(newb[o])
    BY <2>2, <1>8, <1>9, <1>10, Zenon
  <2>6. ASSUME NEW x \in Endpoint, write_closed'[Other(x)]
        PROVE  ~open[x] /\ buffer_empty(newb[x])
    <3>1. CASE x = e
      BY <3>1, <2>4, <2>6 DEF o
    <3>2. CASE x = o
      BY <3>2, <2>5, <2>6, <1>4
    <3> QED BY <3>1, <3>2, <1>4
  <2> QED BY <2>6, <1>1 DEF FinIsLast, buffer_empty
<1>16. Conservation'
  <2>1. got[o] \o sndq[o] \o buf[e].data \o rcvq[e] = UpTo(sent[e])
    BY <1>4 DEF IInv, Conservation, o
  <2>2. got[e] \o sndq[e] \o buf[o].data \o rcvq[o] = UpTo(sent[o])
    BY <1>4 DEF IInv, Conservation
  <2>3. /\ rcvq'[e] = Drop(rcvq[e], rx.n) /\ rcvq'[o] = rcvq[o]
        /\ sndq'[e] = sndq[e] \o tx.out /\ sndq'[o] = sndq[o]
        /\ buf'[e] = rx.buf /\ buf'[o] = tx.buf /\ got' = got /\ sent' = sent
    BY <1>1, <1>2, <1>4, <1>9 DEF TypeOK
  <2>4. got[o] \o sndq[o] \o rx.buf.data \o Drop(rcvq[e], rx.n) = UpTo(sent[e])
    <3> DEFINE p == got[o] \o sndq[o]
               d == buf[e].data
               x == SubSeq(rcvq[e], 1, rx.n)
               y == Drop(rcvq[e], rx.n)
    <3>1. /\ p \in Seq(Nat) /\ d \in Seq(Nat) /\ x \in Seq(Nat) /\ y \in Seq(Nat)
          /\ x \o y = rcvq[e]
      BY <1>5, <1>6, <1>7, Concat, Cut DEF Buffer
    <3>2. rx.buf.data = d \o x
      BY <1>7
    <3>3. p \o d \o rcvq[e] = UpTo(sent[e])
      BY <2>1
    <3> HIDE DEF p, d, x, y
    <3>4. p \o d \in Seq(Nat)
      BY <3>1, Concat
    <3>5. (p \o d) \o x = p \o (d \o x)
      BY ONLY <3>1, Associative, Zenon
    <3>6. ((p \o d) \o x) \o y = (p \o d) \o (x \o y)
      BY ONLY <3>1, <3>4, Associative, Zenon
    <3>7. p \o rx.buf.data \o y = UpTo(sent[e])
      BY <3>1, <3>2, <3>3, <3>5, <3>6
    <3> QED BY <3>7 DEF p, y
  <2>5. got[e] \o (sndq[e] \o tx.out) \o tx.buf.data \o rcvq[o] = UpTo(sent[o])
    <3> DEFINE g == got[e]
               q == sndq[e]
               x == tx.out
               y == tx.buf.data
    <3>1. /\ g \in Seq(Nat) /\ q \in Seq(Nat) /\ x \in Seq(Nat) /\ y \in Seq(Nat)
          /\ x \o y = buf[o].data
      BY <1>6, <1>8 DEF Buffer
    <3>2. g \o q \o (x \o y) \o rcvq[o] = UpTo(sent[o])
      BY <2>2, <1>8
    <3> HIDE DEF g, q, x, y
    <3>3. g \o q \in Seq(Nat)
      BY <3>1, Concat
    <3>4. (g \o q) \o x = g \o (q \o x)
      BY ONLY <3>1, Associative, Zenon
    <3>5. ((g \o q) \o x) \o y = (g \o q) \o (x \o y)
      BY ONLY <3>1, <3>3, Associative, Zenon
    <3>6. g \o (q \o x) \o y \o rcvq[o] = UpTo(sent[o])
      BY <3>2, <3>4, <3>5
    <3> QED BY <3>6 DEF g, q, x, y
  <2>6. ASSUME NEW x \in Endpoint
        PROVE  got'[Other(x)] \o sndq'[Other(x)] \o buf'[x].data \o rcvq'[x]
                 = UpTo(sent'[x])
    <3>1. CASE x = e
      BY <3>1, <2>3, <2>4 DEF o
    <3>2. CASE x = o
      BY <3>2, <2>3, <2>5, <1>4
    <3> QED BY <3>1, <3>2, <1>4
  <2> QED BY <2>6 DEF Conservation, UpTo
<1>17. \A x \in Endpoint : write_closed[x] => write_closed'[x]
  <2>1. CASE UNCHANGED write_closed
    BY <2>1
  <2>2. CASE write_closed' = [write_closed EXCEPT ![o] = @ \/ fin_due(e, newb, open)]
    BY <2>2, <1>2 DEF TypeOK
  <2> QED BY <1>1, <2>1, <2>2
<1>18. ASSUME NEW k \in 1 .. Len(batch)
       PROVE  LET x == batch[k].endpoint
              IN  /\ "RDHUP" \in batch[k].events => fin[x] \/ rst[x]
                  /\ batch[k].events \cap {"ERR", "HUP"} # {} => rst[x] \/ (fin[x] /\ write_closed[x])
  BY <1>18 DEF IInv, HangUpStays
<1>19. HangUpStays'
  <2>1. ASSUME NEW k \in 1 .. Len(batch')
        PROVE  LET x == batch'[k].endpoint
               IN  /\ "RDHUP" \in batch'[k].events => fin'[x] \/ rst'[x]
                   /\ batch'[k].events \cap {"ERR", "HUP"} # {}
                        => rst'[x] \/ (fin'[x] /\ write_closed'[x])
    <3>1. k \in 1 .. Len(Tail(batch)) /\ batch' = Tail(batch)
      BY <1>1
    <3>2. 2 \in 1 .. Len(batch) /\ batch'[k] = batch[2]
      BY <3>1, <1>3
    <3>3. batch[2].endpoint \in Endpoint
      <4>1. batch[2] \in Event
        BY <3>2, <1>2, ElementOfSeq, Zenon DEF TypeOK
      <4> QED BY <4>1 DEF Event
    <3>4. rst' = rst /\ fin' = fin
      BY <1>1
    <3> QED BY <3>2, <3>3, <3>4, <2>1, <1>17, <1>18
  <2> QED BY <2>1 DEF HangUpStays
<1>20. /\ 1 \in 1 .. Len(batch) /\ batch[1].endpoint = e /\ batch[1].events = evs
       /\ "RDHUP" \in evs => fin[e] \/ rst[e]
       /\ evs \cap {"ERR", "HUP"} # {} => rst[e] \/ (fin[e] /\ write_closed[e])
  <2>1. 1 \in 1 .. Len(batch) /\ batch[1].endpoint = e /\ batch[1].events = evs
    BY <1>3 DEF e, evs
  <2> QED BY <2>1, <1>18
<1>21. \A x \in Endpoint : ~open[x] => fin[x] \/ rst[x]
  <2>1. \A x \in Endpoint : ~read_open[x] => fin[x] \/ rst[x]
    BY DEF IInv, CloseWasSeen
  <2>2. ~open[e] => fin[e] \/ rst[e]
    BY <2>1, <1>4, <1>7, <1>9, <1>20
  <2>3. ~open[o] => fin[o] \/ rst[o]
    BY <2>1, <1>4, <1>9
  <2> QED BY <2>2, <2>3, <1>4
<1>22. CloseWasSeen'
  BY <1>1, <1>21 DEF CloseWasSeen
<1>23. ASSUME bad PROVE rst[e] \/ (fin[e] /\ write_closed[e] /\ ~read_open[o] /\ buffer_empty(buf[o]))
  <2>1. rst[e] \/ evs \cap {"ERR", "HUP"} # {}
    BY <1>23, <1>4, <1>7, <1>8 DEF bad
  <2>2. write_closed[e] => ~read_open[o] /\ buffer_empty(buf[o])
    BY <1>4 DEF IInv, FinIsLast
  <2> QED BY <2>1, <2>2, <1>20
<1>24. ASSUME conn' = "freed", ~bad
       PROVE  \A x \in Endpoint : ~open[x] /\ buffer_empty(newb[x])
  BY <1>24, <1>1 DEF connection_finished
<1>25. DroppedOnlyAfterHangUp'
  <2> SUFFICES ASSUME conn' = "freed", \A x \in Endpoint : ~rst[x], NEW x \in Endpoint,
                      ~buffer_empty(newb[x])
               PROVE  fin[x] /\ write_closed'[x]
    BY <1>1, <1>10 DEF DroppedOnlyAfterHangUp, buffer_empty
  <2>1. CASE bad
    <3>1. fin[e] /\ write_closed[e] /\ buffer_empty(buf[o])
      BY <2>1, <1>4, <1>23
    <3>2. x # o
      BY <3>1, <1>8, <1>9
    <3> QED BY <3>1, <3>2, <1>4, <1>10
  <2>2. CASE ~bad
    BY <2>2, <1>24
  <2> QED BY <2>1, <2>2
<1>26. EndedByPeers'
  <2> SUFFICES ASSUME conn' = "freed", \A x \in Endpoint : ~rst[x]
               PROVE  \A x \in Endpoint : fin[x]
    BY <1>1, <1>10 DEF EndedByPeers
  <2>1. CASE bad
    <3>1. fin[e] /\ ~read_open[o]
      BY <2>1, <1>4, <1>23
    <3>2. fin[o]
      BY <3>1, <1>4 DEF IInv, CloseWasSeen
    <3> QED BY <3>1, <3>2, <1>4
  <2>2. CASE ~bad
    BY <2>2, <1>21, <1>24
  <2> QED BY <2>1, <2>2
<1> QED BY <1>11, <1>12, <1>13, <1>14, <1>15, <1>16, <1>19, <1>22, <1>25, <1>26 DEF IInv

\* Every step of the proxy and of the peers keeps the inductive invariant.
LEMMA InvStep == IInv /\ [Next]_vars => IInv'
<1> SUFFICES ASSUME IInv, [Next]_vars PROVE IInv'
  OBVIOUS
<1>1. CASE create_connection
  <2>1. TypeOK'
    BY <1>1 DEF IInv, TypeOK, create_connection, net_vars
  <2>2. Lifetime'
    BY <1>1 DEF IInv, Lifetime, create_connection
  <2>3. NoReadAfterEof'
    <3>1. batch' = << >> /\ \A x \in Endpoint : read_open'[x]
      BY <1>1 DEF IInv, Lifetime, create_connection
    <3>2. Len(batch') = 0
      BY <3>1
    <3> QED BY <3>1, <3>2 DEF NoReadAfterEof
  <2>4. BatchOnce' /\ FinIsLast' /\ Conservation'
    BY <1>1 DEF IInv, BatchOnce, FinIsLast, Conservation, UpTo, buffer_empty,
                create_connection, net_vars
  <2>5. HangUpStays' /\ CloseWasSeen' /\ DroppedOnlyAfterHangUp' /\ EndedByPeers'
    BY <1>1 DEF IInv, HangUpStays, CloseWasSeen, DroppedOnlyAfterHangUp, EndedByPeers,
                create_connection, net_vars
  <2> QED BY <2>1, <2>2, <2>3, <2>4, <2>5 DEF IInv
<1>2. CASE create_connection_fails
  <2>1. TypeOK'
    BY <1>2 DEF IInv, TypeOK, create_connection_fails, net_vars
  <2>2. Lifetime'
    <3>1. batch' = << >> /\ conn' = "freed" /\ \A x \in Endpoint : interest'[x] = {}
      BY <1>2 DEF IInv, Lifetime, create_connection_fails
    <3>2. Len(batch') = 0
      BY <3>1
    <3> QED BY <3>1, <3>2 DEF Lifetime
  <2>3. NoReadAfterEof'
    BY <1>2 DEF NoReadAfterEof, create_connection_fails
  <2>4. BatchOnce' /\ FinIsLast' /\ Conservation'
    BY <1>2 DEF IInv, BatchOnce, FinIsLast, Conservation, UpTo, buffer_empty,
                create_connection_fails, net_vars
  <2>5. HangUpStays' /\ CloseWasSeen' /\ EndedByPeers'
    BY <1>2 DEF IInv, HangUpStays, CloseWasSeen, EndedByPeers, create_connection_fails, net_vars
  <2>6. DroppedOnlyAfterHangUp'
    BY <1>2 DEF IInv, Lifetime, DroppedOnlyAfterHangUp, buffer_empty, create_connection_fails
  <2> QED BY <2>1, <2>2, <2>3, <2>4, <2>5, <2>6 DEF IInv
<1>3. CASE epoll_wait
  <2> DEFINE event(x) == [endpoint |-> x, events |-> ready(x)]
  <2>1. PICK x \in Endpoint :
          /\ ready(x) # {}
          /\ batch' = <<event(x)>> \/ batch' = <<event(x), event(Other(x))>>
    BY <1>3 DEF epoll_wait
  <2>2. /\ conn' = conn /\ UNCHANGED <<buf, read_open, write_closed, interest, net_vars>>
        /\ conn # "undefined"
    BY <1>3 DEF epoll_wait
  <2>3. ASSUME NEW z \in Endpoint
        PROVE  /\ ready(z) \in SUBSET {"IN", "OUT", "RDHUP", "HUP", "ERR"}
               /\ "IN" \in ready(z) => "IN" \in interest[z]
               /\ interest[z] = {} => ready(z) = {}
               /\ "RDHUP" \in ready(z) => fin[z] \/ rst[z]
               /\ ready(z) \cap {"ERR", "HUP"} # {} => rst[z] \/ (fin[z] /\ write_closed[z])
    BY DEF IInv, TypeOK, ready, pending
  <2>4. conn = "open"
    <3>1. interest[x] # {}
      BY <2>1 DEF ready
    <3> QED BY <3>1 DEF IInv, Lifetime
  <2>5. Other(x) \in Endpoint /\ Other(x) # x
    BY Endpoints
  <2>6. event(x) \in Event /\ event(Other(x)) \in Event
    BY <2>3, <2>5 DEF Event
  <2>7. /\ batch' \in Seq(Event) /\ Len(batch') <= 2
        /\ Len(batch') = 2 => batch' = <<event(x), event(Other(x))>>
        /\ \A k \in 1 .. Len(batch') : \E z \in Endpoint : batch'[k] = event(z)
    <3>1. CASE batch' = <<event(x)>>
      <4> HIDE DEF event, Event
      <4> QED BY <3>1, <2>6
    <3>2. CASE batch' = <<event(x), event(Other(x))>>
      <4> HIDE DEF event, Event
      <4>1. batch' \in Seq(Event) /\ Len(batch') = 2
        BY <3>2, <2>6
      <4>2. \A k \in 1 .. Len(batch') : batch'[k] = event(x) \/ batch'[k] = event(Other(x))
        BY <3>2
      <4> QED BY <3>2, <4>1, <4>2, <2>5
    <3> QED BY <2>1, <3>1, <3>2
  <2>8. TypeOK'
    BY <2>2, <2>7 DEF IInv, TypeOK, net_vars
  <2>9. Lifetime'
    BY <2>2, <2>4 DEF Lifetime
  <2>10. BatchOnce'
    <3>1. ASSUME Len(batch') = 2 PROVE batch'[1].endpoint # batch'[2].endpoint
      <4>1. batch'[1] = event(x) /\ batch'[2] = event(Other(x))
        <5> HIDE DEF event
        <5> QED BY <2>7, <3>1
      <4> QED BY <4>1, <2>5
    <3> QED BY <3>1 DEF BatchOnce
  <2>11. NoReadAfterEof'
    <3>1. \A z \in Endpoint : "IN" \in interest[z] => read_open[z]
      BY <2>4 DEF IInv, NoReadAfterEof
    <3>2. ASSUME NEW z \in Endpoint, NEW k \in 1 .. Len(batch'),
                 batch'[k].endpoint = z, "IN" \in batch'[k].events
          PROVE  read_open[z]
      <4>1. batch'[k].events = ready(z)
        <5>1. PICK w \in Endpoint : batch'[k] = event(w)
          BY <2>7
        <5>2. batch'[k].endpoint = w /\ batch'[k].events = ready(w)
          BY <5>1
        <5> QED BY <5>2, <3>2
      <4> QED BY <4>1, <3>1, <3>2, <2>3
    <3> QED BY <3>1, <3>2, <2>2 DEF NoReadAfterEof
  <2>12. FinIsLast' /\ Conservation'
    BY <2>2 DEF IInv, FinIsLast, Conservation, UpTo, buffer_empty, net_vars
  <2>13. HangUpStays'
    <3>1. ASSUME NEW k \in 1 .. Len(batch')
          PROVE  LET z == batch'[k].endpoint
                 IN  /\ "RDHUP" \in batch'[k].events => fin[z] \/ rst[z]
                     /\ batch'[k].events \cap {"ERR", "HUP"} # {}
                          => rst[z] \/ (fin[z] /\ write_closed[z])
      <4>1. PICK w \in Endpoint : batch'[k] = event(w)
        BY <2>7
      <4>2. batch'[k].endpoint = w /\ batch'[k].events = ready(w)
        BY <4>1
      <4> QED BY <4>2, <3>1, <2>3
    <3> QED BY <3>1, <2>2 DEF HangUpStays, net_vars
  <2>14. CloseWasSeen' /\ DroppedOnlyAfterHangUp' /\ EndedByPeers'
    BY <2>2, <2>4 DEF IInv, CloseWasSeen, DroppedOnlyAfterHangUp, EndedByPeers, net_vars
  <2> QED BY <2>8, <2>9, <2>10, <2>11, <2>12, <2>13, <2>14 DEF IInv
<1>4. CASE process_event
  BY <1>4, ProcessStep
<1>5. CASE process_stale_event
  <2>1. TypeOK'
    <3>1. batch' \in Seq(Event) /\ Len(batch') <= 2
      BY <1>5 DEF process_stale_event
    <3> QED BY <1>5, <3>1 DEF IInv, TypeOK, process_stale_event, net_vars
  <2>2. Lifetime'
    BY <1>5 DEF IInv, Lifetime, process_stale_event
  <2>3. NoReadAfterEof'
    BY <1>5 DEF NoReadAfterEof, process_stale_event
  <2>4. BatchOnce'
    <3>1. Len(batch') = 0
      BY <1>5 DEF process_stale_event
    <3> QED BY <3>1 DEF BatchOnce
  <2>5. FinIsLast' /\ Conservation'
    BY <1>5 DEF IInv, FinIsLast, Conservation, UpTo, buffer_empty,
                process_stale_event, net_vars
  <2>6. HangUpStays'
    <3>1. Len(batch') = 0
      BY <1>5 DEF process_stale_event
    <3> QED BY <3>1 DEF HangUpStays
  <2>7. CloseWasSeen' /\ DroppedOnlyAfterHangUp' /\ EndedByPeers'
    BY <1>5 DEF IInv, CloseWasSeen, DroppedOnlyAfterHangUp, EndedByPeers, buffer_empty,
                process_stale_event, net_vars
  <2> QED BY <2>1, <2>2, <2>3, <2>4, <2>5, <2>6, <2>7 DEF IInv
<1>6. ASSUME NEW e \in Endpoint, peer_send(e) PROVE IInv'
  <2>1. /\ sent[e] \in Nat /\ sent[e] < Bytes(e) /\ rcvq[e] \in Seq(Nat)
        /\ Bytes(e) \in Nat
        /\ sent' = [sent EXCEPT ![e] = @ + 1]
        /\ rcvq' = [rcvq EXCEPT ![e] = Append(@, sent[e] + 1)]
        /\ UNCHANGED <<proxy_vars, fin, rst, sndq, got>>
    BY <1>6, BytesAssumption DEF IInv, TypeOK, peer_send, Bytes
  <2>2. TypeOK'
    <3>1. Append(rcvq[e], sent[e] + 1) \in Seq(Nat)
      BY <2>1
    <3>2. sent[e] + 1 \in Nat /\ sent[e] + 1 <= Bytes(e)
      BY <2>1
    <3> QED BY <2>1, <3>1, <3>2 DEF IInv, TypeOK, proxy_vars
  <2>3. Conservation'
    <3> SUFFICES ASSUME NEW x \in Endpoint
                 PROVE  got[Other(x)] \o sndq[Other(x)] \o buf[x].data \o rcvq'[x]
                          = UpTo(sent'[x])
      BY <2>1 DEF Conservation, UpTo, proxy_vars
    <3>1. CASE x # e
      <4>1. rcvq'[x] = rcvq[x] /\ sent'[x] = sent[x]
        BY <2>1, <3>1 DEF IInv, TypeOK
      <4> QED BY <4>1 DEF IInv, Conservation
    <3>2. CASE x = e
      <4> DEFINE p == got[Other(e)] \o sndq[Other(e)] \o buf[e].data
                 r == rcvq[e]
                 n == sent[e]
      <4>1. rcvq'[e] = Append(r, n + 1) /\ sent'[e] = n + 1
        BY <2>1 DEF IInv, TypeOK
      <4>2. p \in Seq(Nat)
        BY Concat, Endpoints DEF IInv, TypeOK, Buffer
      <4>3. p \o r = UpTo(n) /\ r \in Seq(Nat) /\ n \in Nat
        BY <2>1 DEF IInv, Conservation
      <4> HIDE DEF p, r, n
      <4>4. Append(r, n + 1) = r \o <<n + 1>> /\ <<n + 1>> \in Seq(Nat)
        BY <4>3, AppendIsConcat
      <4>5. (p \o r) \o <<n + 1>> = p \o (r \o <<n + 1>>)
        BY ONLY <4>2, <4>3, <4>4, Associative, Zenon
      <4>6. UpTo(n + 1) = Append(UpTo(n), n + 1) /\ UpTo(n) \in Seq(Nat)
        BY <4>3, NextByte
      <4>7. Append(UpTo(n), n + 1) = UpTo(n) \o <<n + 1>>
        BY <4>3, <4>6, AppendIsConcat
      <4> HIDE DEF UpTo
      <4>8. p \o Append(r, n + 1) = UpTo(n + 1)
        BY <4>3, <4>4, <4>5, <4>6, <4>7
      <4> QED BY <3>2, <4>1, <4>8 DEF p
    <3> QED BY <3>1, <3>2
  <2>4. Lifetime' /\ BatchOnce' /\ NoReadAfterEof' /\ FinIsLast'
    BY <2>1 DEF IInv, Lifetime, BatchOnce, NoReadAfterEof, FinIsLast,
                buffer_empty, proxy_vars
  <2>5. HangUpStays' /\ CloseWasSeen' /\ DroppedOnlyAfterHangUp'
    BY <2>1 DEF IInv, HangUpStays, CloseWasSeen, DroppedOnlyAfterHangUp, buffer_empty, proxy_vars
  <2>6. EndedByPeers'
    BY <1>6 DEF EndedByPeers, peer_send, proxy_vars
  <2> QED BY <2>2, <2>3, <2>4, <2>5, <2>6 DEF IInv
<1>7. ASSUME NEW e \in Endpoint, peer_close(e) PROVE IInv'
  <2>1. TypeOK'
    BY <1>7 DEF IInv, TypeOK, peer_close, proxy_vars
  <2>2. Lifetime' /\ BatchOnce' /\ NoReadAfterEof' /\ FinIsLast'
    BY <1>7 DEF IInv, Lifetime, BatchOnce, NoReadAfterEof, FinIsLast,
                buffer_empty, peer_close, proxy_vars
  <2>3. Conservation'
    BY <1>7 DEF IInv, Conservation, UpTo, peer_close, proxy_vars
  <2>4. \A x \in Endpoint : (fin[x] => fin'[x]) /\ (rst[x] => rst'[x])
    BY <1>7 DEF IInv, TypeOK, peer_close
  <2>5. HangUpStays'
    <3> SUFFICES ASSUME NEW k \in 1 .. Len(batch)
                 PROVE  LET x == batch[k].endpoint
                        IN  /\ "RDHUP" \in batch[k].events => fin'[x] \/ rst'[x]
                            /\ batch[k].events \cap {"ERR", "HUP"} # {}
                                 => rst'[x] \/ (fin'[x] /\ write_closed[x])
      BY <1>7 DEF HangUpStays, peer_close, proxy_vars
    <3>1. batch[k].endpoint \in Endpoint
      <4>1. batch[k] \in Event
        BY ElementOfSeq, Zenon DEF IInv, TypeOK
      <4> QED BY <4>1 DEF Event
    <3> QED BY <3>1, <2>4 DEF IInv, HangUpStays
  <2>6. DroppedOnlyAfterHangUp' /\ EndedByPeers'
    BY <1>7 DEF DroppedOnlyAfterHangUp, EndedByPeers, peer_close, proxy_vars
  <2>7. CloseWasSeen'
    BY <1>7, <2>4 DEF IInv, CloseWasSeen, peer_close, proxy_vars
  <2> QED BY <2>1, <2>2, <2>3, <2>5, <2>6, <2>7 DEF IInv
<1>8. ASSUME NEW e \in Endpoint, peer_read(e) PROVE IInv'
  <2>1. /\ sndq[e] # << >> /\ sndq[e] \in Seq(Nat) /\ got[e] \in Seq(Nat)
        /\ got' = [got EXCEPT ![e] = Append(@, Head(sndq[e]))]
        /\ sndq' = [sndq EXCEPT ![e] = Tail(@)]
        /\ UNCHANGED <<proxy_vars, sent, rcvq, fin, rst>>
    BY <1>8 DEF IInv, TypeOK, peer_read
  <2>2. /\ Append(got[e], Head(sndq[e])) \in Seq(Nat) /\ Tail(sndq[e]) \in Seq(Nat)
        /\ Len(Tail(sndq[e])) = Len(sndq[e]) - 1
        /\ Append(got[e], Head(sndq[e])) \o Tail(sndq[e]) = got[e] \o sndq[e]
    BY <2>1, MoveHead
  <2>3. TypeOK'
    <3>1. Len(Tail(sndq[e])) <= SendRoom
      <4>1. Len(sndq[e]) \in Nat /\ Len(sndq[e]) <= SendRoom
        BY <2>1, Concat DEF IInv, TypeOK
      <4> QED BY <4>1, <2>2, RoomAssumption
    <3> QED BY <2>1, <2>2, <3>1 DEF IInv, TypeOK, proxy_vars
  <2>4. Lifetime' /\ BatchOnce' /\ NoReadAfterEof' /\ FinIsLast'
    BY <2>1 DEF IInv, Lifetime, BatchOnce, NoReadAfterEof, FinIsLast,
                buffer_empty, proxy_vars
  <2>5. Conservation'
    <3> SUFFICES ASSUME NEW x \in Endpoint
                 PROVE  got'[Other(x)] \o sndq'[Other(x)] \o buf[x].data \o rcvq[x]
                          = UpTo(sent[x])
      BY <2>1 DEF Conservation, UpTo, proxy_vars
    <3>1. got'[Other(x)] \o sndq'[Other(x)] = got[Other(x)] \o sndq[Other(x)]
      BY <2>1, <2>2, Endpoints DEF IInv, TypeOK
    <3> QED BY <3>1 DEF IInv, Conservation
  <2>6. HangUpStays' /\ CloseWasSeen' /\ DroppedOnlyAfterHangUp' /\ EndedByPeers'
    BY <2>1 DEF IInv, HangUpStays, CloseWasSeen, DroppedOnlyAfterHangUp, EndedByPeers,
                buffer_empty, proxy_vars
  <2> QED BY <2>3, <2>4, <2>5, <2>6 DEF IInv
<1>9. ASSUME NEW e \in Endpoint, peer_reset(e) PROVE IInv'
  <2>1. TypeOK'
    BY <1>9 DEF IInv, TypeOK, peer_reset, proxy_vars
  <2>2. Lifetime' /\ BatchOnce' /\ NoReadAfterEof' /\ FinIsLast'
    BY <1>9 DEF IInv, Lifetime, BatchOnce, NoReadAfterEof, FinIsLast,
                buffer_empty, peer_reset, proxy_vars
  <2>3. Conservation'
    BY <1>9 DEF IInv, Conservation, UpTo, peer_reset, proxy_vars
  <2>4. \A x \in Endpoint : (fin[x] => fin'[x]) /\ (rst[x] => rst'[x])
    BY <1>9 DEF IInv, TypeOK, peer_reset
  <2>5. HangUpStays'
    <3> SUFFICES ASSUME NEW k \in 1 .. Len(batch)
                 PROVE  LET x == batch[k].endpoint
                        IN  /\ "RDHUP" \in batch[k].events => fin'[x] \/ rst'[x]
                            /\ batch[k].events \cap {"ERR", "HUP"} # {}
                                 => rst'[x] \/ (fin'[x] /\ write_closed[x])
      BY <1>9 DEF HangUpStays, peer_reset, proxy_vars
    <3>1. batch[k].endpoint \in Endpoint
      <4>1. batch[k] \in Event
        BY ElementOfSeq, Zenon DEF IInv, TypeOK
      <4> QED BY <4>1 DEF Event
    <3> QED BY <3>1, <2>4 DEF IInv, HangUpStays
  <2>6. DroppedOnlyAfterHangUp' /\ EndedByPeers'
    BY <1>9 DEF DroppedOnlyAfterHangUp, EndedByPeers, peer_reset, proxy_vars
  <2>7. CloseWasSeen'
    BY <1>9, <2>4 DEF IInv, CloseWasSeen, peer_reset, proxy_vars
  <2> QED BY <2>1, <2>2, <2>3, <2>5, <2>6, <2>7 DEF IInv
<1>10. CASE UNCHANGED vars
  <2>1. TypeOK'
    BY <1>10 DEF IInv, TypeOK, vars, proxy_vars, net_vars
  <2>2. Lifetime' /\ BatchOnce' /\ NoReadAfterEof' /\ FinIsLast'
    BY <1>10 DEF IInv, Lifetime, BatchOnce, NoReadAfterEof, FinIsLast,
                 buffer_empty, vars, proxy_vars
  <2>3. Conservation'
    BY <1>10 DEF IInv, Conservation, UpTo, vars, proxy_vars, net_vars
  <2>4. HangUpStays' /\ CloseWasSeen' /\ DroppedOnlyAfterHangUp' /\ EndedByPeers'
    BY <1>10 DEF IInv, HangUpStays, CloseWasSeen, DroppedOnlyAfterHangUp, EndedByPeers,
                 buffer_empty, vars, proxy_vars, net_vars
  <2> QED BY <2>1, <2>2, <2>3, <2>4 DEF IInv
<1> QED
  BY <1>1, <1>2, <1>3, <1>4, <1>5, <1>6, <1>7, <1>8, <1>9, <1>10
  DEF Next, main_loop

\* The inductive invariant: both directions relay exactly what was sent, and what
\* was closed or freed stays so.
THEOREM InductiveInvariant == Spec => []IInv
<1>1. Init => IInv
  <2> SUFFICES ASSUME Init PROVE IInv
    OBVIOUS
  <2>1. << >> \in Seq(Nat) /\ << >> \in Seq(Event) /\ Len(<< >>) = 0 /\ UpTo(0) = << >>
        /\ << >> \o << >> = << >>
    BY DEF UpTo
  <2>2. TypeOK
    BY <2>1, SizeAssumption, RoomAssumption, BytesAssumption
    DEF Init, TypeOK, Buffer, EmptyBuffer, end, Bytes
  <2>3. Conservation
    <3>1. ASSUME NEW x \in Endpoint
          PROVE  /\ got[Other(x)] = << >> /\ sndq[Other(x)] = << >>
                 /\ buf[x].data = << >> /\ rcvq[x] = << >> /\ sent[x] = 0
      BY Endpoints DEF Init, EmptyBuffer
    <3> QED BY <2>1, <3>1 DEF Conservation
  <2>4. Lifetime /\ BatchOnce /\ NoReadAfterEof /\ FinIsLast
    BY <2>1, Endpoints DEF Init, Lifetime, BatchOnce, NoReadAfterEof, FinIsLast,
                           buffer_empty, EmptyBuffer
  <2>5. HangUpStays /\ CloseWasSeen /\ DroppedOnlyAfterHangUp /\ EndedByPeers
    BY <2>1 DEF Init, HangUpStays, CloseWasSeen, DroppedOnlyAfterHangUp, EndedByPeers
  <2> QED BY <2>2, <2>3, <2>4, <2>5 DEF IInv
<1> QED BY <1>1, InvStep, PTL DEF Spec

-----------------------------------------------------------------------------
(* What the runs check, for every buffer size and number of bytes.         *)

\* Every variable keeps its type; no forward buffer and no send queue overflows.
THEOREM TypeCorrect == Spec => []TypeOK
BY InductiveInvariant, PTL DEF IInv

\* Nothing is lost, repeated or reordered between the two sockets
\* (receive_into_buffer(), buffer_compact(), flush_buffer()).
THEOREM ConservationHolds == Spec => []Conservation
BY InductiveInvariant, PTL DEF IInv

\* A FIN goes out after the data it follows (tcp_accelerator.c:892).
THEOREM NoDataAfterFinHolds == Spec => []NoDataAfterFin
<1>1. IInv => NoDataAfterFin
  BY DEF IInv, FinIsLast, NoDataAfterFin
<1> QED BY <1>1, InductiveInvariant, PTL

\* Without a reset, only a hang-up seen behind a closed and shut down side makes
\* the proxy throw away what it has read (tcp_accelerator.c:876-880, 1353).
THEOREM DroppedOnlyAfterHangUpHolds == Spec => []DroppedOnlyAfterHangUp
BY InductiveInvariant, PTL DEF IInv

\* Unless a peer has reset, a connection is destroyed only when both have closed
\* (process_client_event(), connection_finished()): a half-closed one goes on.
THEOREM EndedByPeersHolds == Spec => []EndedByPeers
BY InductiveInvariant, PTL DEF IInv
=============================================================================
