-------------------------- MODULE GroupChatProofs ---------------------------
(***************************************************************************)
(* Proofs about GroupChat, for every size of the client table, every set   *)
(* of names and every number of lines in a chunk.                          *)
(***************************************************************************)
EXTENDS GroupChat, SequenceTheorems, FiniteSetTheorems, TLAPS

-----------------------------------------------------------------------------
(* The batch of events.                                                    *)

\* Every event of batch q has something to receive in s, and no slot is in it twice.
Waiting(q, s) ==
  /\ \A j \in 1 .. Len(q) : q[j] # LISTEN => s[q[j]] # Quiet
  /\ \A j, k \in 1 .. Len(q) : j # k => q[j] # q[k]

\* Taking the first event of a batch.
LEMMA NextEvent ==
  ASSUME NEW q \in Seq(Slot \cup {LISTEN}), NEW s, q # << >>, Waiting(q, s)
  PROVE  /\ Head(q) \in Slot \cup {LISTEN} /\ Tail(q) \in Seq(Slot \cup {LISTEN})
         /\ Head(q) # LISTEN => s[Head(q)] # Quiet
         /\ Waiting(Tail(q), s)
         /\ \A j \in 1 .. Len(Tail(q)) : Tail(q)[j] # Head(q)
<1> DEFINE D == Slot \cup {LISTEN}
<1>1. q \in Seq(D) /\ q # << >>
  OBVIOUS
<1> HIDE DEF D
<1>2. /\ Head(q) \in D /\ Tail(q) \in Seq(D) /\ Len(Tail(q)) = Len(q) - 1
      /\ \A j \in 1 .. Len(Tail(q)) : Tail(q)[j] = q[j + 1]
  BY <1>1, HeadTailProperties
<1>3. Len(q) \in Nat /\ Len(q) >= 1 /\ Head(q) = q[1]
  BY <1>1, EmptySeq
<1>4. 1 \in 1 .. Len(q)
      /\ \A j \in 1 .. Len(Tail(q)) : j + 1 \in 1 .. Len(q) /\ j + 1 # 1
  BY <1>2, <1>3
<1>5. \A j, k \in 1 .. Len(Tail(q)) : j # k => j + 1 # k + 1
  OBVIOUS
<1>6. Waiting(Tail(q), s)
  BY <1>2, <1>4, <1>5 DEF Waiting
<1> QED BY <1>2, <1>3, <1>4, <1>6 DEF Waiting, D

\* What keeps everything readable keeps a batch waiting.
LEMMA StillWaiting ==
  ASSUME NEW q, NEW s, NEW t, Waiting(q, s),
         \A j \in 1 .. Len(q) :
           q[j] # LISTEN /\ s[q[j]] # Quiet => t[q[j]] # Quiet
  PROVE  Waiting(q, t)
BY DEF Waiting

-----------------------------------------------------------------------------
(* Sending.                                                                *)

\* A table of clients whose free slots are clear.
Table(cl) ==
  cl \in [Slot -> Client] /\ \A s \in Slot : cl[s].mode = "free" => cl[s] = FreeSlot

\* What the clients and their sockets are after a send_all() that may have killed
\* the server: the sockets of slots that are in use stay readable if they were.
LEMMA Sends ==
  ASSUME NEW T, NEW s, NEW n, NEW cl, Table(cl), TypeOK, send_all(T, s, n, cl)
  PROVE  /\ \/ pc' = "down" /\ clients' = clients /\ sock' = sock
            \/ pc' = "up" /\ clients' = cl
         /\ Table(clients')
         /\ sock' \in [Slot -> Socket]
         /\ \A t \in Slot : clients'[t].mode = "free" => sock'[t] = Quiet
         /\ \A t \in Slot : clients'[t].mode # "free" /\ sock[t] # Quiet => sock'[t] # Quiet
<1>1. CASE Raises(T, s, n)
  BY <1>1 DEF send_all, TypeOK, Table, Active
<1>2. CASE ~Raises(T, s, n)
  <2>1. pc' = "up" /\ clients' = cl /\ sock' = AfterSend(Hit(T, s, n), cl)
    BY <1>2 DEF send_all
  <2>2. Quiet \in Socket /\ FreeSlot.mode = "free" /\ sock \in [Slot -> Socket]
    BY DEF Quiet, Socket, FreeSlot, TypeOK
  <2>3. ASSUME NEW t \in Slot
        PROVE  /\ sock'[t] = IF cl[t] = FreeSlot THEN Quiet
                             ELSE IF t \in Hit(T, s, n) /\ sock[t].end = "rst"
                               THEN [sock[t] EXCEPT !.end = "dead"] ELSE sock[t]
               /\ sock[t] \in Socket
    BY <2>1, <2>2 DEF AfterSend
  <2>4. ASSUME NEW t \in Slot
        PROVE  /\ [sock[t] EXCEPT !.end = "dead"] \in Socket
               /\ [sock[t] EXCEPT !.end = "dead"] # Quiet
    BY <2>3 DEF Socket, Quiet
  <2>5. sock' \in [Slot -> Socket]
    <3>1. \A t \in Slot : sock'[t] \in Socket
      BY <2>2, <2>3, <2>4
    <3>2. \E f : sock' = [t \in Slot |-> f[t]]
      <4>1. sock' = [t \in Slot |-> sock'[t]]
        BY <2>1 DEF AfterSend
      <4> QED BY <4>1
    <3> QED BY <3>1, <3>2
  <2> QED BY <2>1, <2>2, <2>3, <2>4, <2>5 DEF Table
<1> QED BY <1>1, <1>2

-----------------------------------------------------------------------------
(* The roster.                                                             *)

Members(cl) == {s \in Slot : cl[s].mode = "in"}
Names(cl) == {cl[s].name : s \in Members(cl)}
Distinct(cl) == \A s, t \in Members(cl) : s # t => cl[s].name # cl[t].name
Agrees(cl, q) ==
  \A s \in Members(cl) : Names(cl) \subseteq cl[s].view /\ cl[s].view \subseteq Names(cl) \cup q

\* The table d differs from cl in what the members of T were told.
Tells(d, cl, T, add, del) ==
  /\ Table(d)
  /\ \A t \in Slot :
       /\ d[t].mode = cl[t].mode /\ d[t].name = cl[t].name
       /\ d[t].view = IF t \in T THEN (cl[t].view \cup add) \ del ELSE cl[t].view

\* Telling some members of an arrival or a departure leaves the rest as it is.
LEMMA Telling ==
  ASSUME NEW cl, Table(cl), NEW T \in SUBSET Members(cl), NEW add \in SUBSET Name, NEW del
  PROVE  Tells(Told(cl, T, add, del), cl, T, add, del)
<1> DEFINE d == Told(cl, T, add, del)
<1>1. ASSUME NEW t \in Slot
      PROVE  /\ d[t] = IF t \in T THEN [cl[t] EXCEPT !.view = (@ \cup add) \ del] ELSE cl[t]
             /\ cl[t] \in Client /\ (cl[t].mode = "free" => cl[t] = FreeSlot /\ t \notin T)
  BY DEF Told, Table, Members
<1>2. ASSUME NEW t \in Slot
      PROVE  /\ d[t] \in Client /\ d[t].mode = cl[t].mode /\ d[t].name = cl[t].name
             /\ d[t].view = IF t \in T THEN (cl[t].view \cup add) \ del ELSE cl[t].view
  <2> HIDE DEF d
  <2>1. CASE t \in T
    <3>1. (cl[t].view \cup add) \ del \in SUBSET Name
      BY <1>1 DEF Client
    <3>2. d[t] = [cl[t] EXCEPT !.view = (cl[t].view \cup add) \ del]
      BY <1>1, <2>1
    <3> DEFINE v == (cl[t].view \cup add) \ del
    <3> HIDE DEF v
    <3>3. d[t] = [cl[t] EXCEPT !.view = v] /\ v \in SUBSET Name /\ cl[t] \in Client
      BY <1>1, <3>1, <3>2 DEF v
    <3>4. d[t] \in Client /\ d[t].mode = cl[t].mode /\ d[t].name = cl[t].name /\ d[t].view = v
      BY <3>3 DEF Client
    <3> QED BY <2>1, <3>4 DEF v
  <2>2. CASE t \notin T
    BY <1>1, <2>2
  <2> QED BY <2>1, <2>2
<1>3. d = [t \in Slot |-> d[t]]
  BY DEF Told
<1> HIDE DEF d
<1>4. d \in [Slot -> Client]
  BY <1>2, <1>3
<1>5. \A t \in Slot : d[t].mode = "free" => d[t] = FreeSlot
  BY <1>1, <1>2
<1> QED BY <1>2, <1>4, <1>5 DEF Table, Tells, d

\* A member leaves and the others are told.
LEMMA Departure ==
  ASSUME NEW cl, Table(cl), Distinct(cl), NEW s \in Members(cl)
  PROVE  LET d == disconnect_client(Told(cl, Members(cl) \ {s}, {}, {cl[s].name}), s)
         IN  /\ Table(d) /\ Distinct(d) /\ \A q : Agrees(cl, q) => Agrees(d, q)
             /\ \A t \in Slot \ {s} : d[t].mode = cl[t].mode
<1> DEFINE e == Told(cl, Members(cl) \ {s}, {}, {cl[s].name})
           d == disconnect_client(e, s)
<1>1. /\ Table(e) /\ s \in Slot
      /\ \A t \in Slot :
              /\ e[t].mode = cl[t].mode
              /\ e[t].name = cl[t].name
              /\ e[t].view =
                   IF t \in Members(cl) \ {s} THEN cl[t].view \ {cl[s].name} ELSE cl[t].view
  <2>1. Members(cl) \ {s} \in SUBSET Members(cl) /\ {} \in SUBSET Name /\ s \in Slot
    BY DEF Members
  <2>2. Tells(e, cl, Members(cl) \ {s}, {}, {cl[s].name})
    BY <2>1, Telling
  <2>3. \A X, Y : (X \cup {}) \ Y = X \ Y
    OBVIOUS
  <2> HIDE DEF e
  <2> QED BY <2>1, <2>2, <2>3 DEF Tells
<1>2. d = [e EXCEPT ![s] = FreeSlot]
  BY DEF disconnect_client
<1> HIDE DEF e, d
<1>3. FreeSlot \in Client /\ FreeSlot.mode = "free"
  BY DEF FreeSlot, Client
<1>4. Table(d) /\ d[s] = FreeSlot /\ \A t \in Slot \ {s} : d[t] = e[t]
  BY <1>1, <1>2, <1>3 DEF Table
<1>5. Members(d) = Members(cl) \ {s}
  <2>1. \A t \in Slot : d[t].mode = "in" <=> t # s /\ cl[t].mode = "in"
    BY <1>1, <1>3, <1>4
  <2> QED BY <2>1, Zenon DEF Members
<1>6. \A t \in Members(d) : t \in Members(cl) /\ t # s /\ d[t].name = cl[t].name
  BY <1>1, <1>4, <1>5 DEF Members
<1>7. \A t \in Members(d) : d[t].view = cl[t].view \ {cl[s].name}
  BY <1>1, <1>4, <1>5 DEF Members
<1>8. Names(d) = Names(cl) \ {cl[s].name}
  BY <1>5, <1>6 DEF Names, Distinct
<1>9. Distinct(d)
  BY <1>6 DEF Distinct
<1>10. ASSUME NEW q, Agrees(cl, q) PROVE Agrees(d, q)
  BY <1>6, <1>7, <1>8, <1>10 DEF Agrees
<1>11. \A t \in Slot \ {s} : d[t].mode = cl[t].mode
  BY <1>1, <1>4
<1> QED BY <1>4, <1>9, <1>10, <1>11 DEF d, e

\* A client that is no member leaves, or a member leaves and nobody is told.
LEMMA Disconnection ==
  ASSUME NEW cl, Table(cl), Distinct(cl), NEW s \in Slot
  PROVE  /\ Table(disconnect_client(cl, s)) /\ Distinct(disconnect_client(cl, s))
         /\ \A q : Agrees(cl, q) /\ s \notin Members(cl) => Agrees(disconnect_client(cl, s), q)
         /\ \A q : Agrees(cl, q) =>
              Agrees(disconnect_client(cl, s), q \cup ({cl[s].name} \ {NOBODY}))
         /\ \A t \in Slot \ {s} : disconnect_client(cl, s)[t].mode = cl[t].mode
<1> DEFINE d == disconnect_client(cl, s)
<1>1. FreeSlot \in Client /\ FreeSlot.mode = "free"
  BY DEF FreeSlot, Client
<1>2. Table(d) /\ d[s] = FreeSlot /\ \A t \in Slot \ {s} : d[t] = cl[t]
  BY <1>1 DEF Table, disconnect_client
<1> HIDE DEF d
<1>3. Members(d) = Members(cl) \ {s} /\ \A t \in Members(d) : d[t] = cl[t]
  BY <1>1, <1>2 DEF Members
<1>4. Names(d) \subseteq Names(cl) /\ Names(cl) \subseteq Names(d) \cup {cl[s].name}
  BY <1>3 DEF Names
<1>5. Distinct(d)
  BY <1>3 DEF Distinct
<1>6. ASSUME NEW q, Agrees(cl, q), s \notin Members(cl) PROVE Agrees(d, q)
  <2>1. Members(d) = Members(cl) /\ Names(d) = Names(cl)
    BY <1>3, <1>6 DEF Names
  <2> QED BY <1>3, <1>6, <2>1 DEF Agrees
<1>7. ASSUME NEW q, Agrees(cl, q) PROVE Agrees(d, q \cup ({cl[s].name} \ {NOBODY}))
  <2>1. \A t \in Members(d) : t \in Members(cl) /\ d[t].view = cl[t].view /\ NOBODY \notin cl[t].view
    BY <1>3, NobodyAssumption DEF Table, Client, Members
  <2> QED BY <1>4, <1>7, <2>1 DEF Agrees
<1> QED BY <1>2, <1>5, <1>6, <1>7 DEF d

\* A name nobody has joins, the others are told, and it is shown the list.
LEMMA Arrival ==
  ASSUME NEW cl, Table(cl), Distinct(cl), NEW q, Agrees(cl, q),
         NEW s \in Slot, cl[s].mode = "login", NEW n \in Name, n \notin Names(cl)
  PROVE  LET d == [Told(cl, Members(cl) \ {s}, {n}, {}) EXCEPT ![s] =
                     [mode |-> "in", name |-> n, view |-> Names(cl) \cup {n}]]
         IN  /\ Table(d) /\ Distinct(d) /\ Agrees(d, q \ {n}) /\ d[s].mode = "in"
             /\ \A t \in Slot \ {s} : d[t].mode = cl[t].mode
<1> DEFINE e == Told(cl, Members(cl) \ {s}, {n}, {})
           c == [mode |-> "in", name |-> n, view |-> Names(cl) \cup {n}]
           d == [e EXCEPT ![s] = c]
<1>1. Members(cl) \ {s} = Members(cl)
  BY DEF Members
<1>2. /\ Table(e)
      /\ \A t \in Slot :
              /\ e[t].mode = cl[t].mode
              /\ e[t].name = cl[t].name
              /\ e[t].view = IF t \in Members(cl) THEN cl[t].view \cup {n} ELSE cl[t].view
  <2>1. Members(cl) \ {s} \in SUBSET Members(cl) /\ {n} \in SUBSET Name
    OBVIOUS
  <2>2. Tells(e, cl, Members(cl) \ {s}, {n}, {})
    BY <2>1, Telling
  <2>3. \A X : X \ {} = X
    OBVIOUS
  <2> HIDE DEF e
  <2> QED BY <1>1, <2>2, <2>3 DEF Tells
<1>3. Names(cl) \subseteq Name
  BY DEF Names, Agrees, Table, Client, Members
<1>4. c \in Client /\ c.mode = "in" /\ c.name = n /\ c.view = Names(cl) \cup {n}
  BY <1>3 DEF Client
<1> HIDE DEF e, c
<1>5. d \in [Slot -> Client] /\ d[s] = c /\ \A t \in Slot \ {s} : d[t] = e[t]
  BY <1>2, <1>4 DEF Table
<1> HIDE DEF d
<1>6. Table(d) /\ d[s] = c /\ \A t \in Slot \ {s} : d[t] = e[t]
  BY <1>2, <1>4, <1>5 DEF Table
<1>7. Members(d) = Members(cl) \cup {s}
  <2>1. \A t \in Slot \ {s} : d[t].mode = cl[t].mode
    BY <1>2, <1>6
  <2>2. d[s].mode = "in"
    BY <1>4, <1>6
  <2> QED BY <2>1, <2>2 DEF Members
<1>8. /\ \A t \in Members(cl) : t # s /\ t \in Members(d) /\ d[t].name = cl[t].name
      /\ d[s].name = n
  <2>1. \A t \in Members(cl) : t # s /\ t \in Slot /\ t \in Members(d)
    BY <1>1, <1>7 DEF Members
  <2> QED BY <2>1, <1>2, <1>4, <1>6
<1>9. /\ \A t \in Members(cl) : d[t].view = cl[t].view \cup {n}
      /\ d[s].view = Names(cl) \cup {n}
  BY <1>1, <1>2, <1>4, <1>6 DEF Members
<1>10. Names(d) = Names(cl) \cup {n}
  BY <1>7, <1>8 DEF Names
<1>11. Distinct(d)
  BY <1>7, <1>8 DEF Distinct, Names
<1>12. Agrees(d, q \ {n})
  BY <1>7, <1>9, <1>10 DEF Agrees
<1>13. d[s].mode = "in" /\ \A t \in Slot \ {s} : d[t].mode = cl[t].mode
  BY <1>2, <1>4, <1>6
<1> QED BY <1>6, <1>11, <1>12, <1>13 DEF d, e, c

\* A member is shown the list of members.
LEMMA Listing ==
  ASSUME NEW cl, Table(cl), Distinct(cl), NEW q, Agrees(cl, q), NEW s \in Members(cl)
  PROVE  LET d == [cl EXCEPT ![s].view = Names(cl)]
         IN  /\ Table(d) /\ Distinct(d) /\ Agrees(d, q)
             /\ \A t \in Slot : d[t].mode = cl[t].mode
<1> DEFINE d == [cl EXCEPT ![s].view = Names(cl)]
<1>1. Names(cl) \subseteq Name
  BY DEF Names, Agrees, Table, Client, Members
<1>2. s \in Slot /\ cl[s] \in Client /\ cl[s].mode = "in"
  BY DEF Members, Table
<1>3. /\ d[s] = [cl[s] EXCEPT !.view = Names(cl)] /\ d \in [Slot -> Client]
      /\ \A t \in Slot \ {s} : d[t] = cl[t]
  <2>1. [cl[s] EXCEPT !.view = Names(cl)] \in Client
    BY <1>1, <1>2 DEF Client
  <2> QED BY <1>2, <2>1 DEF Table
<1>4. d[s].mode = "in" /\ d[s].name = cl[s].name /\ d[s].view = Names(cl)
  BY <1>2, <1>3 DEF Client
<1> HIDE DEF d
<1>5. Table(d)
  BY <1>3, <1>4 DEF Table
<1>6. Members(d) = Members(cl)
  BY <1>2, <1>3, <1>4 DEF Members
<1>7. Names(d) = Names(cl) /\ Distinct(d)
  <2>1. \A t \in Members(cl) : d[t].name = cl[t].name
    BY <1>3, <1>4 DEF Members
  <2> QED BY <1>6, <2>1 DEF Names, Distinct
<1>8. Agrees(d, q)
  BY <1>3, <1>4, <1>6, <1>7 DEF Agrees, Members
<1>9. \A t \in Slot : d[t].mode = cl[t].mode
  BY <1>2, <1>3, <1>4
<1> QED BY <1>5, <1>7, <1>8, <1>9 DEF d

\* A client that has no name yet is no member.
LEMMA Acceptance ==
  ASSUME NEW cl, Table(cl), Distinct(cl), NEW s \in Slot, cl[s].mode = "free"
  PROVE  LET d == [cl EXCEPT ![s] = [FreeSlot EXCEPT !.mode = "login"]]
         IN  /\ Table(d) /\ Distinct(d) /\ \A q : Agrees(cl, q) => Agrees(d, q)
             /\ d[s].mode = "login" /\ \A t \in Slot \ {s} : d[t].mode = cl[t].mode
<1> DEFINE c == [FreeSlot EXCEPT !.mode = "login"]
           d == [cl EXCEPT ![s] = c]
<1>1. c \in Client /\ c.mode = "login"
  BY DEF FreeSlot, Client
<1> HIDE DEF c
<1>2. Table(d) /\ d[s] = c /\ \A t \in Slot \ {s} : d[t] = cl[t]
  BY <1>1 DEF Table
<1> HIDE DEF d
<1>3. Members(d) = Members(cl) /\ \A t \in Members(cl) : d[t] = cl[t]
  BY <1>1, <1>2 DEF Members
<1>4. Names(d) = Names(cl) /\ Distinct(d)
  BY <1>3 DEF Names, Distinct
<1>5. \A q : Agrees(cl, q) => Agrees(d, q)
  BY <1>3, <1>4 DEF Agrees
<1> QED BY <1>1, <1>2, <1>4, <1>5 DEF d, c

-----------------------------------------------------------------------------
(* The inductive invariant.                                                *)

\* IInv of a state given by its parts.
Sound(cl, sk, p, q, c, n, left) ==
  /\ Table(cl) /\ Distinct(cl) /\ (p # "down" => Agrees(cl, left)) /\ left \subseteq Name
  /\ sk \in [Slot -> Socket] /\ \A s \in Slot : cl[s].mode = "free" => sk[s] = Quiet
  /\ p \in {"up", "down"}
  /\ q \in Seq(Slot \cup {LISTEN}) /\ Waiting(q, sk)
  /\ c \in Slot \cup {NOBODY} /\ n \in 0 .. MaxLines
  /\ n > 0 => c \in Slot /\ cl[c].mode # "free" /\ \A j \in 1 .. Len(q) : q[j] # c

\* Its parts make up the invariant, before and after a step.
LEMMA Parts ==
  /\ IInv <=> Sound(clients, sock, pc, batch, cur, lines, silent)
  /\ IInv' <=> Sound(clients', sock', pc', batch', cur', lines', silent')
<1>1. IInv <=> Sound(clients, sock, pc, batch, cur, lines, silent)
  <2>1. RosterAgrees <=> Distinct(clients) /\ (pc # "down" => Agrees(clients, silent))
    BY DEF RosterAgrees, Distinct, Agrees, Member, Members, Online, Names
  <2>2. TypeOK /\ NeverBlocked <=>
          /\ Table(clients) /\ silent \subseteq Name
          /\ sock \in [Slot -> Socket] /\ \A s \in Slot : clients[s].mode = "free" => sock[s] = Quiet
          /\ pc \in {"up", "down"} /\ batch \in Seq(Slot \cup {LISTEN})
          /\ cur \in Slot \cup {NOBODY} /\ lines \in 0 .. MaxLines
          /\ (lines > 0 => cur \in Slot)
    BY DEF TypeOK, NeverBlocked, Table, Active
  <2>3. BatchSound <=>
          /\ Waiting(batch, sock)
          /\ lines > 0 => clients[cur].mode # "free" /\ \A j \in 1 .. Len(batch) : batch[j] # cur
    BY DEF BatchSound, Waiting, Readable, Active
  <2> QED BY <2>1, <2>2, <2>3, Zenon DEF IInv, Sound
<1>2. IInv' <=> Sound(clients', sock', pc', batch', cur', lines', silent')
  <2>1. RosterAgrees' <=> Distinct(clients') /\ (pc' # "down" => Agrees(clients', silent'))
    BY DEF RosterAgrees, Distinct, Agrees, Member, Members, Online, Names
  <2>2. TypeOK' /\ NeverBlocked' <=>
          /\ Table(clients') /\ silent' \subseteq Name
          /\ sock' \in [Slot -> Socket] /\ \A s \in Slot : clients'[s].mode = "free" => sock'[s] = Quiet
          /\ pc' \in {"up", "down"} /\ batch' \in Seq(Slot \cup {LISTEN})
          /\ cur' \in Slot \cup {NOBODY} /\ lines' \in 0 .. MaxLines
          /\ (lines' > 0 => cur' \in Slot)
    BY DEF TypeOK, NeverBlocked, Table, Active
  <2>3. BatchSound' <=>
          /\ Waiting(batch', sock')
          /\ lines' > 0 => clients'[cur'].mode # "free" /\ \A j \in 1 .. Len(batch') : batch'[j] # cur'
    BY DEF BatchSound, Waiting, Readable, Active
  <2> QED BY <2>1, <2>2, <2>3, Zenon DEF IInv, Sound
<1> QED BY <1>1, <1>2

\* A line that is answered with a send_all() and the table cl.
LEMMA LineSends ==
  ASSUME IInv, pc = "up", lines > 0, NEW T, NEW n, NEW cl, send_all(T, cur, n, cl),
         Table(cl), Distinct(cl), Agrees(cl, silent'), silent' \subseteq Name,
         \A t \in Slot \ {cur} : cl[t].mode = clients[t].mode,
         batch' = batch,
         \/ lines' = 0 /\ cur' = NOBODY
         \/ Consume /\ cl[cur].mode # "free"
  PROVE  IInv'
<1>1. Sound(clients, sock, pc, batch, cur, lines, silent) /\ TypeOK
  BY Parts DEF IInv
<1>2. /\ cur \in Slot /\ clients[cur].mode # "free"
      /\ \A j \in 1 .. Len(batch) : batch[j] # cur
      /\ Waiting(batch, sock) /\ batch \in Seq(Slot \cup {LISTEN})
      /\ \A s \in Slot : clients[s].mode = "free" => sock[s] = Quiet
      /\ Table(clients) /\ Distinct(clients)
  BY <1>1 DEF Sound
<1>3. /\ \/ pc' = "down" /\ clients' = clients /\ sock' = sock
         \/ pc' = "up" /\ clients' = cl
      /\ Table(clients')
      /\ sock' \in [Slot -> Socket]
      /\ \A t \in Slot : clients'[t].mode = "free" => sock'[t] = Quiet
      /\ \A t \in Slot : clients'[t].mode # "free" /\ sock[t] # Quiet => sock'[t] # Quiet
  BY <1>1, Sends
<1>4. Distinct(clients') /\ (pc' # "down" => Agrees(clients', silent')) /\ pc' \in {"up", "down"}
  BY <1>2, <1>3
<1>5. Waiting(batch', sock')
  <2>1. \A t \in Slot \ {cur} : clients'[t].mode = clients[t].mode
    BY <1>3
  <2>2. ASSUME NEW j \in 1 .. Len(batch), batch[j] # LISTEN, sock[batch[j]] # Quiet
        PROVE  sock'[batch[j]] # Quiet
    <3>1. batch[j] \in Slot \ {cur}
      BY <1>2, <2>2
    <3> QED BY <1>2, <1>3, <2>1, <2>2, <3>1
  <2> QED BY <1>2, <2>2, StillWaiting
<1>6. /\ cur' \in Slot \cup {NOBODY} /\ lines' \in 0 .. MaxLines
      /\ lines' > 0 => cur' = cur /\ cl[cur].mode # "free"
  <2>1. CASE lines' = 0 /\ cur' = NOBODY
    BY <2>1, LinesAssumption
  <2>2. CASE Consume /\ cl[cur].mode # "free"
    <3>1. lines \in 0 .. MaxLines /\ lines' = lines - 1
          /\ cur' = (IF lines = 1 THEN NOBODY ELSE cur)
      BY <1>1, <2>2 DEF Sound, Consume
    <3> QED BY <1>2, <2>2, <3>1, LinesAssumption
  <2> QED BY <2>1, <2>2
<1>7. lines' > 0 =>
        cur' \in Slot /\ clients'[cur'].mode # "free" /\ \A j \in 1 .. Len(batch') : batch'[j] # cur'
  BY <1>2, <1>3, <1>6
<1> QED BY <1>2, <1>3, <1>4, <1>5, <1>6, <1>7, Parts DEF Sound

\* A line of client cur.
LEMMA LineStep == IInv /\ process_line => IInv'
<1> SUFFICES ASSUME IInv, process_line PROVE IInv'
  OBVIOUS
<1>1. Sound(clients, sock, pc, batch, cur, lines, silent)
  BY Parts
<1>2. pc = "up" /\ lines > 0
  BY DEF process_line, login_refused, login, show_user_list, quit, empty_line, group_message, InMode
<1>3. /\ Table(clients) /\ Distinct(clients) /\ Agrees(clients, silent) /\ silent \subseteq Name
      /\ cur \in Slot /\ clients[cur].mode # "free" /\ lines \in 0 .. MaxLines
  BY <1>1, <1>2 DEF Sound
<1>4. Member = Members(clients) /\ Online = Names(clients) /\ Others = Members(clients) \ {cur}
  BY DEF Member, Members, Online, Names, Others, broadcast_targets
<1>5. CASE login_refused
  BY <1>2, <1>3, <1>5, LineSends DEF login_refused, Consume
<1>6. CASE login
  <2>1. PICK n \in Name :
          /\ n \notin Names(clients)
          /\ send_all(Others, cur, 2,
               [Told(clients, Others, {n}, {}) EXCEPT ![cur] =
                  [mode |-> "in", name |-> n, view |-> Online \cup {n}]])
          /\ silent' = silent \ {n}
    BY <1>4, <1>6, Zenon DEF login, username_in_use
  <2>2. clients[cur].mode = "login" /\ Consume
    BY <1>6 DEF login, InMode
  <2> DEFINE d == [Told(clients, Members(clients) \ {cur}, {n}, {}) EXCEPT ![cur] =
                     [mode |-> "in", name |-> n, view |-> Names(clients) \cup {n}]]
  <2>3. send_all(Others, cur, 2, d)
    BY <1>4, <2>1
  <2>4. /\ Table(d) /\ Distinct(d) /\ Agrees(d, silent \ {n}) /\ d[cur].mode = "in"
        /\ \A t \in Slot \ {cur} : d[t].mode = clients[t].mode
    BY <1>3, <2>1, <2>2, Arrival
  <2>5. silent' \subseteq Name /\ batch' = batch
    BY <1>3, <2>1, <2>2 DEF Consume
  <2> HIDE DEF d
  <2> QED BY <1>2, <2>1, <2>2, <2>3, <2>4, <2>5, LineSends
<1>7. CASE show_user_list
  <2> DEFINE d == [clients EXCEPT ![cur].view = Names(clients)]
  <2>1. /\ send_all({}, cur, 2, d) /\ Consume /\ silent' = silent
        /\ cur \in Members(clients)
    BY <1>3, <1>4, <1>7 DEF show_user_list, InMode, Members
  <2>2. /\ Table(d) /\ Distinct(d) /\ Agrees(d, silent)
        /\ \A t \in Slot : d[t].mode = clients[t].mode
    BY <1>3, <2>1, Listing
  <2>3. silent' \subseteq Name /\ batch' = batch
    BY <1>3, <2>1 DEF Consume
  <2> HIDE DEF d
  <2> QED BY <1>2, <1>3, <2>1, <2>2, <2>3, LineSends
<1>8. CASE quit
  <2> DEFINE d == disconnect_client(
                    Told(clients, Members(clients) \ {cur}, {}, {clients[cur].name}), cur)
  <2>1. /\ send_all(Others, cur, 1, d) /\ silent' = silent /\ batch' = batch
        /\ lines' = 0 /\ cur' = NOBODY /\ cur \in Members(clients)
    BY <1>3, <1>4, <1>8 DEF quit, InMode, Members, MyName
  <2>2. /\ Table(d) /\ Distinct(d) /\ Agrees(d, silent)
        /\ \A t \in Slot \ {cur} : d[t].mode = clients[t].mode
    BY <1>3, <2>1, Departure
  <2> HIDE DEF d
  <2> QED BY <1>2, <1>3, <2>1, <2>2, LineSends
<1>9. CASE empty_line
  <2>1. /\ lines' = lines - 1 /\ cur' = (IF lines = 1 THEN NOBODY ELSE cur)
        /\ batch' = batch /\ UNCHANGED <<clients, sock, pc, silent>>
    BY <1>9 DEF empty_line, Consume
  <2>2. lines' \in 0 .. MaxLines /\ (lines' > 0 => cur' = cur) /\ cur' \in Slot \cup {NOBODY}
    BY <1>2, <1>3, <2>1, LinesAssumption
  <2> QED BY <1>1, <1>2, <2>1, <2>2, Parts DEF Sound
<1>10. CASE group_message
  BY <1>2, <1>3, <1>10, LineSends DEF group_message, Consume
<1> QED BY <1>5, <1>6, <1>7, <1>8, <1>9, <1>10 DEF process_line

\* epoll_wait() and accept().
LEMMA LoopStep == IInv /\ (epoll_wait \/ accept) => IInv'
<1> SUFFICES ASSUME IInv, epoll_wait \/ accept PROVE IInv'
  OBVIOUS
<1>1. Sound(clients, sock, pc, batch, cur, lines, silent)
  BY Parts
<1>2. CASE epoll_wait
  <2>1. PICK hot : /\ hot \in SUBSET (Slot \cup {LISTEN}) /\ \A x \in hot \ {LISTEN} : sock[x] # Quiet
                   /\ batch' \in {q \in [1 .. Cardinality(hot) -> hot] :
                                    \A j, k \in 1 .. Cardinality(hot) : j # k => q[j] # q[k]}
    BY <1>2 DEF epoll_wait, Readable
  <2>2. /\ lines = 0 /\ lines' = lines /\ cur' = cur
        /\ UNCHANGED <<clients, sock, pc, silent>>
    BY <1>2 DEF epoll_wait
  <2>3. Cardinality(hot) \in Nat
    <3>1. IsFiniteSet(Slot)
      BY FS_Interval, ClientsAssumption DEF Slot
    <3>2. IsFiniteSet(Slot \cup {LISTEN})
      BY <3>1, FS_AddElement
    <3> QED BY <2>1, <3>2, FS_Subset, FS_CardinalityType
  <2> DEFINE n == Cardinality(hot)
             D == Slot \cup {LISTEN}
  <2> HIDE DEF n
  <2>4. /\ n \in Nat /\ batch' \in [1 .. n -> hot] /\ hot \subseteq D
        /\ \A j, k \in 1 .. n : j # k => batch'[j] # batch'[k]
    BY <2>1, <2>3 DEF n
  <2> HIDE DEF D
  <2>5. batch' \in Seq(D) /\ Len(batch') = n
    BY <2>4
  <2>6. Waiting(batch', sock)
    BY <2>1, <2>4, <2>5 DEF Waiting
  <2> QED BY <1>1, <2>2, <2>5, <2>6, Parts DEF Sound, D
<1>3. CASE accept
  <2>1. /\ pc = "up" /\ lines = 0 /\ batch # << >> /\ batch' = Tail(batch)
        /\ UNCHANGED <<pc, cur, lines, silent>>
    BY <1>3 DEF accept
  <2>2. /\ Table(clients) /\ Distinct(clients) /\ Agrees(clients, silent)
        /\ batch \in Seq(Slot \cup {LISTEN}) /\ Waiting(batch, sock) /\ sock \in [Slot -> Socket]
        /\ \A s \in Slot : clients[s].mode = "free" => sock[s] = Quiet
    BY <1>1, <2>1 DEF Sound
  <2>3. batch' \in Seq(Slot \cup {LISTEN}) /\ Waiting(batch', sock)
    BY <2>1, <2>2, NextEvent
  <2>4. CASE UNCHANGED <<clients, sock>>
    BY <1>1, <2>1, <2>3, <2>4, Parts DEF Sound
  <2>5. ASSUME NEW s \in find_free_client,
               clients' = [clients EXCEPT ![s] = [FreeSlot EXCEPT !.mode = "login"]],
               sock' \in {sock} \cup
                 {[sock EXCEPT ![s] = [data |-> d, end |-> "dead"]] : d \in BOOLEAN}
        PROVE  IInv'
    <3>1. s \in Slot /\ clients[s].mode = "free"
      BY DEF find_free_client, Active
    <3>2. /\ Table(clients') /\ Distinct(clients') /\ Agrees(clients', silent)
          /\ clients'[s].mode = "login" /\ \A t \in Slot \ {s} : clients'[t].mode = clients[t].mode
      BY <2>2, <2>5, <3>1, Acceptance
    <3>3. /\ sock' \in [Slot -> Socket] /\ \A t \in Slot \ {s} : sock'[t] = sock[t]
      BY <2>2, <2>5, <3>1 DEF Socket
    <3>4. Waiting(batch', sock')
      <4>1. ASSUME NEW j \in 1 .. Len(batch'), batch'[j] # LISTEN, sock[batch'[j]] # Quiet
            PROVE  sock'[batch'[j]] # Quiet
        <5>1. batch'[j] \in Slot \ {s}
          BY <2>2, <2>3, <3>1, <4>1
        <5> QED BY <3>3, <4>1, <5>1
      <4> QED BY <2>3, <4>1, StillWaiting
    <3>5. \A t \in Slot : clients'[t].mode = "free" => sock'[t] = Quiet
      BY <2>2, <3>2, <3>3
    <3> QED BY <1>1, <2>1, <2>3, <3>2, <3>3, <3>4, <3>5, Parts DEF Sound
  <2> QED BY <1>3, <2>4, <2>5 DEF accept
<1> QED BY <1>2, <1>3

\* The first event of a batch, a client's, and the batch that is left.
LEMMA FirstEvent ==
  ASSUME IInv, NEW s \in Slot, EventOf(s)
  PROVE  /\ Table(clients) /\ Distinct(clients) /\ Agrees(clients, silent)
         /\ TypeOK /\ pc = "up" /\ lines = 0 /\ sock[s] # Quiet /\ clients[s].mode # "free"
         /\ Tail(batch) \in Seq(Slot \cup {LISTEN}) /\ Waiting(Tail(batch), sock)
         /\ \A j \in 1 .. Len(Tail(batch)) : Tail(batch)[j] # s
<1>1. Sound(clients, sock, pc, batch, cur, lines, silent) /\ TypeOK
  BY Parts DEF IInv
<1>2. pc # "down" /\ lines = 0 /\ batch # << >> /\ Head(batch) = s
  BY DEF EventOf
<1>3. s # LISTEN
  BY ClientsAssumption DEF Slot, LISTEN
<1>4. batch \in Seq(Slot \cup {LISTEN}) /\ Waiting(batch, sock)
  BY <1>1 DEF Sound
<1>5. /\ Tail(batch) \in Seq(Slot \cup {LISTEN}) /\ Waiting(Tail(batch), sock)
      /\ sock[s] # Quiet /\ \A j \in 1 .. Len(Tail(batch)) : Tail(batch)[j] # s
  BY <1>2, <1>3, <1>4, NextEvent
<1> QED BY <1>1, <1>2, <1>5 DEF Sound

\* A step that only touches the socket and the client of the first event.
LEMMA OwnEvent ==
  ASSUME IInv, NEW s \in Slot, EventOf(s), batch' = Tail(batch),
         sock' \in [Slot -> Socket], \A t \in Slot \ {s} : sock'[t] = sock[t]
  PROVE  Waiting(batch', sock') /\ batch' \in Seq(Slot \cup {LISTEN})
<1>1. /\ batch' \in Seq(Slot \cup {LISTEN}) /\ Waiting(batch', sock)
      /\ \A j \in 1 .. Len(batch') : batch'[j] # s
  BY FirstEvent
<1>2. ASSUME NEW j \in 1 .. Len(batch'), batch'[j] # LISTEN, sock[batch'[j]] # Quiet
      PROVE  sock'[batch'[j]] # Quiet
  <2>1. batch'[j] \in Slot \ {s}
    BY <1>1, <1>2
  <2> QED BY <1>2, <2>1
<1> QED BY <1>1, <1>2, StillWaiting

\* The handlers of a client's event.
LEMMA EventStep ==
  ASSUME IInv, NEW s \in Slot,
         receive(s) \/ overflow(s) \/ recv_error(s) \/ recv_end(s)
  PROVE  IInv'
<1>1. Sound(clients, sock, pc, batch, cur, lines, silent) /\ EventOf(s)
  BY Parts DEF receive, overflow, recv_error, recv_end
<1>2. /\ Table(clients) /\ Distinct(clients) /\ Agrees(clients, silent)
      /\ TypeOK /\ pc = "up" /\ lines = 0 /\ sock[s] # Quiet /\ clients[s].mode # "free"
      /\ Tail(batch) \in Seq(Slot \cup {LISTEN}) /\ Waiting(Tail(batch), sock)
      /\ \A j \in 1 .. Len(Tail(batch)) : Tail(batch)[j] # s
  BY <1>1, FirstEvent
<1>3. /\ sock \in [Slot -> Socket] /\ silent \subseteq Name /\ cur \in Slot \cup {NOBODY}
      /\ \A t \in Slot : clients[t].mode = "free" => sock[t] = Quiet
  BY <1>1 DEF Sound
<1>4. CASE receive(s)
  <2>1. /\ sock' = [sock EXCEPT ![s].data = FALSE] /\ pc' = "up" /\ batch' = Tail(batch)
        /\ clients' = clients /\ silent' = silent
    BY <1>4 DEF receive
  <2>2. PICK n \in 0 .. MaxLines : lines' = n /\ cur' = IF n = 0 THEN NOBODY ELSE s
    BY <1>4 DEF receive
  <2>3. sock' \in [Slot -> Socket] /\ \A t \in Slot \ {s} : sock'[t] = sock[t]
    BY <1>3, <2>1 DEF Socket
  <2>4. Waiting(batch', sock')
    BY <1>1, <2>1, <2>3, OwnEvent
  <2> QED BY <1>2, <1>3, <2>1, <2>2, <2>3, <2>4, Parts DEF Sound
<1>5. CASE overflow(s)
  <2>1. /\ batch' = Tail(batch) /\ pc' \in {"up", "down"}
        /\ \/ sock' = sock
           \/ sock' = [AfterSend({s}, clients) EXCEPT ![s].data = FALSE]
        /\ UNCHANGED <<clients, cur, lines, silent>>
    BY <1>5 DEF overflow
  <2>2. sock' \in [Slot -> Socket] /\ \A t \in Slot \ {s} : sock'[t] = sock[t]
    <3>1. CASE sock' = sock
      BY <1>3, <3>1
    <3>2. CASE sock' = [AfterSend({s}, clients) EXCEPT ![s].data = FALSE]
      <4> DEFINE a == AfterSend({s}, clients)
      <4>1. a[s] \in Socket /\ \A t \in Slot \ {s} : a[t] = sock[t]
        <5>1. /\ a[s] = IF clients[s] = FreeSlot THEN Quiet
                        ELSE IF sock[s].end = "rst" THEN [sock[s] EXCEPT !.end = "dead"] ELSE sock[s]
              /\ \A t \in Slot \ {s} : a[t] = IF clients[t] = FreeSlot THEN Quiet ELSE sock[t]
          BY DEF AfterSend
        <5>2. FreeSlot.mode = "free" /\ Quiet \in Socket
          BY DEF FreeSlot, Quiet, Socket
        <5>3. sock[s] \in Socket /\ [sock[s] EXCEPT !.end = "dead"] \in Socket
          BY <1>3 DEF Socket
        <5> QED BY <1>3, <5>1, <5>2, <5>3
      <4>2. sock' = [a EXCEPT ![s].data = FALSE] /\ DOMAIN a = Slot
        BY <3>2 DEF AfterSend
      <4>3. a = [t \in Slot |-> a[t]]
        BY DEF AfterSend
      <4> HIDE DEF a
      <4>4. a \in [Slot -> Socket]
        BY <1>3, <4>1, <4>3
      <4>5. [a[s] EXCEPT !.data = FALSE] \in Socket
        BY <4>1 DEF Socket
      <4> QED BY <4>1, <4>2, <4>4, <4>5
    <3> QED BY <2>1, <3>1, <3>2
  <2>3. Waiting(batch', sock')
    BY <1>1, <2>1, <2>2, OwnEvent
  <2>4. \A t \in Slot : clients'[t].mode = "free" => sock'[t] = Quiet
    BY <1>2, <1>3, <2>1, <2>2
  <2> QED BY <1>1, <1>2, <1>3, <2>1, <2>2, <2>3, <2>4, Parts DEF Sound
<1>6. CASE recv_error(s)
  <2>1. /\ clients' = disconnect_client(clients, s) /\ sock' = [sock EXCEPT ![s] = Quiet]
        /\ silent' = silent \cup ({clients[s].name} \ {NOBODY})
        /\ pc' = "up" /\ batch' = Tail(batch) /\ UNCHANGED <<cur, lines>>
    BY <1>6 DEF recv_error
  <2>2. Quiet \in Socket
    BY DEF Quiet, Socket
  <2>3. sock' \in [Slot -> Socket] /\ sock'[s] = Quiet /\ \A t \in Slot \ {s} : sock'[t] = sock[t]
    BY <1>3, <2>1, <2>2
  <2>4. Waiting(batch', sock')
    BY <1>1, <2>1, <2>3, OwnEvent
  <2>5. /\ Table(clients') /\ Distinct(clients') /\ Agrees(clients', silent')
        /\ \A t \in Slot \ {s} : clients'[t].mode = clients[t].mode
    BY <1>2, <2>1, Disconnection
  <2>6. silent' \subseteq Name
    BY <1>2, <1>3, <2>1 DEF Table, Client
  <2>7. \A t \in Slot : clients'[t].mode = "free" => sock'[t] = Quiet
    BY <1>3, <2>3, <2>5
  <2> QED BY <1>1, <1>2, <1>3, <2>1, <2>3, <2>4, <2>5, <2>6, <2>7, Parts DEF Sound
<1>7. CASE recv_end(s)
  <2> DEFINE T == IF s \in Member THEN broadcast_targets(s) ELSE {}
             d == disconnect_client(Told(clients, T, {}, {clients[s].name}), s)
  <2>1. /\ send_all(T, s, 0, d) /\ batch' = Tail(batch)
        /\ UNCHANGED <<cur, lines, silent>>
    BY <1>2, <1>7 DEF recv_end, Readable
  <2>2. /\ Table(d) /\ Distinct(d) /\ Agrees(d, silent)
        /\ \A t \in Slot \ {s} : d[t].mode = clients[t].mode
    <3>1. CASE s \in Members(clients)
      <4>1. T = Members(clients) \ {s}
        BY <3>1 DEF Member, Members, broadcast_targets
      <4> QED BY <1>2, <3>1, <4>1, Departure
    <3>2. CASE s \notin Members(clients)
      <4>1. T = {}
        BY <3>2 DEF Member, Members
      <4>2. clients = [t \in Slot |-> clients[t]]
        BY <1>2 DEF Table
      <4>3. Told(clients, {}, {}, {clients[s].name}) = clients
        BY <4>2 DEF Told
      <4>4. d = disconnect_client(clients, s)
        BY <4>1, <4>3
      <4> HIDE DEF d
      <4> QED BY <1>2, <3>2, <4>4, Disconnection
    <3> QED BY <3>1, <3>2
  <2> HIDE DEF d, T
  <2>3. /\ \/ pc' = "down" /\ clients' = clients /\ sock' = sock
           \/ pc' = "up" /\ clients' = d
        /\ Table(clients')
        /\ sock' \in [Slot -> Socket]
        /\ \A t \in Slot : clients'[t].mode = "free" => sock'[t] = Quiet
        /\ \A t \in Slot : clients'[t].mode # "free" /\ sock[t] # Quiet => sock'[t] # Quiet
    BY <1>2, <2>1, <2>2, Sends
  <2>4. Distinct(clients') /\ (pc' # "down" => Agrees(clients', silent')) /\ pc' \in {"up", "down"}
    BY <1>2, <2>1, <2>2, <2>3
  <2>5. Waiting(batch', sock')
    <3>1. ASSUME NEW j \in 1 .. Len(Tail(batch)), Tail(batch)[j] # LISTEN,
                 sock[Tail(batch)[j]] # Quiet
          PROVE  sock'[Tail(batch)[j]] # Quiet
      <4>1. Tail(batch)[j] \in Slot \ {s}
        BY <1>2, <3>1
      <4>2. \A t \in Slot \ {s} : clients'[t].mode = clients[t].mode
        BY <2>2, <2>3
      <4> QED BY <1>3, <2>3, <3>1, <4>1, <4>2
    <3> QED BY <1>2, <2>1, <3>1, StillWaiting
  <2> QED BY <1>1, <1>2, <1>3, <2>1, <2>3, <2>4, <2>5, Parts DEF Sound
<1> QED BY <1>4, <1>5, <1>6, <1>7

\* What the peer of a slot in use does leaves its socket with something to receive.
LEMMA PeerStep ==
  ASSUME IInv, NEW s \in Slot, peer_send(s) \/ peer_close(s) \/ peer_reset(s)
  PROVE  IInv'
<1>1. Sound(clients, sock, pc, batch, cur, lines, silent)
  BY Parts
<1>2. /\ sock \in [Slot -> Socket] /\ batch \in Seq(Slot \cup {LISTEN}) /\ Waiting(batch, sock)
      /\ \A t \in Slot : clients[t].mode = "free" => sock[t] = Quiet
  BY <1>1 DEF Sound
<1>3. /\ clients[s].mode # "free" /\ UNCHANGED <<clients, pc, batch, cur, lines, silent>>
  BY DEF peer_send, peer_close, peer_reset, Active, loop_vars
<1>4. \E e \in {"open", "fin", "rst", "dead"} : \E b \in BOOLEAN :
        /\ sock' = [sock EXCEPT ![s] = [data |-> b, end |-> e]]
        /\ b \/ e # "open"
  <2>1. sock[s] \in Socket /\ sock[s].end \in {"open", "fin", "rst", "dead"} /\ sock[s].data \in BOOLEAN
        /\ sock[s] = [data |-> sock[s].data, end |-> sock[s].end]
    BY <1>2 DEF Socket
  <2> DEFINE r == sock[s]
  <2>2. /\ [r EXCEPT !.data = TRUE] = [data |-> TRUE, end |-> r.end]
        /\ \A e \in {"fin", "rst", "dead"} : [r EXCEPT !.end = e] = [data |-> r.data, end |-> e]
    <3> HIDE DEF r
    <3>1. r = [data |-> r.data, end |-> r.end]
      BY <2>1 DEF r
    <3>2. ASSUME NEW b PROVE [r EXCEPT !.data = b] = [data |-> b, end |-> r.end]
      BY <3>1
    <3>3. ASSUME NEW e PROVE [r EXCEPT !.end = e] = [data |-> r.data, end |-> e]
      BY <3>1
    <3> QED BY <3>2, <3>3
  <2>3. CASE peer_send(s)
    <3>1. sock' = [sock EXCEPT ![s] = [data |-> TRUE, end |-> sock[s].end]]
      BY <2>3, <2>2 DEF peer_send
    <3> QED BY <2>1, <3>1
  <2>4. CASE peer_close(s)
    <3>1. sock' = [sock EXCEPT ![s] = [data |-> sock[s].data, end |-> "fin"]]
      BY <2>4, <2>2 DEF peer_close
    <3> QED BY <2>1, <3>1
  <2>5. CASE peer_reset(s)
    <3>1. \E e \in {"rst", "dead"} : sock' = [sock EXCEPT ![s] = [data |-> sock[s].data, end |-> e]]
      <4>1. \E e \in {"rst", "dead"} : sock' = [sock EXCEPT ![s] = [r EXCEPT !.end = e]]
        BY <2>5 DEF peer_reset
      <4> QED BY <2>2, <4>1
    <3> QED BY <2>1, <3>1
  <2> QED BY <2>3, <2>4, <2>5
<1>5. sock' \in [Slot -> Socket] /\ sock'[s] # Quiet /\ \A t \in Slot \ {s} : sock'[t] = sock[t]
  BY <1>2, <1>4 DEF Socket, Quiet
<1>6. Waiting(batch', sock')
  <2>1. ASSUME NEW j \in 1 .. Len(batch), batch[j] # LISTEN, sock[batch[j]] # Quiet
        PROVE  sock'[batch[j]] # Quiet
    <3>1. batch[j] \in Slot
      BY <1>2, <2>1
    <3> QED BY <1>5, <2>1, <3>1
  <2> QED BY <1>2, <1>3, <2>1, StillWaiting
<1>7. \A t \in Slot : clients'[t].mode = "free" => sock'[t] = Quiet
  BY <1>2, <1>3, <1>5
<1> QED BY <1>1, <1>3, <1>5, <1>6, <1>7, Parts DEF Sound

\* The server starts with an empty table.
LEMMA InitHolds == Init => IInv
<1> SUFFICES ASSUME Init PROVE IInv
  OBVIOUS
<1>1. FreeSlot \in Client /\ FreeSlot.mode = "free" /\ Quiet \in Socket
  BY DEF FreeSlot, Client, Quiet, Socket
<1>2. /\ Table(clients) /\ Members(clients) = {} /\ sock \in [Slot -> Socket]
      /\ \A s \in Slot : clients[s].mode = "free" => sock[s] = Quiet
  BY <1>1 DEF Init, Table, Members
<1>3. Distinct(clients) /\ Agrees(clients, silent)
  BY <1>2 DEF Distinct, Agrees
<1>4. batch \in Seq(Slot \cup {LISTEN}) /\ Waiting(batch, sock)
  BY DEF Init, Waiting
<1>5. pc = "up" /\ cur = NOBODY /\ lines = 0 /\ silent = {} /\ 0 \in 0 .. MaxLines
  BY LinesAssumption DEF Init
<1> QED BY <1>2, <1>3, <1>4, <1>5, Parts DEF Sound

\* Every step of the server and of the peers keeps the inductive invariant.
LEMMA InvStep == IInv /\ [Next]_vars => IInv'
<1> SUFFICES ASSUME IInv, [Next]_vars PROVE IInv'
  OBVIOUS
<1>1. CASE epoll_wait \/ accept
  BY <1>1, LoopStep
<1>2. CASE process_line
  BY <1>2, LineStep
<1>3. ASSUME NEW s \in Slot, receive(s) \/ overflow(s) \/ recv_error(s) \/ recv_end(s)
      PROVE  IInv'
  BY <1>3, EventStep
<1>4. ASSUME NEW s \in Slot, peer_send(s) \/ peer_close(s) \/ peer_reset(s)
      PROVE  IInv'
  BY <1>4, PeerStep
<1>5. CASE UNCHANGED vars
  BY <1>5, Parts DEF vars, loop_vars
<1> QED BY <1>1, <1>2, <1>3, <1>4, <1>5 DEF Next, server

-----------------------------------------------------------------------------
(* The theorems.                                                           *)

\* IInv holds in every reachable state.
THEOREM InductiveInvariant == Spec => []IInv
<1> QED BY InitHolds, InvStep, PTL DEF Spec

\* The types of the client table, the sockets and the loop's variables.
THEOREM TypeCorrect == Spec => []TypeOK
<1>1. IInv => TypeOK
  BY DEF IInv
<1> QED BY <1>1, InductiveInvariant, PTL

\* No two members share a name and every member knows who is online, and of those
\* who are not still counts only members that a receive error took without the
\* notice (process_login(), disconnect_client() and the receive error of
\* server_group.c:917).
THEOREM RosterAgreesHolds == Spec => []RosterAgrees
<1>1. IInv => RosterAgrees
  BY DEF IInv
<1> QED BY <1>1, InductiveInvariant, PTL

\* The server never calls recv() on a descriptor that has nothing to return: no
\* event of a batch outlives its client and reaches the next one in its slot
\* (server_group.c:888).
THEOREM NeverBlockedHolds == Spec => []NeverBlocked
<1>1. IInv => NeverBlocked
  BY DEF IInv
<1> QED BY <1>1, InductiveInvariant, PTL
=============================================================================
