----------------------------- MODULE GroupChat ------------------------------
(***************************************************************************)
(* The group chat server (chat/server_group.c): one thread, one epoll      *)
(* instance, blocking sockets, a table of clients that are choosing a name *)
(* or are members, and broadcasts to all members.                          *)
(*                                                                         *)
(* The events of a batch are handled one by one and the lines of a chunk   *)
(* each in a step of its own; what was typed is chosen when a line is      *)
(* handled.  Peers send, close and reset between any two steps.  The       *)
(* kernel's sockets are external: the first send() to a connection that    *)
(* was reset fails, a further one, or one to a peer that had closed first, *)
(* raises SIGPIPE, which the server does not handle.  As in ChatServer a   *)
(* client's descriptor is its slot.                                        *)
(***************************************************************************)
EXTENDS Integers, Sequences, FiniteSets

CONSTANTS
  MAX_CLIENTS,
  Name,        \* usernames peers type
  MaxLines,    \* bound: complete lines in the buffer after one recv()
  NOBODY       \* no name, no client

ASSUME ClientsAssumption == MAX_CLIENTS \in Nat
ASSUME LinesAssumption == MaxLines \in Nat
ASSUME NobodyAssumption == NOBODY \notin Name

Slot == 1 .. MAX_CLIENTS
LISTEN == 0     \* server_fd among the descriptors of a batch

VARIABLES
  clients,    \* clients[s]: free, choosing a name or a member; and (history, view)
              \* the members the list and the notices sent to it have named, with
              \* a notice counted also when its send() failed
  sock,       \* sock[s]: unread bytes, and how the peer ended: "open", "fin",
              \* "rst", or "dead" when a reset has no error left to report
  pc,         \* "up", "blocked" in recv(), or "down"
  batch,      \* the descriptors epoll_wait() returned and the loop has not handled
  cur, lines, \* the client whose lines are handled, and how many are left
  silent      \* names that left without a notice and have not come back

loop_vars == <<pc, batch, cur, lines>>
vars == <<clients, sock, loop_vars, silent>>

FreeSlot == [mode |-> "free", name |-> NOBODY, view |-> {}]
Quiet == [data |-> FALSE, end |-> "open"]
Active(s) == clients[s].mode # "free"
Readable(s) == sock[s] # Quiet
Member == {s \in Slot : clients[s].mode = "in"}
Online == {clients[s].name : s \in Member}

find_free_client == {s \in Slot : ~Active(s) /\ \A t \in 1 .. s - 1 : Active(t)}
username_in_use(n) == n \in Online
DisconnectKeepsName(cl, s) == [cl EXCEPT ![s].mode = "free"]
disconnect_client(cl, s) == [cl EXCEPT ![s] = FreeSlot]

-----------------------------------------------------------------------------
(* Sending.                                                                *)

\* The members a broadcast goes to.
broadcast_targets(s) == Member \ {s}

\* Send once to every slot of T, n times to slot s (2 stands for more than one),
\* and go on with the table cl: unless a send() raises SIGPIPE.
Hit(T, s, n) == T \cup (IF n > 0 THEN {s} ELSE {})
Raises(T, s, n) ==
  \/ \E t \in Hit(T, s, n) : sock[t].end = "dead"
  \/ n > 1 /\ sock[s].end = "rst"
AfterSend(T, cl) ==
  [t \in Slot |-> IF cl[t] = FreeSlot THEN Quiet
                  ELSE IF t \in T /\ sock[t].end = "rst" THEN [sock[t] EXCEPT !.end = "dead"]
                  ELSE sock[t]]
DropFailed(T, s, n, cl) ==
  IF Raises(T, s, n) THEN pc' = "down" /\ UNCHANGED <<clients, sock>>
  ELSE LET ok == [t \in Slot |-> IF t \in T /\ sock[t].end = "rst" THEN FreeSlot ELSE cl[t]]
       IN  /\ pc' = "up" /\ clients' = ok
           /\ sock' = AfterSend(Hit(T, s, n), ok)
send_all(T, s, n, cl) ==
  IF Raises(T, s, n) THEN pc' = "down" /\ UNCHANGED <<clients, sock>>
  ELSE /\ pc' = "up" /\ clients' = cl
       /\ sock' = AfterSend(Hit(T, s, n), cl)

\* The members of T are told that somebody joined or left: a notice counts as told
\* whether or not its send succeeds (broadcast_message() only logs a failure).
Told(cl, T, add, del) ==
  [t \in Slot |-> IF t \in T THEN [cl[t] EXCEPT !.view = (@ \cup add) \ del] ELSE cl[t]]

-----------------------------------------------------------------------------
(* process_line() for one complete line of client cur.                     *)

InMode(m) == pc = "up" /\ lines > 0 /\ clients[cur].mode = m
Consume == lines' = lines - 1 /\ cur' = (IF lines = 1 THEN NOBODY ELSE cur) /\ UNCHANGED batch
Others == broadcast_targets(cur)
MyName == clients[cur].name

\* process_login(): a name that is empty, too long or in use is asked for again.
login_refused ==
  /\ InMode("login")
  /\ send_all({}, cur, 1, clients)
  /\ Consume /\ UNCHANGED silent
login ==
  /\ InMode("login")
  /\ \E n \in Name :
       /\ ~username_in_use(n)
       /\ send_all(Others, cur, 2,
            [Told(clients, Others, {n}, {}) EXCEPT ![cur] =
               [mode |-> "in", name |-> n, view |-> Online \cup {n}]])
       /\ silent' = silent \ {n}
  /\ Consume

\* process_group_message(): /users, /quit, an empty line, a message.
show_user_list ==
  /\ InMode("in")
  /\ send_all({}, cur, 2, [clients EXCEPT ![cur].view = Online])
  /\ Consume /\ UNCHANGED silent
quit ==
  /\ InMode("in")
  /\ send_all(Others, cur, 1,
              disconnect_client(Told(clients, Others, {}, {MyName}), cur))
  /\ lines' = 0 /\ cur' = NOBODY /\ UNCHANGED <<batch, silent>>
empty_line ==
  /\ InMode("in")
  /\ Consume /\ UNCHANGED <<clients, sock, pc, silent>>
group_message ==
  /\ InMode("in")
  /\ send_all(Others, cur, 0, clients)
  /\ Consume /\ UNCHANGED silent

process_line ==
  login_refused \/ login \/ show_user_list \/ quit \/ empty_line \/ group_message

-----------------------------------------------------------------------------
(* The event loop.                                                         *)

\* The ready descriptors in some order; a peer may be waiting to be accepted.
epoll_wait ==
  /\ pc = "up" /\ lines = 0 /\ batch = << >>
  /\ \E hot \in {{s \in Slot : Readable(s)}, {s \in Slot : Readable(s)} \cup {LISTEN}} :
       LET n == Cardinality(hot)
       IN  /\ hot # {}
           /\ batch' \in {q \in [1 .. n -> hot] : \A j, k \in 1 .. n : j # k => q[j] # q[k]}
  /\ UNCHANGED <<clients, sock, pc, cur, lines, silent>>

\* The lowest free slot, unless the table is full or epoll_ctl() fails.  The send
\* of the prompt takes the error of a peer that is gone already.
accept ==
  /\ pc = "up" /\ lines = 0 /\ batch # << >> /\ Head(batch) = LISTEN
  /\ batch' = Tail(batch)
  /\ \/ \E s \in find_free_client :
          /\ clients' = [clients EXCEPT ![s] = [FreeSlot EXCEPT !.mode = "login"]]
          /\ sock' \in {sock} \cup
                {[sock EXCEPT ![s] = [data |-> d, end |-> "dead"]] : d \in BOOLEAN}
     \/ UNCHANGED <<clients, sock>>
  /\ UNCHANGED <<pc, cur, lines, silent>>

EventOf(s) == pc # "down" /\ lines = 0 /\ batch # << >> /\ Head(batch) = s

\* recv() returned bytes: n complete lines are now in the buffer.
receive(s) ==
  /\ EventOf(s) /\ sock[s].data /\ sock' = [sock EXCEPT ![s].data = FALSE]
  /\ \E n \in 0 .. MaxLines : lines' = n /\ cur' = IF n = 0 THEN NOBODY ELSE s
  /\ pc' = "up" /\ batch' = Tail(batch)
  /\ UNCHANGED <<clients, silent>>

\* The buffer would overflow: it is emptied and the client told.
overflow(s) ==
  /\ EventOf(s) /\ sock[s].data
  /\ IF Raises({}, s, 1) THEN pc' = "down" /\ UNCHANGED sock
     ELSE /\ pc' = "up"
          /\ sock' = [AfterSend({s}, clients) EXCEPT ![s].data = FALSE]
  /\ batch' = Tail(batch)
  /\ UNCHANGED <<clients, cur, lines, silent>>

\* recv() returned -1: the client is dropped and nobody is told.
ErrorIgnored(s) ==
  /\ EventOf(s) /\ ~sock[s].data /\ sock[s].end = "rst"
  /\ pc' = "up" /\ batch' = Tail(batch)
  /\ UNCHANGED <<clients, sock, cur, lines, silent>>
recv_error(s) ==
  /\ EventOf(s) /\ ~sock[s].data /\ sock[s].end = "rst"
  /\ clients' = disconnect_client(clients, s)
  /\ sock' = [sock EXCEPT ![s] = Quiet]
  /\ silent' = silent \cup ({clients[s].name} \ {NOBODY})
  /\ pc' = "up" /\ batch' = Tail(batch)
  /\ UNCHANGED <<cur, lines>>

\* recv() returned 0: the others are told, if a member left.  Here too belong an
\* event whose client is gone, which is skipped, and one of a client that has
\* nothing to receive, on whose descriptor recv() blocks.
NoticeAfterDisconnect(s) ==
  /\ EventOf(s) /\ ~sock[s].data /\ sock[s].end # "rst"
  /\ send_all(broadcast_targets(s), s, 0, disconnect_client(clients, s))
  /\ batch' = Tail(batch)
  /\ UNCHANGED <<cur, lines, silent>>
recv_end(s) ==
  /\ EventOf(s) /\ ~sock[s].data /\ sock[s].end # "rst"
  /\ IF Active(s) /\ ~Readable(s)
       THEN pc' = "blocked" /\ UNCHANGED <<clients, sock, batch>>
       ELSE LET T == IF s \in Member THEN broadcast_targets(s) ELSE {}
            IN  /\ send_all(T, s, 0, disconnect_client(Told(clients, T, {}, {clients[s].name}), s))
                /\ batch' = Tail(batch)
  /\ UNCHANGED <<cur, lines, silent>>

server ==
  \/ epoll_wait \/ accept \/ process_line
  \/ \E s \in Slot : receive(s) \/ overflow(s) \/ recv_error(s) \/ recv_end(s)

-----------------------------------------------------------------------------
(* The peers.                                                              *)

peer_send(s) ==
  /\ Active(s) /\ sock[s] = Quiet /\ sock' = [sock EXCEPT ![s].data = TRUE]
  /\ UNCHANGED <<clients, loop_vars, silent>>
peer_close(s) ==
  /\ Active(s) /\ sock[s].end = "open" /\ sock' = [sock EXCEPT ![s].end = "fin"]
  /\ UNCHANGED <<clients, loop_vars, silent>>
peer_reset(s) ==
  /\ Active(s) /\ sock[s].end \in {"open", "fin"}
  /\ sock' = [sock EXCEPT ![s].end = IF @ = "open" THEN "rst" ELSE "dead"]
  /\ UNCHANGED <<clients, loop_vars, silent>>

Init ==
  /\ clients = [s \in Slot |-> FreeSlot] /\ sock = [s \in Slot |-> Quiet]
  /\ pc = "up" /\ batch = << >> /\ cur = NOBODY /\ lines = 0 /\ silent = {}

Next ==
  \/ server
  \/ \E s \in Slot : peer_send(s) \/ peer_close(s) \/ peer_reset(s)

Spec == Init /\ [][Next]_vars

\* The server's thread keeps running; nothing makes a peer act.
FairSpec == Spec /\ WF_vars(server)

-----------------------------------------------------------------------------
(* Properties.                                                             *)

Client == [mode : {"free", "login", "in"}, name : Name \cup {NOBODY}, view : SUBSET Name]
Socket == [data : BOOLEAN, end : {"open", "fin", "rst", "dead"}]

TypeOK ==
  /\ clients \in [Slot -> Client] /\ sock \in [Slot -> Socket]
  /\ \A s \in Slot : ~Active(s) => clients[s] = FreeSlot /\ sock[s] = Quiet
  /\ pc \in {"up", "blocked", "down"} /\ silent \subseteq Name
  /\ batch \in Seq(Slot \cup {LISTEN}) /\ cur \in Slot \cup {NOBODY}
  /\ lines \in 0 .. MaxLines /\ (lines > 0 => cur \in Slot)

\* No two members share a name, and every member was told of the others: whoever is
\* online is in the list and the notices the server sent it, arrived or not, and of
\* those who are not it still counts only members that left by a receive error,
\* without the notice of the other ways out (server_group.c:917).
RosterAgrees ==
  /\ \A s, t \in Member : s # t => clients[s].name # clients[t].name
  /\ pc # "down" =>
       \A s \in Member :
         Online \subseteq clients[s].view /\ clients[s].view \subseteq Online \cup silent

\* recv() on a blocking descriptor is only called when it has something to return:
\* a client is only disconnected in its own event, so no event of a batch outlives
\* its client and reaches another one (server_group.c:888).
NeverBlocked == pc # "blocked"

\* What a peer sent and its end are received, in whatever order the others keep
\* the server busy, unless a SIGPIPE takes the server down.
Served == \A s \in Slot : (pc = "up" /\ Readable(s)) ~> (pc # "up" \/ ~Readable(s))

-----------------------------------------------------------------------------
(* The inductive invariant behind the safety properties.                   *)

\* What waits in the batch is still there to be received, once for each slot, and
\* a client whose lines are handled has no event left in it.
BatchSound ==
  /\ \A j \in 1 .. Len(batch) : batch[j] # LISTEN => Readable(batch[j])
  /\ \A j, k \in 1 .. Len(batch) : j # k => batch[j] # batch[k]
  /\ lines > 0 => Active(cur) /\ \A j \in 1 .. Len(batch) : batch[j] # cur

\* IInv: every event of a batch finds its client with something to receive, and
\* every member knows the others (the event loop, send_all(), disconnect_client()).
IInv == TypeOK /\ BatchSound /\ RosterAgrees /\ NeverBlocked
=============================================================================
