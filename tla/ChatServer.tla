----------------------------- MODULE ChatServer -----------------------------
(***************************************************************************)
(* The chat server (chat/server.c): one thread, one epoll instance and     *)
(* blocking sockets; accounts in users[] and in users.db, messages in      *)
(* messages.db, a table of clients that are logging in, in the menu, in a  *)
(* chat or on the admin page.                                              *)
(*                                                                         *)
(* The server handles the events of one batch one by one, and every line   *)
(* of a received chunk in its own step; peers connect, send and close      *)
(* between any two steps.  A handler writes at most one file and writes it *)
(* before it sends anything, so a crash in its middle leaves what a crash  *)
(* before or after it leaves.  What a peer typed is chosen when its line   *)
(* is handled.  Saving may fail, or write a part of the file and report    *)
(* success; a name read from a line that was cut keeps the signs that      *)
(* followed it, is saved with them and read differently the next time.     *)
(* Descriptors and slots are both taken lowest first and freed together,   *)
(* so a client's descriptor is its slot.                                   *)
(***************************************************************************)
EXTENDS Integers, Sequences, FiniteSets

CONSTANTS
  Admin,        \* "ahmet"
  Name,         \* usernames peers type; process_line() lets no '|' into them
  Pieces,       \* Pieces[n]: the usernames n begins with
  Word,         \* Word[n]: what %31s takes for a name where n was written
  Room,         \* Room[n]: the characters behind it that %31s takes as well
  MAX_CLIENTS, MAX_USERS,
  MaxLines,     \* bound: complete lines in the buffer after one recv()
  MaxMessages,  \* bound: messages stored
  MaxFaults,    \* bound: writes that fail
  NOBODY        \* the -1 of chat_partner_id and of the find functions

ASSUME NameAssumption ==
  /\ Admin \in Name /\ Pieces \in [Name -> SUBSET Name]
  /\ Word \in [Name -> Name] /\ Room \in [Name -> Nat]
ASSUME TableAssumption == MAX_CLIENTS \in Nat /\ MAX_USERS \in Nat /\ MAX_USERS >= 1
ASSUME BoundAssumption ==
  MaxLines \in Nat /\ MaxMessages \in Nat /\ MaxFaults \in Nat

Slot == 1 .. MAX_CLIENTS
LISTEN == 0     \* server_fd among the descriptors of a batch

VARIABLES
  users,      \* users[0 .. user_count - 1]; while down, what memory held last
  users_db,   \* the lines of users.db
  messages,   \* the lines of messages.db: ids, and whose ids they were
  clients,    \* clients[s]: mode, user_id, chat_partner_id, menu_contact_ids
  pc,         \* "up", "blocked" in recv(), or "down"
  batch,      \* the descriptors epoll_wait() returned and the loop has not handled
  cur, lines, \* the client whose lines are handled, and how many are left
  reused,     \* slots accept() filled although the batch has an event of theirs
  readable,   \* slots whose peer has sent or closed since the last recv()
  faults,     \* writes that have failed
  \* history of the restarts, which no action looks at:
  torn,       \* the accounts that a start has read from a line cut short
  lost        \* an account was lost, or its name or rights changed

loop_vars == <<pc, batch, cur, lines, reused>>
disk_vars == <<users_db, messages>>
fault_vars == <<faults, torn, lost>>
vars == <<users, disk_vars, clients, loop_vars, readable, fault_vars>>

-----------------------------------------------------------------------------
(* Accounts.                                                               *)

\* A name, or what a line has behind the id: what was typed, and the signs that
\* came behind it in a file.
Sign == {"|", "0", "1"}
Text == {t \in Seq(Name \cup Sign) : t # << >> /\ t[1] \in Name}
Whole(t) == Len(t) = 1
User == [id : Nat, name : Text, active : BOOLEAN, is_admin : BOOLEAN]

\* The first index of a sequence that satisfies a test, 0 when there is none.
First(S) == IF S = {} THEN 0 ELSE CHOOSE k \in S : \A j \in S : k <= j
find_user_index_by_id(i) == First({k \in DOMAIN users : users[k].id = i})
find_user_index_by_name(u, n) == First({k \in DOMAIN u : u[k].name = <<n>>})
MaxActiveId(u) ==
  LET ids == {0} \cup {u[k].id : k \in {j \in DOMAIN u : u[j].active}}
  IN  CHOOSE m \in ids : \A i \in ids : i <= m
get_max_user_id(u) ==
  CHOOSE m \in {0} \cup {u[k].id : k \in DOMAIN u} : \A k \in DOMAIN u : u[k].id <= m

\* A line of users.db: id|username|active|admin, or the old id|username, and
\* (history) whether it was cut short.
Line == [id : Nat, text : Text, cut : BOOLEAN]
Written(i, t) == [id |-> i, text |-> t, cut |-> FALSE]
Digit(b) == IF b THEN "1" ELSE "0"
Formatted(r) ==
  Written(r.id, r.name \o <<"|", Digit(r.active), "|", Digit(r.is_admin)>>)
Format(u) == [k \in DOMAIN u |-> Formatted(u[k])]

\* A line cut in or behind its username; before it, there is nothing to read.
Cut(l) ==
  {[l EXCEPT !.text = t, !.cut = TRUE] :
     t \in {<<p>> : p \in Pieces[l.text[1]]}
          \cup {SubSeq(l.text, 1, j) : j \in 1 .. Len(l.text) - 1}}

\* What save_users() may leave in users.db, and what it returns: everything; the
\* old file, when the temporary file cannot be opened or renamed; or, when the
\* disk is full, a part, since fprintf() and fclose() are not checked.
Outcome(db, ret, fault) == [db |-> db, ret |-> ret, fault |-> fault]
SaveActiveOnly(u) == {Outcome(Format(SelectSeq(u, LAMBDA r : r.active)), 0, 0)}
save_users(u) ==
  {Outcome(Format(u), 0, 0)}
  \cup (IF faults = MaxFaults THEN {}
        ELSE {Outcome(users_db, -1, 1)}
             \cup {Outcome(SubSeq(Format(u), 1, k), 0, 1) : k \in 0 .. Len(u) - 1}
             \cup UNION {{Outcome(Append(SubSeq(Format(u), 1, k), l), 0, 1) :
                            l \in Cut(Formatted(u[k + 1]))} : k \in 0 .. Len(u) - 1})

\* One save, its outcome in users_db and its fault counted.
Saved(o) == users_db' = o.db /\ faults' = faults + o.fault

\* load_users(), "%d|%31[^|]|%d|%d": signs that follow a name are read as its rights.
NewFormat(t) ==
  Len(t) >= 5 /\ t[2] = "|" /\ t[3] \in {"0", "1"} /\ t[4] = "|" /\ t[5] \in {"0", "1"}
\* Then "%d|%31s": they are read as a part of the name, as far as there is room.
Shorter(m, n) == IF m < n THEN m ELSE n
OldName(t) == SubSeq(<<Word[t[1]]>> \o Tail(t), 1, Shorter(Len(t), 1 + Room[t[1]]))
Parsed(l) ==
  IF NewFormat(l.text)
  THEN [id |-> l.id, name |-> <<l.text[1]>>,
        active |-> l.text[3] = "1", is_admin |-> l.text[5] = "1"]
  ELSE [id |-> l.id, name |-> OldName(l.text),
        active |-> TRUE, is_admin |-> OldName(l.text) = <<Admin>>]

\* The accounts in memory before load_users() saves them in the new format.
Loaded(db) == [k \in 1 .. Shorter(Len(db), MAX_USERS) |-> Parsed(db[k])]
NewUser(u, n, admin) ==
  [id |-> get_max_user_id(u) + 1, name |-> <<n>>, active |-> TRUE, is_admin |-> admin]
load_users(db) ==
  LET u == Loaded(db)
      a == find_user_index_by_name(u, Admin)
  IN  IF a = 0 THEN Append(u, NewUser(u, Admin, TRUE))
               ELSE [u EXCEPT ![a].active = TRUE, ![a].is_admin = TRUE]
\* The accounts of a file of which a line was cut, now or at an earlier restart.
TornIn(db) == {k \in 1 .. Shorter(Len(db), MAX_USERS) : db[k].cut \/ k \in torn}

\* Every account of u is in v at its place, with its id, name and rights.
SameAccounts(u, v) ==
  /\ Len(u) <= Len(v)
  /\ \A k \in DOMAIN u : [v[k] EXCEPT !.active = u[k].active] = u[k]

-----------------------------------------------------------------------------
(* Clients.                                                                *)

FreeSlot == [mode |-> "free", user |-> NOBODY, partner |-> NOBODY, menu |-> {}]
NewClient == [FreeSlot EXCEPT !.mode = "login"]
Active(s) == clients[s].mode # "free"
LoggedIn(s) == clients[s].mode \notin {"free", "login"}

StopsOneShort(i) ==
  First({s \in 1 .. MAX_CLIENTS - 1 : LoggedIn(s) /\ clients[s].user = i})
find_client_by_user_id(i) == First({s \in Slot : LoggedIn(s) /\ clients[s].user = i})
find_free_client_slot == First({s \in Slot : ~Active(s)})

\* disconnect_client() for the slots of S: the socket is closed, the slot cleared.
DisconnectKeepsUser(S) ==
  /\ clients' = [s \in Slot |-> IF s \in S THEN [clients[s] EXCEPT !.mode = "free"] ELSE clients[s]]
  /\ readable' = readable \ S
disconnect_client(S) ==
  /\ clients' = [s \in Slot |-> IF s \in S THEN FreeSlot ELSE clients[s]]
  /\ readable' = readable \ S

\* show_conversation_list(): the users with whom i has exchanged a message.  The
\* order of the list is layout; its numbers stand for these ids until it is shown
\* again, and it is shown on every way into the menu: it is kept while there.
Conversations(i) ==
  {messages[k].to : k \in {j \in DOMAIN messages : messages[j].from = i}}
  \cup {messages[k].from : k \in {j \in DOMAIN messages : messages[j].to = i}}
show_conversation_list(c) == [c EXCEPT !.menu = Conversations(c.user)]

-----------------------------------------------------------------------------
(* process_line() for one complete line of client cur.                     *)

\* The next line of the same client, or the next event.
Consume ==
  /\ lines' = lines - 1 /\ cur' = IF lines = 1 THEN NOBODY ELSE cur
  /\ UNCHANGED <<pc, batch, reused>>
\* process_line() returned 0: the client is gone and so are its other lines.
DropRest == lines' = 0 /\ cur' = NOBODY /\ UNCHANGED <<pc, batch, reused>>

InMode(m) == lines > 0 /\ clients[cur].mode = m
Me == clients[cur].user
SetClient(c) == clients' = [clients EXCEPT ![cur] = c] /\ UNCHANGED readable
HangUp == disconnect_client({cur}) /\ DropRest

\* A line that is answered and changes nothing: a username that is empty or too
\* long; an unknown command, number or user; a chat with oneself; the admin page
\* for others; an empty message or one to a removed account; a message that
\* cannot be saved; a removal or restoration that is refused.
reply_only ==
  /\ lines > 0 /\ Consume
  /\ UNCHANGED <<users, disk_vars, clients, readable, fault_vars>>

\* process_login(): the account is removed or has a session, or there is no room.
login_refused ==
  /\ InMode("login")
  /\ \E n \in Name :
       LET k == find_user_index_by_name(users, n)
       IN  IF k = 0 THEN Len(users) >= MAX_USERS
           ELSE ~users[k].active \/ find_client_by_user_id(users[k].id) # 0
  /\ HangUp
  /\ UNCHANGED <<users, disk_vars, fault_vars>>

\* From here on the client is a session of account i.
LogIn(i) ==
  /\ SetClient(show_conversation_list([clients[cur] EXCEPT !.mode = "menu", !.user = i]))
  /\ Consume

login_existing ==
  /\ InMode("login")
  /\ \E n \in Name :
       LET k == find_user_index_by_name(users, n)
       IN  /\ k # 0 /\ users[k].active
           /\ find_client_by_user_id(users[k].id) = 0
           /\ LogIn(users[k].id)
  /\ UNCHANGED <<users, disk_vars, fault_vars>>

\* A new account stays in users[] even if it could not be saved.
login_new ==
  /\ InMode("login") /\ Len(users) < MAX_USERS
  /\ \E n \in Name :
       LET u == Append(users, NewUser(users, n, FALSE))
       IN  /\ find_user_index_by_name(users, n) = 0
           /\ users' = u
           /\ \E o \in save_users(u) :
                /\ Saved(o)
                /\ IF o.ret < 0 THEN HangUp ELSE LogIn(u[Len(u)].id)
  /\ UNCHANGED <<messages, torn, lost>>

process_login == login_refused \/ login_existing \/ login_new

\* process_menu(): q, r, a, and open_chat() by name or by the list's number.
menu_quit ==
  /\ InMode("menu") /\ HangUp
  /\ UNCHANGED <<users, disk_vars, fault_vars>>
menu_refresh ==
  /\ InMode("menu") /\ SetClient(show_conversation_list(clients[cur])) /\ Consume
  /\ UNCHANGED <<users, disk_vars, fault_vars>>
menu_admin ==
  /\ InMode("menu")
  /\ LET k == find_user_index_by_id(Me) IN k # 0 /\ users[k].is_admin
  /\ SetClient([clients[cur] EXCEPT !.mode = "admin", !.menu = {}]) /\ Consume
  /\ UNCHANGED <<users, disk_vars, fault_vars>>

CanOpen(i) == find_user_index_by_id(i) # 0 /\ i # Me
open_chat ==
  /\ InMode("menu")
  /\ \E i \in clients[cur].menu
               \cup {users[k].id : k \in {find_user_index_by_name(users, n) : n \in Name} \ {0}} :
       /\ CanOpen(i)
       /\ SetClient([clients[cur] EXCEPT !.mode = "chat", !.partner = i, !.menu = {}])
  /\ Consume
  /\ UNCHANGED <<users, disk_vars, fault_vars>>

process_menu == menu_quit \/ menu_refresh \/ menu_admin \/ open_chat

\* process_chat(): q, or a message for a partner whose account is active.  Whether
\* the partner is offline, sees the message or a notification is output only.
chat_leave ==
  /\ InMode("chat")
  /\ SetClient(show_conversation_list([clients[cur] EXCEPT !.mode = "menu", !.partner = NOBODY]))
  /\ Consume
  /\ UNCHANGED <<users, disk_vars, fault_vars>>

NameOf(i) == users[find_user_index_by_id(i)].name
chat_send ==
  /\ InMode("chat") /\ Len(messages) < MaxMessages
  /\ LET i == clients[cur].partner
         k == find_user_index_by_id(i)
     IN  /\ k # 0 /\ users[k].active
         /\ messages' = Append(messages, [from |-> Me, to |-> i,
                                 people |-> <<NameOf(Me), NameOf(i)>>])
  /\ Consume
  /\ UNCHANGED <<users, users_db, clients, readable, fault_vars>>

\* fopen() of messages.db fails, which the sender is told, or the disk is full,
\* which nobody notices: the message is not stored.
chat_not_stored ==
  /\ InMode("chat") /\ faults < MaxFaults /\ faults' = faults + 1
  /\ Consume
  /\ UNCHANGED <<users, disk_vars, clients, readable, torn, lost>>

process_chat == chat_leave \/ chat_send \/ chat_not_stored

\* process_admin(): q, d and r.  The result of save_users() is not looked at, and
\* the session of a removed account is cut.
admin_leave ==
  /\ InMode("admin")
  /\ SetClient(show_conversation_list([clients[cur] EXCEPT !.mode = "menu"])) /\ Consume
  /\ UNCHANGED <<users, disk_vars, fault_vars>>

SetActive(k, b) ==
  LET u == [users EXCEPT ![k].active = b]
  IN  users' = u /\ \E o \in save_users(u) : Saved(o)

admin_remove ==
  /\ InMode("admin")
  /\ \E k \in DOMAIN users :
       /\ ~users[k].is_admin /\ users[k].active
       /\ SetActive(k, FALSE)
       /\ disconnect_client({find_client_by_user_id(users[k].id)} \ {0})
  /\ Consume
  /\ UNCHANGED <<messages, torn, lost>>

admin_restore ==
  /\ InMode("admin")
  /\ \E k \in DOMAIN users : ~users[k].active /\ SetActive(k, TRUE)
  /\ Consume
  /\ UNCHANGED <<messages, clients, readable, torn, lost>>

process_admin == admin_leave \/ admin_remove \/ admin_restore

process_line ==
  reply_only \/ process_login \/ process_menu \/ process_chat \/ process_admin

-----------------------------------------------------------------------------
(* The event loop.                                                         *)

Idle == pc = "up" /\ lines = 0

\* The ready descriptors in some order; fewer than MAX_EVENTS are open here.  A
\* peer may be waiting to be accepted.
epoll_wait ==
  /\ Idle /\ batch = << >>
  /\ \E hot \in {readable, readable \cup {LISTEN}} :
       LET n == Cardinality(hot)
       IN  /\ hot # {}
           /\ batch' \in {q \in [1 .. n -> hot] : \A j, k \in 1 .. n : j # k => q[j] # q[k]}
  /\ UNCHANGED <<users, disk_vars, clients, pc, cur, lines, reused, readable, fault_vars>>

\* accept(): the lowest free slot.  The client is sent away when the table is
\* full or epoll_ctl() fails.
accept ==
  /\ Idle /\ batch # << >> /\ Head(batch) = LISTEN
  /\ batch' = Tail(batch)
  /\ LET s == find_free_client_slot
     IN  \/ /\ s # 0
            /\ clients' = [clients EXCEPT ![s] = NewClient]
            /\ reused' = reused \cup ({s} \cap {batch[k] : k \in DOMAIN batch})
         \/ UNCHANGED <<clients, reused>>
  /\ UNCHANGED <<users, disk_vars, pc, cur, lines, readable, fault_vars>>

EventOf(s) == lines = 0 /\ batch # << >> /\ Head(batch) = s
EventDone == batch' = Tail(batch) /\ reused' = reused \ {Head(batch)}

\* No active client has this descriptor any more.
event_of_nobody ==
  /\ \E s \in Slot : EventOf(s) /\ ~Active(s)
  /\ pc = "up" /\ EventDone
  /\ UNCHANGED <<users, disk_vars, clients, pc, cur, lines, readable, fault_vars>>

\* recv() returned bytes.  With them the buffer holds n complete lines: none if
\* the last one is still incomplete or the buffer overflowed and was emptied.
ReceiveUntilLine ==
  /\ pc # "down"
  /\ \E s \in Slot, n \in 0 .. MaxLines :
       /\ EventOf(s) /\ Active(s) /\ s \in readable
       /\ readable' = readable \ {s}
       /\ lines' = n /\ cur' = IF n = 0 THEN NOBODY ELSE s
       /\ pc' = IF n = 0 THEN "blocked" ELSE "up"
       /\ batch' = IF n = 0 THEN batch ELSE Tail(batch)
  /\ UNCHANGED <<users, disk_vars, clients, reused, fault_vars>>
receive ==
  /\ pc # "down"
  /\ \E s \in Slot, n \in 0 .. MaxLines :
       /\ EventOf(s) /\ Active(s) /\ s \in readable
       /\ readable' = readable \ {s}
       /\ lines' = n /\ cur' = IF n = 0 THEN NOBODY ELSE s
  /\ pc' = "up" /\ EventDone
  /\ UNCHANGED <<users, disk_vars, clients, fault_vars>>

\* recv() returned 0, or -1 when the peer has reset the connection.
hang_up ==
  /\ pc # "down"
  /\ \E s \in Slot :
       EventOf(s) /\ Active(s) /\ s \in readable /\ disconnect_client({s})
  /\ pc' = "up" /\ EventDone
  /\ UNCHANGED <<users, disk_vars, cur, lines, fault_vars>>

\* Nothing to receive: the descriptor is blocking, and so is recv().
recv_blocks ==
  /\ pc = "up" /\ pc' = "blocked"
  /\ \E s \in Slot : EventOf(s) /\ Active(s) /\ s \notin readable
  /\ UNCHANGED <<users, disk_vars, clients, batch, cur, lines, reused, readable, fault_vars>>

server ==
  \/ epoll_wait \/ accept \/ event_of_nobody \/ receive \/ hang_up \/ recv_blocks
  \/ process_line

-----------------------------------------------------------------------------
(* The process.                                                            *)

NoSessions ==
  /\ clients' = [s \in Slot |-> FreeSlot] /\ readable' = {}
  /\ batch' = << >> /\ cur' = NOBODY /\ lines' = 0 /\ reused' = {}

\* main() up to the loop.  load_users() ends with a save; when it fails, or there
\* is no room for the default admin, the process exits.
start ==
  /\ pc = "down"
  /\ find_user_index_by_name(Loaded(users_db), Admin) # 0 \/ Len(users_db) < MAX_USERS
  /\ LET u == load_users(users_db)
     IN  \E o \in save_users(u) :
           /\ Saved(o)
           /\ \/ /\ o.ret = 0 /\ pc' = "up" /\ users' = u
                 /\ torn' = TornIn(users_db)
                 /\ lost' = (lost \/ ~SameAccounts(users, u))
              \/ o.ret < 0 /\ UNCHANGED <<pc, users, torn, lost>>
  /\ NoSessions
  /\ UNCHANGED messages

\* The process dies: it is killed, by SIGPIPE among others, since a peer may be
\* gone when it is sent something.
crash ==
  /\ pc # "down" /\ pc' = "down" /\ NoSessions
  /\ UNCHANGED <<users, disk_vars, fault_vars>>

-----------------------------------------------------------------------------
(* The peers.                                                              *)

\* The peer of slot s sends, closes or resets; which of them shows in recv().  The
\* server looks at a socket in epoll_wait() and in its recv() only, so what a peer
\* does in between is what it does just before.
peer_acts(s) ==
  /\ Active(s) /\ s \notin readable /\ lines = 0
  /\ batch # << >> => Head(batch) = s
  /\ readable' = readable \cup {s}
  /\ UNCHANGED <<users, disk_vars, clients, loop_vars, fault_vars>>

\* users.db is missing or empty, or holds an account of the earlier version.
Init ==
  /\ users_db \in {<< >>} \cup {<<Written(1, <<n>>)>> : n \in Name}
  /\ users = << >> /\ messages = << >>
  /\ clients = [s \in Slot |-> FreeSlot] /\ readable = {}
  /\ pc = "down" /\ batch = << >> /\ cur = NOBODY /\ lines = 0 /\ reused = {}
  /\ faults = 0 /\ torn = {} /\ lost = FALSE

Next ==
  \/ server \/ start \/ crash
  \/ \E s \in Slot : peer_acts(s)

Spec == Init /\ [][Next]_vars

-----------------------------------------------------------------------------
(* Properties.                                                             *)

Client ==
  [mode : {"free", "login", "menu", "chat", "admin"}, user : Nat \cup {NOBODY},
   partner : Nat \cup {NOBODY}, menu : SUBSET Nat]
Message == [from : Nat, to : Nat, people : Text \X Text]

TypeOK ==
  /\ users \in Seq(User) /\ Len(users) <= MAX_USERS
  /\ users_db \in Seq(Line) /\ Len(users_db) <= MAX_USERS
  /\ messages \in Seq(Message) /\ Len(messages) <= MaxMessages
  /\ clients \in [Slot -> Client]
  /\ \A s \in Slot : ~Active(s) => clients[s] = FreeSlot /\ s \notin readable
  /\ pc \in {"up", "blocked", "down"} /\ lines \in 0 .. MaxLines
  /\ cur \in Slot \cup {NOBODY} /\ (lines > 0 => cur \in Slot)
  /\ batch \in Seq(Slot \cup {LISTEN}) /\ torn \subseteq 1 .. Len(users) /\ lost \in BOOLEAN
  /\ reused \subseteq Slot /\ readable \subseteq Slot
  /\ faults \in 0 .. MaxFaults

\* A session belongs to an active account and an account has one session, the
\* admin page is of accounts with the rights, which are the default admin's except
\* after a cut line, and a chat is with a known account other than one's own,
\* whatever was removed, restored, lost or reconnected in between
\* (process_login(), process_admin(), find_client_by_user_id()).
SessionsSound ==
  \A s \in Slot :
    LoggedIn(s) =>
      LET k == find_user_index_by_id(clients[s].user)
      IN  /\ k # 0 /\ users[k].active
          /\ \A t \in Slot \ {s} : LoggedIn(t) => clients[t].user # clients[s].user
          /\ clients[s].mode = "admin" =>
                users[k].is_admin /\ (k \notin torn => users[k].name = <<Admin>>)
          /\ clients[s].mode = "chat" =>
                clients[s].partner # clients[s].user
                  /\ find_user_index_by_id(clients[s].partner) # 0

\* An id stands for one person: no two accounts share an id, nor a name unless a
\* cut line gave it to one of them, and unless a restart lost or changed an account
\* the conversations of messages.db belong to those who held them (get_max_user_id()).
HistoryKeepsItsPeople ==
  /\ \A j, k \in DOMAIN users :
       j # k => /\ users[j].id # users[k].id
                /\ users[j].name # users[k].name \/ j \in torn \/ k \in torn
  /\ ~lost => \A k \in DOMAIN messages :
                messages[k].people = <<NameOf(messages[k].from), NameOf(messages[k].to)>>

\* users.db is what memory says.
Durable == users_db = Format(users)

\* Accounts keep their place and id, their name and their rights, which the admin's
\* numbers and messages.db refer to, and only the admin page changes who is removed.
\* A restart is no exception for whole names, unless a write has failed and users.db
\* has not caught up since (save_users(), load_users()).
AccountsKept ==
  [][(pc = "down" => faults = 0 \/ Durable) =>
       /\ Len(users) <= Len(users')
       /\ \A k \in DOMAIN users :
            LET r == users[k]  q == users'[k]
            IN  /\ q.id = r.id
                /\ pc # "down" \/ Whole(r.name) =>
                     /\ q.name = r.name /\ q.is_admin = r.is_admin
                     /\ q.active # r.active => InMode("admin") /\ (r.active => ~r.is_admin)]_vars

\* The server blocks in recv() only on a slot that was filled again in the batch of
\* events it is working off (server.c:2142): a partial line, a peer that stops in
\* the middle or a disconnected client never hold it up.
BlockedOnlyOnReusedSlot ==
  pc = "blocked" => Head(batch) \in reused

\* "If there was an old users.db we have converted it to the new format" (the
\* comment on the save at the end of load_users(), server.c:393-396): what a complete
\* users.db says is read as what memory says.
ConvertedToNewFormat ==
  pc # "down" /\ Durable => \A k \in DOMAIN users : Parsed(users_db[k]) = users[k]

-----------------------------------------------------------------------------
(* The inductive invariant behind these properties.                        *)

\* The k-th account has the id k; those outside T have names that were typed, no
\* two the same, and the default admin and nobody else has the rights and cannot be
\* removed.
Sound(u, T) ==
  /\ \A k \in 1 .. Len(u) :
       /\ u[k].id = k
       /\ k \notin T => /\ Whole(u[k].name) /\ (u[k].is_admin <=> u[k].name = <<Admin>>)
                        /\ u[k].is_admin => u[k].active
  /\ \A j, k \in 1 .. Len(u) : j # k /\ j \notin T /\ k \notin T => u[j].name # u[k].name

\* The accounts in memory, among which a default admin has the rights.
AccountsSound ==
  /\ Sound(users, torn)
  /\ pc # "down" \/ users # << >> =>
       LET a == find_user_index_by_name(users, Admin)
       IN  a # 0 /\ users[a].active /\ users[a].is_admin

\* What a restart would read from users.db; without a fault it is up to date.
FileSound ==
  /\ Sound(Loaded(users_db), TornIn(users_db))
  /\ faults = 0 => Durable \/ users = << >>

\* Unless an account was lost, the people of every message still have accounts.
MessagesSound ==
  ~lost => \A k \in 1 .. Len(messages) :
             messages[k].from \in 1 .. Len(users) /\ messages[k].to \in 1 .. Len(users)

\* A batch names a slot once, and an event in it whose client is there has something
\* to receive, unless the slot was filled again; a dead server has no clients.
BatchSound ==
  /\ \A j, k \in 1 .. Len(batch) : j # k => batch[j] # batch[k]
  /\ \A k \in 1 .. Len(batch) :
       batch[k] \in Slot =>
         ~Active(batch[k]) \/ batch[k] \in readable \/ batch[k] \in reused
  /\ pc = "down" => lines = 0 /\ \A s \in Slot : ~Active(s)

\* IInv: accounts, users.db, sessions, messages and events fit together, whatever was
\* saved, torn, removed or reloaded (save_users(), load_users(), process_line(), main()).
IInv ==
  /\ TypeOK /\ AccountsSound /\ FileSound /\ SessionsSound
  /\ MessagesSound /\ HistoryKeepsItsPeople /\ BatchSound /\ BlockedOnlyOnReusedSlot
=============================================================================
