-------------------------- MODULE ChatServerProofs --------------------------
(***************************************************************************)
(* Proofs about ChatServer, for every size of the tables, every set of     *)
(* names and every bound.                                                  *)
(***************************************************************************)
EXTENDS ChatServer, SequenceTheorems, FiniteSetTheorems, WellFoundedInduction, TLAPS

-----------------------------------------------------------------------------
(* Finding.                                                                *)

\* First(S) is the least element of a set of numbers that is not empty.
LEMMA FirstIsLeast ==
  ASSUME NEW S \in SUBSET Nat, S # {}
  PROVE  First(S) \in S /\ \A j \in S : First(S) <= j
<1>1. \E k \in S : \A j \in S : ~(<<j, k>> \in OpToRel(<, Nat))
  BY NatLessThanWellFounded, WFMin
<1>2. \E k \in S : \A j \in S : k <= j
  <2>1. \A j, k \in Nat : j < k => <<j, k>> \in OpToRel(<, Nat)
    BY DEF OpToRel
  <2>2. PICK k \in S : \A j \in S : ~(<<j, k>> \in OpToRel(<, Nat))
    BY <1>1
  <2>3. \A j \in S : ~(j < k)
    BY <2>1, <2>2
  <2> QED BY <2>3
<1> QED BY <1>2 DEF First

\* The first element of a set of one element.
LEMMA FirstOfOne == \A k \in Nat : First({k}) = k
BY DEF First

\* Nothing is found in nothing, and what is found in a set of slots is one of it.
LEMMA FoundIsThere ==
  ASSUME NEW S \in SUBSET (Nat \ {0})
  PROVE  /\ First(S) = 0 <=> S = {}
         /\ First(S) # 0 => First(S) \in S
<1>1. CASE S = {}
  BY <1>1 DEF First
<1>2. CASE S # {}
  BY <1>2, FirstIsLeast
<1> QED BY <1>1, <1>2

\* Accounts are found by their id at the place it names.
LEMMA FoundById ==
  ASSUME NEW u \in Seq(User), \A k \in 1 .. Len(u) : u[k].id = k
  PROVE  \A i : First({k \in DOMAIN u : u[k].id = i}) = IF i \in 1 .. Len(u) THEN i ELSE 0
<1>1. DOMAIN u = 1 .. Len(u) /\ Len(u) \in Nat
  OBVIOUS
<1>2. ASSUME NEW i, i \in 1 .. Len(u)
      PROVE  First({k \in DOMAIN u : u[k].id = i}) = i
  <2>1. {k \in DOMAIN u : u[k].id = i} = {i} /\ i \in Nat
    BY <1>1, <1>2
  <2> QED BY <2>1, FirstOfOne
<1>3. ASSUME NEW i, i \notin 1 .. Len(u)
      PROVE  First({k \in DOMAIN u : u[k].id = i}) = 0
  <2>1. {k \in DOMAIN u : u[k].id = i} = {}
    BY <1>1, <1>3
  <2> QED BY <2>1 DEF First
<1> QED BY <1>2, <1>3

\* A name is found at the first account that has it, or nowhere.
LEMMA FoundByName ==
  ASSUME NEW u \in Seq(User), NEW n
  PROVE  LET k == find_user_index_by_name(u, n)
         IN  /\ k = 0 => \A j \in 1 .. Len(u) : u[j].name # <<n>>
             /\ k # 0 => /\ k \in 1 .. Len(u) /\ u[k].name = <<n>>
                         /\ \A j \in 1 .. Len(u) : u[j].name = <<n>> => k <= j
<1> DEFINE S == {k \in DOMAIN u : u[k].name = <<n>>}
<1>1. DOMAIN u = 1 .. Len(u) /\ Len(u) \in Nat
  OBVIOUS
<1>2. S \in SUBSET (Nat \ {0}) /\ S \in SUBSET Nat
  BY <1>1
<1>3. (First(S) = 0 <=> S = {}) /\ (First(S) # 0 => First(S) \in S)
  BY <1>2, FoundIsThere
<1>4. S # {} => \A j \in S : First(S) <= j
  BY <1>2, FirstIsLeast
<1> QED BY <1>1, <1>3, <1>4 DEF find_user_index_by_name

-----------------------------------------------------------------------------
(* The parts of the invariant, as predicates of the values they are about. *)

\* Accounts u of which those of T were read from cut lines, the default admin among
\* them, and what a restart would read from the file db.
Accounts(u, T) ==
  u \in Seq(User) /\ Len(u) <= MAX_USERS /\ T \in SUBSET (1 .. Len(u)) /\ Sound(u, T)
AdminIn(u) ==
  LET a == find_user_index_by_name(u, Admin) IN a # 0 /\ u[a].active /\ u[a].is_admin
TornOf(db, T) == {k \in 1 .. Shorter(Len(db), MAX_USERS) : db[k].cut \/ k \in T}
File(db, T) ==
  db \in Seq(Line) /\ Len(db) <= MAX_USERS /\ Sound(Loaded(db), TornOf(db, T))

\* The messages ms are of accounts of u, and whose they are.
Messages(ms, u) ==
  \A k \in 1 .. Len(ms) :
    /\ ms[k].from \in 1 .. Len(u) /\ ms[k].to \in 1 .. Len(u)
    /\ ms[k].people = <<u[ms[k].from].name, u[ms[k].to].name>>

Data(u, db, ms, p, f, to, lo) ==
  /\ Accounts(u, to) /\ (p # "down" \/ u # << >> => AdminIn(u))
  /\ File(db, to) /\ f \in 0 .. MaxFaults /\ (f = 0 => db = Format(u) \/ u = << >>)
  /\ ms \in Seq(Message) /\ Len(ms) <= MaxMessages
  /\ lo \in BOOLEAN /\ (~lo => Messages(ms, u))

\* The sessions of the client table cl are sound for the accounts u.
In(cl) == {s \in Slot : cl[s].mode \notin {"free", "login"}}
SessionSound(c, u) ==
  /\ c.user \in 1 .. Len(u) /\ u[c.user].active
  /\ c.mode = "admin" => u[c.user].is_admin
  /\ c.mode = "chat" => c.partner \in 1 .. Len(u) /\ c.partner # c.user
Table(cl) ==
  cl \in [Slot -> Client] /\ \A s \in Slot : cl[s].mode = "free" => cl[s] = FreeSlot
Sessions(cl, u) ==
  /\ \A s \in In(cl) : SessionSound(cl[s], u)
  /\ \A s, t \in In(cl) : s # t => cl[s].user # cl[t].user

\* The loop's variables and the slots in use.
InUse(cl) == {s \in Slot : cl[s].mode # "free"}
Loop(A, p, b, c, n, re, rd) ==
  /\ p \in {"up", "blocked", "down"} /\ n \in 0 .. MaxLines
  /\ c \in Slot \cup {NOBODY} /\ (n > 0 => c \in Slot)
  /\ b \in Seq(Slot \cup {LISTEN}) /\ re \subseteq Slot /\ rd \subseteq A
  /\ \A j, k \in 1 .. Len(b) : j # k => b[j] # b[k]
  /\ \A k \in 1 .. Len(b) : b[k] \in A => b[k] \in rd \/ b[k] \in re
  /\ p = "down" => n = 0 /\ A = {}
  /\ p = "blocked" => Head(b) \in re

\* The parts make up the invariant, before and after a step.
LEMMA Parts ==
  /\ IInv <=> /\ Data(users, users_db, messages, pc, faults, torn, lost)
              /\ Table(clients) /\ Sessions(clients, users)
              /\ Loop(InUse(clients), pc, batch, cur, lines, reused, readable)
  /\ IInv' <=> /\ Data(users', users_db', messages', pc', faults', torn', lost')
               /\ Table(clients') /\ Sessions(clients', users')
               /\ Loop(InUse(clients'), pc', batch', cur', lines', reused', readable')
<1>1. IInv <=> /\ Data(users, users_db, messages, pc, faults, torn, lost)
              /\ Table(clients) /\ Sessions(clients, users)
              /\ Loop(InUse(clients), pc, batch, cur, lines, reused, readable)
  <2> DEFINE T == /\ Accounts(users, torn) /\ (pc # "down" \/ users # << >> => AdminIn(users))
                  /\ File(users_db, torn) /\ faults \in 0 .. MaxFaults
                  /\ faults = 0 => users_db = Format(users) \/ users = << >>
                  /\ messages \in Seq(Message) /\ Len(messages) <= MaxMessages
                  /\ lost \in BOOLEAN /\ Table(clients)
             L == /\ pc \in {"up", "blocked", "down"} /\ lines \in 0 .. MaxLines
                  /\ cur \in Slot \cup {NOBODY} /\ (lines > 0 => cur \in Slot)
                  /\ batch \in Seq(Slot \cup {LISTEN}) /\ reused \subseteq Slot
                  /\ readable \subseteq InUse(clients)
  <2>1. TypeOK /\ AccountsSound /\ FileSound <=> T /\ L
    <3>1. (readable \subseteq Slot /\ \A s \in Slot : clients[s].mode = "free" => s \notin readable)
            <=> readable \subseteq InUse(clients)
      BY DEF InUse
    <3>2. TypeOK <=>
            /\ L /\ Table(clients)
            /\ users \in Seq(User) /\ Len(users) <= MAX_USERS /\ torn \in SUBSET (1 .. Len(users))
            /\ users_db \in Seq(Line) /\ Len(users_db) <= MAX_USERS
            /\ messages \in Seq(Message) /\ Len(messages) <= MaxMessages
            /\ faults \in 0 .. MaxFaults /\ lost \in BOOLEAN
      BY <3>1 DEF TypeOK, Table, Active
    <3>3. /\ users \in Seq(User) /\ Len(users) <= MAX_USERS /\ torn \in SUBSET (1 .. Len(users))
          /\ AccountsSound
          <=> Accounts(users, torn) /\ (pc # "down" \/ users # << >> => AdminIn(users))
      BY DEF AccountsSound, Accounts, AdminIn
    <3>4. users_db \in Seq(Line) /\ Len(users_db) <= MAX_USERS /\ FileSound <=>
            /\ File(users_db, torn)
            /\ faults = 0 => users_db = Format(users) \/ users = << >>
      BY DEF FileSound, File, TornIn, TornOf, Durable
    <3> HIDE DEF L
    <3> QED BY <3>2, <3>3, <3>4
  <2>2. ASSUME T PROVE \A i : find_user_index_by_id(i) = IF i \in 1 .. Len(users) THEN i ELSE 0
    BY <2>2, FoundById DEF find_user_index_by_id, Accounts, Sound
  <2>3. ASSUME T PROVE SessionsSound <=> Sessions(clients, users)
    <3>1. /\ Len(users) \in Nat /\ 0 \notin 1 .. Len(users)
          /\ \A k \in 1 .. Len(users) : k \notin torn /\ users[k].is_admin => users[k].name = <<Admin>>
      BY <2>3 DEF Accounts, Sound
    <3>2. SessionsSound <=>
            \A s \in In(clients) :
              LET c == clients[s]
              IN  /\ c.user \in 1 .. Len(users) /\ users[c.user].active
                  /\ \A t \in In(clients) : t # s => clients[t].user # c.user
                  /\ c.mode = "admin" =>
                       users[c.user].is_admin /\ (c.user \notin torn => users[c.user].name = <<Admin>>)
                  /\ c.mode = "chat" => c.partner # c.user /\ c.partner \in 1 .. Len(users)
      BY <2>2, <2>3, <3>1 DEF SessionsSound, LoggedIn, In
    <3> QED BY <3>1, <3>2 DEF Sessions, SessionSound
  <2>4. ASSUME T PROVE MessagesSound /\ HistoryKeepsItsPeople <=> (~lost => Messages(messages, users))
    <3>1. \A j, k \in DOMAIN users :
            j # k => /\ users[j].id # users[k].id
                     /\ users[j].name # users[k].name \/ j \in torn \/ k \in torn
      BY <2>4 DEF Accounts, Sound
    <3>2. DOMAIN messages = 1 .. Len(messages)
      BY <2>4
    <3> DEFINE Of(i) == users[First({k \in DOMAIN users : users[k].id = i})].name
    <3>3. \A i \in 1 .. Len(users) : Of(i) = users[i].name
      BY <2>4, FoundById DEF Accounts, Sound
    <3>4. HistoryKeepsItsPeople <=>
            (~lost => \A k \in 1 .. Len(messages) :
               messages[k].people = <<Of(messages[k].from), Of(messages[k].to)>>)
      BY <3>1, <3>2 DEF HistoryKeepsItsPeople, NameOf, find_user_index_by_id
    <3> HIDE DEF Of
    <3> QED BY <3>3, <3>4 DEF MessagesSound, Messages
  <2>5. ASSUME L PROVE BatchSound /\ BlockedOnlyOnReusedSlot <=>
                         Loop(InUse(clients), pc, batch, cur, lines, reused, readable)
    BY <2>5 DEF BatchSound, BlockedOnlyOnReusedSlot, Loop, InUse, Active
  <2>6. T /\ (~lost => Messages(messages, users)) <=>
          Table(clients) /\ Data(users, users_db, messages, pc, faults, torn, lost)
    BY DEF Data
  <2>7. Loop(InUse(clients), pc, batch, cur, lines, reused, readable) => L
    BY DEF Loop
  <2> HIDE DEF T, L
  <2> QED BY <2>1, <2>3, <2>4, <2>5, <2>6, <2>7 DEF IInv
<1>2. IInv' <=> /\ Data(users', users_db', messages', pc', faults', torn', lost')
              /\ Table(clients') /\ Sessions(clients', users')
              /\ Loop(InUse(clients'), pc', batch', cur', lines', reused', readable')
  <2> DEFINE T == /\ Accounts(users', torn') /\ (pc' # "down" \/ users' # << >> => AdminIn(users'))
                  /\ File(users_db', torn') /\ faults' \in 0 .. MaxFaults
                  /\ faults' = 0 => users_db' = Format(users') \/ users' = << >>
                  /\ messages' \in Seq(Message) /\ Len(messages') <= MaxMessages
                  /\ lost' \in BOOLEAN /\ Table(clients')
             L == /\ pc' \in {"up", "blocked", "down"} /\ lines' \in 0 .. MaxLines
                  /\ cur' \in Slot \cup {NOBODY} /\ (lines' > 0 => cur' \in Slot)
                  /\ batch' \in Seq(Slot \cup {LISTEN}) /\ reused' \subseteq Slot
                  /\ readable' \subseteq InUse(clients')
  <2>1. TypeOK' /\ AccountsSound' /\ FileSound' <=> T /\ L
    <3>1. (readable' \subseteq Slot /\ \A s \in Slot : clients'[s].mode = "free" => s \notin readable')
            <=> readable' \subseteq InUse(clients')
      BY DEF InUse
    <3>2. TypeOK' <=>
            /\ L /\ Table(clients')
            /\ users' \in Seq(User) /\ Len(users') <= MAX_USERS /\ torn' \in SUBSET (1 .. Len(users'))
            /\ users_db' \in Seq(Line) /\ Len(users_db') <= MAX_USERS
            /\ messages' \in Seq(Message) /\ Len(messages') <= MaxMessages
            /\ faults' \in 0 .. MaxFaults /\ lost' \in BOOLEAN
      BY <3>1 DEF TypeOK, Table, Active
    <3>3. /\ users' \in Seq(User) /\ Len(users') <= MAX_USERS /\ torn' \in SUBSET (1 .. Len(users'))
          /\ AccountsSound'
          <=> Accounts(users', torn') /\ (pc' # "down" \/ users' # << >> => AdminIn(users'))
      BY DEF AccountsSound, Accounts, AdminIn
    <3>4. users_db' \in Seq(Line) /\ Len(users_db') <= MAX_USERS /\ FileSound' <=>
            /\ File(users_db', torn')
            /\ faults' = 0 => users_db' = Format(users') \/ users' = << >>
      BY DEF FileSound, File, TornIn, TornOf, Durable
    <3> HIDE DEF L
    <3> QED BY <3>2, <3>3, <3>4
  <2>2. ASSUME T PROVE \A i : find_user_index_by_id(i)' = IF i \in 1 .. Len(users') THEN i ELSE 0
    BY <2>2, FoundById DEF find_user_index_by_id, Accounts, Sound
  <2>3. ASSUME T PROVE SessionsSound' <=> Sessions(clients', users')
    <3>1. /\ Len(users') \in Nat /\ 0 \notin 1 .. Len(users')
          /\ \A k \in 1 .. Len(users') : k \notin torn' /\ users'[k].is_admin => users'[k].name = <<Admin>>
      BY <2>3 DEF Accounts, Sound
    <3>2. SessionsSound' <=>
            \A s \in In(clients') :
              LET c == clients'[s]
              IN  /\ c.user \in 1 .. Len(users') /\ users'[c.user].active
                  /\ \A t \in In(clients') : t # s => clients'[t].user # c.user
                  /\ c.mode = "admin" =>
                       users'[c.user].is_admin /\ (c.user \notin torn' => users'[c.user].name = <<Admin>>)
                  /\ c.mode = "chat" => c.partner # c.user /\ c.partner \in 1 .. Len(users')
      BY <2>2, <2>3, <3>1 DEF SessionsSound, LoggedIn, In
    <3> QED BY <3>1, <3>2 DEF Sessions, SessionSound
  <2>4. ASSUME T PROVE MessagesSound' /\ HistoryKeepsItsPeople' <=> (~lost' => Messages(messages', users'))
    <3>1. \A j, k \in DOMAIN users' :
            j # k => /\ users'[j].id # users'[k].id
                     /\ users'[j].name # users'[k].name \/ j \in torn' \/ k \in torn'
      BY <2>4 DEF Accounts, Sound
    <3>2. DOMAIN messages' = 1 .. Len(messages')
      BY <2>4
    <3> DEFINE Of(i) == users'[First({k \in DOMAIN users' : users'[k].id = i})].name
    <3>3. \A i \in 1 .. Len(users') : Of(i) = users'[i].name
      BY <2>4, FoundById DEF Accounts, Sound
    <3>4. HistoryKeepsItsPeople' <=>
            (~lost' => \A k \in 1 .. Len(messages') :
               messages'[k].people = <<Of(messages'[k].from), Of(messages'[k].to)>>)
      BY <3>1, <3>2 DEF HistoryKeepsItsPeople, NameOf, find_user_index_by_id
    <3> HIDE DEF Of
    <3> QED BY <3>3, <3>4 DEF MessagesSound, Messages
  <2>5. ASSUME L PROVE BatchSound' /\ BlockedOnlyOnReusedSlot' <=>
                         Loop(InUse(clients'), pc', batch', cur', lines', reused', readable')
    BY <2>5 DEF BatchSound, BlockedOnlyOnReusedSlot, Loop, InUse, Active
  <2>6. T /\ (~lost' => Messages(messages', users')) <=>
          Table(clients') /\ Data(users', users_db', messages', pc', faults', torn', lost')
    BY DEF Data
  <2>7. Loop(InUse(clients'), pc', batch', cur', lines', reused', readable') => L
    BY DEF Loop
  <2> HIDE DEF T, L
  <2> QED BY <2>1, <2>3, <2>4, <2>5, <2>6, <2>7 DEF IInv
<1> QED BY <1>1, <1>2

-----------------------------------------------------------------------------
(* Lines.                                                                  *)

\* An account is its four fields.
LEMMA SameRecord ==
  ASSUME NEW q \in User, NEW r \in User,
         q.id = r.id, q.name = r.name, q.active = r.active, q.is_admin = r.is_admin
  PROVE  q = r
BY DEF User

\* What is typed comes first in a text.
LEMMA TextFacts ==
  ASSUME NEW t \in Text
  PROVE  t \in Seq(Name \cup Sign) /\ Len(t) \in Nat /\ Len(t) >= 1 /\ t[1] \in Name
<1>1. t \in Seq(Name \cup Sign) /\ t # << >> /\ t[1] \in Name
  BY DEF Text
<1>2. Len(t) \in Nat /\ Len(t) # 0
  BY <1>1, EmptySeq
<1> QED BY <1>1, <1>2

\* The line of an account has its id, and its name with four signs behind it.
LEMMA FormattedFacts ==
  ASSUME NEW r \in User
  PROVE  LET l == Formatted(r)
         IN  /\ l \in Line /\ l.id = r.id /\ l.cut = FALSE
             /\ Len(l.text) = Len(r.name) + 4 /\ l.text[1] = r.name[1]
             /\ l.text[Len(r.name) + 1] = "|" /\ l.text[Len(r.name) + 2] = Digit(r.active)
             /\ l.text[Len(r.name) + 3] = "|" /\ l.text[Len(r.name) + 4] = Digit(r.is_admin)
<1> DEFINE e == <<"|", Digit(r.active), "|", Digit(r.is_admin)>>
           t == r.name \o e
           X == Name \cup Sign
<1>1. /\ r.name \in Seq(X) /\ Len(r.name) \in Nat /\ Len(r.name) >= 1 /\ r.name[1] \in Name
      /\ r.id \in Nat
  BY TextFacts DEF User
<1>2. "|" \in X /\ Digit(r.active) \in X /\ Digit(r.is_admin) \in X
  BY DEF Sign, Digit
<1> HIDE DEF X
<1>3. /\ e \in Seq(X) /\ Len(e) = 4
      /\ e[1] = "|" /\ e[2] = Digit(r.active) /\ e[3] = "|" /\ e[4] = Digit(r.is_admin)
  BY <1>2
<1>4. Formatted(r) = [id |-> r.id, text |-> t, cut |-> FALSE]
  BY DEF Formatted, Written
<1> HIDE DEF e
<1> DEFINE n == r.name
<1>5. n \in Seq(X) /\ Len(n) \in Nat /\ Len(n) >= 1 /\ n[1] \in Name
  BY <1>1
<1> HIDE DEF n
<1>6. t = n \o e
  BY DEF n
<1> HIDE DEF t
<1>7. /\ t \in Seq(X) /\ Len(t) = Len(n) + 4
      /\ \A i \in 1 .. Len(n) + 4 : t[i] = IF i <= Len(n) THEN n[i] ELSE e[i - Len(n)]
  <2>1. /\ n \o e \in Seq(X) /\ Len(n \o e) = Len(n) + Len(e)
        /\ \A i \in 1 .. Len(n) + Len(e) :
             (n \o e)[i] = IF i <= Len(n) THEN n[i] ELSE e[i - Len(n)]
    BY <1>3, <1>5, ConcatProperties
  <2> QED BY <1>3, <1>6, <2>1
<1>8. /\ t[1] = n[1] /\ t[Len(n) + 1] = e[1] /\ t[Len(n) + 2] = e[2]
      /\ t[Len(n) + 3] = e[3] /\ t[Len(n) + 4] = e[4]
  BY <1>5, <1>7
<1>9. t \in Text
  <2>1. t # << >>
    BY <1>5, <1>7
  <2> QED BY <1>5, <1>7, <1>8, <2>1 DEF Text, X
<1>10. /\ Formatted(r) \in Line /\ Formatted(r).id = r.id /\ Formatted(r).text = t
       /\ Formatted(r).cut = FALSE
  BY <1>1, <1>4, <1>9 DEF Line
<1> QED BY <1>3, <1>7, <1>8, <1>10 DEF n

\* A whole name and its rights are read back.
LEMMA WholeIsReadBack ==
  ASSUME NEW r \in User, Whole(r.name)
  PROVE  Parsed(Formatted(r)) = r
<1> DEFINE l == Formatted(r)
           t == l.text
<1>1. r.name \in Text /\ r.id \in Nat /\ r.active \in BOOLEAN /\ r.is_admin \in BOOLEAN
  BY DEF User
<1>2. Len(r.name) = 1
  BY DEF Whole
<1>3. /\ l.id = r.id /\ Len(t) = 5 /\ t[1] = r.name[1]
      /\ t[2] = "|" /\ t[3] = Digit(r.active) /\ t[4] = "|" /\ t[5] = Digit(r.is_admin)
  <2>1. /\ l.id = r.id /\ Len(t) = Len(r.name) + 4 /\ t[1] = r.name[1]
        /\ t[Len(r.name) + 1] = "|" /\ t[Len(r.name) + 2] = Digit(r.active)
        /\ t[Len(r.name) + 3] = "|" /\ t[Len(r.name) + 4] = Digit(r.is_admin)
    BY FormattedFacts
  <2> HIDE DEF l
  <2> QED BY <1>2, <2>1
<1> HIDE DEF l
<1>4. \A b \in BOOLEAN : Digit(b) \in {"0", "1"} /\ (Digit(b) = "1") = b
  BY DEF Digit
<1>5. NewFormat(t)
  BY <1>1, <1>3, <1>4 DEF NewFormat
<1>6. <<t[1]>> = r.name
  <2>1. r.name \in Seq(Name \cup Sign)
    BY <1>1, TextFacts
  <2> QED BY <1>2, <1>3, <2>1
<1>7. Parsed(l) = [id |-> r.id, name |-> r.name, active |-> r.active, is_admin |-> r.is_admin]
  <2>1. (t[3] = "1") = r.active /\ (t[5] = "1") = r.is_admin
    BY <1>1, <1>3, <1>4
  <2>2. Parsed(l) = [id |-> l.id, name |-> <<t[1]>>, active |-> t[3] = "1", is_admin |-> t[5] = "1"]
    BY <1>5 DEF Parsed
  <2> QED BY <1>3, <1>6, <2>1, <2>2
<1>8. Parsed(l) \in User /\ Parsed(l).id = r.id /\ Parsed(l).name = r.name
        /\ Parsed(l).active = r.active /\ Parsed(l).is_admin = r.is_admin
  BY <1>1, <1>7 DEF User
<1> QED BY <1>8, SameRecord DEF l

\* The old format takes a name for a name.
LEMMA OldNameIsText ==
  ASSUME NEW t \in Text
  PROVE  OldName(t) \in Text
<1> DEFINE X == Name \cup Sign
           q == Tail(t)
           o == <<Word[t[1]]>>
           w == o \o q
           m == Shorter(Len(t), 1 + Room[t[1]])
<1>1. t \in Seq(X) /\ Len(t) \in Nat /\ Len(t) >= 1 /\ t[1] \in Name
  BY TextFacts
<1>2. Word[t[1]] \in Name /\ Room[t[1]] \in Nat
  BY <1>1, NameAssumption
<1>3. m \in 1 .. Len(t)
  BY <1>1, <1>2 DEF Shorter
<1>4. o \in Seq(X) /\ Len(o) = 1 /\ o[1] \in Name
  BY <1>2
<1> HIDE DEF X, o, m
<1>5. q \in Seq(X) /\ Len(q) = Len(t) - 1
  BY <1>1, EmptySeq, HeadTailProperties
<1> HIDE DEF q
<1>6. w \in Seq(X) /\ Len(w) = Len(t) /\ w[1] = o[1]
  <2>1. /\ w \in Seq(X) /\ Len(w) = Len(o) + Len(q)
        /\ \A i \in 1 .. Len(o) + Len(q) : w[i] = IF i <= Len(o) THEN o[i] ELSE q[i - Len(o)]
    BY <1>4, <1>5, ConcatProperties
  <2> QED BY <1>1, <1>4, <1>5, <2>1
<1> HIDE DEF w
<1>7. /\ SubSeq(w, 1, m) \in Seq(X) /\ Len(SubSeq(w, 1, m)) = m
      /\ SubSeq(w, 1, m)[1] = w[1]
  BY <1>1, <1>3, <1>6
<1>8. SubSeq(w, 1, m) # << >>
  <2>1. Len(SubSeq(w, 1, m)) # 0
    BY <1>1, <1>3, <1>7
  <2>2. Len(<< >>) = 0
    OBVIOUS
  <2> QED BY <2>1, <2>2
<1>9. OldName(t) = SubSeq(w, 1, m)
  BY DEF OldName, w, o, q, m
<1> HIDE DEF X
<1>10. SubSeq(w, 1, m) \in Text
  BY <1>4, <1>6, <1>7, <1>8 DEF Text, X
<1> QED BY <1>9, <1>10

\* Whatever a line says, an account with its id is read from it.
LEMMA ParsedFacts ==
  ASSUME NEW l \in Line
  PROVE  Parsed(l) \in User /\ Parsed(l).id = l.id
<1>1. l.id \in Nat /\ l.text \in Text
  BY DEF Line
<1>2. CASE NewFormat(l.text)
  <2> DEFINE n == <<l.text[1]>>
             a == l.text[3] = "1"
             b == l.text[5] = "1"
  <2>1. n \in Text
    <3>1. l.text[1] \in Name
      BY <1>1, TextFacts
    <3>2. n \in Seq(Name \cup Sign) /\ n # << >> /\ n[1] \in Name
      BY <3>1
    <3> QED BY <3>2 DEF Text
  <2>2. Parsed(l) = [id |-> l.id, name |-> n, active |-> a, is_admin |-> b]
    BY <1>2 DEF Parsed
  <2>3. a \in BOOLEAN /\ b \in BOOLEAN
    OBVIOUS
  <2> HIDE DEF n, a, b
  <2> QED BY <1>1, <2>1, <2>2, <2>3 DEF User
<1>3. CASE ~NewFormat(l.text)
  <2> DEFINE n == OldName(l.text)
             b == n = <<Admin>>
  <2>1. n \in Text
    BY <1>1, OldNameIsText
  <2>2. Parsed(l) = [id |-> l.id, name |-> n, active |-> TRUE, is_admin |-> b]
    BY <1>3 DEF Parsed
  <2>3. b \in BOOLEAN
    OBVIOUS
  <2> HIDE DEF n, b
  <2> QED BY <1>1, <2>1, <2>2, <2>3 DEF User
<1> QED BY <1>2, <1>3

\* The accounts read from a file that is not too long.
LEMMA LoadedFacts ==
  ASSUME NEW db \in Seq(Line), Len(db) <= MAX_USERS
  PROVE  /\ Loaded(db) \in Seq(User) /\ Len(Loaded(db)) = Len(db)
         /\ \A k \in 1 .. Len(db) : Loaded(db)[k] = Parsed(db[k]) /\ Loaded(db)[k].id = db[k].id
         /\ \A T : TornOf(db, T) = {k \in 1 .. Len(db) : db[k].cut \/ k \in T}
<1>1. Len(db) \in Nat /\ MAX_USERS \in Nat
  BY TableAssumption
<1>2. Shorter(Len(db), MAX_USERS) = Len(db)
  BY <1>1 DEF Shorter
<1>3. Loaded(db) = [k \in 1 .. Len(db) |-> Parsed(db[k])]
  BY <1>2 DEF Loaded
<1>4. \A k \in 1 .. Len(db) : Parsed(db[k]) \in User /\ Parsed(db[k]).id = db[k].id
  BY ParsedFacts
<1> HIDE DEF User
<1>5. Loaded(db) \in Seq(User) /\ Len(Loaded(db)) = Len(db)
  BY <1>1, <1>3, <1>4
<1> QED BY <1>2, <1>3, <1>4, <1>5 DEF TornOf

\* Lines of accounts, whole or cut, are a file of theirs.
LEMMA FileOf ==
  ASSUME NEW u, NEW T, Accounts(u, T), NEW db \in Seq(Line), Len(db) <= Len(u),
         \A k \in 1 .. Len(db) : db[k].id = k /\ (db[k] = Formatted(u[k]) \/ db[k].cut)
  PROVE  File(db, T)
<1>1. /\ Len(u) \in Nat /\ Len(u) <= MAX_USERS /\ Len(db) \in Nat /\ MAX_USERS \in Nat
      /\ \A k \in 1 .. Len(u) : u[k] \in User
  BY TableAssumption DEF Accounts
<1>2. Len(db) <= MAX_USERS /\ \A k \in 1 .. Len(db) : k \in 1 .. Len(u)
  BY <1>1
<1> DEFINE v == Loaded(db)
           R == TornOf(db, T)
<1>3. /\ Len(v) = Len(db) /\ \A k \in 1 .. Len(db) : v[k] = Parsed(db[k]) /\ v[k].id = k
      /\ R = {k \in 1 .. Len(db) : db[k].cut \/ k \in T}
  BY <1>2, LoadedFacts
<1> HIDE DEF v, R
<1>4. ASSUME NEW k \in 1 .. Len(db), k \notin R PROVE v[k] = u[k] /\ k \in 1 .. Len(u) /\ k \notin T
  <2>1. k \in 1 .. Len(u) /\ k \notin T /\ db[k] = Formatted(u[k])
    BY <1>2, <1>3, <1>4
  <2>2. Whole(u[k].name)
    BY <2>1 DEF Accounts, Sound
  <2>3. Parsed(Formatted(u[k])) = u[k]
    BY <1>1, <2>1, <2>2, WholeIsReadBack
  <2> QED BY <1>3, <2>1, <2>3
<1>5. Sound(v, R)
  <2>1. \A k \in 1 .. Len(v) :
          k \notin R => /\ Whole(v[k].name) /\ (v[k].is_admin <=> v[k].name = <<Admin>>)
                        /\ v[k].is_admin => v[k].active
    BY <1>3, <1>4 DEF Accounts, Sound
  <2>2. \A j, k \in 1 .. Len(v) : j # k /\ j \notin R /\ k \notin R => v[j].name # v[k].name
    BY <1>3, <1>4 DEF Accounts, Sound
  <2> QED BY <1>3, <2>1, <2>2 DEF Sound
<1> QED BY <1>2, <1>5 DEF File, v, R

-----------------------------------------------------------------------------
(* Saving.                                                                 *)

\* The file of all accounts has their lines.
LEMMA FormatFacts ==
  ASSUME NEW u, NEW T, Accounts(u, T)
  PROVE  /\ Format(u) \in Seq(Line) /\ Len(Format(u)) = Len(u)
         /\ \A k \in 1 .. Len(u) :
              Format(u)[k] = Formatted(u[k]) /\ Format(u)[k].id = k /\ Format(u)[k].cut = FALSE
<1>1. /\ u \in Seq(User) /\ DOMAIN u = 1 .. Len(u) /\ Len(u) \in Nat
      /\ \A k \in 1 .. Len(u) : u[k] \in User /\ u[k].id = k
  BY DEF Accounts, Sound
<1>2. Format(u) = [k \in 1 .. Len(u) |-> Formatted(u[k])]
  BY <1>1 DEF Format
<1>3. \A k \in 1 .. Len(u) :
        Formatted(u[k]) \in Line /\ Formatted(u[k]).id = k /\ Formatted(u[k]).cut = FALSE
  BY <1>1, FormattedFacts
<1> HIDE DEF Line
<1> QED BY <1>1, <1>2, <1>3

\* A line that was cut is one, with its id.
LEMMA CutFacts ==
  ASSUME NEW l \in Line, NEW c \in Cut(l)
  PROVE  c \in Line /\ c.id = l.id /\ c.cut = TRUE
<1>1. l.id \in Nat /\ l.text \in Text
  BY DEF Line
<1> DEFINE S == {<<p>> : p \in Pieces[l.text[1]]}
                  \cup {SubSeq(l.text, 1, j) : j \in 1 .. Len(l.text) - 1}
<1>2. PICK t \in S : c = [l EXCEPT !.text = t, !.cut = TRUE]
  BY DEF Cut
<1>3. /\ l.text \in Seq(Name \cup Sign) /\ Len(l.text) \in Nat /\ Len(l.text) >= 1
      /\ l.text[1] \in Name
  BY <1>1, TextFacts
<1>4. t \in Text
  <2>1. CASE t \in {<<p>> : p \in Pieces[l.text[1]]}
    <3>1. PICK p \in Pieces[l.text[1]] : t = <<p>>
      BY <2>1
    <3>2. p \in Name
      BY <1>3, NameAssumption
    <3>3. t \in Seq(Name \cup Sign) /\ t # << >> /\ t[1] \in Name
      BY <3>1, <3>2
    <3> QED BY <3>3 DEF Text
  <2>2. CASE t \in {SubSeq(l.text, 1, j) : j \in 1 .. Len(l.text) - 1}
    <3>1. PICK j \in 1 .. Len(l.text) - 1 : t = SubSeq(l.text, 1, j)
      BY <2>2
    <3>2. /\ t \in Seq(Name \cup Sign) /\ Len(t) = j /\ t[1] = l.text[1]
      BY <1>3, <3>1
    <3>3. t # << >>
      BY <3>1, <3>2
    <3> QED BY <1>3, <3>2, <3>3 DEF Text
  <2> QED BY <1>2, <2>1, <2>2
<1>5. c = [l EXCEPT !.text = t, !.cut = TRUE]
  BY <1>2
<1> HIDE DEF S
<1> QED BY <1>1, <1>4, <1>5 DEF Line

\* The first lines of the file, and a part of the next one, are a file.
LEMMA Prefixes ==
  ASSUME NEW u, NEW T, Accounts(u, T), NEW k \in 0 .. Len(u)
  PROVE  /\ File(SubSeq(Format(u), 1, k), T)
         /\ k < Len(u) => \A l \in Cut(Formatted(u[k + 1])) :
                            File(Append(SubSeq(Format(u), 1, k), l), T)
<1> DEFINE p == SubSeq(Format(u), 1, k)
<1>1. /\ Len(u) \in Nat /\ \A j \in 1 .. Len(u) : u[j] \in User /\ u[j].id = j
  BY DEF Accounts, Sound
<1>2. /\ p \in Seq(Line) /\ Len(p) = k
      /\ \A j \in 1 .. k : j \in 1 .. Len(u) /\ p[j] = Format(u)[j]
  <2> DEFINE f == Format(u)
  <2>1. f \in Seq(Line) /\ Len(f) = Len(u)
    BY FormatFacts
  <2> HIDE DEF f, Line
  <2>2. /\ SubSeq(f, 1, k) \in Seq(Line) /\ Len(SubSeq(f, 1, k)) = k
        /\ \A j \in 1 .. k : j \in 1 .. Len(u) /\ SubSeq(f, 1, k)[j] = f[j]
    BY <1>1, <2>1
  <2> QED BY <2>2 DEF f
<1>3. \A j \in 1 .. k : p[j] = Formatted(u[j]) /\ p[j].id = j
  <2>1. \A j \in 1 .. Len(u) : Format(u)[j] = Formatted(u[j]) /\ Format(u)[j].id = j
    BY FormatFacts
  <2> HIDE DEF p
  <2> QED BY <1>2, <2>1
<1> HIDE DEF p
<1>4. File(p, T)
  BY <1>1, <1>2, <1>3, FileOf
<1>5. ASSUME k < Len(u), NEW l \in Cut(Formatted(u[k + 1])) PROVE File(Append(p, l), T)
  <2>1. k + 1 \in 1 .. Len(u) /\ k \in Nat
    BY <1>1, <1>5
  <2>2. l \in Line /\ l.id = k + 1 /\ l.cut = TRUE
    <3> DEFINE r == u[k + 1]
    <3>0. r \in User /\ r.id = k + 1
      BY <1>1, <2>1
    <3>1. Formatted(r) \in Line /\ Formatted(r).id = k + 1
      <4> HIDE DEF r, User, Line
      <4> QED BY <3>0, FormattedFacts
    <3> QED BY <1>5, <3>1, CutFacts
  <2> DEFINE db == Append(p, l)
  <2> HIDE DEF Line
  <2>3. /\ db \in Seq(Line) /\ Len(db) = k + 1 /\ db[k + 1] = l
        /\ \A j \in 1 .. k : db[j] = p[j]
        /\ \A j \in 1 .. k + 1 : j \in 1 .. k \/ j = k + 1
    BY <1>2, <2>1, <2>2
  <2> HIDE DEF db
  <2>4. \A j \in 1 .. Len(db) : db[j].id = j /\ (db[j] = Formatted(u[j]) \/ db[j].cut)
    BY <1>3, <2>2, <2>3
  <2>5. Len(db) <= Len(u)
    BY <1>1, <1>5, <2>1, <2>3
  <2>6. File(db, T)
    BY <2>3, <2>4, <2>5, FileOf
  <2> QED BY <2>6 DEF db
<1> QED BY <1>4, <1>5 DEF p

\* Whatever a save leaves is a file, and without a fault it is up to date.  A save
\* that failed has left the file that was there.
LEMMA Saves ==
  ASSUME NEW u, NEW T, Accounts(u, T), faults \in 0 .. MaxFaults,
         NEW o \in save_users(u), Saved(o)
  PROVE  /\ File(users_db', T) \/ (users_db' = users_db /\ o.ret < 0)
         /\ faults' \in 0 .. MaxFaults
         /\ faults' = 0 => users_db' = Format(u)
<1>1. users_db' = o.db /\ faults' = faults + o.fault
  BY DEF Saved
<1>2. \A d, r, f : Outcome(d, r, f).db = d /\ Outcome(d, r, f).fault = f /\ Outcome(d, r, f).ret = r
  BY DEF Outcome
<1>3. Len(u) \in Nat
  BY DEF Accounts
<1>4. CASE o = Outcome(Format(u), 0, 0)
  <2>1. File(Format(u), T)
    <3>1. Format(u) \in Seq(Line) /\ Len(Format(u)) = Len(u)
      BY FormatFacts
    <3>2. Len(u) \in 0 .. Len(u) /\ SubSeq(Format(u), 1, Len(u)) = Format(u)
      BY <1>3, <3>1, SubSeqFull
    <3>3. File(SubSeq(Format(u), 1, Len(u)), T)
      BY <3>2, Prefixes
    <3> QED BY <3>2, <3>3
  <2>2. users_db' = Format(u) /\ faults' = faults
    <3>1. o.db = Format(u) /\ o.fault = 0
      BY <1>2, <1>4
    <3> QED BY <1>1, <3>1
  <2> QED BY <2>1, <2>2
<1>5. CASE o # Outcome(Format(u), 0, 0)
  <2>1. faults # MaxFaults
    BY <1>5 DEF save_users
  <2>2. \/ o = Outcome(users_db, -1, 1)
        \/ \E k \in 0 .. Len(u) - 1 : o = Outcome(SubSeq(Format(u), 1, k), 0, 1)
        \/ \E k \in 0 .. Len(u) - 1 : \E l \in Cut(Formatted(u[k + 1])) :
             o = Outcome(Append(SubSeq(Format(u), 1, k), l), 0, 1)
    BY <1>5 DEF save_users
  <2>3. o.fault = 1
    BY <1>2, <2>2
  <2>4. File(o.db, T) \/ (o.db = users_db /\ o.ret < 0)
    <3>1. \A k \in 0 .. Len(u) - 1 : k \in 0 .. Len(u) /\ k < Len(u)
      BY <1>3
    <3>2. ASSUME NEW k \in 0 .. Len(u) - 1
          PROVE  /\ File(SubSeq(Format(u), 1, k), T)
                 /\ \A l \in Cut(Formatted(u[k + 1])) : File(Append(SubSeq(Format(u), 1, k), l), T)
      BY <3>1, Prefixes
    <3>3. CASE o = Outcome(users_db, -1, 1)
      BY <1>2, <3>3
    <3>4. CASE \E k \in 0 .. Len(u) - 1 : o = Outcome(SubSeq(Format(u), 1, k), 0, 1)
      BY <1>2, <3>2, <3>4
    <3>5. CASE \E k \in 0 .. Len(u) - 1 : \E l \in Cut(Formatted(u[k + 1])) :
                 o = Outcome(Append(SubSeq(Format(u), 1, k), l), 0, 1)
      BY <1>2, <3>2, <3>5
    <3> QED BY <2>2, <3>3, <3>4, <3>5
  <2>5. faults' \in 1 .. MaxFaults
    BY <1>1, <2>1, <2>3, BoundAssumption
  <2> QED BY <1>1, <2>4, <2>5
<1> QED BY <1>4, <1>5

-----------------------------------------------------------------------------
(* New accounts and loading.                                               *)

\* The greatest id is the number of accounts.
LEMMA GreatestId ==
  ASSUME NEW u \in Seq(User), \A k \in 1 .. Len(u) : u[k].id = k
  PROVE  get_max_user_id(u) = Len(u)
<1> DEFINE ids == {0} \cup {u[k].id : k \in DOMAIN u}
<1>1. DOMAIN u = 1 .. Len(u) /\ Len(u) \in Nat
  OBVIOUS
<1>2. ids = 0 .. Len(u)
  BY <1>1
<1>3. ASSUME NEW m \in 0 .. Len(u)
      PROVE  (\A k \in DOMAIN u : u[k].id <= m) <=> m = Len(u)
  <2>1. \A k \in DOMAIN u : u[k].id = k /\ k <= Len(u)
    BY <1>1
  <2>2. Len(u) # 0 => Len(u) \in DOMAIN u
    BY <1>1
  <2>3. ASSUME \A k \in DOMAIN u : u[k].id <= m PROVE m = Len(u)
    <3>1. Len(u) # 0 => Len(u) <= m
      BY <2>1, <2>2, <2>3
    <3>2. Len(u) \in Nat
      OBVIOUS
    <3> QED BY <3>1, <3>2
  <2>4. ASSUME m = Len(u) PROVE \A k \in DOMAIN u : u[k].id <= m
    BY <1>1, <2>1, <2>4
  <2> QED BY <2>3, <2>4
<1>4. Len(u) \in ids
  BY <1>1, <1>2
<1> HIDE DEF ids
<1>5. (CHOOSE m \in ids : \A k \in DOMAIN u : u[k].id <= m) = Len(u)
  BY <1>2, <1>3, <1>4
<1> QED BY <1>5 DEF get_max_user_id, ids

\* The record of a new account.
LEMMA NewRecord ==
  ASSUME NEW u, NEW T, Accounts(u, T), NEW n \in Name, NEW b \in BOOLEAN
  PROVE  LET r == NewUser(u, n, b)
         IN  r \in User /\ r.id = Len(u) + 1 /\ r.name = <<n>> /\ r.active = TRUE /\ r.is_admin = b
<1>1. get_max_user_id(u) = Len(u) /\ Len(u) \in Nat
  BY GreatestId DEF Accounts, Sound
<1> DEFINE r == NewUser(u, n, b)
           t == <<n>>
<1>2. r = [id |-> Len(u) + 1, name |-> t, active |-> TRUE, is_admin |-> b]
  BY <1>1 DEF NewUser
<1>3. t \in Text
  <2>1. t \in Seq(Name \cup Sign) /\ t # << >> /\ t[1] \in Name
    OBVIOUS
  <2> QED BY <2>1 DEF Text
<1> HIDE DEF r, t
<1>4. r \in User /\ r.id = Len(u) + 1 /\ r.name = t /\ r.active = TRUE /\ r.is_admin = b
  BY <1>1, <1>2, <1>3 DEF User
<1> QED BY <1>4 DEF r, t

\* A new account gets the next id and the place it names.
LEMMA NewAccount ==
  ASSUME NEW u, NEW T, Accounts(u, T), Len(u) < MAX_USERS, NEW n \in Name,
         \A k \in 1 .. Len(u) : u[k].name # <<n>>,
         NEW r \in User, r.id = Len(u) + 1, r.name = <<n>>, r.active, r.is_admin <=> n = Admin
  PROVE  LET v == Append(u, r)
         IN  /\ Accounts(v, T) /\ Len(v) = Len(u) + 1
             /\ \A k \in 1 .. Len(u) : v[k] = u[k]
             /\ v[Len(v)].id = Len(v) /\ v[Len(v)].name = <<n>> /\ v[Len(v)].active
             /\ (v[Len(v)].is_admin <=> n = Admin)
<1> DEFINE v == Append(u, r)
           t == <<n>>
<1>1. u \in Seq(User) /\ Len(u) \in Nat /\ T \in SUBSET (1 .. Len(u)) /\ Sound(u, T)
  BY DEF Accounts
<1>2. /\ r \in User /\ r.id = Len(u) + 1 /\ r.name = t
      /\ r.active /\ (r.is_admin <=> n = Admin)
  OBVIOUS
<1>3. Whole(t) /\ (t = <<Admin>> <=> n = Admin) /\ \A k \in 1 .. Len(u) : u[k].name # t
  BY DEF Whole
<1> HIDE DEF User, t
<1>4. /\ v \in Seq(User) /\ Len(v) = Len(u) + 1 /\ v[Len(u) + 1] = r
      /\ \A k \in 1 .. Len(u) : v[k] = u[k]
      /\ \A k \in 1 .. Len(v) : k \in 1 .. Len(u) \/ k = Len(u) + 1
      /\ Len(v) <= MAX_USERS
      /\ T \in SUBSET (1 .. Len(v)) /\ Len(u) + 1 \notin 1 .. Len(u)
  BY <1>1, <1>2, TableAssumption
<1> HIDE DEF v
<1>5. \A k \in 1 .. Len(v) :
        /\ v[k].id = k
        /\ k \notin T => /\ Whole(v[k].name) /\ (v[k].is_admin <=> v[k].name = <<Admin>>)
                         /\ v[k].is_admin => v[k].active
  <2> DEFINE Good(w, k) ==
               /\ w[k].id = k
               /\ k \notin T => /\ Whole(w[k].name) /\ (w[k].is_admin <=> w[k].name = <<Admin>>)
                                /\ w[k].is_admin => w[k].active
  <2>1. \A k \in 1 .. Len(u) : Good(u, k)
    BY <1>1 DEF Sound
  <2>2. \A k \in 1 .. Len(u) : Good(v, k)
    BY <1>4, <2>1
  <2>3. Good(v, Len(u) + 1)
    BY <1>2, <1>3, <1>4
  <2> HIDE DEF Good
  <2>4. \A k \in 1 .. Len(v) : Good(v, k)
    BY <1>4, <2>2, <2>3
  <2> QED BY <2>4 DEF Good
<1>6. \A j, k \in 1 .. Len(v) : j # k /\ j \notin T /\ k \notin T => v[j].name # v[k].name
  <2>1. \A j, k \in 1 .. Len(u) : j # k /\ j \notin T /\ k \notin T => v[j].name # v[k].name
    BY <1>1, <1>4 DEF Sound
  <2>2. \A j \in 1 .. Len(u) : v[j].name # v[Len(u) + 1].name
    BY <1>2, <1>3, <1>4
  <2> QED BY <1>4, <2>1, <2>2
<1>7. Accounts(v, T)
  BY <1>4, <1>5, <1>6 DEF Accounts, Sound
<1> QED BY <1>2, <1>4, <1>7 DEF v, t

\* The default admin is found where it was, among the same names and more.
LEMMA AdminStays ==
  ASSUME NEW u \in Seq(User), NEW v \in Seq(User), AdminIn(u), Len(u) <= Len(v),
         \A k \in 1 .. Len(u) :
           /\ v[k].name = u[k].name
           /\ u[k].is_admin /\ u[k].active => v[k].is_admin /\ v[k].active
  PROVE  AdminIn(v)
<1> DEFINE a == find_user_index_by_name(u, Admin)
           b == find_user_index_by_name(v, Admin)
<1>1. /\ a # 0 /\ a \in 1 .. Len(u) /\ u[a].name = <<Admin>> /\ u[a].active /\ u[a].is_admin
      /\ \A j \in 1 .. Len(u) : u[j].name = <<Admin>> => a <= j
  BY FoundByName DEF AdminIn
<1>2. /\ b = 0 => \A j \in 1 .. Len(v) : v[j].name # <<Admin>>
      /\ b # 0 => /\ b \in 1 .. Len(v) /\ v[b].name = <<Admin>>
                  /\ \A j \in 1 .. Len(v) : v[j].name = <<Admin>> => b <= j
  BY FoundByName
<1> HIDE DEF a, b
<1>3. Len(u) \in Nat /\ Len(v) \in Nat /\ a \in 1 .. Len(v) /\ v[a].name = <<Admin>>
  BY <1>1
<1>4. b # 0 /\ b \in 1 .. Len(v) /\ b <= a /\ v[b].name = <<Admin>>
  BY <1>2, <1>3
<1>5. b \in 1 .. Len(u) /\ u[b].name = <<Admin>>
  BY <1>1, <1>3, <1>4
<1>6. a = b
  BY <1>1, <1>4, <1>5
<1> QED BY <1>1, <1>4, <1>6 DEF AdminIn, b

\* The accounts that are read from a file, and the default admin.
LEMMA Loads ==
  ASSUME NEW db, NEW T, File(db, T),
         find_user_index_by_name(Loaded(db), Admin) # 0 \/ Len(db) < MAX_USERS
  PROVE  LET a == find_user_index_by_name(Loaded(db), Admin)
             v == load_users(db)
         IN  /\ Accounts(v, TornOf(db, T)) /\ AdminIn(v) /\ Len(db) <= Len(v)
             /\ \A k \in 1 .. Len(db) :
                  /\ k # a => v[k] = Parsed(db[k])
                  /\ v[k].id = k /\ v[k].name = Parsed(db[k]).name
                  /\ k = a => /\ v[k].active = TRUE /\ v[k].is_admin = TRUE
<1> DEFINE u == Loaded(db)
           R == TornOf(db, T)
           a == find_user_index_by_name(u, Admin)
           v == load_users(db)
<1>1. db \in Seq(Line) /\ Len(db) \in Nat /\ Len(db) <= MAX_USERS
  BY DEF File
<1>2. /\ u \in Seq(User) /\ Len(u) = Len(db) /\ DOMAIN u = 1 .. Len(u)
      /\ \A k \in 1 .. Len(u) : u[k] = Parsed(db[k])
      /\ R \in SUBSET (1 .. Len(u))
  BY <1>1, LoadedFacts
<1>3. Sound(u, R) /\ \A k \in 1 .. Len(u) : u[k].id = k
  BY DEF File, Sound
<1>4. /\ a = 0 => \A k \in 1 .. Len(u) : u[k].name # <<Admin>>
      /\ a # 0 => /\ a \in 1 .. Len(u) /\ u[a].name = <<Admin>>
                  /\ \A k \in 1 .. Len(u) : u[k].name = <<Admin>> => a <= k
  BY <1>2, FoundByName
<1>5. a = 0 => v = Append(u, NewUser(u, Admin, TRUE)) /\ Len(u) < MAX_USERS
  BY <1>2 DEF load_users
<1>6. a # 0 => v = [u EXCEPT ![a] = [[u[a] EXCEPT !.active = TRUE] EXCEPT !.is_admin = TRUE]]
  <2>1. a # 0 => v = [u EXCEPT ![a].active = TRUE, ![a].is_admin = TRUE]
    BY DEF load_users
  <2> HIDE DEF u, a, v
  <2> QED BY <1>2, <1>4, <2>1
<1> HIDE DEF u, R, v
<1>7. Accounts(u, R)
  BY <1>1, <1>2, <1>3 DEF Accounts
<1>8. CASE a = 0
  <2> DEFINE q == NewUser(u, Admin, TRUE)
  <2>1. Admin \in Name
    BY NameAssumption
  <2>2a. /\ q \in User /\ q.id = Len(u) + 1 /\ q.name = <<Admin>>
         /\ q.active = TRUE /\ q.is_admin = TRUE
    BY <1>7, <2>1, NewRecord
  <2> HIDE DEF q
  <2>2. /\ Accounts(v, R) /\ Len(v) = Len(u) + 1
        /\ \A k \in 1 .. Len(u) : v[k] = u[k]
        /\ v[Len(v)].name = <<Admin>> /\ v[Len(v)].active /\ v[Len(v)].is_admin
    <3>1. v = Append(u, q) /\ Len(u) < MAX_USERS /\ \A k \in 1 .. Len(u) : u[k].name # <<Admin>>
      BY <1>4, <1>5, <1>8 DEF q
    <3>2. LET w == Append(u, q)
          IN  /\ Accounts(w, R) /\ Len(w) = Len(u) + 1
              /\ \A k \in 1 .. Len(u) : w[k] = u[k]
              /\ w[Len(w)].id = Len(w) /\ w[Len(w)].name = <<Admin>> /\ w[Len(w)].active
              /\ (w[Len(w)].is_admin <=> Admin = Admin)
      <4>1. q.active /\ (q.is_admin <=> Admin = Admin)
        BY <2>2a
      <4> HIDE DEF v, User
      <4> QED BY <1>7, <2>1, <2>2a, <3>1, <4>1, NewAccount
    <3> QED BY <3>1, <3>2
  <2> DEFINE b == find_user_index_by_name(v, Admin)
  <2>3. /\ b = 0 => \A j \in 1 .. Len(v) : v[j].name # <<Admin>>
        /\ b # 0 => b \in 1 .. Len(v) /\ v[b].name = <<Admin>>
    BY <2>2, FoundByName DEF Accounts
  <2> HIDE DEF b, a
  <2>4. Len(v) \in 1 .. Len(v) /\ \A k \in 1 .. Len(v) : k \in 1 .. Len(u) \/ k = Len(v)
    BY <1>1, <1>2, <2>2
  <2>5. b = Len(v) /\ b # 0
    BY <1>4, <1>8, <2>2, <2>3, <2>4
  <2>6. AdminIn(v)
    BY <2>2, <2>5 DEF AdminIn, b
  <2>7. \A k \in 1 .. Len(u) : k # a
    BY <1>8
  <2>8. \A k \in 1 .. Len(u) : v[k] = Parsed(db[k]) /\ v[k].id = k
    BY <1>2, <1>3, <2>2
  <2> QED BY <1>1, <1>2, <2>2, <2>6, <2>7, <2>8 DEF a, u, R, v
<1>9. CASE a # 0
  <2> DEFINE w == u[a]
             z == [[w EXCEPT !.active = TRUE] EXCEPT !.is_admin = TRUE]
  <2>1. a \in 1 .. Len(u) /\ w \in User /\ w.name = <<Admin>> /\ w.id = a
    BY <1>2, <1>3, <1>4, <1>9
  <2>2. v = [u EXCEPT ![a] = z]
    BY <1>6, <1>9
  <2> HIDE DEF w, a
  <2>3. /\ z \in User /\ z.id = a /\ z.name = <<Admin>> /\ z.active = TRUE /\ z.is_admin = TRUE
    BY <2>1 DEF User
  <2> HIDE DEF z
  <2> HIDE DEF User
  <2>4. /\ v \in Seq(User) /\ Len(v) = Len(u) /\ v[a] = z
        /\ \A k \in 1 .. Len(u) : k # a => v[k] = u[k]
    BY <1>2, <2>1, <2>2, <2>3
  <2>5. /\ \A k \in 1 .. Len(u) : v[k].id = k /\ v[k].name = u[k].name
        /\ u[a].name = <<Admin>>
    BY <1>3, <2>1, <2>3, <2>4 DEF w
  <2>6. Accounts(v, R)
    <3>1. \A k \in 1 .. Len(v) :
            k \notin R => /\ Whole(v[k].name) /\ (v[k].is_admin <=> v[k].name = <<Admin>>)
                          /\ v[k].is_admin => v[k].active
      BY <1>3, <2>3, <2>4, <2>5 DEF Sound
    <3>2. \A j, k \in 1 .. Len(v) : j # k /\ j \notin R /\ k \notin R => v[j].name # v[k].name
      BY <1>3, <2>4, <2>5 DEF Sound
    <3> QED BY <1>1, <1>2, <2>4, <2>5, <3>1, <3>2 DEF Accounts, Sound
  <2>7. AdminIn(v)
    <3> DEFINE b == find_user_index_by_name(v, Admin)
    <3>1. /\ b = 0 => \A j \in 1 .. Len(v) : v[j].name # <<Admin>>
          /\ b # 0 => /\ b \in 1 .. Len(v) /\ v[b].name = <<Admin>>
                      /\ \A j \in 1 .. Len(v) : v[j].name = <<Admin>> => b <= j
      BY <2>4, FoundByName
    <3> HIDE DEF b
    <3>2. a \in 1 .. Len(v) /\ v[a].name = <<Admin>> /\ Len(v) \in Nat
      BY <1>1, <1>2, <2>1, <2>3, <2>4
    <3>3. b # 0 /\ b \in 1 .. Len(v) /\ b <= a /\ v[b].name = <<Admin>>
      BY <3>1, <3>2
    <3>4. a <= b
      <4>1. u[b].name = <<Admin>> /\ b \in 1 .. Len(u)
        BY <2>4, <2>5, <3>3
      <4> QED BY <1>4, <1>9, <4>1 DEF a
    <3>5. a = b
      BY <3>2, <3>3, <3>4
    <3> QED BY <2>3, <2>4, <3>3, <3>5 DEF AdminIn, b
  <2>8. \A k \in 1 .. Len(u) : v[k].name = Parsed(db[k]).name /\ (k # a => v[k] = Parsed(db[k]))
    BY <1>2, <2>4, <2>5
  <2> QED BY <1>1, <1>2, <2>3, <2>4, <2>5, <2>6, <2>7, <2>8 DEF a, u, R, v
<1> QED BY <1>8, <1>9

-----------------------------------------------------------------------------
(* Sessions.                                                               *)

\* A client in use gets the record c, a sound one if it is a session.
LEMMA Replaced ==
  ASSUME NEW cl, NEW u, Table(cl), Sessions(cl, u), NEW s \in InUse(cl),
         NEW c \in Client, c.mode # "free",
         c.mode # "login" =>
           SessionSound(c, u) /\ \A t \in In(cl) : t # s => cl[t].user # c.user
  PROVE  LET d == [cl EXCEPT ![s] = c]
         IN  Table(d) /\ Sessions(d, u) /\ InUse(d) = InUse(cl)
<1> DEFINE d == [cl EXCEPT ![s] = c]
<1>1. s \in Slot /\ cl[s].mode # "free"
  BY DEF InUse
<1>2. d \in [Slot -> Client] /\ d[s] = c /\ \A t \in Slot \ {s} : d[t] = cl[t]
  BY <1>1 DEF Table
<1> HIDE DEF d
<1>3. Table(d)
  BY <1>2 DEF Table
<1>4. InUse(d) = InUse(cl)
  BY <1>1, <1>2 DEF InUse
<1>5. In(d) \ {s} = In(cl) \ {s}
  BY <1>2 DEF In
<1>6. s \in In(d) => c.mode # "login"
  BY <1>2 DEF In
<1>7. \A t \in In(d) \ {s} : t \in In(cl) /\ d[t] = cl[t] /\ t \in Slot
  BY <1>2, <1>5 DEF In
<1>8. \A t \in In(d) : SessionSound(d[t], u)
  BY <1>2, <1>6, <1>7 DEF Sessions
<1>9. \A t, r \in In(d) : t # r => d[t].user # d[r].user
  BY <1>2, <1>6, <1>7 DEF Sessions
<1> QED BY <1>3, <1>4, <1>8, <1>9 DEF Sessions, d

\* The same for a session that stays one of its account.
LEMMA Continued ==
  ASSUME NEW cl, NEW u, Table(cl), Sessions(cl, u), NEW s \in In(cl),
         NEW c \in Client, c.mode \notin {"free", "login"}, c.user = cl[s].user, SessionSound(c, u)
  PROVE  LET d == [cl EXCEPT ![s] = c]
         IN  Table(d) /\ Sessions(d, u) /\ InUse(d) = InUse(cl)
<1>1. s \in InUse(cl)
  BY DEF In, InUse
<1>2. \A t \in In(cl) : t # s => cl[t].user # c.user
  BY DEF Sessions
<1> QED BY <1>1, <1>2, Replaced

\* The slots of S are cleared.
LEMMA Cleared ==
  ASSUME NEW cl, NEW u, NEW v, Table(cl), Sessions(cl, u), NEW S,
         Len(u) \in Nat, Len(v) \in Nat, Len(u) <= Len(v),
         \A k \in 1 .. Len(u) : u[k].is_admin => v[k].is_admin,
         \A s \in In(cl) \ S : v[cl[s].user].active
  PROVE  LET d == [s \in Slot |-> IF s \in S THEN FreeSlot ELSE cl[s]]
         IN  Table(d) /\ Sessions(d, v) /\ InUse(d) = InUse(cl) \ S
<1> DEFINE d == [s \in Slot |-> IF s \in S THEN FreeSlot ELSE cl[s]]
<1>1. FreeSlot \in Client /\ FreeSlot.mode = "free"
  BY DEF FreeSlot, Client
<1>2. /\ d \in [Slot -> Client]
      /\ \A s \in Slot : d[s] = IF s \in S THEN FreeSlot ELSE cl[s]
  BY <1>1 DEF Table
<1> HIDE DEF d
<1>3. Table(d)
  BY <1>1, <1>2 DEF Table
<1>4. InUse(d) = InUse(cl) \ S
  BY <1>1, <1>2 DEF InUse
<1>5. \A s \in In(d) : s \in In(cl) \ S /\ d[s] = cl[s]
  BY <1>1, <1>2 DEF In
<1>6. \A s \in In(d) : SessionSound(d[s], v)
  <2>1. ASSUME NEW s \in In(d) PROVE SessionSound(d[s], v)
    <3>1. SessionSound(cl[s], u) /\ d[s] = cl[s] /\ v[cl[s].user].active
      BY <1>5 DEF Sessions
    <3>2. \A k \in 1 .. Len(u) : k \in 1 .. Len(v)
      OBVIOUS
    <3> QED BY <3>1, <3>2 DEF SessionSound
  <2> QED BY <2>1
<1>7. \A s, t \in In(d) : s # t => d[s].user # d[t].user
  BY <1>5 DEF Sessions
<1> QED BY <1>3, <1>4, <1>6, <1>7 DEF Sessions, d

\* Clearing one slot, whatever accounts were added.
LEMMA OneCleared ==
  ASSUME NEW cl, NEW u, NEW v, Table(cl), Sessions(cl, u), NEW c,
         Len(u) \in Nat, Len(v) \in Nat, Len(u) <= Len(v),
         \A k \in 1 .. Len(u) : u[k].is_admin => v[k].is_admin,
         \A s \in In(cl) \ {c} : v[cl[s].user].active
  PROVE  LET d == [s \in Slot |-> IF s \in {c} THEN FreeSlot ELSE cl[s]]
         IN  Table(d) /\ Sessions(d, v) /\ InUse(d) = InUse(cl) \ {c}
<1> DEFINE S == {c}
<1>1. \A s \in In(cl) \ S : v[cl[s].user].active
  OBVIOUS
<1> HIDE DEF S
<1>2. LET d == [s \in Slot |-> IF s \in S THEN FreeSlot ELSE cl[s]]
      IN  Table(d) /\ Sessions(d, v) /\ InUse(d) = InUse(cl) \ S
  BY <1>1, Cleared
<1> QED BY <1>2 DEF S

-----------------------------------------------------------------------------
(* The loop.                                                               *)

\* A line is done, or the last of its chunk.
LEMMA LineDone ==
  ASSUME NEW A, NEW p, NEW b, NEW c, NEW n, NEW re, NEW rd, Loop(A, p, b, c, n, re, rd), n > 0
  PROVE  Loop(A, p, b, IF n = 1 THEN NOBODY ELSE c, n - 1, re, rd)
<1>1. n \in 0 .. MaxLines /\ MaxLines \in Nat /\ p # "down"
  BY BoundAssumption DEF Loop
<1> QED BY <1>1 DEF Loop

\* Slots that are cleared leave the loop as it is.
LEMMA FewerSlots ==
  ASSUME NEW A, NEW p, NEW b, NEW c, NEW n, NEW re, NEW rd, Loop(A, p, b, c, n, re, rd), NEW S
  PROVE  Loop(A \ S, p, b, c, n, re, rd \ S)
BY DEF Loop

\* And so does dropping the rest of a chunk.
LEMMA RestDropped ==
  ASSUME NEW A, NEW p, NEW b, NEW c, NEW n, NEW re, NEW rd, Loop(A, p, b, c, n, re, rd)
  PROVE  Loop(A, p, b, NOBODY, 0, re, rd)
BY BoundAssumption DEF Loop

\* Taking the first event of a batch: it is of no client, readable or of a slot
\* that was filled again; with it goes the mark of its slot.
LEMMA NextEvent ==
  ASSUME NEW A \in SUBSET Slot, NEW p, NEW b, NEW c, NEW n, NEW re, NEW rd,
         Loop(A, p, b, c, n, re, rd), b # << >>
  PROVE  /\ Head(b) \in A => Head(b) \in rd \/ Head(b) \in re
         /\ Loop(A, "up", Tail(b), c, n, re \ {Head(b)}, rd \ {Head(b)})
         /\ Loop(A, "up", Tail(b), c, n, re \ {Head(b)}, rd)
         /\ \A j \in 1 .. Len(Tail(b)) : \E k \in DOMAIN b : Tail(b)[j] = b[k]
<1> DEFINE D == Slot \cup {LISTEN}
<1>1. b \in Seq(D)
  BY DEF Loop
<1> HIDE DEF D
<1>2. /\ Tail(b) \in Seq(D) /\ Len(Tail(b)) = Len(b) - 1
      /\ \A j \in 1 .. Len(Tail(b)) : Tail(b)[j] = b[j + 1]
  BY <1>1, HeadTailProperties
<1>3. Len(b) \in Nat /\ Len(b) >= 1 /\ Head(b) = b[1]
  BY <1>1, EmptySeq
<1>4. /\ 1 \in 1 .. Len(b)
      /\ \A j \in 1 .. Len(Tail(b)) : j + 1 \in 1 .. Len(b) /\ j + 1 # 1
      /\ \A k \in 1 .. Len(b) : k = 1 \/ (k - 1 \in 1 .. Len(Tail(b)) /\ (k - 1) + 1 = k)
  BY <1>2, <1>3
<1>5. /\ \A j, k \in 1 .. Len(b) : j # k => b[j] # b[k]
      /\ \A k \in 1 .. Len(b) : b[k] \in A => b[k] \in rd \/ b[k] \in re
  BY DEF Loop
<1>6. \A j \in 1 .. Len(Tail(b)) :
        /\ Tail(b)[j] # Head(b)
        /\ Tail(b)[j] \in A => Tail(b)[j] \in rd \/ Tail(b)[j] \in re
  BY <1>2, <1>3, <1>4, <1>5
<1>7. \A j, k \in 1 .. Len(Tail(b)) : j # k => Tail(b)[j] # Tail(b)[k]
  <2>1. \A j, k \in 1 .. Len(Tail(b)) : j # k => j + 1 # k + 1
    OBVIOUS
  <2> QED BY <1>2, <1>4, <1>5, <2>1
<1>8. \A j \in 1 .. Len(Tail(b)) : \E k \in DOMAIN b : Tail(b)[j] = b[k]
  <2>1. DOMAIN b = 1 .. Len(b)
    BY <1>1
  <2> QED BY <1>2, <1>4, <2>1
<1> HIDE DEF Slot
<1> DEFINE q == Tail(b)
           h == Head(b)
<1>9. /\ q \in Seq(D) /\ \A j, k \in 1 .. Len(q) : j # k => q[j] # q[k]
      /\ \A j \in 1 .. Len(q) : q[j] # h /\ (q[j] \in A => q[j] \in rd \/ q[j] \in re)
  BY <1>2, <1>6, <1>7
<1> HIDE DEF q, h
<1>10. /\ Loop(A, "up", q, c, n, re \ {h}, rd \ {h}) /\ Loop(A, "up", q, c, n, re \ {h}, rd)
  BY <1>9 DEF Loop, D
<1> QED BY <1>3, <1>4, <1>5, <1>8, <1>10 DEF q, h

-----------------------------------------------------------------------------
(* The lines of a client.                                                  *)

\* The list of conversations changes nothing else in a client.
LEMMA Shown ==
  ASSUME IInv, NEW c \in Client
  PROVE  /\ show_conversation_list(c) \in Client
         /\ show_conversation_list(c).mode = c.mode
         /\ show_conversation_list(c).user = c.user
         /\ show_conversation_list(c).partner = c.partner
<1>1. messages \in Seq(Message) /\ DOMAIN messages = 1 .. Len(messages)
  BY DEF IInv, TypeOK
<1>2. \A k \in DOMAIN messages : messages[k].from \in Nat /\ messages[k].to \in Nat
  <2>1. \A k \in DOMAIN messages : messages[k] \in Message
    BY <1>1
  <2> QED BY <2>1 DEF Message
<1> DEFINE m == Conversations(c.user)
<1>3. m \in SUBSET Nat
  BY <1>2 DEF Conversations
<1> HIDE DEF m
<1> QED BY <1>3 DEF show_conversation_list, Client, m

\* A line of client cur in a mode m.
LEMMA OfClient ==
  ASSUME IInv, NEW m, InMode(m), m # "free"
  PROVE  /\ lines > 0 /\ cur \in InUse(clients) /\ clients[cur].mode = m
         /\ clients[cur] \in Client /\ (m # "login" => cur \in In(clients))
         /\ pc # "down"
<1>1. lines > 0 /\ cur \in Slot /\ clients[cur].mode = m /\ clients[cur] \in Client
  BY DEF IInv, TypeOK, InMode
<1>2. pc # "down"
  BY <1>1 DEF IInv, BatchSound
<1> QED BY <1>1, <1>2 DEF InUse, In

\* A line that moves a session to another page.
LEMMA PageStep ==
  ASSUME IInv, cur \in In(clients), lines > 0, NEW c \in Client, SetClient(c), Consume,
         c.mode \notin {"free", "login"}, c.user = clients[cur].user, SessionSound(c, users),
         UNCHANGED <<users, disk_vars, fault_vars>>
  PROVE  IInv'
<1>1. /\ Data(users, users_db, messages, pc, faults, torn, lost)
      /\ Table(clients) /\ Sessions(clients, users)
      /\ Loop(InUse(clients), pc, batch, cur, lines, reused, readable)
  BY Parts
<1>2. /\ clients' = [clients EXCEPT ![cur] = c] /\ readable' = readable
      /\ lines' = lines - 1 /\ cur' = (IF lines = 1 THEN NOBODY ELSE cur)
      /\ pc' = pc /\ batch' = batch /\ reused' = reused
      /\ users' = users /\ users_db' = users_db /\ messages' = messages
      /\ faults' = faults /\ torn' = torn /\ lost' = lost
  BY DEF SetClient, Consume, disk_vars, fault_vars
<1>3. Table(clients') /\ Sessions(clients', users') /\ InUse(clients') = InUse(clients)
  <2> DEFINE d == [clients EXCEPT ![cur] = c]
  <2>1. Table(d) /\ Sessions(d, users) /\ InUse(d) = InUse(clients)
    BY <1>1, Continued
  <2>2. clients' = d /\ users' = users
    BY <1>2
  <2> HIDE DEF d
  <2> QED BY <2>1, <2>2
<1>4. Loop(InUse(clients'), pc', batch', cur', lines', reused', readable')
  BY <1>1, <1>2, <1>3, LineDone
<1>5. Data(users', users_db', messages', pc', faults', torn', lost')
  BY <1>1, <1>2
<1> QED BY <1>3, <1>4, <1>5, Parts

\* A line after which the client is gone; a new account may have been added.
LEMMA HangUpStep ==
  ASSUME IInv, HangUp, Len(users) <= Len(users'),
         \A k \in 1 .. Len(users) : users'[k] = users[k],
         Data(users', users_db', messages', pc', faults', torn', lost')
  PROVE  IInv'
<1>1. /\ Data(users, users_db, messages, pc, faults, torn, lost)
      /\ Table(clients) /\ Sessions(clients, users)
      /\ Loop(InUse(clients), pc, batch, cur, lines, reused, readable)
  BY Parts
<1>2. /\ clients' = [s \in Slot |-> IF s \in {cur} THEN FreeSlot ELSE clients[s]]
      /\ readable' = readable \ {cur} /\ lines' = 0 /\ cur' = NOBODY
      /\ pc' = pc /\ batch' = batch /\ reused' = reused
  BY DEF HangUp, disconnect_client, DropRest
<1>3. /\ Table(clients') /\ Sessions(clients', users')
      /\ InUse(clients') = InUse(clients) \ {cur}
  <2> DEFINE d == [s \in Slot |-> IF s \in {cur} THEN FreeSlot ELSE clients[s]]
  <2>1. Len(users) \in Nat /\ Len(users') \in Nat
    BY <1>1 DEF Data, Accounts
  <2>2. clients' = d
    BY <1>2
  <2>3. \A s \in In(clients) \ {cur} : users'[clients[s].user].active
    BY <1>1 DEF Sessions, SessionSound
  <2>4. \A k \in 1 .. Len(users) : users[k].is_admin => users'[k].is_admin
    OBVIOUS
  <2>5. Table(d) /\ Sessions(d, users') /\ InUse(d) = InUse(clients) \ {cur}
    BY <1>1, <2>1, <2>3, <2>4, OneCleared
  <2> HIDE DEF d
  <2> QED BY <2>2, <2>5
<1>4. Loop(InUse(clients'), pc', batch', cur', lines', reused', readable')
  <2>1. Loop(InUse(clients) \ {cur}, pc, batch, cur, lines, reused, readable \ {cur})
    BY <1>1, FewerSlots
  <2>2. Loop(InUse(clients) \ {cur}, pc, batch, NOBODY, 0, reused, readable \ {cur})
    BY <2>1, RestDropped
  <2> QED BY <1>2, <1>3, <2>2
<1> QED BY <1>3, <1>4, Parts

\* The lines that add no account, message or session.
LEMMA PlainLine ==
  ASSUME IInv,
         reply_only \/ login_refused \/ process_menu \/ chat_leave \/ chat_not_stored \/ admin_leave
  PROVE  IInv'
<1>1. /\ Data(users, users_db, messages, pc, faults, torn, lost)
      /\ Table(clients) /\ Sessions(clients, users)
      /\ Loop(InUse(clients), pc, batch, cur, lines, reused, readable)
  BY Parts
<1>2. /\ users \in Seq(User) /\ Len(users) \in Nat /\ Accounts(users, torn)
      /\ \A k \in 1 .. Len(users) : users[k].id = k
      /\ \A s \in In(clients) : SessionSound(clients[s], users)
  BY <1>1 DEF Data, Accounts, Sound, Sessions
<1>3. \A i : find_user_index_by_id(i) = IF i \in 1 .. Len(users) THEN i ELSE 0
  BY <1>2, FoundById DEF find_user_index_by_id
<1>4. CASE reply_only
  <2>1. /\ lines > 0 /\ lines' = lines - 1 /\ cur' = (IF lines = 1 THEN NOBODY ELSE cur)
        /\ UNCHANGED <<pc, batch, reused, users, users_db, messages, clients, readable, faults, torn, lost>>
    BY <1>4 DEF reply_only, Consume, disk_vars, fault_vars
  <2>2. Loop(InUse(clients'), pc', batch', cur', lines', reused', readable')
    BY <1>1, <2>1, LineDone
  <2> QED BY <1>1, <2>1, <2>2, Parts
<1>5. CASE chat_not_stored
  <2>1. /\ lines > 0 /\ lines' = lines - 1 /\ cur' = (IF lines = 1 THEN NOBODY ELSE cur)
        /\ UNCHANGED <<pc, batch, reused, users, users_db, messages, clients, readable, torn, lost>>
        /\ faults < MaxFaults /\ faults' = faults + 1
    BY <1>5 DEF chat_not_stored, InMode, Consume, disk_vars
  <2>2. Loop(InUse(clients'), pc', batch', cur', lines', reused', readable')
    BY <1>1, <2>1, LineDone
  <2>3. faults' \in 1 .. MaxFaults
    BY <1>1, <2>1, BoundAssumption DEF Data
  <2>4. Data(users', users_db', messages', pc', faults', torn', lost')
    BY <1>1, <2>1, <2>3 DEF Data
  <2> QED BY <1>1, <2>1, <2>2, <2>4, Parts
<1>6. ASSUME HangUp, UNCHANGED <<users, disk_vars, fault_vars>> PROVE IInv'
  <2>1. UNCHANGED <<users, users_db, messages, pc, faults, torn, lost>>
    BY <1>6 DEF HangUp, DropRest, disk_vars, fault_vars
  <2> QED BY <1>1, <1>2, <1>6, <2>1, HangUpStep
<1>7. CASE login_refused \/ menu_quit
  BY <1>6, <1>7 DEF login_refused, menu_quit
<1>8. CASE menu_refresh
  <2>1. cur \in In(clients) /\ lines > 0 /\ clients[cur] \in Client /\ clients[cur].mode = "menu"
    BY <1>8, OfClient DEF menu_refresh
  <2> DEFINE c == show_conversation_list(clients[cur])
  <2>2. c \in Client /\ c.mode = "menu" /\ c.user = clients[cur].user
    BY <2>1, Shown
  <2>3. SetClient(c) /\ Consume /\ UNCHANGED <<users, disk_vars, fault_vars>>
    BY <1>8 DEF menu_refresh
  <2> HIDE DEF c
  <2>4. SessionSound(c, users)
    BY <1>2, <2>1, <2>2 DEF SessionSound
  <2> QED BY <2>1, <2>2, <2>3, <2>4, PageStep
<1>9. CASE menu_admin
  <2>1. cur \in In(clients) /\ lines > 0 /\ clients[cur] \in Client /\ clients[cur].mode = "menu"
    BY <1>9, OfClient DEF menu_admin
  <2> DEFINE c == [clients[cur] EXCEPT !.mode = "admin", !.menu = {}]
  <2>2. c \in Client /\ c.mode = "admin" /\ c.user = clients[cur].user
    BY <2>1 DEF Client
  <2>3. SetClient(c) /\ Consume /\ UNCHANGED <<users, disk_vars, fault_vars>>
    BY <1>9 DEF menu_admin
  <2>4. SessionSound(clients[cur], users) /\ users[clients[cur].user].is_admin
    BY <1>2, <1>3, <1>9, <2>1 DEF menu_admin, Me, SessionSound
  <2> HIDE DEF c
  <2>5. SessionSound(c, users)
    BY <2>2, <2>4, <1>2 DEF SessionSound
  <2> QED BY <2>1, <2>2, <2>3, <2>5, PageStep
<1>10. CASE open_chat
  <2>1. cur \in In(clients) /\ lines > 0 /\ clients[cur] \in Client /\ clients[cur].mode = "menu"
    BY <1>10, OfClient DEF open_chat
  <2>2. PICK i : /\ CanOpen(i)
                 /\ SetClient([clients[cur] EXCEPT !.mode = "chat", !.partner = i, !.menu = {}])
    BY <1>10 DEF open_chat
  <2> DEFINE c == [clients[cur] EXCEPT !.mode = "chat", !.partner = i, !.menu = {}]
  <2>3. i \in 1 .. Len(users) /\ i # clients[cur].user /\ i \in Nat
    BY <1>2, <1>3, <2>2 DEF CanOpen, Me
  <2>4. c \in Client /\ c.mode = "chat" /\ c.user = clients[cur].user /\ c.partner = i
    BY <2>1, <2>3 DEF Client
  <2>5. SetClient(c) /\ Consume /\ UNCHANGED <<users, disk_vars, fault_vars>>
    BY <1>10, <2>2 DEF open_chat
  <2> HIDE DEF c
  <2>6. SessionSound(c, users)
    BY <1>2, <2>1, <2>3, <2>4 DEF SessionSound
  <2> QED BY <2>1, <2>4, <2>5, <2>6, PageStep
<1>11. CASE chat_leave
  <2>1. cur \in In(clients) /\ lines > 0 /\ clients[cur] \in Client
    BY <1>11, OfClient DEF chat_leave
  <2> DEFINE b == [clients[cur] EXCEPT !.mode = "menu", !.partner = NOBODY]
             c == show_conversation_list(b)
  <2>2. b \in Client /\ b.mode = "menu" /\ b.user = clients[cur].user
    BY <2>1 DEF Client
  <2>3. SetClient(c) /\ Consume /\ UNCHANGED <<users, disk_vars, fault_vars>>
    BY <1>11 DEF chat_leave
  <2> HIDE DEF b
  <2>4. c \in Client /\ c.mode = "menu" /\ c.user = clients[cur].user
    BY <2>2, Shown
  <2> HIDE DEF c
  <2>5. SessionSound(c, users)
    BY <1>2, <2>1, <2>4 DEF SessionSound
  <2> QED BY <2>1, <2>3, <2>4, <2>5, PageStep
<1>12. CASE admin_leave
  <2>1. cur \in In(clients) /\ lines > 0 /\ clients[cur] \in Client
    BY <1>12, OfClient DEF admin_leave
  <2> DEFINE b == [clients[cur] EXCEPT !.mode = "menu"]
             c == show_conversation_list(b)
  <2>2. b \in Client /\ b.mode = "menu" /\ b.user = clients[cur].user
    BY <2>1 DEF Client
  <2>3. SetClient(c) /\ Consume /\ UNCHANGED <<users, disk_vars, fault_vars>>
    BY <1>12 DEF admin_leave
  <2> HIDE DEF b
  <2>4. c \in Client /\ c.mode = "menu" /\ c.user = clients[cur].user
    BY <2>2, Shown
  <2> HIDE DEF c
  <2>5. SessionSound(c, users)
    BY <1>2, <2>1, <2>4 DEF SessionSound
  <2> QED BY <2>1, <2>3, <2>4, <2>5, PageStep
<1> QED BY <1>4, <1>5, <1>7, <1>8, <1>9, <1>10, <1>11, <1>12 DEF process_menu

\* Sessions stay sound when accounts are added or restored.
LEMMA Kept ==
  ASSUME NEW cl, NEW u, NEW v, Sessions(cl, u), Len(u) \in Nat, Len(v) \in Nat, Len(u) <= Len(v),
         \A k \in 1 .. Len(u) :
           (u[k].is_admin => v[k].is_admin) /\ (u[k].active => v[k].active)
  PROVE  Sessions(cl, v)
<1>1. \A k \in 1 .. Len(u) : k \in 1 .. Len(v)
  OBVIOUS
<1>2. ASSUME NEW s \in In(cl) PROVE SessionSound(cl[s], v)
  <2>1. SessionSound(cl[s], u)
    BY DEF Sessions
  <2> QED BY <1>1, <2>1 DEF SessionSound
<1> QED BY <1>2 DEF Sessions

\* An account gets the record r, with another activity at most.
LEMMA Activity ==
  ASSUME NEW u, NEW T, Accounts(u, T), NEW k \in 1 .. Len(u), NEW r \in User,
         r.id = u[k].id, r.name = u[k].name, r.is_admin = u[k].is_admin,
         u[k].is_admin /\ u[k].active => r.active
  PROVE  LET v == [u EXCEPT ![k] = r]
         IN  /\ Accounts(v, T) /\ Len(v) = Len(u) /\ v[k] = r
             /\ \A j \in 1 .. Len(u) : j # k => v[j] = u[j]
<1> DEFINE v == [u EXCEPT ![k] = r]
<1>1. u \in Seq(User) /\ Len(u) \in Nat /\ Sound(u, T)
  BY DEF Accounts
<1> HIDE DEF User
<1>2. /\ v \in Seq(User) /\ Len(v) = Len(u) /\ v[k] = r
      /\ \A j \in 1 .. Len(u) : j # k => v[j] = u[j]
  BY <1>1
<1> HIDE DEF v
<1>3. \A j \in 1 .. Len(u) :
        v[j].id = u[j].id /\ v[j].name = u[j].name /\ v[j].is_admin = u[j].is_admin
  BY <1>2
<1>4. \A j \in 1 .. Len(u) : u[j].is_admin /\ u[j].active => v[j].active
  BY <1>2
<1>5. Sound(v, T)
  BY <1>1, <1>2, <1>3, <1>4 DEF Sound
<1>6. Accounts(v, T)
  BY <1>2, <1>5 DEF Accounts
<1> QED BY <1>2, <1>6 DEF v

\* Removing an account without the rights, or restoring one.
LEMMA Activated ==
  ASSUME Accounts(users, torn), NEW k \in 1 .. Len(users), NEW b \in BOOLEAN,
         SetActive(k, b), b = TRUE \/ ~users[k].is_admin
  PROVE  /\ Accounts(users', torn) /\ Len(users') = Len(users) /\ users'[k].active = b
         /\ \A j \in 1 .. Len(users) :
              /\ users'[j].id = users[j].id /\ users'[j].name = users[j].name
              /\ users'[j].is_admin = users[j].is_admin
              /\ j # k => users'[j] = users[j]
         /\ \E o \in save_users(users') : Saved(o)
<1> DEFINE r == [users[k] EXCEPT !.active = b]
           v == [users EXCEPT ![k] = r]
<1>1. users[k] \in User
  BY DEF Accounts
<1>2. /\ r \in User /\ r.active = b /\ r.id = users[k].id /\ r.name = users[k].name
      /\ r.is_admin = users[k].is_admin
  BY <1>1 DEF User
<1>3. users' = v /\ \E o \in save_users(users') : Saved(o)
  BY DEF SetActive
<1> HIDE DEF r
<1>4. users[k].is_admin /\ users[k].active => r.active
  BY <1>2
<1>5. /\ Accounts(v, torn) /\ Len(v) = Len(users) /\ v[k] = r
      /\ \A j \in 1 .. Len(users) : j # k => v[j] = users[j]
  BY <1>2, <1>4, Activity
<1> HIDE DEF v
<1> QED BY <1>2, <1>3, <1>5

\* A save of new or changed accounts.
LEMMA DataSaved ==
  ASSUME Data(users, users_db, messages, pc, faults, torn, lost), pc # "down",
         Accounts(users', torn), Len(users) <= Len(users'),
         \A k \in 1 .. Len(users) :
           /\ users'[k].name = users[k].name
           /\ users[k].is_admin /\ users[k].active => users'[k].is_admin /\ users'[k].active,
         NEW o \in save_users(users'), Saved(o), UNCHANGED <<messages, torn, lost, pc>>
  PROVE  Data(users', users_db', messages', pc', faults', torn', lost')
<1>1. /\ File(users_db', torn') /\ faults' \in 0 .. MaxFaults
      /\ (faults' = 0 => users_db' = Format(users'))
  <2>1. /\ File(users_db', torn) \/ users_db' = users_db
        /\ faults' \in 0 .. MaxFaults /\ (faults' = 0 => users_db' = Format(users'))
    BY Saves DEF Data
  <2>2. File(users_db, torn) /\ torn' = torn
    BY DEF Data
  <2> QED BY <2>1, <2>2
<1>2. /\ Len(users) \in Nat /\ Len(users') \in Nat
      /\ users \in Seq(User) /\ users' \in Seq(User)
  BY DEF Data, Accounts
<1>3. \A k \in 1 .. Len(users) : k \in 1 .. Len(users')
  BY <1>2
<1>4. AdminIn(users')
  <2>1. AdminIn(users)
    BY DEF Data
  <2> QED BY <1>2, <2>1, AdminStays
<1>5. ~lost' => Messages(messages', users')
  BY <1>3 DEF Data, Messages
<1> QED BY <1>1, <1>4, <1>5 DEF Data

\* Client cur becomes the session of account i, which has none.
LEMMA LogInStep ==
  ASSUME IInv, InMode("login"), NEW i, LogIn(i), i \in 1 .. Len(users'), users'[i].active,
         \A t \in In(clients) : clients[t].user # i,
         Len(users) <= Len(users'), \A k \in 1 .. Len(users) : users'[k] = users[k],
         Data(users', users_db', messages', pc', faults', torn', lost')
  PROVE  IInv'
<1>1. /\ Data(users, users_db, messages, pc, faults, torn, lost)
      /\ Table(clients) /\ Sessions(clients, users)
      /\ Loop(InUse(clients), pc, batch, cur, lines, reused, readable)
  BY Parts
<1>2. Len(users) \in Nat /\ Len(users') \in Nat
  BY <1>1 DEF Data, Accounts
<1>3. cur \in InUse(clients) /\ lines > 0 /\ clients[cur] \in Client
  BY OfClient
<1> DEFINE b == [clients[cur] EXCEPT !.mode = "menu", !.user = i]
           c == show_conversation_list(b)
           d == [clients EXCEPT ![cur] = c]
<1>4. b \in Client /\ b.mode = "menu" /\ b.user = i
  <2>1. i \in Nat
    BY <1>2
  <2> QED BY <1>3, <2>1 DEF Client
<1>5. /\ clients' = d /\ readable' = readable
      /\ lines' = lines - 1 /\ cur' = (IF lines = 1 THEN NOBODY ELSE cur)
      /\ pc' = pc /\ batch' = batch /\ reused' = reused
  BY DEF LogIn, SetClient, Consume
<1> HIDE DEF b
<1>6. c \in Client /\ c.mode = "menu" /\ c.user = i
  BY <1>4, Shown
<1> HIDE DEF c
<1>7. SessionSound(c, users')
  BY <1>6 DEF SessionSound
<1>8. Sessions(clients, users')
  BY <1>1, <1>2, Kept
<1>9. Table(d) /\ Sessions(d, users') /\ InUse(d) = InUse(clients)
  BY <1>1, <1>3, <1>6, <1>7, <1>8, Replaced
<1> HIDE DEF d
<1>10. Loop(InUse(clients), pc, batch, IF lines = 1 THEN NOBODY ELSE cur, lines - 1, reused, readable)
  BY <1>1, <1>3, LineDone
<1> QED BY <1>5, <1>9, <1>10, Parts

\* A new account is the last one and active.
LEMMA Registered ==
  ASSUME IInv, login_new
  PROVE  /\ Accounts(users', torn) /\ Len(users') = Len(users) + 1
         /\ \A k \in 1 .. Len(users) : users'[k] = users[k]
         /\ users'[Len(users')].id = Len(users') /\ users'[Len(users')].active
<1>1. Data(users, users_db, messages, pc, faults, torn, lost)
  BY Parts
<1>2. users \in Seq(User) /\ Len(users) \in Nat /\ Accounts(users, torn)
  BY <1>1 DEF Data, Accounts
<1>3. PICK n \in Name :
        /\ find_user_index_by_name(users, n) = 0
        /\ users' = Append(users, NewUser(users, n, FALSE))
  BY DEF login_new
<1>4. pc # "down" /\ \A k \in 1 .. Len(users) : users[k].name # <<n>>
  BY <1>2, <1>3, OfClient, FoundByName DEF login_new
<1>5. (n = Admin) = FALSE
  <2>1. find_user_index_by_name(users, Admin) # 0
    BY <1>1, <1>4 DEF Data, AdminIn
  <2> QED BY <1>3, <2>1
<1> DEFINE q == NewUser(users, n, FALSE)
<1>6. users' = Append(users, q) /\ Len(users) < MAX_USERS
  BY <1>3 DEF login_new
<1>7. /\ q \in User /\ q.id = Len(users) + 1 /\ q.name = <<n>> /\ q.active
      /\ (q.is_admin <=> n = Admin)
  BY <1>2, <1>5, NewRecord
<1> HIDE DEF q, User
<1>8. LET w == Append(users, q)
      IN  /\ Accounts(w, torn) /\ Len(w) = Len(users) + 1
          /\ \A k \in 1 .. Len(users) : w[k] = users[k]
          /\ w[Len(w)].id = Len(w) /\ w[Len(w)].name = <<n>> /\ w[Len(w)].active
          /\ (w[Len(w)].is_admin <=> n = Admin)
  BY <1>2, <1>4, <1>6, <1>7, NewAccount
<1> QED BY <1>6, <1>8

\* Logging in.
LEMMA LoginLine == IInv /\ (login_existing \/ login_new) => IInv'
<1> SUFFICES ASSUME IInv, login_existing \/ login_new PROVE IInv'
  OBVIOUS
<1>1. /\ Data(users, users_db, messages, pc, faults, torn, lost)
      /\ Table(clients) /\ Sessions(clients, users)
  BY Parts
<1>2. users \in Seq(User) /\ Len(users) \in Nat /\ Accounts(users, torn)
  BY <1>1 DEF Data, Accounts
<1>3. CASE login_existing
  <2>1. InMode("login") /\ UNCHANGED <<users, users_db, messages, faults, torn, lost>>
    BY <1>3 DEF login_existing, disk_vars, fault_vars
  <2>2. PICK n \in Name :
          LET k == find_user_index_by_name(users, n)
          IN  /\ k # 0 /\ users[k].active
              /\ find_client_by_user_id(users[k].id) = 0
              /\ LogIn(users[k].id)
    BY <1>3 DEF login_existing
  <2> DEFINE k == find_user_index_by_name(users, n)
  <2>3. k \in 1 .. Len(users) /\ users[k].active /\ find_client_by_user_id(users[k].id) = 0
    BY <1>2, <2>2, FoundByName
  <2>4. LogIn(users[k].id)
    BY <2>2
  <2> HIDE DEF k
  <2>5. users[k].id = k
    BY <1>2, <2>3 DEF Accounts, Sound
  <2>6. \A t \in In(clients) : clients[t].user # k
    <3> DEFINE S == {s \in Slot : LoggedIn(s) /\ clients[s].user = k}
    <3>1. S \in SUBSET (Nat \ {0})
      BY TableAssumption DEF Slot
    <3>2. First(S) = 0
      BY <2>3, <2>5 DEF find_client_by_user_id
    <3>3. S = {}
      BY <3>1, <3>2, FoundIsThere
    <3> QED BY <3>3 DEF In, LoggedIn
  <2>7. pc' = pc
    BY <2>4 DEF LogIn, Consume
  <2>8. LogIn(k)
    BY <2>4, <2>5
  <2> QED BY <1>1, <1>2, <2>1, <2>3, <2>6, <2>7, <2>8, LogInStep
<1>4. CASE login_new
  <2>1. /\ Accounts(users', torn) /\ Len(users') = Len(users) + 1
        /\ \A k \in 1 .. Len(users) : users'[k] = users[k]
        /\ users'[Len(users')].id = Len(users') /\ users'[Len(users')].active
    BY <1>4, Registered
  <2>2. InMode("login") /\ pc # "down" /\ UNCHANGED <<messages, torn, lost>>
    BY <1>4, OfClient DEF login_new
  <2>3. \E o \in save_users(users') :
          Saved(o) /\ (HangUp \/ LogIn(users'[Len(users')].id))
    BY <1>4 DEF login_new
  <2>4. PICK o \in save_users(users') :
          Saved(o) /\ (HangUp \/ LogIn(users'[Len(users')].id))
    BY <2>3
  <2>5. pc' = pc
    BY <2>4 DEF HangUp, DropRest, LogIn, Consume
  <2>6. Len(users) <= Len(users') /\ Len(users') \in 1 .. Len(users') /\ Len(users') \notin 1 .. Len(users)
    BY <1>2, <2>1
  <2>7. Data(users', users_db', messages', pc', faults', torn', lost')
    BY <1>1, <2>1, <2>2, <2>4, <2>5, <2>6, DataSaved
  <2>8. \A t \in In(clients) : clients[t].user # Len(users')
    BY <1>1, <2>6 DEF Sessions, SessionSound
  <2>9. CASE HangUp
    BY <2>1, <2>6, <2>7, <2>9, HangUpStep
  <2>10. CASE LogIn(users'[Len(users')].id)
    BY <2>1, <2>2, <2>6, <2>7, <2>8, <2>10, LogInStep
  <2> QED BY <2>4, <2>9, <2>10
<1> QED BY <1>3, <1>4

\* Storing a message.
LEMMA SendLine == IInv /\ chat_send => IInv'
<1> SUFFICES ASSUME IInv, chat_send PROVE IInv'
  OBVIOUS
<1>1. /\ Data(users, users_db, messages, pc, faults, torn, lost)
      /\ Table(clients) /\ Sessions(clients, users)
      /\ Loop(InUse(clients), pc, batch, cur, lines, reused, readable)
  BY Parts
<1>2. users \in Seq(User) /\ Len(users) \in Nat /\ \A k \in 1 .. Len(users) : users[k].id = k
  BY <1>1 DEF Data, Accounts, Sound
<1>3. \A i : find_user_index_by_id(i) = IF i \in 1 .. Len(users) THEN i ELSE 0
  BY <1>2, FoundById DEF find_user_index_by_id
<1>4. InMode("chat") /\ lines > 0 /\ cur \in In(clients) /\ clients[cur].mode = "chat"
  BY OfClient DEF chat_send
<1> DEFINE i == clients[cur].partner
           m == [from |-> Me, to |-> i, people |-> <<NameOf(Me), NameOf(i)>>]
<1>5. /\ messages' = Append(messages, m) /\ Len(messages) < MaxMessages
      /\ lines' = lines - 1 /\ cur' = (IF lines = 1 THEN NOBODY ELSE cur)
      /\ UNCHANGED <<pc, batch, reused, users, users_db, clients, readable, faults, torn, lost>>
  BY DEF chat_send, Consume, fault_vars
<1>6. Me \in 1 .. Len(users) /\ i \in 1 .. Len(users)
  BY <1>1, <1>4 DEF Sessions, SessionSound, Me
<1>7. /\ m \in Message /\ m.from = Me /\ m.to = i
      /\ m.people = <<users[m.from].name, users[m.to].name>>
  <2>1. \A k \in 1 .. Len(users) : NameOf(k) = users[k].name /\ users[k].name \in Text
    <3>1. \A k \in 1 .. Len(users) : users[k] \in User
      BY <1>2
    <3> QED BY <1>3, <3>1 DEF NameOf, User
  <2> DEFINE me == Me
             pm == NameOf(Me)
             pi == NameOf(i)
  <2>2. /\ pm = users[me].name /\ pi = users[i].name /\ me \in Nat /\ i \in Nat
        /\ pm \in Text /\ pi \in Text
    BY <1>2, <1>6, <2>1
  <2>3. m = [from |-> me, to |-> i, people |-> <<pm, pi>>]
    OBVIOUS
  <2> HIDE DEF m, i, me, pm, pi
  <2>4. m \in Message /\ m.from = me /\ m.to = i /\ m.people = <<pm, pi>>
    BY <2>2, <2>3 DEF Message
  <2> QED BY <2>2, <2>4 DEF me
<1> HIDE DEF m, i
<1>8. messages \in Seq(Message) /\ Len(messages) \in Nat /\ Len(messages) <= MaxMessages /\ MaxMessages \in Nat
  BY <1>1, BoundAssumption DEF Data
<1>9. /\ messages' \in Seq(Message) /\ Len(messages') = Len(messages) + 1
      /\ Len(messages') <= MaxMessages
      /\ messages'[Len(messages) + 1] = m
      /\ \A k \in 1 .. Len(messages) : messages'[k] = messages[k]
      /\ \A k \in 1 .. Len(messages') : k \in 1 .. Len(messages) \/ k = Len(messages) + 1
  <2> HIDE DEF Message
  <2> QED BY <1>5, <1>7, <1>8
<1>10. Messages(messages, users) => Messages(messages', users)
  BY <1>6, <1>7, <1>9 DEF Messages
<1>11. Data(users', users_db', messages', pc', faults', torn', lost')
  BY <1>1, <1>5, <1>9, <1>10 DEF Data
<1>12. Loop(InUse(clients), pc, batch, IF lines = 1 THEN NOBODY ELSE cur, lines - 1, reused, readable)
  BY <1>1, <1>4, LineDone
<1> QED BY <1>1, <1>5, <1>11, <1>12, Parts

\* Removing and restoring an account.
LEMMA AdminLine == IInv /\ (admin_remove \/ admin_restore) => IInv'
<1> SUFFICES ASSUME IInv, admin_remove \/ admin_restore PROVE IInv'
  OBVIOUS
<1>1. /\ Data(users, users_db, messages, pc, faults, torn, lost)
      /\ Table(clients) /\ Sessions(clients, users)
      /\ Loop(InUse(clients), pc, batch, cur, lines, reused, readable)
  BY Parts
<1>2. /\ users \in Seq(User) /\ Len(users) \in Nat /\ Accounts(users, torn)
      /\ DOMAIN users = 1 .. Len(users)
      /\ \A k \in 1 .. Len(users) : users[k].id = k
      /\ \A s \in In(clients) : SessionSound(clients[s], users)
  BY <1>1 DEF Data, Accounts, Sound, Sessions
<1>3. InMode("admin") /\ lines > 0 /\ pc # "down" /\ Consume /\ UNCHANGED <<messages, torn, lost>>
  <2>1. InMode("admin") /\ Consume /\ UNCHANGED <<messages, torn, lost>>
    BY DEF admin_remove, admin_restore
  <2> QED BY <2>1, OfClient
<1>4. /\ lines' = lines - 1 /\ cur' = (IF lines = 1 THEN NOBODY ELSE cur)
      /\ UNCHANGED <<pc, batch, reused>>
  BY <1>3 DEF Consume
<1>5. Loop(InUse(clients), pc, batch, IF lines = 1 THEN NOBODY ELSE cur, lines - 1, reused, readable)
  BY <1>1, <1>3, LineDone
<1>6. ASSUME NEW k \in 1 .. Len(users), NEW b \in BOOLEAN, b = TRUE \/ ~users[k].is_admin, SetActive(k, b)
      PROVE  /\ Data(users', users_db', messages', pc', faults', torn', lost')
             /\ Len(users') = Len(users) /\ users'[k].active = b
             /\ \A j \in 1 .. Len(users) :
                  /\ users[j].is_admin => users'[j].is_admin
                  /\ j # k => users'[j] = users[j]
  <2>1. /\ Accounts(users', torn) /\ Len(users') = Len(users) /\ users'[k].active = b
        /\ \A j \in 1 .. Len(users) :
             /\ users'[j].name = users[j].name /\ users'[j].is_admin = users[j].is_admin
             /\ j # k => users'[j] = users[j]
        /\ \E o \in save_users(users') : Saved(o)
    BY <1>2, <1>6, Activated
  <2>2. Data(users', users_db', messages', pc', faults', torn', lost')
    <3>1. Len(users) <= Len(users') /\ UNCHANGED <<messages, torn, lost, pc>>
      BY <1>2, <1>3, <1>4, <2>1
    <3>2. \A j \in 1 .. Len(users) :
            users[j].is_admin /\ users[j].active => users'[j].is_admin /\ users'[j].active
      BY <1>6, <2>1
    <3> QED BY <1>1, <1>3, <2>1, <3>1, <3>2, DataSaved
  <2> QED BY <2>1, <2>2
<1>7. CASE admin_remove
  <2>1. PICK k \in 1 .. Len(users) :
          /\ ~users[k].is_admin /\ SetActive(k, FALSE)
          /\ disconnect_client({find_client_by_user_id(users[k].id)} \ {0})
    BY <1>2, <1>7 DEF admin_remove
  <2>2. /\ Data(users', users_db', messages', pc', faults', torn', lost')
        /\ Len(users') = Len(users)
        /\ \A j \in 1 .. Len(users) :
             (users[j].is_admin => users'[j].is_admin) /\ (j # k => users'[j] = users[j])
    BY <1>6, <2>1
  <2> DEFINE S == {find_client_by_user_id(k)} \ {0}
             d == [s \in Slot |-> IF s \in S THEN FreeSlot ELSE clients[s]]
  <2>3. clients' = d /\ readable' = readable \ S
    BY <1>2, <2>1 DEF disconnect_client
  <2>4. ASSUME NEW s \in In(clients) \ S PROVE clients[s].user # k
    <3> DEFINE F == {t \in Slot : LoggedIn(t) /\ clients[t].user = k}
    <3>1. ASSUME clients[s].user = k PROVE FALSE
      <4>1. F = {s} /\ s \in Nat /\ s # 0
        <5>1. s \in Slot /\ LoggedIn(s)
          BY DEF In, LoggedIn
        <5>2. \A t \in F : t = s
          BY <1>1, <3>1 DEF Sessions, In, LoggedIn
        <5> QED BY <3>1, <5>1, <5>2 DEF Slot
      <4>2. find_client_by_user_id(k) = s
        BY <4>1, FirstOfOne DEF find_client_by_user_id
      <4> QED BY <4>1, <4>2
    <3> QED BY <3>1
  <2> HIDE DEF S
  <2>5. \A s \in In(clients) \ S : users'[clients[s].user].active
    BY <1>2, <2>2, <2>4 DEF SessionSound
  <2>6. Table(d) /\ Sessions(d, users') /\ InUse(d) = InUse(clients) \ S
    <3>1. /\ Len(users) <= Len(users') /\ Len(users') \in Nat /\ Len(users) \in Nat
          /\ \A j \in 1 .. Len(users) : users[j].is_admin => users'[j].is_admin
      BY <1>2, <2>2
    <3> QED BY <1>1, <2>5, <3>1, Cleared
  <2> HIDE DEF d
  <2>7. Loop(InUse(clients) \ S, pc, batch, IF lines = 1 THEN NOBODY ELSE cur, lines - 1,
             reused, readable \ S)
    BY <1>5, FewerSlots
  <2> QED BY <1>4, <2>2, <2>3, <2>6, <2>7, Parts
<1>8. CASE admin_restore
  <2>1. PICK k \in 1 .. Len(users) : SetActive(k, TRUE)
    BY <1>2, <1>8 DEF admin_restore
  <2>2. /\ Data(users', users_db', messages', pc', faults', torn', lost')
        /\ Len(users') = Len(users) /\ users'[k].active
        /\ \A j \in 1 .. Len(users) :
             (users[j].is_admin => users'[j].is_admin) /\ (j # k => users'[j] = users[j])
    BY <1>6, <2>1
  <2>3. clients' = clients /\ readable' = readable
    BY <1>8 DEF admin_restore
  <2>4. Sessions(clients, users')
    <3>1. /\ Len(users) <= Len(users') /\ Len(users') \in Nat
          /\ \A j \in 1 .. Len(users) :
               (users[j].is_admin => users'[j].is_admin) /\ (users[j].active => users'[j].active)
      BY <1>2, <2>2
    <3> QED BY <1>1, <1>2, <3>1, Kept
  <2> QED BY <1>1, <1>4, <1>5, <2>2, <2>3, <2>4, Parts
<1> QED BY <1>7, <1>8

-----------------------------------------------------------------------------
(* The event loop, the process and the peers.                              *)

\* What a chunk contains and whose it is.
LEMMA NewChunk ==
  ASSUME NEW A, NEW p, NEW b, NEW c, NEW n, NEW re, NEW rd, Loop(A, p, b, c, n, re, rd),
         p # "down", NEW d \in Slot \cup {NOBODY}, NEW m \in 0 .. MaxLines, m > 0 => d \in Slot
  PROVE  Loop(A, p, b, d, m, re, rd)
BY DEF Loop

\* epoll_wait().
LEMMA WaitStep == IInv /\ epoll_wait => IInv'
<1> SUFFICES ASSUME IInv, epoll_wait PROVE IInv'
  OBVIOUS
<1>1. /\ Data(users, users_db, messages, pc, faults, torn, lost)
      /\ Table(clients) /\ Sessions(clients, users)
      /\ Loop(InUse(clients), pc, batch, cur, lines, reused, readable)
  BY Parts
<1>2. /\ pc = "up"
      /\ UNCHANGED <<users, users_db, messages, clients, pc, cur, lines, reused, readable, faults, torn, lost>>
  BY DEF epoll_wait, Idle, disk_vars, fault_vars
<1>3. PICK hot : /\ hot \subseteq readable \cup {LISTEN}
                 /\ batch' \in {q \in [1 .. Cardinality(hot) -> hot] :
                                  \A j, k \in 1 .. Cardinality(hot) : j # k => q[j] # q[k]}
  BY DEF epoll_wait
<1>4. readable \subseteq InUse(clients) /\ InUse(clients) \subseteq Slot
  BY <1>1 DEF Loop, InUse
<1>5. Cardinality(hot) \in Nat
  <2>1. IsFiniteSet(Slot)
    BY FS_Interval, TableAssumption DEF Slot
  <2>2. IsFiniteSet(Slot \cup {LISTEN})
    BY <2>1, FS_AddElement
  <2>3. hot \subseteq Slot \cup {LISTEN}
    BY <1>3, <1>4
  <2> QED BY <2>2, <2>3, FS_Subset, FS_CardinalityType
<1>6. LISTEN \notin InUse(clients)
  BY <1>4, TableAssumption DEF LISTEN, Slot
<1> DEFINE n == Cardinality(hot)
           D == Slot \cup {LISTEN}
<1> HIDE DEF n
<1>7. /\ n \in Nat /\ batch' \in [1 .. n -> hot] /\ hot \subseteq D
      /\ \A j, k \in 1 .. n : j # k => batch'[j] # batch'[k]
  BY <1>3, <1>4, <1>5 DEF n
<1> HIDE DEF D
<1>8. batch' \in Seq(D) /\ Len(batch') = n
  BY <1>7
<1>9. \A k \in 1 .. Len(batch') : batch'[k] \in InUse(clients) => batch'[k] \in readable
  BY <1>3, <1>6, <1>7, <1>8
<1>10. Loop(InUse(clients), "up", batch', cur, lines, reused, readable)
  BY <1>1, <1>7, <1>8, <1>9 DEF Loop, D
<1> QED BY <1>1, <1>2, <1>10, Parts

\* A client is accepted into a free slot.
LEMMA Accepted ==
  ASSUME NEW cl, NEW u, Table(cl), Sessions(cl, u), NEW s \in Slot, cl[s].mode = "free"
  PROVE  LET d == [cl EXCEPT ![s] = NewClient]
         IN  Table(d) /\ Sessions(d, u) /\ InUse(d) = InUse(cl) \cup {s}
<1> DEFINE d == [cl EXCEPT ![s] = NewClient]
<1>1. NewClient \in Client /\ NewClient.mode = "login"
  BY DEF NewClient, FreeSlot, Client
<1>2. d \in [Slot -> Client] /\ d[s] = NewClient /\ \A t \in Slot \ {s} : d[t] = cl[t]
  BY <1>1 DEF Table
<1> HIDE DEF d
<1>3. Table(d)
  BY <1>1, <1>2 DEF Table
<1>4. InUse(d) = InUse(cl) \cup {s}
  BY <1>1, <1>2 DEF InUse
<1>5. In(d) = In(cl) /\ \A t \in In(cl) : d[t] = cl[t]
  BY <1>1, <1>2 DEF In
<1>6. Sessions(d, u)
  BY <1>5 DEF Sessions
<1> QED BY <1>3, <1>4, <1>6 DEF d

\* accept().
LEMMA AcceptStep == IInv /\ accept => IInv'
<1> SUFFICES ASSUME IInv, accept PROVE IInv'
  OBVIOUS
<1>1. /\ Data(users, users_db, messages, pc, faults, torn, lost)
      /\ Table(clients) /\ Sessions(clients, users)
      /\ Loop(InUse(clients), pc, batch, cur, lines, reused, readable)
  BY Parts
<1>2. /\ pc = "up" /\ batch # << >> /\ Head(batch) = LISTEN /\ batch' = Tail(batch)
      /\ UNCHANGED <<users, users_db, messages, pc, cur, lines, readable, faults, torn, lost>>
  BY DEF accept, Idle, disk_vars, fault_vars
<1>3. reused \subseteq Slot /\ LISTEN \notin Slot /\ InUse(clients) \in SUBSET Slot
  BY <1>1, TableAssumption DEF Loop, LISTEN, Slot, InUse
<1>4. /\ Loop(InUse(clients), "up", Tail(batch), cur, lines, reused \ {LISTEN}, readable)
      /\ \A j \in 1 .. Len(Tail(batch)) : Tail(batch)[j] \in {batch[k] : k \in DOMAIN batch}
  <2>1. /\ batch # << >> /\ InUse(clients) \in SUBSET Slot
        /\ Loop(InUse(clients), pc, batch, cur, lines, reused, readable)
    BY <1>1, <1>2, <1>3
  <2>2. Loop(InUse(clients), "up", Tail(batch), cur, lines, reused \ {Head(batch)}, readable)
    BY <2>1, NextEvent
  <2>3. \A j \in 1 .. Len(Tail(batch)) : \E k \in DOMAIN batch : Tail(batch)[j] = batch[k]
    BY <2>1, NextEvent
  <2> QED BY <1>2, <2>2, <2>3
<1>5. reused \ {LISTEN} = reused
  BY <1>3
<1>6. CASE UNCHANGED <<clients, reused>>
  BY <1>1, <1>2, <1>4, <1>5, <1>6, Parts
<1>7. CASE ~UNCHANGED <<clients, reused>>
  <2> DEFINE s == find_free_client_slot
             re == reused \cup ({s} \cap {batch[k] : k \in DOMAIN batch})
             d == [clients EXCEPT ![s] = NewClient]
  <2>1. s # 0 /\ clients' = d /\ reused' = re
    BY <1>7 DEF accept
  <2>2. s \in Slot /\ clients[s].mode = "free"
    <3> DEFINE F == {t \in Slot : ~Active(t)}
    <3>1. F \in SUBSET (Nat \ {0})
      BY TableAssumption DEF Slot
    <3>2. First(F) \in F
      BY <2>1, <3>1, FoundIsThere DEF find_free_client_slot
    <3> QED BY <3>2 DEF find_free_client_slot, Active
  <2> HIDE DEF s
  <2>3. Table(d) /\ Sessions(d, users) /\ InUse(d) = InUse(clients) \cup {s}
    BY <1>1, <2>2, Accepted
  <2> DEFINE A == InUse(clients)
             q == Tail(batch)
  <2>4. /\ \A j \in 1 .. Len(q) : q[j] = s => s \in re
        /\ re \subseteq Slot /\ reused \subseteq re
    BY <1>3, <1>4, <2>2
  <2>5. Loop(A, "up", q, cur, lines, reused, readable)
    BY <1>4, <1>5
  <2> HIDE DEF A, q, re, d
  <2>6. Loop(A \cup {s}, "up", q, cur, lines, re, readable)
    BY <2>2, <2>4, <2>5 DEF Loop
  <2>7. InUse(clients') = A \cup {s}
    BY <2>1, <2>3 DEF A
  <2>8. Table(clients') /\ Sessions(clients', users')
    BY <1>2, <2>1, <2>3
  <2>9. Loop(InUse(clients'), pc', batch', cur', lines', reused', readable')
    BY <1>2, <2>1, <2>6, <2>7 DEF q
  <2> QED BY <1>1, <1>2, <2>8, <2>9, Parts
<1> QED BY <1>6, <1>7

\* The event of a client, or of none.
LEMMA EventStep == IInv /\ (event_of_nobody \/ receive \/ hang_up \/ recv_blocks) => IInv'
<1> SUFFICES ASSUME IInv, event_of_nobody \/ receive \/ hang_up \/ recv_blocks PROVE IInv'
  OBVIOUS
<1>1. /\ Data(users, users_db, messages, pc, faults, torn, lost)
      /\ Table(clients) /\ Sessions(clients, users)
      /\ Loop(InUse(clients), pc, batch, cur, lines, reused, readable)
  BY Parts
<1> DEFINE A == InUse(clients)
           s == Head(batch)
<1>2. batch # << >> /\ A \in SUBSET Slot
  BY DEF event_of_nobody, receive, hang_up, recv_blocks, EventOf, InUse
<1>3. /\ s \in A => s \in readable \/ s \in reused
      /\ Loop(A, "up", Tail(batch), cur, lines, reused \ {s}, readable \ {s})
      /\ Loop(A, "up", Tail(batch), cur, lines, reused \ {s}, readable)
  BY <1>1, <1>2, NextEvent
<1>4. UNCHANGED <<users, users_db, messages, faults, torn, lost>>
  BY DEF event_of_nobody, receive, hang_up, recv_blocks, disk_vars, fault_vars
<1>5. pc = "blocked" \/ pc = "up" \/ pc = "down"
  BY <1>1 DEF Loop
<1>6. pc # "down" => Data(users', users_db', messages', pc', faults', torn', lost')
  BY <1>1, <1>4 DEF Data
<1>7. CASE event_of_nobody
  <2>1. /\ pc = "up" /\ pc' = pc /\ batch' = Tail(batch) /\ reused' = reused \ {s}
        /\ UNCHANGED <<clients, cur, lines, readable>>
    BY <1>7 DEF event_of_nobody, EventDone
  <2> QED BY <1>1, <1>3, <1>4, <2>1, Parts
<1>8. CASE receive
  <2>1. /\ pc # "down" /\ pc' = "up" /\ batch' = Tail(batch) /\ reused' = reused \ {s}
        /\ clients' = clients /\ readable' = readable \ {s} /\ s \in Slot
        /\ lines' \in 0 .. MaxLines /\ cur' = IF lines' = 0 THEN NOBODY ELSE s
    BY <1>8 DEF receive, EventOf, EventDone
  <2>2. Loop(A, "up", Tail(batch), cur', lines', reused \ {s}, readable \ {s})
    <3>1. cur' \in Slot \cup {NOBODY} /\ (lines' > 0 => cur' \in Slot)
      BY <2>1, BoundAssumption
    <3> HIDE DEF A, s
    <3> QED BY <1>3, <2>1, <3>1, NewChunk
  <2> QED BY <1>1, <1>4, <1>6, <2>1, <2>2, Parts
<1>9. CASE hang_up
  <2>1. /\ pc # "down" /\ pc' = "up" /\ batch' = Tail(batch) /\ reused' = reused \ {s}
        /\ readable' = readable \ {s}
        /\ UNCHANGED <<cur, lines>>
        /\ clients' = [t \in Slot |-> IF t \in {s} THEN FreeSlot ELSE clients[t]]
    BY <1>9 DEF hang_up, EventOf, EventDone, disconnect_client
  <2> DEFINE S == {s}
             d == [t \in Slot |-> IF t \in S THEN FreeSlot ELSE clients[t]]
  <2>2. /\ Len(users) \in Nat /\ Len(users) <= Len(users)
        /\ \A t \in In(clients) \ S : users[clients[t].user].active
        /\ \A k \in 1 .. Len(users) : users[k].is_admin => users[k].is_admin
    BY <1>1 DEF Data, Accounts, Sessions, SessionSound
  <2> HIDE DEF S
  <2>3. Table(d) /\ Sessions(d, users) /\ InUse(d) = InUse(clients) \ S
    BY <1>1, <2>2, Cleared
  <2>4. clients' = d
    BY <2>1 DEF S
  <2>5. Loop(A \ {s}, "up", Tail(batch), cur, lines, reused \ {s}, readable \ {s})
    BY <1>3, FewerSlots
  <2> HIDE DEF d
  <2> QED BY <1>4, <1>6, <2>1, <2>3, <2>4, <2>5, Parts DEF S
<1>10. CASE recv_blocks
  <2>1. /\ pc = "up" /\ pc' = "blocked" /\ s \in A /\ s \notin readable
        /\ UNCHANGED <<clients, batch, cur, lines, reused, readable>>
    BY <1>10 DEF recv_blocks, EventOf, Active, InUse
  <2>2. Loop(A, "blocked", batch, cur, lines, reused, readable)
    BY <1>1, <1>3, <2>1 DEF Loop
  <2> QED BY <1>1, <1>4, <1>6, <2>1, <2>2, Parts
<1> QED BY <1>7, <1>8, <1>9, <1>10

\* Without clients there is nothing to get wrong.
LEMMA Nobody ==
  ASSUME NoSessions, NEW u, NEW p \in {"up", "down"}
  PROVE  Table(clients') /\ Sessions(clients', u)
           /\ Loop(InUse(clients'), p, batch', cur', lines', reused', readable')
<1>1. FreeSlot \in Client /\ FreeSlot.mode = "free"
  BY DEF FreeSlot, Client
<1>2. /\ clients' = [s \in Slot |-> FreeSlot] /\ readable' = {}
      /\ batch' = << >> /\ cur' = NOBODY /\ lines' = 0 /\ reused' = {}
  BY DEF NoSessions
<1>3. Table(clients') /\ In(clients') = {} /\ InUse(clients') = {}
  BY <1>1, <1>2 DEF Table, In, InUse
<1>4. Sessions(clients', u)
  BY <1>3 DEF Sessions
<1>5. Loop({}, p, << >>, NOBODY, 0, {}, {})
  BY BoundAssumption DEF Loop
<1> QED BY <1>2, <1>3, <1>4, <1>5

\* Accounts that are the same have the same names.
LEMMA SameNames ==
  ASSUME NEW u \in Seq(User), NEW v \in Seq(User), SameAccounts(u, v)
  PROVE  Len(u) <= Len(v) /\ \A k \in 1 .. Len(u) : v[k].name = u[k].name
<1>1. DOMAIN u = 1 .. Len(u) /\ Len(u) \in Nat /\ Len(v) \in Nat /\ Len(u) <= Len(v)
  BY DEF SameAccounts
<1>2. ASSUME NEW k \in 1 .. Len(u) PROVE v[k].name = u[k].name
  <2> DEFINE r == v[k]
             b == u[k].active
             w == [r EXCEPT !.active = b]
  <2>1. w = u[k]
    BY <1>1 DEF SameAccounts
  <2>2. r \in User
    BY <1>1
  <2> HIDE DEF r, b
  <2>3. w.name = r.name
    BY <2>2 DEF User
  <2> QED BY <2>1, <2>3 DEF r
<1> QED BY <1>1, <1>2

\* start and crash.
LEMMA ProcessStep == IInv /\ (start \/ crash) => IInv'
<1> SUFFICES ASSUME IInv, start \/ crash PROVE IInv'
  OBVIOUS
<1>1. /\ Data(users, users_db, messages, pc, faults, torn, lost)
  BY Parts
<1>2. CASE crash
  <2>1. /\ pc' = "down" /\ NoSessions /\ pc # "down"
        /\ UNCHANGED <<users, users_db, messages, faults, torn, lost>>
    BY <1>2 DEF crash, disk_vars, fault_vars
  <2>2. Data(users', users_db', messages', "down", faults', torn', lost')
    BY <1>1, <2>1 DEF Data
  <2> QED BY <2>1, <2>2, Nobody, Parts
<1>3. CASE start
  <2> DEFINE u == load_users(users_db)
             R == TornOf(users_db, torn)
  <2>1. /\ pc = "down" /\ NoSessions /\ messages' = messages
        /\ find_user_index_by_name(Loaded(users_db), Admin) # 0 \/ Len(users_db) < MAX_USERS
    BY <1>3 DEF start
  <2>2. PICK o \in save_users(u) :
          /\ Saved(o)
          /\ \/ /\ o.ret = 0 /\ pc' = "up" /\ users' = u /\ torn' = R
                /\ lost' = (lost \/ ~SameAccounts(users, u))
             \/ o.ret < 0 /\ UNCHANGED <<pc, users, torn, lost>>
    BY <1>3 DEF start, TornIn, TornOf
  <2>3. /\ Accounts(users, torn) /\ File(users_db, torn) /\ faults \in 0 .. MaxFaults
        /\ messages \in Seq(Message) /\ Len(messages) <= MaxMessages /\ lost \in BOOLEAN
        /\ ~lost => Messages(messages, users)
    BY <1>1 DEF Data
  <2>4. Accounts(u, R) /\ AdminIn(u)
    BY <2>1, <2>3, Loads
  <2> HIDE DEF u, R
  <2>5. /\ File(users_db', R) \/ (users_db' = users_db /\ o.ret < 0)
        /\ faults' \in 0 .. MaxFaults
        /\ faults' = 0 => users_db' = Format(u)
    BY <2>2, <2>3, <2>4, Saves
  <2>6. CASE o.ret = 0 /\ pc' = "up" /\ users' = u /\ torn' = R /\ lost' = (lost \/ ~SameAccounts(users, u))
    <3>1. lost' \in BOOLEAN
      BY <2>6
    <3>2. ~lost' => Messages(messages', users')
      <4>1. ASSUME ~lost' PROVE Messages(messages, u)
        <5>1. ~lost /\ SameAccounts(users, u)
          BY <2>6, <4>1
        <5>2. /\ users \in Seq(User) /\ u \in Seq(User) /\ Len(users) \in Nat /\ Len(u) \in Nat
          BY <2>3, <2>4 DEF Accounts
        <5>3. Len(users) <= Len(u) /\ \A k \in 1 .. Len(users) : u[k].name = users[k].name
          BY <5>1, <5>2, SameNames
        <5>4. \A k \in 1 .. Len(users) : k \in 1 .. Len(u)
          BY <5>2, <5>3
        <5> QED BY <2>3, <5>1, <5>3, <5>4 DEF Messages
      <4> QED BY <2>1, <2>6, <4>1
    <3>3. Data(users', users_db', messages', pc', faults', torn', lost')
      BY <2>1, <2>3, <2>4, <2>5, <2>6, <3>1, <3>2 DEF Data
    <3> QED BY <2>1, <2>6, <3>3, Nobody, Parts
  <2>7. CASE o.ret < 0 /\ UNCHANGED <<pc, users, torn, lost>>
    <3> DEFINE F == users_db
    <3>1. o = Outcome(users_db, -1, 1)
      <4>1. \A d, r, f : Outcome(d, r, f).ret = r
        BY DEF Outcome
      <4>2. o = Outcome(users_db, -1, 1) \/ o.ret = 0
        BY <4>1 DEF save_users
      <4> QED BY <2>7, <4>2
    <3>2. users_db' = users_db /\ faults' # 0
      <4>1. o.db = users_db /\ o.fault = 1
        BY <3>1 DEF Outcome
      <4> QED BY <2>2, <2>3, <4>1, BoundAssumption DEF Saved
    <3>3. Data(users', users_db', messages', pc', faults', torn', lost')
      BY <1>1, <2>1, <2>5, <2>7, <3>2 DEF Data
    <3> QED BY <2>1, <2>7, <3>3, Nobody, Parts
  <2> QED BY <2>2, <2>6, <2>7
<1> QED BY <1>2, <1>3

\* A peer acts.
LEMMA PeerStep == ASSUME IInv, NEW s \in Slot, peer_acts(s) PROVE IInv'
<1>1. /\ Data(users, users_db, messages, pc, faults, torn, lost)
      /\ Table(clients) /\ Sessions(clients, users)
      /\ Loop(InUse(clients), pc, batch, cur, lines, reused, readable)
  BY Parts
<1>2. /\ s \in InUse(clients) /\ readable' = readable \cup {s}
      /\ UNCHANGED <<users, users_db, messages, clients, pc, batch, cur, lines, reused, faults, torn, lost>>
  BY DEF peer_acts, Active, InUse, disk_vars, loop_vars, fault_vars
<1>3. Loop(InUse(clients), pc, batch, cur, lines, reused, readable \cup {s})
  BY <1>1, <1>2 DEF Loop
<1> QED BY <1>1, <1>2, <1>3, Parts

-----------------------------------------------------------------------------
(* The inductive invariant.                                                *)

\* Memory is empty and users.db is too, or holds one account of the earlier version.
LEMMA InitHolds == Init => IInv
<1> SUFFICES ASSUME Init PROVE IInv
  OBVIOUS
<1>1. users_db = << >> \/ \E n \in Name : users_db = <<Written(1, <<n>>)>>
  BY DEF Init
<1>2. ASSUME NEW n \in Name
      PROVE  /\ Written(1, <<n>>) \in Line /\ Written(1, <<n>>).id = 1
             /\ Sound(<<Parsed(Written(1, <<n>>))>>, {})
  <2> DEFINE t == <<n>>
             l == Written(1, t)
             q == Parsed(l)
             w == OldName(t)
  <2>1. t \in Seq(Name \cup Sign) /\ t # << >> /\ t[1] = n /\ Len(t) = 1 /\ n \in Name
    OBVIOUS
  <2>2. t \in Text
    BY <2>1 DEF Text
  <2>3. ~NewFormat(t)
    BY <2>1 DEF NewFormat
  <2>4. w \in Text /\ Whole(w)
    <3>1. Word[n] \in Name /\ Room[n] \in Nat
      BY NameAssumption
    <3>2. Shorter(Len(t), 1 + Room[t[1]]) = 1
      BY <2>1, <3>1 DEF Shorter
    <3>3. Tail(t) = << >>
      OBVIOUS
    <3> DEFINE p == <<Word[t[1]]>>
    <3>4. p \in Seq(Name) /\ p \o << >> = p /\ Len(p) = 1 /\ SubSeq(p, 1, 1) = p
      <4>1. p \in Seq(Name) /\ Len(p) = 1
        BY <2>1, <3>1
      <4> HIDE DEF p
      <4> QED BY <4>1, ConcatEmptySeq, SubSeqFull
    <3>5. w = p
      BY <3>2, <3>3, <3>4 DEF OldName
    <3> QED BY <2>2, <3>4, <3>5, OldNameIsText DEF Whole
  <2>5. l = [id |-> 1, text |-> t, cut |-> FALSE]
    BY DEF Written
  <2> HIDE DEF t, l
  <2>6. l \in Line /\ l.id = 1 /\ l.text = t
    BY <2>2, <2>5 DEF Line
  <2> HIDE DEF w
  <2>7. q = [id |-> 1, name |-> w, active |-> TRUE, is_admin |-> w = <<Admin>>]
    BY <2>3, <2>6 DEF Parsed, w
  <2> HIDE DEF q
  <2>8. q.id = 1 /\ q.name = w /\ q.active /\ (q.is_admin <=> w = <<Admin>>)
    BY <2>7
  <2>9. Len(<<q>>) = 1 /\ <<q>>[1] = q /\ \A k \in 1 .. 1 : k = 1
    OBVIOUS
  <2>10. Sound(<<q>>, {})
    BY <2>4, <2>8, <2>9 DEF Sound
  <2> QED BY <2>6, <2>10 DEF l, t, q
<1>3. Sound(<< >>, {})
  BY DEF Sound
<1>4. File(users_db, {})
  <2>1. CASE users_db = << >>
    <3>1. users_db \in Seq(Line) /\ Len(users_db) = 0 /\ 0 <= MAX_USERS /\ 1 .. 0 = {}
      BY <2>1, TableAssumption
    <3>2. Loaded(users_db) \in Seq(User) /\ Len(Loaded(users_db)) = 0 /\ TornOf(users_db, {}) = {}
      BY <3>1, LoadedFacts
    <3>3. Loaded(users_db) = << >>
      BY <3>2, EmptySeq
    <3> QED BY <1>3, <3>1, <3>2, <3>3 DEF File
  <2>2. ASSUME NEW n \in Name, users_db = <<Written(1, <<n>>)>> PROVE File(users_db, {})
    <3> DEFINE l == Written(1, <<n>>)
    <3>1. l \in Line /\ l.id = 1 /\ Sound(<<Parsed(l)>>, {})
      BY <1>2
    <3>2. l.cut = FALSE
      BY DEF Written
    <3>3. users_db = <<l>>
      BY <2>2
    <3> HIDE DEF l, Line
    <3>4. /\ users_db \in Seq(Line) /\ Len(users_db) = 1 /\ 1 <= MAX_USERS
          /\ \A k \in 1 .. 1 : k = 1 /\ users_db[k] = l
      BY <3>1, <3>3, TableAssumption
    <3>5. /\ Loaded(users_db) \in Seq(User) /\ Len(Loaded(users_db)) = 1
          /\ Loaded(users_db)[1] = Parsed(l)
          /\ TornOf(users_db, {}) = {k \in 1 .. 1 : users_db[k].cut \/ k \in {}}
      <4>1. users_db \in Seq(Line) /\ Len(users_db) = 1 /\ Len(users_db) <= MAX_USERS
            /\ users_db[1] = l /\ 1 \in 1 .. 1
        BY <3>4
      <4>2. /\ Loaded(users_db) \in Seq(User) /\ Len(Loaded(users_db)) = Len(users_db)
            /\ \A k \in 1 .. Len(users_db) : Loaded(users_db)[k] = Parsed(users_db[k])
            /\ \A T : TornOf(users_db, T) = {k \in 1 .. Len(users_db) : users_db[k].cut \/ k \in T}
        BY <4>1, LoadedFacts
      <4> HIDE DEF User
      <4> QED BY <4>1, <4>2
    <3>6. Loaded(users_db) = <<Parsed(l)>> /\ TornOf(users_db, {}) = {}
      BY <3>2, <3>4, <3>5
    <3> QED BY <3>1, <3>4, <3>6 DEF File
  <2> QED BY <1>1, <2>1, <2>2
<1>5. Accounts(<< >>, {})
  BY <1>3, TableAssumption DEF Accounts
<1>6. /\ users = << >> /\ messages = << >> /\ pc = "down" /\ faults = 0
      /\ torn = {} /\ lost = FALSE
  BY DEF Init
<1>7. Data(users, users_db, messages, pc, faults, torn, lost)
  <2>1. /\ Len(<< >>) = 0 /\ << >> \in Seq(Message) /\ 1 .. 0 = {}
        /\ 0 \in 0 .. MaxFaults /\ 0 <= MaxMessages
    BY BoundAssumption
  <2>2. Messages(<< >>, << >>)
    BY <2>1 DEF Messages
  <2>3. Data(<< >>, users_db, << >>, "down", 0, {}, FALSE)
    BY <1>4, <1>5, <2>1, <2>2 DEF Data
  <2> QED BY <1>6, <2>3
<1>8. /\ Table(clients) /\ Sessions(clients, users)
      /\ Loop(InUse(clients), pc, batch, cur, lines, reused, readable)
  <2>1. FreeSlot \in Client /\ FreeSlot.mode = "free"
    BY DEF FreeSlot, Client
  <2>2. /\ clients = [s \in Slot |-> FreeSlot] /\ readable = {}
        /\ batch = << >> /\ cur = NOBODY /\ lines = 0 /\ reused = {}
    BY DEF Init
  <2>3. Table(clients) /\ In(clients) = {} /\ InUse(clients) = {}
    BY <2>1, <2>2 DEF Table, In, InUse
  <2>4. Sessions(clients, users)
    BY <2>3 DEF Sessions
  <2>5. Loop({}, "down", << >>, NOBODY, 0, {}, {})
    BY BoundAssumption DEF Loop
  <2> QED BY <1>6, <2>2, <2>3, <2>4, <2>5
<1> QED BY <1>7, <1>8, Parts

\* Every step keeps it.
LEMMA InvStep == IInv /\ [Next]_vars => IInv'
<1> SUFFICES ASSUME IInv, [Next]_vars PROVE IInv'
  OBVIOUS
<1>1. CASE process_line
  <2>1. CASE reply_only \/ login_refused \/ process_menu \/ chat_leave \/ chat_not_stored \/ admin_leave
    BY <2>1, PlainLine
  <2> QED BY <1>1, <2>1, LoginLine, SendLine, AdminLine
          DEF process_line, process_login, process_chat, process_admin
<1>2. CASE epoll_wait \/ accept
  BY <1>2, WaitStep, AcceptStep
<1>3. CASE event_of_nobody \/ receive \/ hang_up \/ recv_blocks
  BY <1>3, EventStep
<1>4. CASE start \/ crash
  BY <1>4, ProcessStep
<1>5. ASSUME NEW s \in Slot, peer_acts(s) PROVE IInv'
  BY <1>5, PeerStep
<1>6. CASE UNCHANGED vars
  BY <1>6, Parts DEF vars, loop_vars, disk_vars, fault_vars
<1> QED BY <1>1, <1>2, <1>3, <1>4, <1>5, <1>6 DEF Next, server

-----------------------------------------------------------------------------
(* What a step does to the accounts.                                       *)

\* What AccountsKept says of a step, from accounts u to v, of a process in state p.
Unharmed(u, v, p) ==
  /\ Len(u) <= Len(v)
  /\ \A k \in DOMAIN u :
       LET r == u[k]  q == v[k]
       IN  /\ q.id = r.id
           /\ p # "down" \/ Whole(r.name) =>
                /\ q.name = r.name /\ q.is_admin = r.is_admin
                /\ q.active # r.active => InMode("admin") /\ (r.active => ~r.is_admin)

\* More accounts do no harm to those that were there.
LEMMA MoreAccounts ==
  ASSUME NEW u \in Seq(User), NEW v \in Seq(User), Len(u) <= Len(v),
         \A k \in 1 .. Len(u) : v[k] = u[k]
  PROVE  Unharmed(u, v, pc)
<1>1. DOMAIN u = 1 .. Len(u)
  OBVIOUS
<1> QED BY <1>1 DEF Unharmed

\* A restart reads back what is in memory when users.db is up to date.
LEMMA ReadBack ==
  ASSUME IInv, start, faults = 0 \/ Durable
  PROVE  Unharmed(users, users', pc)
<1>1. Data(users, users_db, messages, pc, faults, torn, lost)
  BY Parts
<1>2. /\ Accounts(users, torn) /\ File(users_db, torn) /\ Len(users) \in Nat
      /\ users \in Seq(User) /\ \A k \in 1 .. Len(users) : users[k].id = k
  BY <1>1 DEF Data, Accounts, Sound
<1> DEFINE u == load_users(users_db)
           a == find_user_index_by_name(Loaded(users_db), Admin)
           b == find_user_index_by_name(users, Admin)
<1>3. UNCHANGED users \/ (users' = u /\ (a # 0 \/ Len(users_db) < MAX_USERS))
  BY DEF start
<1>4. CASE UNCHANGED users
  <2>1. Len(users) <= Len(users)
    BY <1>2
  <2>2. Unharmed(users, users, pc)
    BY <1>2, <2>1, MoreAccounts
  <2> QED BY <1>4, <2>2
<1>5. CASE users' = u /\ (a # 0 \/ Len(users_db) < MAX_USERS)
  <2>1. /\ Len(users_db) <= Len(u) /\ u \in Seq(User)
        /\ \A k \in 1 .. Len(users_db) :
             /\ k # a => u[k] = Parsed(users_db[k])
             /\ u[k].id = k /\ u[k].name = Parsed(users_db[k]).name
             /\ k = a => u[k].active = TRUE /\ u[k].is_admin = TRUE
    BY <1>2, <1>5, Loads DEF Accounts
  <2>2. users_db = Format(users) \/ users = << >>
    BY <1>1 DEF Data, Durable
  <2> HIDE DEF u
  <2>3. Len(u) \in Nat
    BY <2>1
  <2>4. CASE users = << >>
    <3>1. Len(users) = 0 /\ 1 .. Len(users) = {} /\ Len(users) <= Len(u)
      BY <2>3, <2>4
    <3>2. Unharmed(users, u, pc)
      BY <1>2, <2>1, <3>1, MoreAccounts
    <3> QED BY <1>5, <3>2
  <2>5. CASE users_db = Format(users) /\ users # << >>
    <3>1. /\ Len(users_db) = Len(users) /\ users_db \in Seq(Line) /\ Len(users_db) <= MAX_USERS
          /\ \A k \in 1 .. Len(users) : users_db[k] = Formatted(users[k])
      BY <1>2, <2>5, FormatFacts DEF Accounts
    <3>2. \A k \in 1 .. Len(users) : Whole(users[k].name) => Parsed(users_db[k]) = users[k]
      BY <1>2, <3>1, WholeIsReadBack
    <3>3. /\ b # 0 /\ b \in 1 .. Len(users) /\ users[b].name = <<Admin>>
          /\ users[b].active /\ users[b].is_admin
          /\ \A j \in 1 .. Len(users) : users[j].name = <<Admin>> => b <= j
      BY <1>1, <1>2, <2>5, FoundByName DEF Data, AdminIn
    <3>4. /\ Loaded(users_db) \in Seq(User) /\ Len(Loaded(users_db)) = Len(users)
          /\ \A k \in 1 .. Len(users) : Loaded(users_db)[k] = Parsed(users_db[k])
      BY <3>1, LoadedFacts
    <3>5. a # 0 => /\ a \in 1 .. Len(users) /\ Parsed(users_db[a]).name = <<Admin>>
                   /\ \A j \in 1 .. Len(users) : Parsed(users_db[j]).name = <<Admin>> => a <= j
      BY <3>4, FoundByName
    <3> HIDE DEF a, b
    <3>6. ASSUME a # 0, Whole(users[a].name) PROVE a = b
      <4>1. Whole(users[b].name)
        BY <3>3 DEF Whole
      <4>2. Parsed(users_db[b]).name = <<Admin>>
        BY <3>2, <3>3, <4>1
      <4>3. users[a].name = <<Admin>>
        BY <3>2, <3>5, <3>6
      <4> QED BY <1>2, <3>3, <3>5, <3>6, <4>2, <4>3
    <3>7. ASSUME NEW k \in 1 .. Len(users)
          PROVE  /\ u[k].id = users[k].id
                 /\ Whole(users[k].name) =>
                      /\ u[k].name = users[k].name /\ u[k].is_admin = users[k].is_admin
                      /\ u[k].active = users[k].active
      <4>1. k \in 1 .. Len(users_db) /\ users[k] \in User
        BY <1>2, <3>1
      <4>2. users[k].is_admin \in BOOLEAN /\ users[k].active \in BOOLEAN
        BY <4>1 DEF User
      <4>3. CASE k # a
        BY <1>2, <2>1, <3>2, <4>1, <4>3
      <4>4. CASE k = a
        <5>1. a # 0
          BY <4>4
        <5>2. Whole(users[k].name) => users[k].active = TRUE /\ users[k].is_admin = TRUE
          BY <3>3, <3>6, <4>2, <4>4, <5>1
        <5> QED BY <1>2, <2>1, <3>2, <4>1, <4>4, <5>2
      <4> QED BY <4>3, <4>4
    <3>8. DOMAIN users = 1 .. Len(users) /\ pc = "down" /\ Len(users) <= Len(u)
      BY <1>2, <2>1, <3>1 DEF start
    <3>9. Unharmed(users, u, pc)
      BY <3>7, <3>8 DEF Unharmed
    <3> QED BY <1>5, <3>9
  <2> QED BY <2>2, <2>4, <2>5
<1> QED BY <1>3, <1>4, <1>5

\* Removing or restoring an account.
LEMMA ActivityChanges ==
  ASSUME IInv, admin_remove \/ admin_restore
  PROVE  Unharmed(users, users', pc)
<1>1. Data(users, users_db, messages, pc, faults, torn, lost)
  BY Parts
<1>2. Accounts(users, torn) /\ DOMAIN users = 1 .. Len(users) /\ Len(users) \in Nat
  BY <1>1 DEF Data, Accounts
<1>3. InMode("admin")
  BY DEF admin_remove, admin_restore
<1>4. ASSUME NEW k \in 1 .. Len(users), NEW b \in BOOLEAN, SetActive(k, b),
             b = TRUE \/ ~users[k].is_admin, users[k].active => ~users[k].is_admin
      PROVE  Unharmed(users, users', pc)
  <2>1. /\ Len(users') = Len(users)
        /\ \A j \in 1 .. Len(users) :
             /\ users'[j].id = users[j].id /\ users'[j].name = users[j].name
             /\ users'[j].is_admin = users[j].is_admin
             /\ j # k => users'[j] = users[j]
    BY <1>2, <1>4, Activated
  <2>2. Len(users) <= Len(users')
    BY <1>2, <2>1
  <2> QED BY <1>2, <1>3, <1>4, <2>1, <2>2 DEF Unharmed
<1>5. PICK k \in 1 .. Len(users) :
        \/ ~users[k].is_admin /\ SetActive(k, FALSE)
        \/ ~users[k].active /\ SetActive(k, TRUE)
  BY <1>2 DEF admin_remove, admin_restore
<1>6. CASE ~users[k].is_admin /\ SetActive(k, FALSE)
  BY <1>4, <1>6
<1>7. CASE ~users[k].active /\ SetActive(k, TRUE)
  BY <1>4, <1>7
<1> QED BY <1>5, <1>6, <1>7

\* Every step does what AccountsKept says.
LEMMA AccountsStep ==
  ASSUME IInv, Next, pc = "down" => faults = 0 \/ Durable
  PROVE  Unharmed(users, users', pc)
<1>1. Data(users, users_db, messages, pc, faults, torn, lost)
  BY Parts
<1>2. users \in Seq(User) /\ Len(users) \in Nat
  BY <1>1 DEF Data, Accounts
<1>3. CASE UNCHANGED users
  <2>1. Len(users) <= Len(users)
    BY <1>2
  <2>2. Unharmed(users, users, pc)
    BY <1>2, <2>1, MoreAccounts
  <2> QED BY <1>3, <2>2
<1>4. CASE login_new
  <2>1. /\ users' \in Seq(User) /\ Len(users') = Len(users) + 1
        /\ \A k \in 1 .. Len(users) : users'[k] = users[k]
    BY <1>4, Registered DEF Accounts
  <2>2. Len(users) <= Len(users')
    BY <1>2, <2>1
  <2> QED BY <1>2, <2>1, <2>2, MoreAccounts
<1>5. CASE admin_remove \/ admin_restore
  BY <1>5, ActivityChanges
<1>6. CASE start
  <2>1. pc = "down"
    BY <1>6 DEF start
  <2> QED BY <1>6, <2>1, ReadBack
<1>7. \/ UNCHANGED users \/ login_new \/ admin_remove \/ admin_restore \/ start
  <2>1. CASE process_line
    BY <2>1 DEF process_line, reply_only, process_login, login_refused, login_existing,
                process_menu, menu_quit, menu_refresh, menu_admin, open_chat,
                process_chat, chat_leave, chat_send, chat_not_stored, process_admin, admin_leave
  <2>2. CASE server /\ ~process_line
    BY <2>2 DEF server, epoll_wait, accept, event_of_nobody, receive, hang_up, recv_blocks
  <2>3. CASE crash
    BY <2>3 DEF crash
  <2>4. ASSUME NEW s \in Slot, peer_acts(s) PROVE UNCHANGED users
    BY <2>4 DEF peer_acts
  <2> QED BY <2>1, <2>2, <2>3, <2>4 DEF Next
<1> QED BY <1>3, <1>4, <1>5, <1>6, <1>7

-----------------------------------------------------------------------------
(* The theorems.                                                           *)

\* IInv holds in every reachable state.
THEOREM InductiveInvariant == Spec => []IInv
<1> QED BY InitHolds, InvStep, PTL DEF Spec

\* The types of the accounts, the files, the client table and the loop's variables.
THEOREM TypeCorrect == Spec => []TypeOK
<1>1. IInv => TypeOK
  BY DEF IInv
<1> QED BY <1>1, InductiveInvariant, PTL

\* A session belongs to an active account and an account has one session, the
\* admin page is of accounts with the rights, which are the default admin's except
\* after a cut line, and a chat is with a known account other than one's own
\* (process_login(), process_admin(), find_client_by_user_id()).
THEOREM SessionsSoundHolds == Spec => []SessionsSound
<1>1. IInv => SessionsSound
  BY DEF IInv
<1> QED BY <1>1, InductiveInvariant, PTL

\* No two accounts share an id, nor a name unless a cut line gave it to one of them,
\* and unless a restart lost or changed an account the messages belong to those who
\* held the conversations (get_max_user_id()).
THEOREM HistoryKeepsItsPeopleHolds == Spec => []HistoryKeepsItsPeople
<1>1. IInv => HistoryKeepsItsPeople
  BY DEF IInv
<1> QED BY <1>1, InductiveInvariant, PTL

\* The server blocks in recv() only on a slot that accept() filled although the
\* batch still has an event of its previous client (server.c:2142).
THEOREM BlockedOnlyOnReusedSlotHolds == Spec => []BlockedOnlyOnReusedSlot
<1>1. IInv => BlockedOnlyOnReusedSlot
  BY DEF IInv
<1> QED BY <1>1, InductiveInvariant, PTL

\* Accounts keep their place and id, their name and rights, and only the admin page
\* changes who is removed; a restart changes nothing of an account whose name is
\* whole unless a write has failed and users.db has not caught up since
\* (save_users(), load_users()).
THEOREM AccountsKeptHolds == Spec => AccountsKept
<1>1. IInv /\ [Next]_vars =>
        [(pc = "down" => faults = 0 \/ Durable) =>
           /\ Len(users) <= Len(users')
           /\ \A k \in DOMAIN users :
                LET r == users[k]  q == users'[k]
                IN  /\ q.id = r.id
                    /\ pc # "down" \/ Whole(r.name) =>
                         /\ q.name = r.name /\ q.is_admin = r.is_admin
                         /\ q.active # r.active =>
                              InMode("admin") /\ (r.active => ~r.is_admin)]_vars
  BY AccountsStep DEF Unharmed
<1> QED BY <1>1, InductiveInvariant, PTL DEF Spec, AccountsKept
=============================================================================
