----------------------------- MODULE RingLemmas -----------------------------
(***************************************************************************)
(* Facts about the contents of a ring that the proofs of both halves of    *)
(* edunic need.  The descriptor rings of nic_tx.c and nic_rx.c hold a      *)
(* queue: the slots from one index forward to another.  A window of a ring *)
(* is that queue as a sequence.                                            *)
(***************************************************************************)
EXTENDS Integers, Sequences, TLAPS

\* An index at most one turn too large, brought back into the ring.
Wrap(size, x) == IF x < size THEN x ELSE x - size

\* The n slots of the array b of this size, from slot a on.
Window(size, b, a, n) == [k \in 1 .. n |-> b[Wrap(size, a + k - 1)]]

\* A function whose domain is 1 .. n is a sequence of length n.
LEMMA FunctionIsSeq ==
  ASSUME NEW S, NEW n \in Nat, NEW f \in [1 .. n -> S]
  PROVE  f \in Seq(S) /\ Len(f) = n
OBVIOUS

\* Two functions that agree on 1 .. n, one of them longer by one value.
LEMMA GrowIsAppend ==
  ASSUME NEW S, NEW n \in Nat, NEW f \in [1 .. n -> S],
         NEW g \in [1 .. n + 1 -> S], \A k \in 1 .. n : g[k] = f[k]
  PROVE  g = Append(f, g[n + 1])
BY FunctionIsSeq

\* A function shifted down by one value.
LEMMA ShiftIsTail ==
  ASSUME NEW S, NEW n \in Nat, n > 0, NEW f \in [1 .. n -> S],
         NEW g \in [1 .. n - 1 -> S], \A k \in 1 .. n - 1 : g[k] = f[k + 1]
  PROVE  f # <<>> /\ Head(f) = f[1] /\ g = Tail(f)
BY FunctionIsSeq

\* Taking one slot more at the far end appends its value.
LEMMA WindowGrow ==
  ASSUME NEW size \in Nat, NEW b, NEW a \in 0 .. size - 1,
         NEW n \in 0 .. size - 1
  PROVE  Window(size, b, a, n + 1)
           = Append(Window(size, b, a, n), b[Wrap(size, a + n)])
<1> DEFINE S == {b[i] : i \in 0 .. size - 1}
           f == Window(size, b, a, n)
           g == Window(size, b, a, n + 1)
<1>1. f \in [1 .. n -> S] /\ g \in [1 .. n + 1 -> S]
  BY DEF Window, Wrap
<1>2. \A k \in 1 .. n : g[k] = f[k]
  BY DEF Window
<1>3. g[n + 1] = b[Wrap(size, a + n)]
  BY DEF Window
<1> HIDE DEF f, g, S
<1>4. g = Append(f, g[n + 1])
  BY <1>1, <1>2, GrowIsAppend
<1> QED BY <1>3, <1>4 DEF f, g

\* Giving up the oldest slot removes the head.
LEMMA WindowDrop ==
  ASSUME NEW size \in Nat, NEW b, NEW a \in 0 .. size - 1,
         NEW n \in 1 .. size
  PROVE  /\ Window(size, b, a, n) # <<>>
         /\ Head(Window(size, b, a, n)) = b[a]
         /\ Window(size, b, Wrap(size, a + 1), n - 1)
              = Tail(Window(size, b, a, n))
<1> DEFINE S == {b[i] : i \in 0 .. size - 1}
           f == Window(size, b, a, n)
           g == Window(size, b, Wrap(size, a + 1), n - 1)
<1>1. f \in [1 .. n -> S]
  BY DEF Window, Wrap
<1>2. g \in [1 .. n - 1 -> S]
  BY DEF Window, Wrap
<1>3. f[1] = b[a]
  BY DEF Window, Wrap
<1>4. \A k \in 1 .. n - 1 : g[k] = f[k + 1]
  BY DEF Window, Wrap
<1> HIDE DEF f, g, S
<1>5. f # <<>> /\ Head(f) = f[1] /\ g = Tail(f)
  BY <1>1, <1>2, <1>4, ShiftIsTail
<1> QED BY <1>3, <1>5 DEF f, g

\* A window of n slots has length n.
LEMMA WindowLength ==
  ASSUME NEW size \in Nat, NEW b, NEW a \in 0 .. size - 1, NEW n \in 0 .. size
  PROVE  Len(Window(size, b, a, n)) = n
<1> DEFINE S == {b[i] : i \in 0 .. size - 1}
<1>1. Window(size, b, a, n) \in [1 .. n -> S]
  BY DEF Window, Wrap
<1> HIDE DEF S
<1> QED BY <1>1, FunctionIsSeq
=============================================================================
