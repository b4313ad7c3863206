----------------------- MODULE SimpleNetdevLifecycleProofs -----------------------
(***************************************************************************)
(* Proofs about SimpleNetdevLifecycle, for every ring size and budget.     *)
(***************************************************************************)
EXTENDS SimpleNetdevLifecycle, TLAPS

-----------------------------------------------------------------------------
(* The lists of my_pci_probe() and my_pci_remove().                        *)

\* Their lengths, and everything they hold.
LEMMA ListFacts ==
  /\ Len(Acquire) = 12 /\ Len(Unwind) = 11 /\ Len(Removal) = 12
  /\ Everything = {"device", "regions", "netdev", "mmio", "napi", "rx_ring",
                   "tx_ring", "rx_buffers", "irq", "registered"}
<1>1. Len(Acquire) = 12 /\ Len(Unwind) = 11 /\ Len(Removal) = 12
  BY DEF Acquire, Unwind, Removal
<1>2. {Acquire[k] : k \in 1 .. 12}
        = {Acquire[k] : k \in {1, 2, 3, 4, 5, 6, 7, 8, 9, 10, 11, 12}}
  <2>1. 1 .. 12 = {1, 2, 3, 4, 5, 6, 7, 8, 9, 10, 11, 12}
    OBVIOUS
  <2> QED BY <2>1
<1>3. {Acquire[k] : k \in {1, 2, 3, 4, 5, 6, 7, 8, 9, 10, 11, 12}}
        = {"device", "regions", "dma_mask", "netdev", "mmio", "napi", "rx_ring",
           "tx_ring", "rx_buffers", "irq", "hw_init", "registered"}
  BY DEF Acquire
<1> QED BY <1>1, <1>2, <1>3 DEF Everything, NotHeld

\* What my_pci_probe() holds before each of its calls.
LEMMA AcquiredTable ==
  /\ AcquiredBefore(1) = {}
  /\ AcquiredBefore(2) = AcquiredBefore(1) \cup {"device"}
  /\ AcquiredBefore(3) = AcquiredBefore(2) \cup {"regions"}
  /\ AcquiredBefore(4) = AcquiredBefore(3)
  /\ AcquiredBefore(5) = AcquiredBefore(4) \cup {"netdev"}
  /\ AcquiredBefore(6) = AcquiredBefore(5) \cup {"mmio"}
  /\ AcquiredBefore(7) = AcquiredBefore(6) \cup {"napi"}
  /\ AcquiredBefore(8) = AcquiredBefore(7) \cup {"rx_ring"}
  /\ AcquiredBefore(9) = AcquiredBefore(8) \cup {"tx_ring"}
  /\ AcquiredBefore(10) = AcquiredBefore(9) \cup {"rx_buffers"}
  /\ AcquiredBefore(11) = AcquiredBefore(10) \cup {"irq"}
  /\ AcquiredBefore(12) = AcquiredBefore(11)
<1>1. AcquiredBefore(1) = {}
  BY DEF AcquiredBefore
<1>2. ASSUME NEW s \in 1 .. 11
      PROVE  AcquiredBefore(s + 1)
               = AcquiredBefore(s) \cup ({Acquire[s]} \ NotHeld)
  <2>1. 1 .. (s + 1) - 1 = (1 .. s - 1) \cup {s}
    OBVIOUS
  <2> QED BY <2>1 DEF AcquiredBefore
<1>3. /\ AcquiredBefore(2) = AcquiredBefore(1) \cup ({Acquire[1]} \ NotHeld)
      /\ AcquiredBefore(3) = AcquiredBefore(2) \cup ({Acquire[2]} \ NotHeld)
      /\ AcquiredBefore(4) = AcquiredBefore(3) \cup ({Acquire[3]} \ NotHeld)
      /\ AcquiredBefore(5) = AcquiredBefore(4) \cup ({Acquire[4]} \ NotHeld)
      /\ AcquiredBefore(6) = AcquiredBefore(5) \cup ({Acquire[5]} \ NotHeld)
      /\ AcquiredBefore(7) = AcquiredBefore(6) \cup ({Acquire[6]} \ NotHeld)
      /\ AcquiredBefore(8) = AcquiredBefore(7) \cup ({Acquire[7]} \ NotHeld)
      /\ AcquiredBefore(9) = AcquiredBefore(8) \cup ({Acquire[8]} \ NotHeld)
      /\ AcquiredBefore(10) = AcquiredBefore(9) \cup ({Acquire[9]} \ NotHeld)
      /\ AcquiredBefore(11) = AcquiredBefore(10) \cup ({Acquire[10]} \ NotHeld)
      /\ AcquiredBefore(12) = AcquiredBefore(11) \cup ({Acquire[11]} \ NotHeld)
  BY <1>2
<1>4. /\ {Acquire[1]} \ NotHeld = {"device"}
      /\ {Acquire[2]} \ NotHeld = {"regions"}
      /\ {Acquire[3]} \ NotHeld = {}
      /\ {Acquire[4]} \ NotHeld = {"netdev"}
      /\ {Acquire[5]} \ NotHeld = {"mmio"}
      /\ {Acquire[6]} \ NotHeld = {"napi"}
      /\ {Acquire[7]} \ NotHeld = {"rx_ring"}
      /\ {Acquire[8]} \ NotHeld = {"tx_ring"}
      /\ {Acquire[9]} \ NotHeld = {"rx_buffers"}
      /\ {Acquire[10]} \ NotHeld = {"irq"}
      /\ {Acquire[11]} \ NotHeld = {}
  BY DEF Acquire, NotHeld
<1>5. \A X : X \cup {} = X
  OBVIOUS
<1> HIDE DEF AcquiredBefore
<1>6. /\ AcquiredBefore(2) = AcquiredBefore(1) \cup {"device"}
      /\ AcquiredBefore(3) = AcquiredBefore(2) \cup {"regions"}
      /\ AcquiredBefore(5) = AcquiredBefore(4) \cup {"netdev"}
      /\ AcquiredBefore(6) = AcquiredBefore(5) \cup {"mmio"}
      /\ AcquiredBefore(7) = AcquiredBefore(6) \cup {"napi"}
      /\ AcquiredBefore(8) = AcquiredBefore(7) \cup {"rx_ring"}
      /\ AcquiredBefore(9) = AcquiredBefore(8) \cup {"tx_ring"}
      /\ AcquiredBefore(10) = AcquiredBefore(9) \cup {"rx_buffers"}
      /\ AcquiredBefore(11) = AcquiredBefore(10) \cup {"irq"}
  BY <1>3, <1>4, Zenon
<1>7. /\ AcquiredBefore(4) = AcquiredBefore(3)
      /\ AcquiredBefore(12) = AcquiredBefore(11)
  BY <1>3, <1>4, <1>5
<1> QED BY <1>1, <1>6, <1>7, Zenon

\* What is still held at each label of the error path.
LEMMA UnwindTable ==
  /\ UnwoundFrom(12) = {}
  /\ UnwoundFrom(11) = UnwoundFrom(12) \cup {"device"}
  /\ UnwoundFrom(10) = UnwoundFrom(11) \cup {"regions"}
  /\ UnwoundFrom(9) = UnwoundFrom(10) \cup {"netdev"}
  /\ UnwoundFrom(8) = UnwoundFrom(9) \cup {"mmio"}
  /\ UnwoundFrom(7) = UnwoundFrom(8) \cup {"napi"}
  /\ UnwoundFrom(6) = UnwoundFrom(7) \cup {"rx_ring"}
  /\ UnwoundFrom(5) = UnwoundFrom(6) \cup {"tx_ring"}
  /\ UnwoundFrom(4) = UnwoundFrom(5) \cup {"rx_buffers"}
  /\ UnwoundFrom(3) = UnwoundFrom(4)
  /\ UnwoundFrom(2) = UnwoundFrom(3) \cup {"irq"}
  /\ UnwoundFrom(1) = UnwoundFrom(2)
<1>1. UnwoundFrom(12) = {}
  BY ListFacts DEF UnwoundFrom
<1>2. ASSUME NEW s \in 1 .. 11
      PROVE  UnwoundFrom(s) = UnwoundFrom(s + 1) \cup ({Unwind[s]} \ ReleaseNothing)
  <2>1. s .. 11 = (s + 1 .. 11) \cup {s}
    OBVIOUS
  <2> QED BY <2>1, ListFacts DEF UnwoundFrom
<1>3. /\ UnwoundFrom(11) = UnwoundFrom(12) \cup ({Unwind[11]} \ ReleaseNothing)
      /\ UnwoundFrom(10) = UnwoundFrom(11) \cup ({Unwind[10]} \ ReleaseNothing)
      /\ UnwoundFrom(9) = UnwoundFrom(10) \cup ({Unwind[9]} \ ReleaseNothing)
      /\ UnwoundFrom(8) = UnwoundFrom(9) \cup ({Unwind[8]} \ ReleaseNothing)
      /\ UnwoundFrom(7) = UnwoundFrom(8) \cup ({Unwind[7]} \ ReleaseNothing)
      /\ UnwoundFrom(6) = UnwoundFrom(7) \cup ({Unwind[6]} \ ReleaseNothing)
      /\ UnwoundFrom(5) = UnwoundFrom(6) \cup ({Unwind[5]} \ ReleaseNothing)
      /\ UnwoundFrom(4) = UnwoundFrom(5) \cup ({Unwind[4]} \ ReleaseNothing)
      /\ UnwoundFrom(3) = UnwoundFrom(4) \cup ({Unwind[3]} \ ReleaseNothing)
      /\ UnwoundFrom(2) = UnwoundFrom(3) \cup ({Unwind[2]} \ ReleaseNothing)
      /\ UnwoundFrom(1) = UnwoundFrom(2) \cup ({Unwind[1]} \ ReleaseNothing)
  BY <1>2
<1>4. /\ {Unwind[11]} \ ReleaseNothing = {"device"}
      /\ {Unwind[10]} \ ReleaseNothing = {"regions"}
      /\ {Unwind[9]} \ ReleaseNothing = {"netdev"}
      /\ {Unwind[8]} \ ReleaseNothing = {"mmio"}
      /\ {Unwind[7]} \ ReleaseNothing = {"napi"}
      /\ {Unwind[6]} \ ReleaseNothing = {"rx_ring"}
      /\ {Unwind[5]} \ ReleaseNothing = {"tx_ring"}
      /\ {Unwind[4]} \ ReleaseNothing = {"rx_buffers"}
      /\ {Unwind[3]} \ ReleaseNothing = {}
      /\ {Unwind[2]} \ ReleaseNothing = {"irq"}
      /\ {Unwind[1]} \ ReleaseNothing = {}
  BY DEF Unwind, ReleaseNothing
<1>5. \A X : X \cup {} = X
  OBVIOUS
<1> HIDE DEF UnwoundFrom
<1>6. /\ UnwoundFrom(11) = UnwoundFrom(12) \cup {"device"}
      /\ UnwoundFrom(10) = UnwoundFrom(11) \cup {"regions"}
      /\ UnwoundFrom(9) = UnwoundFrom(10) \cup {"netdev"}
      /\ UnwoundFrom(8) = UnwoundFrom(9) \cup {"mmio"}
      /\ UnwoundFrom(7) = UnwoundFrom(8) \cup {"napi"}
      /\ UnwoundFrom(6) = UnwoundFrom(7) \cup {"rx_ring"}
      /\ UnwoundFrom(5) = UnwoundFrom(6) \cup {"tx_ring"}
      /\ UnwoundFrom(4) = UnwoundFrom(5) \cup {"rx_buffers"}
      /\ UnwoundFrom(2) = UnwoundFrom(3) \cup {"irq"}
  BY <1>3, <1>4, Zenon
<1>7. UnwoundFrom(3) = UnwoundFrom(4) /\ UnwoundFrom(1) = UnwoundFrom(2)
  BY <1>3, <1>4, <1>5
<1> QED BY <1>1, <1>6, <1>7, Zenon

\* What is still held before each release of my_pci_remove().
LEMMA RemovalTable ==
  /\ RemovedFrom(13) = {}
  /\ RemovedFrom(12) = RemovedFrom(13) \cup {"device"}
  /\ RemovedFrom(11) = RemovedFrom(12) \cup {"regions"}
  /\ RemovedFrom(10) = RemovedFrom(11) \cup {"netdev"}
  /\ RemovedFrom(9) = RemovedFrom(10) \cup {"mmio"}
  /\ RemovedFrom(8) = RemovedFrom(9) \cup {"rx_ring", "tx_ring"}
  /\ RemovedFrom(7) = RemovedFrom(8) \cup {"rx_buffers"}
  /\ RemovedFrom(6) = RemovedFrom(7)
  /\ RemovedFrom(5) = RemovedFrom(6) \cup {"napi"}
  /\ RemovedFrom(4) = RemovedFrom(5)
  /\ RemovedFrom(3) = RemovedFrom(4) \cup {"irq"}
  /\ RemovedFrom(2) = RemovedFrom(3)
  /\ RemovedFrom(1) = RemovedFrom(2) \cup {"registered"}
<1>1. RemovedFrom(13) = {}
  BY ListFacts DEF RemovedFrom
<1>2. ASSUME NEW s \in 1 .. 12
      PROVE  RemovedFrom(s)
               = RemovedFrom(s + 1) \cup (Released(Removal[s]) \ ReleaseNothing)
  <2> DEFINE Rel(k) == Released(Removal[k])
             From(t) == UNION {Rel(k) : k \in t .. 12}
  <2>1. s .. 12 = (s + 1 .. 12) \cup {s}
    OBVIOUS
  <2>2. /\ RemovedFrom(s) = From(s) \ ReleaseNothing
        /\ RemovedFrom(s + 1) = From(s + 1) \ ReleaseNothing
    BY ListFacts DEF RemovedFrom
  <2> HIDE DEF Rel
  <2>3. \A x : (\E k \in s .. 12 : x \in Rel(k))
                 <=> (\E k \in s + 1 .. 12 : x \in Rel(k)) \/ x \in Rel(s)
    BY <2>1, Zenon
  <2>4. /\ \A x : x \in From(s) <=> \E k \in s .. 12 : x \in Rel(k)
        /\ \A x : x \in From(s + 1) <=> \E k \in s + 1 .. 12 : x \in Rel(k)
    BY Zenon
  <2> HIDE DEF From
  <2>5. \A x : x \in From(s) <=> x \in From(s + 1) \/ x \in Rel(s)
    BY <2>3, <2>4, Zenon
  <2>6. \A x : x \in RemovedFrom(s)
                 <=> x \in RemovedFrom(s + 1) \cup (Rel(s) \ ReleaseNothing)
    BY <2>2, <2>5
  <2> HIDE DEF RemovedFrom
  <2>7. RemovedFrom(s) = RemovedFrom(s + 1) \cup (Rel(s) \ ReleaseNothing)
    BY <2>6
  <2> QED BY <2>7 DEF Rel
<1>3. /\ RemovedFrom(12)
           = RemovedFrom(13) \cup (Released(Removal[12]) \ ReleaseNothing)
      /\ RemovedFrom(11)
           = RemovedFrom(12) \cup (Released(Removal[11]) \ ReleaseNothing)
      /\ RemovedFrom(10)
           = RemovedFrom(11) \cup (Released(Removal[10]) \ ReleaseNothing)
      /\ RemovedFrom(9)
           = RemovedFrom(10) \cup (Released(Removal[9]) \ ReleaseNothing)
      /\ RemovedFrom(8)
           = RemovedFrom(9) \cup (Released(Removal[8]) \ ReleaseNothing)
      /\ RemovedFrom(7)
           = RemovedFrom(8) \cup (Released(Removal[7]) \ ReleaseNothing)
      /\ RemovedFrom(6)
           = RemovedFrom(7) \cup (Released(Removal[6]) \ ReleaseNothing)
      /\ RemovedFrom(5)
           = RemovedFrom(6) \cup (Released(Removal[5]) \ ReleaseNothing)
      /\ RemovedFrom(4)
           = RemovedFrom(5) \cup (Released(Removal[4]) \ ReleaseNothing)
      /\ RemovedFrom(3)
           = RemovedFrom(4) \cup (Released(Removal[3]) \ ReleaseNothing)
      /\ RemovedFrom(2)
           = RemovedFrom(3) \cup (Released(Removal[2]) \ ReleaseNothing)
      /\ RemovedFrom(1)
           = RemovedFrom(2) \cup (Released(Removal[1]) \ ReleaseNothing)
  BY <1>2
<1>4. /\ Released(Removal[12]) \ ReleaseNothing = {"device"}
      /\ Released(Removal[11]) \ ReleaseNothing = {"regions"}
      /\ Released(Removal[10]) \ ReleaseNothing = {"netdev"}
      /\ Released(Removal[9]) \ ReleaseNothing = {"mmio"}
      /\ Released(Removal[8]) \ ReleaseNothing = {"rx_ring", "tx_ring"}
      /\ Released(Removal[7]) \ ReleaseNothing = {"rx_buffers"}
      /\ Released(Removal[6]) \ ReleaseNothing = {}
      /\ Released(Removal[5]) \ ReleaseNothing = {"napi"}
      /\ Released(Removal[4]) \ ReleaseNothing = {}
      /\ Released(Removal[3]) \ ReleaseNothing = {"irq"}
      /\ Released(Removal[2]) \ ReleaseNothing = {}
      /\ Released(Removal[1]) \ ReleaseNothing = {"registered"}
  BY DEF Removal, ReleaseNothing, Released
<1>5. \A X : X \cup {} = X
  OBVIOUS
<1> HIDE DEF RemovedFrom
<1> QED BY <1>1, <1>3, <1>4, <1>5

\* A call that succeeds adds what it acquired; the last one completes the set.
LEMMA AcquireStep ==
  /\ \A s \in 1 .. 11 :
       AcquiredBefore(s + 1) = IF Acquire[s] \in NotHeld THEN AcquiredBefore(s)
                               ELSE AcquiredBefore(s) \cup {Acquire[s]}
  /\ AcquiredBefore(12) \cup {"registered"} = Everything
  /\ \A s \in 1 .. 12 : AcquiredBefore(s) \subseteq Everything
  /\ \A s \in 1 .. 12 : "irq" \in AcquiredBefore(s) <=> s > 10
  /\ \A s \in 1 .. 12 :
       /\ Acquire[s] = "netdev" <=> s = 4
       /\ Acquire[s] = "napi" <=> s = 6
       /\ Acquire[s] = "rx_ring" <=> s = 7
       /\ Acquire[s] = "tx_ring" <=> s = 8
       /\ Acquire[s] = "hw_init" <=> s = 11
       /\ Acquire[s] = "registered" <=> s = 12
<1>1. \A s \in 1 .. 12 : s = 1 \/ s = 2 \/ s = 3 \/ s = 4 \/ s = 5 \/ s = 6 \/ s = 7
        \/ s = 8 \/ s = 9 \/ s = 10 \/ s = 11 \/ s = 12
  OBVIOUS
<1> QED BY <1>1, AcquiredTable, ListFacts DEF Acquire, NotHeld

\* A call that fails jumps to the label from which exactly what was acquired is
\* released.
LEMMA FailStep ==
  \A s \in 1 .. 12 : Acquire[s] \notin CannotFail =>
    /\ ErrLabel(Acquire[s]) \in 1 .. 12
    /\ AcquiredBefore(s) = UnwoundFrom(ErrLabel(Acquire[s]))
    /\ ErrLabel(Acquire[s]) < 4 => s = 12
    /\ s = 12 => ErrLabel(Acquire[s]) = 1
<1>1. \A s \in 1 .. 12 : s = 1 \/ s = 2 \/ s = 3 \/ s = 4 \/ s = 5 \/ s = 6 \/ s = 7
        \/ s = 8 \/ s = 9 \/ s = 10 \/ s = 11 \/ s = 12
  OBVIOUS
<1>2. /\ ErrLabel("device") = 12
      /\ ErrLabel("regions") = 11
      /\ ErrLabel("dma_mask") = 10
      /\ ErrLabel("netdev") = 10
      /\ ErrLabel("mmio") = 9
      /\ ErrLabel("rx_ring") = 7
      /\ ErrLabel("tx_ring") = 6
      /\ ErrLabel("rx_buffers") = 5
      /\ ErrLabel("irq") = 4
      /\ ErrLabel("registered") = 1
  BY DEF ErrLabel
<1>3. /\ Acquire[1] = "device"
      /\ Acquire[2] = "regions"
      /\ Acquire[3] = "dma_mask"
      /\ Acquire[4] = "netdev"
      /\ Acquire[5] = "mmio"
      /\ Acquire[6] = "napi"
      /\ Acquire[7] = "rx_ring"
      /\ Acquire[8] = "tx_ring"
      /\ Acquire[9] = "rx_buffers"
      /\ Acquire[10] = "irq"
      /\ Acquire[11] = "hw_init"
      /\ Acquire[12] = "registered"
      /\ Acquire[6] \in CannotFail /\ Acquire[11] \in CannotFail
  BY DEF Acquire, CannotFail
<1>4. AcquiredBefore(1) = UnwoundFrom(12)
  BY AcquiredTable, UnwindTable
<1>5. AcquiredBefore(2) = UnwoundFrom(11)
  BY <1>4, AcquiredTable, UnwindTable
<1>6. AcquiredBefore(3) = UnwoundFrom(10)
  BY <1>5, AcquiredTable, UnwindTable
<1>7. AcquiredBefore(4) = UnwoundFrom(10)
  BY <1>6, AcquiredTable, UnwindTable
<1>8. AcquiredBefore(5) = UnwoundFrom(9)
  BY <1>7, AcquiredTable, UnwindTable
<1>9. AcquiredBefore(6) = UnwoundFrom(8)
  BY <1>8, AcquiredTable, UnwindTable
<1>10. AcquiredBefore(7) = UnwoundFrom(7)
  BY <1>9, AcquiredTable, UnwindTable
<1>11. AcquiredBefore(8) = UnwoundFrom(6)
  BY <1>10, AcquiredTable, UnwindTable
<1>12. AcquiredBefore(9) = UnwoundFrom(5)
  BY <1>11, AcquiredTable, UnwindTable
<1>13. AcquiredBefore(10) = UnwoundFrom(4)
  BY <1>12, AcquiredTable, UnwindTable
<1>14. AcquiredBefore(11) = UnwoundFrom(2)
  BY <1>13, AcquiredTable, UnwindTable
<1>15. AcquiredBefore(12) = UnwoundFrom(1)
  BY <1>14, AcquiredTable, UnwindTable
<1> QED
  <2> SUFFICES ASSUME NEW s \in 1 .. 12, Acquire[s] \notin CannotFail
               PROVE  /\ ErrLabel(Acquire[s]) \in 1 .. 12
                      /\ AcquiredBefore(s) = UnwoundFrom(ErrLabel(Acquire[s]))
                      /\ ErrLabel(Acquire[s]) < 4 => s = 12
                      /\ s = 12 => ErrLabel(Acquire[s]) = 1
    OBVIOUS
  <2> HIDE DEF ErrLabel
  <2>1. CASE s = 1
    <3>1. ErrLabel(Acquire[s]) = 12
      BY <2>1, <1>2, <1>3
    <3> QED BY <2>1, <3>1, <1>4
  <2>2. CASE s = 2
    <3>1. ErrLabel(Acquire[s]) = 11
      BY <2>2, <1>2, <1>3
    <3> QED BY <2>2, <3>1, <1>5
  <2>3. CASE s = 3
    <3>1. ErrLabel(Acquire[s]) = 10
      BY <2>3, <1>2, <1>3
    <3> QED BY <2>3, <3>1, <1>6
  <2>4. CASE s = 4
    <3>1. ErrLabel(Acquire[s]) = 10
      BY <2>4, <1>2, <1>3
    <3> QED BY <2>4, <3>1, <1>7
  <2>5. CASE s = 5
    <3>1. ErrLabel(Acquire[s]) = 9
      BY <2>5, <1>2, <1>3
    <3> QED BY <2>5, <3>1, <1>8
  <2>6. CASE s = 6
    BY <2>6, <1>3
  <2>7. CASE s = 7
    <3>1. ErrLabel(Acquire[s]) = 7
      BY <2>7, <1>2, <1>3
    <3> QED BY <2>7, <3>1, <1>10
  <2>8. CASE s = 8
    <3>1. ErrLabel(Acquire[s]) = 6
      BY <2>8, <1>2, <1>3
    <3> QED BY <2>8, <3>1, <1>11
  <2>9. CASE s = 9
    <3>1. ErrLabel(Acquire[s]) = 5
      BY <2>9, <1>2, <1>3
    <3> QED BY <2>9, <3>1, <1>12
  <2>10. CASE s = 10
    <3>1. ErrLabel(Acquire[s]) = 4
      BY <2>10, <1>2, <1>3
    <3> QED BY <2>10, <3>1, <1>13
  <2>11. CASE s = 11
    BY <2>11, <1>3
  <2>12. CASE s = 12
    <3>1. ErrLabel(Acquire[s]) = 1
      BY <2>12, <1>2, <1>3
    <3> QED BY <2>12, <3>1, <1>15
  <2> QED
    BY <1>1, <2>1, <2>2, <2>3, <2>4, <2>5, <2>6, <2>7, <2>8, <2>9, <2>10, <2>11,
       <2>12

\* One label releases at most one thing, and that one is held.
LEMMA UnwindStep ==
  \A s \in 1 .. 11 :
    /\ Unwind[s] \in ReleaseNothing \/ Unwind[s] \in UnwoundFrom(s)
    /\ UnwoundFrom(s + 1) = UnwoundFrom(s) \ {Unwind[s]}
    /\ UnwoundFrom(s) \subseteq Everything
    /\ "irq" \in UnwoundFrom(s) <=> s < 3
    /\ s < 4 => {"netdev", "mmio", "napi", "rx_ring", "tx_ring"} \subseteq UnwoundFrom(s)
    /\ Unwind[s] = "mask" <=> s = 1
    /\ Unwind[s] = "sync_irq" <=> s = 3
    /\ Unwind[s] = "rx_buffers" <=> s = 4
    /\ Unwind[s] \notin {"rings", "registered", "pending_tx"}
<1>1. \A s \in 1 .. 11 : s = 1 \/ s = 2 \/ s = 3 \/ s = 4 \/ s = 5 \/ s = 6 \/ s = 7
        \/ s = 8 \/ s = 9 \/ s = 10 \/ s = 11
  OBVIOUS
<1> QED BY <1>1, UnwindTable, ListFacts DEF Unwind, ReleaseNothing

\* One call of my_pci_remove() releases what is held, and the memory goes after the
\* handler that uses it.
LEMMA RemovalStep ==
  \A s \in 1 .. 12 :
    /\ Removal[s] \in ReleaseNothing \/ Released(Removal[s]) \subseteq RemovedFrom(s)
    /\ RemovedFrom(s + 1) = RemovedFrom(s) \ Released(Removal[s])
    /\ RemovedFrom(s) \subseteq Everything
    /\ "irq" \in RemovedFrom(s) <=> s < 4
    /\ s < 5 => {"netdev", "mmio", "napi", "rx_ring", "tx_ring"} \subseteq RemovedFrom(s)
    /\ Removal[s] = "registered" <=> s = 1
    /\ Removal[s] = "mask" <=> s = 2
    /\ Removal[s] = "sync_irq" <=> s = 4
    /\ Removal[s] = "pending_tx" <=> s = 6
    /\ Removal[s] = "rx_buffers" <=> s = 7
    /\ Removal[s] = "rings" <=> s = 8
<1>1. \A s \in 1 .. 12 : s = 1 \/ s = 2 \/ s = 3 \/ s = 4 \/ s = 5 \/ s = 6 \/ s = 7
        \/ s = 8 \/ s = 9 \/ s = 10 \/ s = 11 \/ s = 12
  OBVIOUS
<1> QED BY <1>1, RemovalTable, ListFacts DEF Removal, ReleaseNothing, Released

\* The ends of the three lists, and their lengths.
LEMMA FirstAndLast ==
  /\ AcquiredBefore(1) = {} /\ UnwoundFrom(12) = {} /\ RemovedFrom(13) = {}
  /\ RemovedFrom(1) = Everything
  /\ Len(Acquire) = 12 /\ Len(Unwind) = 11 /\ Len(Removal) = 12
BY AcquiredTable, UnwindTable, RemovalTable, ListFacts
-----------------------------------------------------------------------------
(* The descriptor rings.                                                   *)

\* Indices stay in their ring; a remainder of a sum or a difference of two of
\* them is that sum or difference, or one turn less or more.
LEMMA SlotFacts ==
  /\ 0 \in TxSlot /\ 0 \in RxSlot
  /\ \A s \in TxSlot : TxSucc(s) = IF s = TX_RING_SIZE - 1 THEN 0 ELSE s + 1
  /\ \A s \in TxSlot : TxSucc(s) \in TxSlot
  /\ \A s \in RxSlot : RxSucc(s) \in RxSlot
  /\ \A a, b \in TxSlot : (b - a) % TX_RING_SIZE = TxDist(a, b)
<1> USE SizeAssumption
<1>1. ASSUME NEW N \in Nat, N > 0, NEW x \in Int, -N < x, x <= N
      PROVE  x % N = IF x < 0 THEN x + N ELSE IF x = N THEN 0 ELSE x
  <2>1. CASE x < 0
    BY <1>1, <2>1
  <2>2. CASE x = N
    BY <1>1, <2>2
  <2>3. CASE x \in 0 .. N - 1
    BY <1>1, <2>3
  <2> QED BY <1>1, <2>1, <2>2, <2>3
<1>2. \A s \in TxSlot : TxSucc(s) = IF s = TX_RING_SIZE - 1 THEN 0 ELSE s + 1
  BY <1>1 DEF TxSlot, TxSucc
<1>3. \A s \in RxSlot : RxSucc(s) = IF s = RX_RING_SIZE - 1 THEN 0 ELSE s + 1
  BY <1>1 DEF RxSlot, RxSucc
<1>4. ASSUME NEW a \in TxSlot, NEW b \in TxSlot
      PROVE  (b - a) % TX_RING_SIZE = TxDist(a, b)
  <2>1. b - a \in Int /\ -TX_RING_SIZE < b - a /\ b - a <= TX_RING_SIZE
        /\ b - a # TX_RING_SIZE
    BY DEF TxSlot
  <2>2. (b - a) % TX_RING_SIZE = IF b - a < 0 THEN b - a + TX_RING_SIZE ELSE b - a
    BY <1>1, <2>1
  <2> QED BY <2>2 DEF TxDist, TxSlot
<1>5. 0 \in TxSlot /\ 0 \in RxSlot
  BY DEF TxSlot, RxSlot
<1>6. (\A s \in TxSlot : TxSucc(s) \in TxSlot) /\ (\A s \in RxSlot : RxSucc(s) \in RxSlot)
  BY <1>2, <1>3 DEF TxSlot, RxSlot
<1> QED BY <1>2, <1>4, <1>5, <1>6

\* Distances along the transmit ring: they tell slots apart and add up, and one
\* step changes them by one.
LEMMA DistanceFacts ==
  /\ \A a, b \in TxSlot : TxDist(a, b) \in 0 .. TX_RING_SIZE - 1
  /\ \A a, b \in TxSlot : TxDist(a, b) = 0 <=> a = b
  /\ \A a, b, s \in TxSlot : TxDist(a, b) = TxDist(a, s) <=> b = s
  /\ \A a, b, s \in TxSlot :
       TxDist(a, b) <= TxDist(a, s) => TxDist(b, s) = TxDist(a, s) - TxDist(a, b)
  /\ \A a, b, s \in TxSlot :
       TxDist(a, s) < TxDist(a, b)
         => TxDist(b, s) = TxDist(a, s) - TxDist(a, b) + TX_RING_SIZE
  /\ \A a, b \in TxSlot :
       TxSucc(b) # a => TxDist(a, TxSucc(b)) = TxDist(a, b) + 1
  /\ \A a, b \in TxSlot : a # b => TxDist(TxSucc(a), b) = TxDist(a, b) - 1
  /\ \A a \in TxSlot : TxDist(TxSucc(a), a) = TX_RING_SIZE - 1
<1>1. \A s \in TxSlot : TxSucc(s) = IF s = TX_RING_SIZE - 1 THEN 0 ELSE s + 1
  BY SlotFacts
<1>2. \A s \in TxSlot : TxSucc(s) \in TxSlot
  BY SlotFacts
<1>3. /\ \A a, b \in TxSlot : TxDist(a, b) \in 0 .. TX_RING_SIZE - 1
      /\ \A a, b \in TxSlot : TxDist(a, b) = 0 <=> a = b
      /\ \A a, b, s \in TxSlot : TxDist(a, b) = TxDist(a, s) <=> b = s
  BY SizeAssumption DEF TxDist, TxSlot
<1>4. \A a, b, s \in TxSlot :
        TxDist(a, b) <= TxDist(a, s) => TxDist(b, s) = TxDist(a, s) - TxDist(a, b)
  BY SizeAssumption DEF TxDist, TxSlot
<1>5. \A a, b, s \in TxSlot :
        TxDist(a, s) < TxDist(a, b)
          => TxDist(b, s) = TxDist(a, s) - TxDist(a, b) + TX_RING_SIZE
  BY SizeAssumption DEF TxDist, TxSlot
<1>6. \A a, b \in TxSlot :
        TxSucc(b) # a => TxDist(a, TxSucc(b)) = TxDist(a, b) + 1
  BY <1>1, SizeAssumption DEF TxDist, TxSlot
<1>7. /\ \A a, b \in TxSlot : a # b => TxDist(TxSucc(a), b) = TxDist(a, b) - 1
      /\ \A a \in TxSlot : TxDist(TxSucc(a), a) = TX_RING_SIZE - 1
  BY <1>1, SizeAssumption DEF TxDist, TxSlot
<1> QED BY <1>3, <1>4, <1>5, <1>6, <1>7

\* Every operation on the NAPI word leaves a NAPI word.
LEMMA NapiTypes ==
  /\ {"SCHED"} \subseteq NapiFlags
  /\ \A n \in SUBSET NapiFlags :
       /\ AfterSchedulePrep(n) \in SUBSET NapiFlags
       /\ AfterCompleteDone(n) \in SUBSET NapiFlags
       /\ NapiDisableBegin(n) \in SUBSET NapiFlags
       /\ NapiDisableEnd(n) \in SUBSET NapiFlags
       /\ AfterEnable(n) \in SUBSET NapiFlags
BY DEF NapiFlags, AfterSchedulePrep, AfterCompleteDone, NapiDisableBegin,
       NapiDisableEnd, AfterEnable

-----------------------------------------------------------------------------
(* The invariant.                                                          *)

\* Every step of the RTNL thread, the transmitter, the NIC, the handler and the
\* poll keeps the inductive invariant.
LEMMA InvStep == IInv /\ [Next]_vars => IInv'
<1> SUFFICES ASSUME IInv, [Next]_vars PROVE IInv'
  OBVIOUS
<1>1. CASE probe_call
  <2>1. HeldExactly'
    BY <1>1, FirstAndLast
    DEF IInv, TypeOK, HeldExactly, Registered, Enabled, probe_call,
        tx_vars, rx_vars, dev_vars, irq_vars, poll_vars
  <2>2. TypeOK'
    BY <1>1, <2>1, FirstAndLast, SlotFacts
    DEF IInv, TypeOK, HeldExactly, probe_call, tx_vars, rx_vars, dev_vars,
        irq_vars, poll_vars
  <2>3. Contexts'
    BY <1>1, FirstAndLast
    DEF IInv, TypeOK, HeldExactly, Contexts, NapiOwner, Registered,
        Enabled, probe_call, tx_vars, rx_vars, dev_vars, irq_vars,
        poll_vars
  <2>4. NapiOwner'
    BY <1>1, FirstAndLast
    DEF IInv, TypeOK, HeldExactly, Contexts, NapiOwner, Enabled,
        probe_call, tx_vars, rx_vars, dev_vars, irq_vars, poll_vars
  <2>5. TxRing'
    BY <1>1, FirstAndLast
    DEF IInv, TypeOK, HeldExactly, Contexts, TxRing, TxD, Registered,
        Enabled, probe_call, tx_vars, rx_vars, dev_vars, irq_vars,
        poll_vars
  <2>6. MaskOwner'
    BY <1>1
    DEF IInv, TypeOK, HeldExactly, MaskOwner, probe_call, tx_vars,
        rx_vars, dev_vars, irq_vars, poll_vars
  <2>7. FrameOwner'
    BY <1>1, FirstAndLast
    DEF IInv, TypeOK, HeldExactly, NapiOwner, FrameOwner, Enabled,
        AckWindow, probe_call, tx_vars, rx_vars, dev_vars, irq_vars,
        poll_vars
  <2> QED BY <2>1, <2>2, <2>3, <2>4, <2>5, <2>6, <2>7 DEF IInv
<1>2. CASE remove_call
  <2>1. HeldExactly'
    BY <1>2, FirstAndLast
    DEF IInv, TypeOK, HeldExactly, Registered, Enabled, remove_call,
        tx_vars, rx_vars, dev_vars, irq_vars, poll_vars
  <2>2. TypeOK'
    BY <1>2, <2>1, FirstAndLast, SlotFacts
    DEF IInv, TypeOK, HeldExactly, remove_call, tx_vars, rx_vars,
        dev_vars, irq_vars, poll_vars
  <2>3. Contexts'
    BY <1>2, FirstAndLast
    DEF IInv, TypeOK, HeldExactly, Contexts, NapiOwner, Registered,
        Enabled, remove_call, tx_vars, rx_vars, dev_vars, irq_vars,
        poll_vars
  <2>4. NapiOwner'
    BY <1>2, FirstAndLast
    DEF IInv, TypeOK, HeldExactly, Contexts, NapiOwner, Enabled,
        remove_call, tx_vars, rx_vars, dev_vars, irq_vars, poll_vars
  <2>5. TxRing'
    BY <1>2, FirstAndLast
    DEF IInv, TypeOK, HeldExactly, Contexts, TxRing, TxD, Registered,
        Enabled, remove_call, tx_vars, rx_vars, dev_vars, irq_vars,
        poll_vars
  <2>6. MaskOwner'
    BY <1>2
    DEF IInv, TypeOK, HeldExactly, MaskOwner, remove_call, tx_vars,
        rx_vars, dev_vars, irq_vars, poll_vars
  <2>7. FrameOwner'
    BY <1>2, FirstAndLast
    DEF IInv, TypeOK, HeldExactly, NapiOwner, FrameOwner, Enabled,
        AckWindow, remove_call, tx_vars, rx_vars, dev_vars, irq_vars,
        poll_vars
  <2> QED BY <2>1, <2>2, <2>3, <2>4, <2>5, <2>6, <2>7 DEF IInv
<1>3. CASE probe_acquire
  <2>1. HeldExactly'
    <3>1. op = "probe" /\ step \in 1 .. 12 /\ held = AcquiredBefore(step)
      BY <1>3, FirstAndLast DEF IInv, HeldExactly, probe_acquire
    <3>2. CASE step = 12
      <4>1. op' = "down" /\ held' = held \cup {"registered"}
        BY <1>3, <3>2, AcquireStep DEF probe_acquire, NotHeld
      <4>2. held' = Everything
        BY <3>1, <3>2, <4>1, AcquireStep
      <4> QED BY <4>1, <4>2 DEF HeldExactly
    <3>3. CASE step # 12
      <4>1. step \in 1 .. 11 /\ Acquire[step] # "registered"
        BY <3>1, <3>3, AcquireStep
      <4>2. /\ op' = "probe" /\ step' = step + 1
            /\ held' = IF Acquire[step] \in NotHeld THEN held
                       ELSE held \cup {Acquire[step]}
        BY <1>3, <4>1 DEF probe_acquire
      <4>3. held' = AcquiredBefore(step + 1)
        BY <3>1, <4>1, <4>2, AcquireStep
      <4> QED BY <4>1, <4>2, <4>3, FirstAndLast
              DEF HeldExactly, Registered, Enabled
    <3> QED BY <3>2, <3>3
  <2>2. TypeOK'
    <3>1. /\ op = "probe" /\ step \in 1 .. 12 /\ held = AcquiredBefore(step)
          /\ step # 12 => Acquire[step] # "registered"
      BY <1>3, FirstAndLast, AcquireStep DEF IInv, HeldExactly, probe_acquire
    <3>2. /\ op' \in {"down", "probe"} /\ step' \in 0 .. 13
          /\ step' # 13
      BY <1>3, <3>1, AcquireStep DEF probe_acquire
    <3>3. held' \subseteq {Acquire[k] : k \in 1 .. Len(Acquire)}
      <4>1. held' = held \/ held' = held \cup {Acquire[step]}
        BY <1>3 DEF probe_acquire
      <4> QED BY <3>1, <4>1, FirstAndLast DEF IInv, TypeOK
    <3>4. tx_head' \in TxSlot /\ tx_clean' \in TxSlot /\ tx' \in [TxSlot -> {"free", "hw", "done"}]
          /\ stopped' \in BOOLEAN /\ xpc' = xpc
      BY <1>3, SlotFacts
      DEF IInv, TypeOK, probe_acquire, my_alloc_tx_desc_ring, tx_vars
    <3>5. rx_head' \in RxSlot /\ rx_done' \subseteq RxSlot
      BY <1>3, SlotFacts
      DEF IInv, TypeOK, probe_acquire, my_alloc_rx_desc_ring, rx_vars
    <3>6. /\ TX_TAIL' \in TxSlot /\ dev_tx' \in TxSlot /\ dma' \in {"off", "on"}
          /\ dev_rx' \in RxSlot /\ IRQ_MASK' \subseteq Causes
      BY <1>3, SlotFacts
      DEF IInv, TypeOK, probe_acquire, my_hw_init, dev_vars
    <3>7. napi' \subseteq NapiFlags /\ blind' \in BOOLEAN
      BY <1>3, NapiTypes DEF IInv, TypeOK, probe_acquire
    <3> QED BY <1>3, <3>2, <3>3, <3>4, <3>5, <3>6, <3>7, FirstAndLast
            DEF IInv, TypeOK, probe_acquire
  <2>3. Contexts'
    BY <1>3, FirstAndLast, AcquireStep
    DEF IInv, TypeOK, HeldExactly, Contexts, NapiOwner, Registered,
        Enabled, probe_acquire, my_alloc_rx_desc_ring,
        my_alloc_tx_desc_ring, my_hw_init, tx_vars, rx_vars, dev_vars,
        irq_vars, poll_vars
  <2>4. NapiOwner'
    BY <1>3, FirstAndLast, AcquireStep
    DEF IInv, TypeOK, HeldExactly, Contexts, NapiOwner, Enabled,
        probe_acquire, my_alloc_rx_desc_ring, my_alloc_tx_desc_ring,
        my_hw_init, tx_vars, rx_vars, dev_vars, irq_vars, poll_vars
  <2>5. TxRing'
    <3>1. /\ op = "probe" /\ step \in 1 .. 12 /\ xpc = "idle"
          /\ tx = [s \in TxSlot |-> "free"]
          /\ step \in 9 .. 11 => tx_head = 0 /\ tx_clean = 0
      BY <1>3, FirstAndLast
      DEF IInv, HeldExactly, Contexts, TxRing, TypeOK, probe_acquire
    <3>2. CASE step = 12
      <4>1. op' = "down" /\ UNCHANGED <<tx_vars, dev_vars>> /\ dma = "on"
        BY <1>3, <3>1, <3>2, AcquireStep
        DEF IInv, Contexts, probe_acquire, my_alloc_tx_desc_ring, my_hw_init
      <4> QED BY <4>1 DEF IInv, TxRing, TxD, tx_vars, dev_vars
    <3>3. CASE step = 11
      <4>1. /\ op' = "probe" /\ step' = 12 /\ UNCHANGED tx_vars
            /\ TX_TAIL' = tx_head /\ dev_tx' = 0
        BY <1>3, <3>1, <3>3, AcquireStep
        DEF probe_acquire, my_alloc_tx_desc_ring, my_hw_init
      <4>2. TxDist(0, 0) = 0 /\ \A s \in TxSlot : TxDist(0, s) \in Nat
        BY SlotFacts, DistanceFacts
      <4> QED BY <3>1, <3>3, <4>1, <4>2 DEF TxRing, TxD, tx_vars
    <3>4. CASE step \in 9 .. 10
      <4>1. /\ op' = "probe" /\ step' = step + 1 /\ UNCHANGED <<tx_vars, dev_vars>>
        BY <1>3, <3>1, <3>4, AcquireStep
        DEF probe_acquire, my_alloc_tx_desc_ring, my_hw_init
      <4> QED BY <3>1, <3>4, <4>1 DEF IInv, Contexts, TxRing, TxD, tx_vars, dev_vars
    <3>5. CASE step = 8
      <4>1. /\ op' = "probe" /\ step' = 9 /\ UNCHANGED dev_vars
            /\ tx_head' = 0 /\ tx_clean' = 0 /\ tx' = [s \in TxSlot |-> "free"]
        BY <1>3, <3>1, <3>5, AcquireStep
        DEF probe_acquire, my_alloc_tx_desc_ring, my_hw_init
      <4>2. dma # "on"
        BY <3>1, <3>5 DEF IInv, Contexts, Registered, Enabled
      <4> QED BY <3>1, <3>5, <4>1, <4>2 DEF TxRing, TxD, dev_vars
    <3>6. CASE step \in 1 .. 7
      <4>1. /\ op' = "probe" /\ step' = step + 1 /\ UNCHANGED dev_vars
            /\ UNCHANGED tx
        BY <1>3, <3>1, <3>6, AcquireStep
        DEF probe_acquire, my_alloc_tx_desc_ring, my_hw_init, tx_vars
      <4>2. dma # "on"
        BY <3>1, <3>6 DEF IInv, Contexts, Registered, Enabled
      <4> QED BY <3>1, <3>6, <4>1, <4>2 DEF TxRing, TxD, dev_vars
    <3> QED BY <3>1, <3>2, <3>3, <3>4, <3>5, <3>6
  <2>6. MaskOwner'
    BY <1>3
    DEF IInv, TypeOK, HeldExactly, MaskOwner, probe_acquire,
        my_alloc_rx_desc_ring, my_alloc_tx_desc_ring, my_hw_init, tx_vars,
        rx_vars, dev_vars, irq_vars, poll_vars
  <2>7. FrameOwner'
    BY <1>3, FirstAndLast, AcquireStep
    DEF IInv, TypeOK, HeldExactly, NapiOwner, FrameOwner, Enabled,
        AckWindow, probe_acquire, my_alloc_rx_desc_ring,
        my_alloc_tx_desc_ring, my_hw_init, tx_vars, rx_vars, dev_vars,
        irq_vars, poll_vars
  <2> QED BY <2>1, <2>2, <2>3, <2>4, <2>5, <2>6, <2>7 DEF IInv
<1>4. CASE probe_fail
  <2>1. HeldExactly'
    BY <1>4, FirstAndLast, FailStep
    DEF IInv, TypeOK, HeldExactly, Registered, Enabled, probe_fail,
        tx_vars, rx_vars, dev_vars, irq_vars, poll_vars
  <2>2. TypeOK'
    BY <1>4, <2>1, FirstAndLast, FailStep, SlotFacts
    DEF IInv, TypeOK, HeldExactly, probe_fail, tx_vars, rx_vars, dev_vars,
        irq_vars, poll_vars
  <2>3. Contexts'
    <3>1. op = "probe" /\ step \in 1 .. 12 /\ op' = "unwind" /\ UNCHANGED <<hpc, dma>>
          /\ completing' = completing /\ xpc' = xpc
      BY <1>4, FirstAndLast
      DEF IInv, HeldExactly, probe_fail, tx_vars, dev_vars, irq_vars, poll_vars
    <3>2. hpc # "idle" \/ dma = "on" => step = 12
      BY <1>4, <3>1, AcquireStep
      DEF IInv, Contexts, Registered, Enabled, probe_fail, CannotFail
    <3>3. step = 12 => step' = 1
      BY <1>4, <3>1, FailStep DEF probe_fail
    <3> QED BY <3>1, <3>2, <3>3 DEF IInv, Contexts, Registered, Enabled
  <2>4. NapiOwner'
    BY <1>4, FirstAndLast, FailStep
    DEF IInv, TypeOK, HeldExactly, Contexts, NapiOwner, Enabled,
        probe_fail, tx_vars, rx_vars, dev_vars, irq_vars, poll_vars
  <2>5. TxRing'
    BY <1>4, FirstAndLast, FailStep
    DEF IInv, TypeOK, HeldExactly, Contexts, TxRing, TxD, Registered,
        Enabled, probe_fail, tx_vars, rx_vars, dev_vars, irq_vars,
        poll_vars
  <2>6. MaskOwner'
    BY <1>4
    DEF IInv, TypeOK, HeldExactly, MaskOwner, probe_fail, tx_vars,
        rx_vars, dev_vars, irq_vars, poll_vars
  <2>7. FrameOwner'
    BY <1>4, FirstAndLast, FailStep
    DEF IInv, TypeOK, HeldExactly, NapiOwner, FrameOwner, Enabled,
        AckWindow, probe_fail, tx_vars, rx_vars, dev_vars, irq_vars,
        poll_vars
  <2> QED BY <2>1, <2>2, <2>3, <2>4, <2>5, <2>6, <2>7 DEF IInv
<1>5. CASE probe_unwind
  <2>1. HeldExactly'
    BY <1>5, FirstAndLast, UnwindStep
    DEF IInv, TypeOK, HeldExactly, Registered, Enabled, probe_unwind,
        Release, ReleaseWaits, tx_vars, rx_vars, dev_vars, irq_vars,
        poll_vars
  <2>2. TypeOK'
    BY <1>5, <2>1, FirstAndLast, UnwindStep, SlotFacts
    DEF IInv, TypeOK, HeldExactly, probe_unwind, Release, ReleaseWaits,
        tx_vars, rx_vars, dev_vars, irq_vars, poll_vars
  <2>3. Contexts'
    BY <1>5, FirstAndLast, UnwindStep
    DEF IInv, TypeOK, HeldExactly, Contexts, NapiOwner, Registered,
        Enabled, probe_unwind, Release, ReleaseWaits, tx_vars, rx_vars,
        dev_vars, irq_vars, poll_vars
  <2>4. NapiOwner'
    BY <1>5, FirstAndLast, UnwindStep
    DEF IInv, TypeOK, HeldExactly, Contexts, NapiOwner, Enabled,
        probe_unwind, Release, ReleaseWaits, tx_vars, rx_vars, dev_vars,
        irq_vars, poll_vars
  <2>5. TxRing'
    BY <1>5, FirstAndLast, UnwindStep
    DEF IInv, TypeOK, HeldExactly, Contexts, TxRing, TxD, Registered,
        Enabled, probe_unwind, Release, ReleaseWaits, tx_vars, rx_vars,
        dev_vars, irq_vars, poll_vars
  <2>6. MaskOwner'
    BY <1>5
    DEF IInv, TypeOK, HeldExactly, MaskOwner, probe_unwind, Release,
        ReleaseWaits, tx_vars, rx_vars, dev_vars, irq_vars, poll_vars
  <2>7. FrameOwner'
    BY <1>5, FirstAndLast, UnwindStep
    DEF IInv, TypeOK, HeldExactly, NapiOwner, FrameOwner, Enabled,
        AckWindow, probe_unwind, Release, ReleaseWaits, tx_vars, rx_vars,
        dev_vars, irq_vars, poll_vars
  <2> QED BY <2>1, <2>2, <2>3, <2>4, <2>5, <2>6, <2>7 DEF IInv
<1>6. CASE probe_return
  <2>1. HeldExactly'
    BY <1>6, FirstAndLast, UnwindStep
    DEF IInv, TypeOK, HeldExactly, Registered, Enabled, probe_return,
        tx_vars, rx_vars, dev_vars, irq_vars, poll_vars
  <2>2. TypeOK'
    BY <1>6, <2>1, FirstAndLast, UnwindStep, SlotFacts
    DEF IInv, TypeOK, HeldExactly, probe_return, tx_vars, rx_vars,
        dev_vars, irq_vars, poll_vars
  <2>3. Contexts'
    BY <1>6, FirstAndLast, UnwindStep
    DEF IInv, TypeOK, HeldExactly, Contexts, NapiOwner, Registered,
        Enabled, probe_return, tx_vars, rx_vars, dev_vars, irq_vars,
        poll_vars
  <2>4. NapiOwner'
    BY <1>6, FirstAndLast, UnwindStep
    DEF IInv, TypeOK, HeldExactly, Contexts, NapiOwner, Enabled,
        probe_return, tx_vars, rx_vars, dev_vars, irq_vars, poll_vars
  <2>5. TxRing'
    BY <1>6, FirstAndLast, UnwindStep
    DEF IInv, TypeOK, HeldExactly, Contexts, TxRing, TxD, Registered,
        Enabled, probe_return, tx_vars, rx_vars, dev_vars, irq_vars,
        poll_vars
  <2>6. MaskOwner'
    BY <1>6
    DEF IInv, TypeOK, HeldExactly, MaskOwner, probe_return, tx_vars,
        rx_vars, dev_vars, irq_vars, poll_vars
  <2>7. FrameOwner'
    BY <1>6, FirstAndLast, UnwindStep
    DEF IInv, TypeOK, HeldExactly, NapiOwner, FrameOwner, Enabled,
        AckWindow, probe_return, tx_vars, rx_vars, dev_vars, irq_vars,
        poll_vars
  <2> QED BY <2>1, <2>2, <2>3, <2>4, <2>5, <2>6, <2>7 DEF IInv
<1>7. CASE remove_release
  <2>1. HeldExactly'
    <3>1. op = "remove" /\ step \in 1 .. 12 /\ held = RemovedFrom(step)
      BY <1>7, FirstAndLast DEF IInv, HeldExactly, remove_release
    <3>2. op' = "remove" /\ step' = step + 1 /\ held' = held \ Released(Removal[step])
      BY <1>7, <3>1 DEF remove_release, Release, Released
    <3>3. held' = RemovedFrom(step + 1)
      BY <3>1, <3>2, RemovalStep
    <3> QED BY <3>1, <3>2, <3>3, FirstAndLast DEF HeldExactly, Registered, Enabled
  <2>2. TypeOK'
    BY <1>7, <2>1, FirstAndLast, RemovalStep, SlotFacts
    DEF IInv, TypeOK, HeldExactly, remove_release, Release, ReleaseWaits,
        tx_vars, rx_vars, dev_vars, irq_vars, poll_vars
  <2>3. Contexts'
    BY <1>7, FirstAndLast, RemovalStep
    DEF IInv, TypeOK, HeldExactly, Contexts, NapiOwner, Registered,
        Enabled, remove_release, Release, ReleaseWaits, tx_vars, rx_vars,
        dev_vars, irq_vars, poll_vars
  <2>4. NapiOwner'
    BY <1>7, FirstAndLast, RemovalStep
    DEF IInv, TypeOK, HeldExactly, Contexts, NapiOwner, Enabled,
        remove_release, Release, ReleaseWaits, tx_vars, rx_vars, dev_vars,
        irq_vars, poll_vars
  <2>5. TxRing'
    BY <1>7, FirstAndLast, RemovalStep
    DEF IInv, TypeOK, HeldExactly, Contexts, TxRing, TxD, Registered,
        Enabled, remove_release, Release, ReleaseWaits, tx_vars, rx_vars,
        dev_vars, irq_vars, poll_vars
  <2>6. MaskOwner'
    BY <1>7
    DEF IInv, TypeOK, HeldExactly, MaskOwner, remove_release, Release,
        ReleaseWaits, tx_vars, rx_vars, dev_vars, irq_vars, poll_vars
  <2>7. FrameOwner'
    BY <1>7, FirstAndLast, RemovalStep
    DEF IInv, TypeOK, HeldExactly, NapiOwner, FrameOwner, Enabled,
        AckWindow, remove_release, Release, ReleaseWaits, tx_vars,
        rx_vars, dev_vars, irq_vars, poll_vars
  <2> QED BY <2>1, <2>2, <2>3, <2>4, <2>5, <2>6, <2>7 DEF IInv
<1>8. CASE remove_return
  <2>1. HeldExactly'
    BY <1>8, FirstAndLast, RemovalStep
    DEF IInv, TypeOK, HeldExactly, Registered, Enabled, remove_return,
        tx_vars, rx_vars, dev_vars, irq_vars, poll_vars
  <2>2. TypeOK'
    BY <1>8, <2>1, FirstAndLast, RemovalStep, SlotFacts
    DEF IInv, TypeOK, HeldExactly, remove_return, tx_vars, rx_vars,
        dev_vars, irq_vars, poll_vars
  <2>3. Contexts'
    BY <1>8, FirstAndLast, RemovalStep
    DEF IInv, TypeOK, HeldExactly, Contexts, NapiOwner, Registered,
        Enabled, remove_return, tx_vars, rx_vars, dev_vars, irq_vars,
        poll_vars
  <2>4. NapiOwner'
    BY <1>8, FirstAndLast, RemovalStep
    DEF IInv, TypeOK, HeldExactly, Contexts, NapiOwner, Enabled,
        remove_return, tx_vars, rx_vars, dev_vars, irq_vars, poll_vars
  <2>5. TxRing'
    BY <1>8, FirstAndLast, RemovalStep
    DEF IInv, TypeOK, HeldExactly, Contexts, TxRing, TxD, Registered,
        Enabled, remove_return, tx_vars, rx_vars, dev_vars, irq_vars,
        poll_vars
  <2>6. MaskOwner'
    BY <1>8
    DEF IInv, TypeOK, HeldExactly, MaskOwner, remove_return, tx_vars,
        rx_vars, dev_vars, irq_vars, poll_vars
  <2>7. FrameOwner'
    BY <1>8, FirstAndLast, RemovalStep
    DEF IInv, TypeOK, HeldExactly, NapiOwner, FrameOwner, Enabled,
        AckWindow, remove_return, tx_vars, rx_vars, dev_vars, irq_vars,
        poll_vars
  <2> QED BY <2>1, <2>2, <2>3, <2>4, <2>5, <2>6, <2>7 DEF IInv
<1>9. CASE open_napi /\ bound
  <2>1. HeldExactly'
    BY <1>9
    DEF IInv, HeldExactly, Registered, Enabled, open_napi, bound, tx_vars,
        rx_vars, dev_vars, irq_vars, poll_vars
  <2>2. TypeOK'
    BY <1>9, SlotFacts, NapiTypes
    DEF IInv, TypeOK, open_napi, bound, tx_vars, rx_vars, dev_vars,
        irq_vars, poll_vars
  <2>3. Contexts'
    BY <1>9
    DEF IInv, TypeOK, Contexts, NapiOwner, Registered, Enabled, open_napi,
        bound, tx_vars, rx_vars, dev_vars, irq_vars, poll_vars
  <2>4. NapiOwner'
    BY <1>9
    DEF IInv, TypeOK, NapiOwner, AfterEnable, Enabled, open_napi, bound,
        tx_vars, rx_vars, dev_vars, irq_vars, poll_vars
  <2>5. TxRing'
    BY <1>9
    DEF IInv, TypeOK, Contexts, TxRing, TxD, Registered, Enabled,
        open_napi, bound, tx_vars, rx_vars, dev_vars, irq_vars, poll_vars
  <2>6. MaskOwner'
    BY <1>9
    DEF IInv, TypeOK, MaskOwner, NapiOwner, Enabled, AfterEnable,
        open_napi, bound, tx_vars, rx_vars, dev_vars, irq_vars, poll_vars
  <2>7. FrameOwner'
    BY <1>9
    DEF IInv, TypeOK, NapiOwner, FrameOwner, Enabled, AfterEnable,
        AckWindow, open_napi, bound, tx_vars, rx_vars, dev_vars, irq_vars,
        poll_vars
  <2> QED BY <2>1, <2>2, <2>3, <2>4, <2>5, <2>6, <2>7 DEF IInv
<1>10. CASE stop_queue /\ bound
  <2>1. HeldExactly'
    BY <1>10
    DEF IInv, HeldExactly, Registered, Enabled, stop_queue, bound,
        tx_vars, rx_vars, dev_vars, irq_vars, poll_vars
  <2>2. TypeOK'
    BY <1>10, SlotFacts
    DEF IInv, TypeOK, stop_queue, bound, tx_vars, rx_vars, dev_vars,
        irq_vars, poll_vars
  <2>3. Contexts'
    BY <1>10
    DEF IInv, TypeOK, Contexts, NapiOwner, Registered, Enabled,
        stop_queue, bound, tx_vars, rx_vars, dev_vars, irq_vars, poll_vars
  <2>4. NapiOwner'
    BY <1>10
    DEF IInv, TypeOK, NapiOwner, Enabled, stop_queue, bound, tx_vars,
        rx_vars, dev_vars, irq_vars, poll_vars
  <2>5. TxRing'
    BY <1>10
    DEF IInv, TypeOK, Contexts, TxRing, TxD, Registered, Enabled,
        stop_queue, bound, tx_vars, rx_vars, dev_vars, irq_vars, poll_vars
  <2>6. MaskOwner'
    BY <1>10
    DEF IInv, TypeOK, MaskOwner, NapiOwner, Enabled, stop_queue, bound,
        tx_vars, rx_vars, dev_vars, irq_vars, poll_vars
  <2>7. FrameOwner'
    BY <1>10
    DEF IInv, TypeOK, FrameOwner, Enabled, AckWindow, stop_queue, bound,
        tx_vars, rx_vars, dev_vars, irq_vars, poll_vars
  <2> QED BY <2>1, <2>2, <2>3, <2>4, <2>5, <2>6, <2>7 DEF IInv
<1>11. CASE xmit_full /\ bound
  <2>1. HeldExactly'
    BY <1>11
    DEF IInv, HeldExactly, xmit_full, bound, tx_vars, rx_vars, dev_vars,
        irq_vars, poll_vars
  <2>2. TypeOK'
    BY <1>11, SlotFacts
    DEF IInv, TypeOK, xmit_full, bound, tx_vars, rx_vars, dev_vars,
        irq_vars, poll_vars
  <2>3. Contexts'
    BY <1>11
    DEF IInv, TypeOK, Contexts, NapiOwner, Registered, Enabled, xmit_full,
        bound, tx_vars, rx_vars, dev_vars, irq_vars, poll_vars
  <2>4. NapiOwner'
    BY <1>11
    DEF IInv, TypeOK, NapiOwner, xmit_full, bound, tx_vars, rx_vars,
        dev_vars, irq_vars, poll_vars
  <2>5. TxRing'
    BY <1>11, SlotFacts, DistanceFacts
    DEF IInv, TypeOK, TxRing, TxD, my_tx_ring_full, xmit_full, bound,
        tx_vars, rx_vars, dev_vars, irq_vars, poll_vars
  <2>6. MaskOwner'
    BY <1>11
    DEF IInv, TypeOK, MaskOwner, xmit_full, bound, tx_vars, rx_vars,
        dev_vars, irq_vars, poll_vars
  <2>7. FrameOwner'
    BY <1>11
    DEF IInv, TypeOK, FrameOwner, AckWindow, xmit_full, bound, tx_vars,
        rx_vars, dev_vars, irq_vars, poll_vars
  <2> QED BY <2>1, <2>2, <2>3, <2>4, <2>5, <2>6, <2>7 DEF IInv
<1>12. CASE xmit_post /\ bound
  <2>1. HeldExactly'
    BY <1>12
    DEF IInv, HeldExactly, xmit_post, bound, tx_vars, rx_vars, dev_vars,
        irq_vars, poll_vars
  <2>2. TypeOK'
    BY <1>12, SlotFacts
    DEF IInv, TypeOK, xmit_post, bound, tx_vars, rx_vars, dev_vars,
        irq_vars, poll_vars
  <2>3. Contexts'
    BY <1>12
    DEF IInv, TypeOK, Contexts, NapiOwner, Registered, Enabled, xmit_post,
        bound, tx_vars, rx_vars, dev_vars, irq_vars, poll_vars
  <2>4. NapiOwner'
    BY <1>12
    DEF IInv, TypeOK, NapiOwner, xmit_post, bound, tx_vars, rx_vars,
        dev_vars, irq_vars, poll_vars
  <2>5. TxRing'
    <3>1. /\ op = "up" /\ xpc = "idle" /\ dma = "on" /\ tx_head = TX_TAIL
          /\ TxSucc(tx_head) # tx_clean /\ xpc' = "doorbell"
          /\ tx' = [tx EXCEPT ![tx_head] = "hw"] /\ tx_head' = TxSucc(tx_head)
          /\ UNCHANGED <<op, dma, TX_TAIL, dev_tx, tx_clean>>
      BY <1>12
      DEF IInv, Contexts, TxRing, Registered, Enabled, xmit_post,
          my_tx_ring_full, dev_vars
    <3>2. /\ tx_head \in TxSlot /\ tx_clean \in TxSlot /\ dev_tx \in TxSlot
          /\ tx \in [TxSlot -> {"free", "hw", "done"}]
      BY DEF IInv, TypeOK
    <3>3. TxDist(tx_clean, TxSucc(tx_head)) = TxD(tx_head) + 1
      BY <3>1, <3>2, DistanceFacts DEF TxD
    <3>4. /\ TxD(dev_tx) <= TxD(tx_head)
          /\ \A s \in TxSlot : tx[s] = IF TxD(s) < TxD(dev_tx) THEN "done"
                                       ELSE IF TxD(s) < TxD(tx_head) THEN "hw"
                                       ELSE "free"
      BY <3>1 DEF IInv, TxRing
    <3>5. /\ \A s \in TxSlot : TxD(s) \in Nat /\ (TxD(s) = TxD(tx_head) <=> s = tx_head)
          /\ TxD(dev_tx) \in Nat /\ TxD(tx_head) \in Nat
      BY <3>2, DistanceFacts DEF TxD
    <3>6. \A s \in TxSlot : tx'[s] = IF TxD(s) < TxD(dev_tx) THEN "done"
                                     ELSE IF TxD(s) < TxD(tx_head) + 1 THEN "hw"
                                     ELSE "free"
      <4> HIDE DEF TxD
      <4> QED BY <3>1, <3>2, <3>4, <3>5
    <3> QED BY <3>1, <3>3, <3>4, <3>5, <3>6 DEF TxRing, TxD
  <2>6. MaskOwner'
    BY <1>12
    DEF IInv, TypeOK, MaskOwner, xmit_post, bound, tx_vars, rx_vars,
        dev_vars, irq_vars, poll_vars
  <2>7. FrameOwner'
    BY <1>12
    DEF IInv, TypeOK, FrameOwner, AckWindow, xmit_post, bound, tx_vars,
        rx_vars, dev_vars, irq_vars, poll_vars
  <2> QED BY <2>1, <2>2, <2>3, <2>4, <2>5, <2>6, <2>7 DEF IInv
<1>13. CASE xmit_busy /\ bound
  <2>1. HeldExactly'
    BY <1>13
    DEF IInv, HeldExactly, xmit_busy, bound, tx_vars, rx_vars, dev_vars,
        irq_vars, poll_vars
  <2>2. TypeOK'
    BY <1>13, SlotFacts
    DEF IInv, TypeOK, xmit_busy, bound, tx_vars, rx_vars, dev_vars,
        irq_vars, poll_vars
  <2>3. Contexts'
    BY <1>13
    DEF IInv, TypeOK, Contexts, NapiOwner, Registered, Enabled, xmit_busy,
        bound, tx_vars, rx_vars, dev_vars, irq_vars, poll_vars
  <2>4. NapiOwner'
    BY <1>13
    DEF IInv, TypeOK, NapiOwner, xmit_busy, bound, tx_vars, rx_vars,
        dev_vars, irq_vars, poll_vars
  <2>5. TxRing'
    BY <1>13, SlotFacts, DistanceFacts
    DEF IInv, TypeOK, TxRing, TxD, my_tx_ring_full, xmit_busy, bound,
        tx_vars, rx_vars, dev_vars, irq_vars, poll_vars
  <2>6. MaskOwner'
    BY <1>13
    DEF IInv, TypeOK, MaskOwner, xmit_busy, bound, tx_vars, rx_vars,
        dev_vars, irq_vars, poll_vars
  <2>7. FrameOwner'
    BY <1>13
    DEF IInv, TypeOK, FrameOwner, AckWindow, xmit_busy, bound, tx_vars,
        rx_vars, dev_vars, irq_vars, poll_vars
  <2> QED BY <2>1, <2>2, <2>3, <2>4, <2>5, <2>6, <2>7 DEF IInv
<1>14. CASE xmit_doorbell /\ bound
  <2>1. HeldExactly'
    BY <1>14
    DEF IInv, HeldExactly, xmit_doorbell, bound, tx_vars, rx_vars,
        dev_vars, irq_vars, poll_vars
  <2>2. TypeOK'
    BY <1>14, SlotFacts
    DEF IInv, TypeOK, xmit_doorbell, bound, tx_vars, rx_vars, dev_vars,
        irq_vars, poll_vars
  <2>3. Contexts'
    BY <1>14
    DEF IInv, TypeOK, Contexts, NapiOwner, Registered, Enabled,
        xmit_doorbell, bound, tx_vars, rx_vars, dev_vars, irq_vars,
        poll_vars
  <2>4. NapiOwner'
    BY <1>14
    DEF IInv, TypeOK, NapiOwner, xmit_doorbell, bound, tx_vars, rx_vars,
        dev_vars, irq_vars, poll_vars
  <2>5. TxRing'
    <3>1. /\ op = "up" /\ dma = "on" /\ xpc' = "report" /\ TX_TAIL' = tx_head
          /\ UNCHANGED <<op, dma, tx_head, tx_clean, dev_tx, tx>>
      BY <1>14 DEF IInv, Contexts, Registered, Enabled, xmit_doorbell
    <3>2. /\ tx_head \in TxSlot /\ tx_clean \in TxSlot /\ dev_tx \in TxSlot
          /\ TX_TAIL \in TxSlot /\ tx \in [TxSlot -> {"free", "hw", "done"}]
      BY DEF IInv, TypeOK
    <3>3. /\ TxD(dev_tx) <= TxD(TX_TAIL) /\ TxD(TX_TAIL) <= TxD(tx_head)
          /\ tx_head = IF xpc = "doorbell" THEN TxSucc(TX_TAIL) ELSE TX_TAIL
          /\ \A s \in TxSlot : tx[s] = IF TxD(s) < TxD(dev_tx) THEN "done"
                                       ELSE IF TxD(s) < TxD(tx_head) THEN "hw"
                                       ELSE "free"
      BY <3>1 DEF IInv, TxRing
    <3>4. /\ \A s \in TxSlot : TxD(s) \in Nat
          /\ TxD(dev_tx) \in Nat /\ TxD(tx_head) \in Nat /\ TxD(TX_TAIL) \in Nat
      BY <3>2, DistanceFacts DEF TxD
    <3> QED BY <3>1, <3>3, <3>4 DEF TxRing, TxD
  <2>6. MaskOwner'
    BY <1>14
    DEF IInv, TypeOK, MaskOwner, xmit_doorbell, bound, tx_vars, rx_vars,
        dev_vars, irq_vars, poll_vars
  <2>7. FrameOwner'
    BY <1>14
    DEF IInv, TypeOK, FrameOwner, AckWindow, xmit_doorbell, bound,
        tx_vars, rx_vars, dev_vars, irq_vars, poll_vars
  <2> QED BY <2>1, <2>2, <2>3, <2>4, <2>5, <2>6, <2>7 DEF IInv
<1>15. CASE xmit_report /\ bound
  <2>1. HeldExactly'
    BY <1>15
    DEF IInv, HeldExactly, xmit_report, bound, tx_vars, rx_vars,
        dev_vars, irq_vars, poll_vars
  <2>2. TypeOK'
    BY <1>15
    DEF IInv, TypeOK, xmit_report, bound, tx_vars, rx_vars, dev_vars,
        irq_vars, poll_vars
  <2>3. Contexts'
    BY <1>15
    DEF IInv, TypeOK, Contexts, NapiOwner, Registered, Enabled,
        xmit_report, bound, tx_vars, rx_vars, dev_vars, irq_vars,
        poll_vars
  <2>4. NapiOwner'
    BY <1>15
    DEF IInv, TypeOK, NapiOwner, xmit_report, bound, tx_vars, rx_vars,
        dev_vars, irq_vars, poll_vars
  <2>5. TxRing'
    BY <1>15
    DEF IInv, TxRing, TxD, xmit_report, bound, tx_vars, rx_vars, dev_vars,
        irq_vars, poll_vars
  <2>6. MaskOwner'
    BY <1>15
    DEF IInv, TypeOK, MaskOwner, xmit_report, bound, tx_vars, rx_vars,
        dev_vars, irq_vars, poll_vars
  <2>7. FrameOwner'
    BY <1>15
    DEF IInv, TypeOK, FrameOwner, AckWindow, xmit_report, bound,
        tx_vars, rx_vars, dev_vars, irq_vars, poll_vars
  <2> QED BY <2>1, <2>2, <2>3, <2>4, <2>5, <2>6, <2>7 DEF IInv
<1>16. CASE device_send /\ bound
  <2>1. HeldExactly'
    BY <1>16
    DEF IInv, HeldExactly, device_send, bound, tx_vars, rx_vars, dev_vars,
        irq_vars, poll_vars
  <2>2. TypeOK'
    BY <1>16, SlotFacts
    DEF IInv, TypeOK, Causes, device_send, bound, tx_vars, rx_vars,
        dev_vars, irq_vars, poll_vars
  <2>3. Contexts'
    BY <1>16
    DEF IInv, TypeOK, Contexts, NapiOwner, Registered, Enabled,
        device_send, bound, tx_vars, rx_vars, dev_vars, irq_vars,
        poll_vars
  <2>4. NapiOwner'
    BY <1>16
    DEF IInv, TypeOK, NapiOwner, device_send, bound, tx_vars, rx_vars,
        dev_vars, irq_vars, poll_vars
  <2>5. TxRing'
    <3>1. /\ dma = "on" /\ dev_tx # TX_TAIL /\ dev_tx' = TxSucc(dev_tx)
          /\ tx' = [tx EXCEPT ![dev_tx] = "done"]
          /\ UNCHANGED <<op, step, dma, tx_head, tx_clean, TX_TAIL, xpc>>
      BY <1>16 DEF device_send, bound
    <3>2. /\ tx_head \in TxSlot /\ tx_clean \in TxSlot /\ dev_tx \in TxSlot
          /\ TX_TAIL \in TxSlot /\ tx \in [TxSlot -> {"free", "hw", "done"}]
      BY DEF IInv, TypeOK
    <3>3. /\ TxD(dev_tx) <= TxD(TX_TAIL) /\ TxD(TX_TAIL) <= TxD(tx_head)
          /\ tx_head = IF xpc = "doorbell" THEN TxSucc(TX_TAIL) ELSE TX_TAIL
          /\ \A s \in TxSlot : tx[s] = IF TxD(s) < TxD(dev_tx) THEN "done"
                                       ELSE IF TxD(s) < TxD(tx_head) THEN "hw"
                                       ELSE "free"
      BY <3>1 DEF IInv, TxRing
    <3>4. /\ \A s \in TxSlot : TxD(s) \in 0 .. TX_RING_SIZE - 1
          /\ \A s \in TxSlot : TxD(s) = TxD(dev_tx) <=> s = dev_tx
          /\ TxD(dev_tx) < TxD(TX_TAIL)
      <4>1. /\ \A s \in TxSlot : TxD(s) \in 0 .. TX_RING_SIZE - 1
            /\ \A s \in TxSlot : TxD(s) = TxD(dev_tx) <=> s = dev_tx
        BY <3>2, DistanceFacts DEF TxD
      <4>2. TxD(dev_tx) \in Int /\ TxD(TX_TAIL) \in Int /\ TxD(dev_tx) # TxD(TX_TAIL)
        BY <3>1, <3>2, <4>1
      <4> HIDE DEF TxD
      <4> QED BY <3>3, <4>1, <4>2
    <3>5. TxSucc(dev_tx) # tx_clean
      <4> SUFFICES ASSUME TxSucc(dev_tx) = tx_clean PROVE FALSE
        OBVIOUS
      <4>1. TxD(dev_tx) = TX_RING_SIZE - 1
        BY <3>2, DistanceFacts DEF TxD
      <4>2. TxD(TX_TAIL) \in 0 .. TX_RING_SIZE - 1
        BY <3>2, <3>4
      <4> HIDE DEF TxD
      <4> QED BY <4>1, <4>2, <3>4, SizeAssumption
    <3>6. TxDist(tx_clean, TxSucc(dev_tx)) = TxD(dev_tx) + 1
      BY <3>2, <3>5, DistanceFacts DEF TxD
    <3>7. /\ TxD(dev_tx) + 1 <= TxD(TX_TAIL) /\ TxD(dev_tx) + 1 <= TxD(tx_head)
          /\ \A s \in TxSlot : tx'[s] = IF TxD(s) < TxD(dev_tx) + 1 THEN "done"
                                        ELSE IF TxD(s) < TxD(tx_head) THEN "hw"
                                        ELSE "free"
      <4> HIDE DEF TxD
      <4>1. /\ TxD(dev_tx) \in Nat /\ TxD(TX_TAIL) \in Nat /\ TxD(tx_head) \in Nat
            /\ \A s \in TxSlot : TxD(s) \in Nat
        BY <3>2, <3>4
      <4> QED BY <4>1, <3>1, <3>2, <3>3, <3>4
    <3>8. ~(op = "remove" /\ step > 6)
      BY <3>1 DEF IInv, TypeOK, Contexts, Registered, Enabled
    <3>9. op \notin {"unbound", "probe", "unwind"}
      <4> SUFFICES ASSUME op \in {"unbound", "probe", "unwind"} PROVE FALSE
        OBVIOUS
      <4>1. tx[dev_tx] = "free"
        BY <3>2 DEF IInv, TxRing
      <4>2. tx[dev_tx] = "hw"
        <5> HIDE DEF TxD
        <5> QED BY <3>2, <3>3, <3>4
      <4> QED BY <4>1, <4>2
    <3> QED BY <3>1, <3>3, <3>6, <3>7, <3>8, <3>9 DEF TxRing, TxD
  <2>6. MaskOwner'
    BY <1>16
    DEF IInv, TypeOK, MaskOwner, device_send, bound, tx_vars, rx_vars,
        dev_vars, irq_vars, poll_vars
  <2>7. FrameOwner'
    BY <1>16
    DEF IInv, TypeOK, FrameOwner, AckWindow, device_send, bound, tx_vars,
        rx_vars, dev_vars, irq_vars, poll_vars
  <2> QED BY <2>1, <2>2, <2>3, <2>4, <2>5, <2>6, <2>7 DEF IInv
<1>17. CASE device_receive /\ bound
  <2>1. HeldExactly'
    BY <1>17
    DEF IInv, HeldExactly, device_receive, bound, tx_vars, rx_vars,
        dev_vars, irq_vars, poll_vars
  <2>2. TypeOK'
    BY <1>17, SlotFacts
    DEF IInv, TypeOK, Causes, device_receive, bound, tx_vars, rx_vars,
        dev_vars, irq_vars, poll_vars
  <2>3. Contexts'
    BY <1>17
    DEF IInv, TypeOK, Contexts, NapiOwner, Registered, Enabled,
        device_receive, bound, tx_vars, rx_vars, dev_vars, irq_vars,
        poll_vars
  <2>4. NapiOwner'
    BY <1>17
    DEF IInv, TypeOK, NapiOwner, device_receive, bound, tx_vars, rx_vars,
        dev_vars, irq_vars, poll_vars
  <2>5. TxRing'
    BY <1>17
    DEF IInv, TypeOK, TxRing, TxD, device_receive, bound, tx_vars,
        rx_vars, dev_vars, irq_vars, poll_vars
  <2>6. MaskOwner'
    BY <1>17
    DEF IInv, TypeOK, MaskOwner, device_receive, bound, tx_vars, rx_vars,
        dev_vars, irq_vars, poll_vars
  <2>7. FrameOwner'
    BY <1>17
    DEF IInv, TypeOK, FrameOwner, AckWindow, device_receive, bound,
        tx_vars, rx_vars, dev_vars, irq_vars, poll_vars
  <2> QED BY <2>1, <2>2, <2>3, <2>4, <2>5, <2>6, <2>7 DEF IInv
<1>18. CASE my_irq_handler /\ bound
  <2>1. HeldExactly'
    BY <1>18
    DEF IInv, HeldExactly, my_irq_handler, irq_read, bound, tx_vars,
        rx_vars, dev_vars, irq_vars, poll_vars
  <2>2. TypeOK'
    BY <1>18, SlotFacts
    DEF IInv, TypeOK, my_irq_handler, irq_read, bound, tx_vars, rx_vars,
        dev_vars, irq_vars, poll_vars
  <2>3. Contexts'
    BY <1>18, AcquireStep, UnwindStep, RemovalStep, FirstAndLast
    DEF IInv, TypeOK, HeldExactly, Contexts, NapiOwner, Registered,
        Enabled, my_irq_handler, irq_read, bound, tx_vars, rx_vars,
        dev_vars, irq_vars, poll_vars
  <2>4. NapiOwner'
    BY <1>18
    DEF IInv, TypeOK, NapiOwner, my_irq_handler, irq_read, bound, tx_vars,
        rx_vars, dev_vars, irq_vars, poll_vars
  <2>5. TxRing'
    BY <1>18
    DEF IInv, TypeOK, TxRing, TxD, my_irq_handler, irq_read, bound,
        tx_vars, rx_vars, dev_vars, irq_vars, poll_vars
  <2>6. MaskOwner'
    BY <1>18
    DEF IInv, TypeOK, MaskOwner, my_irq_handler, irq_read, bound, tx_vars,
        rx_vars, dev_vars, irq_vars, poll_vars
  <2>7. FrameOwner'
    BY <1>18
    DEF IInv, TypeOK, FrameOwner, AckWindow, my_irq_handler, irq_read,
        bound, tx_vars, rx_vars, dev_vars, irq_vars, poll_vars
  <2> QED BY <2>1, <2>2, <2>3, <2>4, <2>5, <2>6, <2>7 DEF IInv
<1>19. CASE irq_rx /\ bound
  <2>1. HeldExactly'
    BY <1>19
    DEF IInv, HeldExactly, irq_rx, Schedule, bound, tx_vars, rx_vars,
        dev_vars, irq_vars, poll_vars
  <2>2. TypeOK'
    <3>1. napi' \subseteq NapiFlags
      BY <1>19, NapiTypes DEF IInv, TypeOK, irq_rx, Schedule
    <3>2. hpc' \in {"schedule", "clean", "ack"} /\ IRQ_MASK' \subseteq Causes
      BY <1>19 DEF IInv, TypeOK, irq_rx, AfterRx, Causes
    <3>3. ppc' \in {"idle", "queued", "harvest", "complete"}
      BY <1>19 DEF IInv, TypeOK, irq_rx, Schedule
    <3> QED BY <1>19, <3>1, <3>2, <3>3
            DEF IInv, TypeOK, irq_rx, bound, tx_vars, rx_vars, dev_vars
  <2>3. Contexts'
    BY <1>19
    DEF IInv, TypeOK, Contexts, NapiOwner, Registered, Enabled, irq_rx,
        Schedule, bound, tx_vars, rx_vars, dev_vars, irq_vars, poll_vars
  <2>4. NapiOwner'
    BY <1>19
    DEF IInv, TypeOK, Contexts, NapiOwner, AfterSchedulePrep,
        napi_schedule_prep, Enabled, Registered, irq_rx, Schedule, bound,
        tx_vars, rx_vars, dev_vars, irq_vars, poll_vars
  <2>5. TxRing'
    BY <1>19
    DEF IInv, TypeOK, TxRing, TxD, irq_rx, Schedule, bound, tx_vars,
        rx_vars, dev_vars, irq_vars, poll_vars
  <2>6. MaskOwner'
    BY <1>19
    DEF IInv, TypeOK, MaskOwner, NapiOwner, Enabled, AfterSchedulePrep,
        napi_schedule_prep, irq_rx, Schedule, bound, tx_vars, rx_vars,
        dev_vars, irq_vars, poll_vars
  <2>7. FrameOwner'
    BY <1>19
    DEF IInv, TypeOK, NapiOwner, FrameOwner, AfterSchedulePrep,
        napi_schedule_prep, AckWindow, AfterRx, irq_rx, Schedule, bound,
        tx_vars, rx_vars, dev_vars, irq_vars, poll_vars
  <2> QED BY <2>1, <2>2, <2>3, <2>4, <2>5, <2>6, <2>7 DEF IInv
<1>20. CASE clean_slot /\ bound
  <2>1. HeldExactly'
    BY <1>20
    DEF IInv, HeldExactly, clean_slot, bound, tx_vars, rx_vars, dev_vars,
        irq_vars, poll_vars
  <2>2. TypeOK'
    BY <1>20, SlotFacts
    DEF IInv, TypeOK, clean_slot, bound, tx_vars, rx_vars, dev_vars,
        irq_vars, poll_vars
  <2>3. Contexts'
    BY <1>20
    DEF IInv, TypeOK, Contexts, NapiOwner, Registered, Enabled,
        clean_slot, bound, tx_vars, rx_vars, dev_vars, irq_vars, poll_vars
  <2>4. NapiOwner'
    BY <1>20
    DEF IInv, TypeOK, NapiOwner, clean_slot, bound, tx_vars, rx_vars,
        dev_vars, irq_vars, poll_vars
  <2>5. TxRing'
    <3>1. /\ tx_clean # tx_head /\ tx[tx_clean] = "done" /\ tx_clean' = TxSucc(tx_clean)
          /\ tx' = [tx EXCEPT ![tx_clean] = "free"]
          /\ UNCHANGED <<op, step, dma, tx_head, dev_tx, TX_TAIL, xpc>>
      BY <1>20 DEF clean_slot, Cleanable, bound, dev_vars
    <3>2. /\ tx_head \in TxSlot /\ tx_clean \in TxSlot /\ dev_tx \in TxSlot
          /\ TX_TAIL \in TxSlot /\ tx \in [TxSlot -> {"free", "hw", "done"}]
      BY DEF IInv, TypeOK
    <3>3. /\ op \notin {"unbound", "probe", "unwind"}
          /\ ~(op = "remove" /\ step > 6)
      BY <3>1, <3>2 DEF IInv, TxRing
    <3>4. CASE dma = "on"
      <4>1. /\ TxD(dev_tx) <= TxD(TX_TAIL) /\ TxD(TX_TAIL) <= TxD(tx_head)
            /\ tx_head = IF xpc = "doorbell" THEN TxSucc(TX_TAIL) ELSE TX_TAIL
            /\ \A s \in TxSlot : tx[s] = IF TxD(s) < TxD(dev_tx) THEN "done"
                                         ELSE IF TxD(s) < TxD(tx_head) THEN "hw"
                                         ELSE "free"
        BY <3>4 DEF IInv, TxRing
      <4>2. /\ \A s \in TxSlot : TxD(s) \in 0 .. TX_RING_SIZE - 1
            /\ \A s \in TxSlot : TxD(s) = 0 <=> s = tx_clean
        BY <3>2, DistanceFacts DEF TxD
      <4>3. 0 < TxD(dev_tx) /\ 0 < TxD(TX_TAIL) /\ 0 < TxD(tx_head)
        <5> HIDE DEF TxD
        <5> QED BY <3>1, <3>2, <4>1, <4>2
      <4>4. /\ \A s \in TxSlot : TxDist(TxSucc(tx_clean), s)
                 = IF s = tx_clean THEN TX_RING_SIZE - 1 ELSE TxD(s) - 1
        BY <3>2, DistanceFacts DEF TxD
      <4>5. /\ TxDist(TxSucc(tx_clean), dev_tx) = TxD(dev_tx) - 1
            /\ TxDist(TxSucc(tx_clean), TX_TAIL) = TxD(TX_TAIL) - 1
            /\ TxDist(TxSucc(tx_clean), tx_head) = TxD(tx_head) - 1
        <5> HIDE DEF TxD
        <5> QED BY <3>2, <4>2, <4>3, <4>4
      <4>6. \A s \in TxSlot :
              tx'[s] = IF TxDist(TxSucc(tx_clean), s) < TxD(dev_tx) - 1 THEN "done"
                       ELSE IF TxDist(TxSucc(tx_clean), s) < TxD(tx_head) - 1 THEN "hw"
                       ELSE "free"
        <5> HIDE DEF TxD
        <5>1. TAKE s \in TxSlot
        <5>2. CASE s = tx_clean
          BY <5>2, <3>1, <3>2, <4>2, <4>4, SizeAssumption
        <5>3. CASE s # tx_clean
          BY <5>3, <3>1, <3>2, <4>1, <4>2, <4>4
        <5> QED BY <5>2, <5>3
      <4>7. TxD(dev_tx) \in Int /\ TxD(TX_TAIL) \in Int /\ TxD(tx_head) \in Int
        BY <3>2, <4>2
      <4>8. /\ TxD(dev_tx) - 1 <= TxD(TX_TAIL) - 1
            /\ TxD(TX_TAIL) - 1 <= TxD(tx_head) - 1
        <5> HIDE DEF TxD
        <5> QED BY <4>1, <4>7
      <4> QED BY <3>1, <3>3, <4>1, <4>5, <4>6, <4>8 DEF TxRing, TxD
    <3> QED BY <3>1, <3>3, <3>4 DEF TxRing
  <2>6. MaskOwner'
    BY <1>20
    DEF IInv, TypeOK, MaskOwner, clean_slot, bound, tx_vars, rx_vars,
        dev_vars, irq_vars, poll_vars
  <2>7. FrameOwner'
    BY <1>20
    DEF IInv, TypeOK, FrameOwner, AckWindow, clean_slot, bound, tx_vars,
        rx_vars, dev_vars, irq_vars, poll_vars
  <2> QED BY <2>1, <2>2, <2>3, <2>4, <2>5, <2>6, <2>7 DEF IInv
<1>21. CASE clean_end /\ bound
  <2>1. HeldExactly'
    BY <1>21
    DEF IInv, HeldExactly, clean_end, bound, tx_vars, rx_vars, dev_vars,
        irq_vars, poll_vars
  <2>2. TypeOK'
    BY <1>21, SlotFacts
    DEF IInv, TypeOK, clean_end, bound, tx_vars, rx_vars, dev_vars,
        irq_vars, poll_vars
  <2>3. Contexts'
    BY <1>21
    DEF IInv, TypeOK, Contexts, NapiOwner, Registered, Enabled, clean_end,
        bound, tx_vars, rx_vars, dev_vars, irq_vars, poll_vars
  <2>4. NapiOwner'
    BY <1>21
    DEF IInv, TypeOK, NapiOwner, clean_end, bound, tx_vars, rx_vars,
        dev_vars, irq_vars, poll_vars
  <2>5. TxRing'
    BY <1>21
    DEF IInv, TypeOK, TxRing, TxD, clean_end, bound, tx_vars, rx_vars,
        dev_vars, irq_vars, poll_vars
  <2>6. MaskOwner'
    BY <1>21
    DEF IInv, TypeOK, MaskOwner, clean_end, bound, tx_vars, rx_vars,
        dev_vars, irq_vars, poll_vars
  <2>7. FrameOwner'
    BY <1>21
    DEF IInv, TypeOK, FrameOwner, AckWindow, clean_end, bound, tx_vars,
        rx_vars, dev_vars, irq_vars, poll_vars
  <2> QED BY <2>1, <2>2, <2>3, <2>4, <2>5, <2>6, <2>7 DEF IInv
<1>22. CASE irq_ack /\ bound
  <2>1. HeldExactly'
    BY <1>22
    DEF IInv, HeldExactly, irq_ack, bound, tx_vars, rx_vars, dev_vars,
        irq_vars, poll_vars
  <2>2. TypeOK'
    BY <1>22, SlotFacts
    DEF IInv, TypeOK, Causes, irq_ack, bound, tx_vars, rx_vars, dev_vars,
        irq_vars, poll_vars
  <2>3. Contexts'
    BY <1>22
    DEF IInv, TypeOK, Contexts, NapiOwner, Registered, Enabled, irq_ack,
        bound, tx_vars, rx_vars, dev_vars, irq_vars, poll_vars
  <2>4. NapiOwner'
    BY <1>22
    DEF IInv, TypeOK, NapiOwner, irq_ack, bound, tx_vars, rx_vars,
        dev_vars, irq_vars, poll_vars
  <2>5. TxRing'
    BY <1>22
    DEF IInv, TypeOK, TxRing, TxD, irq_ack, bound, tx_vars, rx_vars,
        dev_vars, irq_vars, poll_vars
  <2>6. MaskOwner'
    BY <1>22
    DEF IInv, TypeOK, MaskOwner, irq_ack, bound, tx_vars, rx_vars,
        dev_vars, irq_vars, poll_vars
  <2>7. FrameOwner'
    BY <1>22
    DEF IInv, TypeOK, FrameOwner, AckWindow, irq_ack, bound, tx_vars,
        rx_vars, dev_vars, irq_vars, poll_vars
  <2> QED BY <2>1, <2>2, <2>3, <2>4, <2>5, <2>6, <2>7 DEF IInv
<1>23. CASE poll_start /\ bound
  <2>1. HeldExactly'
    BY <1>23
    DEF IInv, HeldExactly, poll_start, bound, tx_vars, rx_vars, dev_vars,
        irq_vars, poll_vars
  <2>2. TypeOK'
    BY <1>23, SizeAssumption, SlotFacts
    DEF IInv, TypeOK, poll_start, bound, tx_vars, rx_vars, dev_vars,
        irq_vars, poll_vars
  <2>3. Contexts'
    BY <1>23
    DEF IInv, TypeOK, Contexts, NapiOwner, Registered, Enabled,
        poll_start, bound, tx_vars, rx_vars, dev_vars, irq_vars, poll_vars
  <2>4. NapiOwner'
    BY <1>23
    DEF IInv, TypeOK, NapiOwner, Enabled, poll_start, bound, tx_vars,
        rx_vars, dev_vars, irq_vars, poll_vars
  <2>5. TxRing'
    BY <1>23
    DEF IInv, TypeOK, TxRing, TxD, poll_start, bound, tx_vars, rx_vars,
        dev_vars, irq_vars, poll_vars
  <2>6. MaskOwner'
    BY <1>23
    DEF IInv, TypeOK, MaskOwner, poll_start, bound, tx_vars, rx_vars,
        dev_vars, irq_vars, poll_vars
  <2>7. FrameOwner'
    BY <1>23
    DEF IInv, TypeOK, FrameOwner, AckWindow, poll_start, bound, tx_vars,
        rx_vars, dev_vars, irq_vars, poll_vars
  <2> QED BY <2>1, <2>2, <2>3, <2>4, <2>5, <2>6, <2>7 DEF IInv
<1>24. CASE poll_frame /\ bound
  <2>1. HeldExactly'
    BY <1>24
    DEF IInv, HeldExactly, poll_frame, bound, tx_vars, rx_vars, dev_vars,
        irq_vars, poll_vars
  <2>2. TypeOK'
    BY <1>24, SizeAssumption, SlotFacts
    DEF IInv, TypeOK, poll_frame, bound, tx_vars, rx_vars, dev_vars,
        irq_vars, poll_vars
  <2>3. Contexts'
    BY <1>24
    DEF IInv, TypeOK, Contexts, NapiOwner, Registered, Enabled,
        poll_frame, bound, tx_vars, rx_vars, dev_vars, irq_vars, poll_vars
  <2>4. NapiOwner'
    BY <1>24
    DEF IInv, TypeOK, NapiOwner, Enabled, poll_frame, bound, tx_vars,
        rx_vars, dev_vars, irq_vars, poll_vars
  <2>5. TxRing'
    BY <1>24
    DEF IInv, TypeOK, TxRing, TxD, poll_frame, bound, tx_vars, rx_vars,
        dev_vars, irq_vars, poll_vars
  <2>6. MaskOwner'
    BY <1>24
    DEF IInv, TypeOK, MaskOwner, poll_frame, bound, tx_vars, rx_vars,
        dev_vars, irq_vars, poll_vars
  <2>7. FrameOwner'
    BY <1>24
    DEF IInv, TypeOK, FrameOwner, AckWindow, poll_frame, bound, tx_vars,
        rx_vars, dev_vars, irq_vars, poll_vars
  <2> QED BY <2>1, <2>2, <2>3, <2>4, <2>5, <2>6, <2>7 DEF IInv
<1>25. CASE poll_empty /\ bound
  <2>1. HeldExactly'
    BY <1>25
    DEF IInv, HeldExactly, poll_empty, bound, tx_vars, rx_vars, dev_vars,
        irq_vars, poll_vars
  <2>2. TypeOK'
    BY <1>25, SlotFacts
    DEF IInv, TypeOK, poll_empty, bound, tx_vars, rx_vars, dev_vars,
        irq_vars, poll_vars
  <2>3. Contexts'
    BY <1>25
    DEF IInv, TypeOK, Contexts, NapiOwner, Registered, Enabled,
        poll_empty, bound, tx_vars, rx_vars, dev_vars, irq_vars, poll_vars
  <2>4. NapiOwner'
    BY <1>25
    DEF IInv, TypeOK, NapiOwner, Enabled, poll_empty, bound, tx_vars,
        rx_vars, dev_vars, irq_vars, poll_vars
  <2>5. TxRing'
    BY <1>25
    DEF IInv, TypeOK, TxRing, TxD, poll_empty, bound, tx_vars, rx_vars,
        dev_vars, irq_vars, poll_vars
  <2>6. MaskOwner'
    BY <1>25
    DEF IInv, TypeOK, MaskOwner, poll_empty, bound, tx_vars, rx_vars,
        dev_vars, irq_vars, poll_vars
  <2>7. FrameOwner'
    BY <1>25
    DEF IInv, TypeOK, NapiOwner, FrameOwner, AckWindow, poll_empty, bound,
        tx_vars, rx_vars, dev_vars, irq_vars, poll_vars
  <2> QED BY <2>1, <2>2, <2>3, <2>4, <2>5, <2>6, <2>7 DEF IInv
<1>26. CASE poll_complete /\ bound
  <2>1. HeldExactly'
    BY <1>26
    DEF IInv, HeldExactly, poll_complete, bound, tx_vars, rx_vars,
        dev_vars, irq_vars, poll_vars
  <2>2. TypeOK'
    BY <1>26, SizeAssumption, SlotFacts, NapiTypes
    DEF IInv, TypeOK, poll_complete, bound, tx_vars, rx_vars, dev_vars,
        irq_vars, poll_vars
  <2>3. Contexts'
    BY <1>26
    DEF IInv, TypeOK, Contexts, NapiOwner, Registered, Enabled,
        poll_complete, bound, tx_vars, rx_vars, dev_vars, irq_vars,
        poll_vars
  <2>4. NapiOwner'
    BY <1>26
    DEF IInv, TypeOK, NapiOwner, AfterCompleteDone, napi_complete_done,
        Enabled, poll_complete, bound, tx_vars, rx_vars, dev_vars,
        irq_vars, poll_vars
  <2>5. TxRing'
    BY <1>26
    DEF IInv, TypeOK, TxRing, TxD, poll_complete, bound, tx_vars, rx_vars,
        dev_vars, irq_vars, poll_vars
  <2>6. MaskOwner'
    BY <1>26
    DEF IInv, TypeOK, MaskOwner, NapiOwner, Enabled, AfterCompleteDone,
        napi_complete_done, poll_complete, bound, tx_vars, rx_vars,
        dev_vars, irq_vars, poll_vars
  <2>7. FrameOwner'
    BY <1>26
    DEF IInv, TypeOK, NapiOwner, FrameOwner, AfterCompleteDone,
        napi_complete_done, AckWindow, poll_complete, bound, tx_vars,
        rx_vars, dev_vars, irq_vars, poll_vars
  <2> QED BY <2>1, <2>2, <2>3, <2>4, <2>5, <2>6, <2>7 DEF IInv
<1>27. CASE poll_again /\ bound
  <2>1. HeldExactly'
    BY <1>27
    DEF IInv, HeldExactly, poll_again, bound, tx_vars, rx_vars, dev_vars,
        irq_vars, poll_vars
  <2>2. TypeOK'
    <3>1. napi' \subseteq NapiFlags /\ ppc' \in {"idle", "queued"}
      BY <1>27, NapiTypes DEF IInv, TypeOK, poll_again
    <3> QED BY <1>27, <3>1, SizeAssumption
            DEF IInv, TypeOK, poll_again, bound, tx_vars, rx_vars, dev_vars,
                irq_vars
  <2>3. Contexts'
    BY <1>27
    DEF IInv, TypeOK, Contexts, NapiOwner, Registered, Enabled,
        poll_again, bound, tx_vars, rx_vars, dev_vars, irq_vars, poll_vars
  <2>4. NapiOwner'
    BY <1>27
    DEF IInv, TypeOK, NapiOwner, AfterCompleteDone, napi_complete_done,
        Enabled, poll_again, bound, tx_vars, rx_vars, dev_vars, irq_vars,
        poll_vars
  <2>5. TxRing'
    BY <1>27
    DEF IInv, TypeOK, TxRing, TxD, poll_again, bound, tx_vars, rx_vars,
        dev_vars, irq_vars, poll_vars
  <2>6. MaskOwner'
    BY <1>27
    DEF IInv, TypeOK, MaskOwner, NapiOwner, Enabled, AfterCompleteDone,
        napi_complete_done, poll_again, bound, tx_vars, rx_vars, dev_vars,
        irq_vars, poll_vars
  <2>7. FrameOwner'
    BY <1>27
    DEF IInv, TypeOK, NapiOwner, FrameOwner, AfterCompleteDone,
        napi_complete_done, AckWindow, poll_again, bound, tx_vars,
        rx_vars, dev_vars, irq_vars, poll_vars
  <2> QED BY <2>1, <2>2, <2>3, <2>4, <2>5, <2>6, <2>7 DEF IInv
<1>28. CASE poll_unmask /\ bound
  <2>1. HeldExactly'
    BY <1>28
    DEF IInv, HeldExactly, poll_unmask, bound, tx_vars, rx_vars, dev_vars,
        irq_vars, poll_vars
  <2>2. TypeOK'
    BY <1>28, SizeAssumption, SlotFacts
    DEF IInv, TypeOK, Causes, poll_unmask, bound, tx_vars, rx_vars,
        dev_vars, irq_vars, poll_vars
  <2>3. Contexts'
    BY <1>28
    DEF IInv, TypeOK, Contexts, NapiOwner, Registered, Enabled,
        poll_unmask, bound, tx_vars, rx_vars, dev_vars, irq_vars,
        poll_vars
  <2>4. NapiOwner'
    BY <1>28
    DEF IInv, TypeOK, NapiOwner, Enabled, poll_unmask, bound, tx_vars,
        rx_vars, dev_vars, irq_vars, poll_vars
  <2>5. TxRing'
    BY <1>28
    DEF IInv, TypeOK, TxRing, TxD, poll_unmask, bound, tx_vars, rx_vars,
        dev_vars, irq_vars, poll_vars
  <2>6. MaskOwner'
    BY <1>28
    DEF IInv, TypeOK, MaskOwner, poll_unmask, bound, tx_vars, rx_vars,
        dev_vars, irq_vars, poll_vars
  <2>7. FrameOwner'
    BY <1>28
    DEF IInv, TypeOK, FrameOwner, AckWindow, poll_unmask, bound, tx_vars,
        rx_vars, dev_vars, irq_vars, poll_vars
  <2> QED BY <2>1, <2>2, <2>3, <2>4, <2>5, <2>6, <2>7 DEF IInv
<1>29. CASE open_mask /\ bound
  <2>1. HeldExactly'
    BY <1>29
    DEF IInv, HeldExactly, Registered, Enabled, open_mask, bound, tx_vars,
        rx_vars, dev_vars, irq_vars, poll_vars
  <2>2. TypeOK'
    BY <1>29, SlotFacts
    DEF IInv, TypeOK, Causes, open_mask, bound, tx_vars, rx_vars,
        dev_vars, irq_vars, poll_vars
  <2>3. Contexts'
    BY <1>29
    DEF IInv, TypeOK, Contexts, NapiOwner, Registered, Enabled, open_mask,
        bound, tx_vars, rx_vars, dev_vars, irq_vars, poll_vars
  <2>4. NapiOwner'
    BY <1>29
    DEF IInv, TypeOK, NapiOwner, Enabled, open_mask, bound, tx_vars,
        rx_vars, dev_vars, irq_vars, poll_vars
  <2>5. TxRing'
    BY <1>29
    DEF IInv, TypeOK, Contexts, TxRing, TxD, Registered, Enabled,
        open_mask, bound, tx_vars, rx_vars, dev_vars, irq_vars, poll_vars
  <2>6. MaskOwner'
    BY <1>29
    DEF IInv, TypeOK, MaskOwner, NapiOwner, Enabled, open_mask, bound,
        tx_vars, rx_vars, dev_vars, irq_vars, poll_vars
  <2>7. FrameOwner'
    BY <1>29
    DEF IInv, TypeOK, FrameOwner, Enabled, AckWindow, open_mask, bound,
        tx_vars, rx_vars, dev_vars, irq_vars, poll_vars
  <2> QED BY <2>1, <2>2, <2>3, <2>4, <2>5, <2>6, <2>7 DEF IInv
<1>30. CASE open_queue /\ bound
  <2>1. HeldExactly'
    BY <1>30
    DEF IInv, HeldExactly, Registered, Enabled, open_queue, bound,
        tx_vars, rx_vars, dev_vars, irq_vars, poll_vars
  <2>2. TypeOK'
    BY <1>30, SlotFacts
    DEF IInv, TypeOK, open_queue, bound, tx_vars, rx_vars, dev_vars,
        irq_vars, poll_vars
  <2>3. Contexts'
    BY <1>30
    DEF IInv, TypeOK, Contexts, NapiOwner, Registered, Enabled,
        open_queue, bound, tx_vars, rx_vars, dev_vars, irq_vars, poll_vars
  <2>4. NapiOwner'
    BY <1>30
    DEF IInv, TypeOK, NapiOwner, Enabled, open_queue, bound, tx_vars,
        rx_vars, dev_vars, irq_vars, poll_vars
  <2>5. TxRing'
    BY <1>30
    DEF IInv, TypeOK, Contexts, TxRing, TxD, Registered, Enabled,
        open_queue, bound, tx_vars, rx_vars, dev_vars, irq_vars, poll_vars
  <2>6. MaskOwner'
    BY <1>30
    DEF IInv, TypeOK, MaskOwner, NapiOwner, Enabled, open_queue, bound,
        tx_vars, rx_vars, dev_vars, irq_vars, poll_vars
  <2>7. FrameOwner'
    BY <1>30
    DEF IInv, TypeOK, FrameOwner, Enabled, AckWindow, open_queue, bound,
        tx_vars, rx_vars, dev_vars, irq_vars, poll_vars
  <2> QED BY <2>1, <2>2, <2>3, <2>4, <2>5, <2>6, <2>7 DEF IInv
<1>31. CASE stop_mask /\ bound
  <2>1. HeldExactly'
    BY <1>31
    DEF IInv, HeldExactly, Registered, Enabled, stop_mask, bound, tx_vars,
        rx_vars, dev_vars, irq_vars, poll_vars
  <2>2. TypeOK'
    BY <1>31, SlotFacts
    DEF IInv, TypeOK, stop_mask, bound, tx_vars, rx_vars, dev_vars,
        irq_vars, poll_vars
  <2>3. Contexts'
    BY <1>31
    DEF IInv, TypeOK, Contexts, NapiOwner, Registered, Enabled, stop_mask,
        bound, tx_vars, rx_vars, dev_vars, irq_vars, poll_vars
  <2>4. NapiOwner'
    BY <1>31
    DEF IInv, TypeOK, NapiOwner, Enabled, stop_mask, bound, tx_vars,
        rx_vars, dev_vars, irq_vars, poll_vars
  <2>5. TxRing'
    BY <1>31
    DEF IInv, TypeOK, Contexts, TxRing, TxD, Registered, Enabled,
        stop_mask, bound, tx_vars, rx_vars, dev_vars, irq_vars, poll_vars
  <2>6. MaskOwner'
    BY <1>31
    DEF IInv, TypeOK, MaskOwner, NapiOwner, Enabled, stop_mask, bound,
        tx_vars, rx_vars, dev_vars, irq_vars, poll_vars
  <2>7. FrameOwner'
    BY <1>31
    DEF IInv, TypeOK, FrameOwner, Enabled, AckWindow, stop_mask, bound,
        tx_vars, rx_vars, dev_vars, irq_vars, poll_vars
  <2> QED BY <2>1, <2>2, <2>3, <2>4, <2>5, <2>6, <2>7 DEF IInv
<1>32. CASE stop_napi /\ bound
  <2>1. HeldExactly'
    BY <1>32
    DEF IInv, HeldExactly, Registered, Enabled, stop_napi, bound, tx_vars,
        rx_vars, dev_vars, irq_vars, poll_vars
  <2>2. TypeOK'
    BY <1>32, SlotFacts, NapiTypes
    DEF IInv, TypeOK, stop_napi, bound, tx_vars, rx_vars, dev_vars,
        irq_vars, poll_vars
  <2>3. Contexts'
    BY <1>32
    DEF IInv, TypeOK, Contexts, NapiOwner, Registered, Enabled, stop_napi,
        bound, tx_vars, rx_vars, dev_vars, irq_vars, poll_vars
  <2>4. NapiOwner'
    BY <1>32
    DEF IInv, TypeOK, NapiOwner, NapiDisableBegin, Enabled, stop_napi,
        bound, tx_vars, rx_vars, dev_vars, irq_vars, poll_vars
  <2>5. TxRing'
    BY <1>32
    DEF IInv, TypeOK, Contexts, TxRing, TxD, Registered, Enabled,
        stop_napi, bound, tx_vars, rx_vars, dev_vars, irq_vars, poll_vars
  <2>6. MaskOwner'
    BY <1>32
    DEF IInv, TypeOK, MaskOwner, NapiOwner, Enabled, NapiDisableBegin,
        stop_napi, bound, tx_vars, rx_vars, dev_vars, irq_vars, poll_vars
  <2>7. FrameOwner'
    BY <1>32
    DEF IInv, TypeOK, NapiOwner, FrameOwner, Enabled, NapiDisableBegin,
        AckWindow, stop_napi, bound, tx_vars, rx_vars, dev_vars, irq_vars,
        poll_vars
  <2> QED BY <2>1, <2>2, <2>3, <2>4, <2>5, <2>6, <2>7 DEF IInv
<1>33. CASE stop_wait /\ bound
  <2>1. HeldExactly'
    BY <1>33
    DEF IInv, HeldExactly, Registered, Enabled, stop_wait, bound, tx_vars,
        rx_vars, dev_vars, irq_vars, poll_vars
  <2>2. TypeOK'
    BY <1>33, SlotFacts, NapiTypes
    DEF IInv, TypeOK, stop_wait, bound, tx_vars, rx_vars, dev_vars,
        irq_vars, poll_vars
  <2>3. Contexts'
    BY <1>33
    DEF IInv, TypeOK, Contexts, NapiOwner, Registered, Enabled, stop_wait,
        bound, tx_vars, rx_vars, dev_vars, irq_vars, poll_vars
  <2>4. NapiOwner'
    BY <1>33
    DEF IInv, TypeOK, NapiOwner, NapiDisableReady, NapiDisableEnd,
        Enabled, stop_wait, bound, tx_vars, rx_vars, dev_vars, irq_vars,
        poll_vars
  <2>5. TxRing'
    BY <1>33
    DEF IInv, TypeOK, Contexts, TxRing, TxD, Registered, Enabled,
        stop_wait, bound, tx_vars, rx_vars, dev_vars, irq_vars, poll_vars
  <2>6. MaskOwner'
    BY <1>33
    DEF IInv, TypeOK, MaskOwner, NapiOwner, Enabled, NapiDisableReady,
        NapiDisableEnd, stop_wait, bound, tx_vars, rx_vars, dev_vars,
        irq_vars, poll_vars
  <2>7. FrameOwner'
    BY <1>33
    DEF IInv, TypeOK, NapiOwner, FrameOwner, Enabled, NapiDisableReady,
        NapiDisableEnd, AckWindow, stop_wait, bound, tx_vars, rx_vars,
        dev_vars, irq_vars, poll_vars
  <2> QED BY <2>1, <2>2, <2>3, <2>4, <2>5, <2>6, <2>7 DEF IInv
<1>34. CASE UNCHANGED vars
  <2>1. HeldExactly'
    BY <1>34 DEF vars, netdev_vars, tx_vars, rx_vars, dev_vars, irq_vars,
        poll_vars, IInv, HeldExactly
  <2>2. TypeOK'
    BY <1>34 DEF vars, netdev_vars, tx_vars, rx_vars, dev_vars, irq_vars,
        poll_vars, IInv, TypeOK
  <2>3. Contexts'
    BY <1>34 DEF vars, netdev_vars, tx_vars, rx_vars, dev_vars, irq_vars,
        poll_vars, IInv, Contexts
  <2>4. NapiOwner'
    BY <1>34 DEF vars, netdev_vars, tx_vars, rx_vars, dev_vars, irq_vars,
        poll_vars, IInv, NapiOwner
  <2>5. TxRing'
    BY <1>34 DEF vars, netdev_vars, tx_vars, rx_vars, dev_vars, irq_vars,
        poll_vars, IInv, TxRing, TxD
  <2>6. MaskOwner'
    BY <1>34 DEF vars, netdev_vars, tx_vars, rx_vars, dev_vars, irq_vars,
        poll_vars, IInv, MaskOwner
  <2>7. FrameOwner'
    BY <1>34 DEF vars, netdev_vars, tx_vars, rx_vars, dev_vars, irq_vars,
        poll_vars, IInv, FrameOwner, AckWindow
  <2> QED BY <2>1, <2>2, <2>3, <2>4, <2>5, <2>6, <2>7 DEF IInv
<1> QED
  BY <1>1, <1>2, <1>3, <1>4, <1>5, <1>6, <1>7, <1>8, <1>9, <1>10, <1>11,
      <1>12, <1>13, <1>14, <1>15, <1>16, <1>17, <1>18, <1>19, <1>20, <1>21, <1>22,
      <1>23, <1>24, <1>25, <1>26, <1>27, <1>28, <1>29, <1>30, <1>31, <1>32,
      <1>33, <1>34
  DEF Next, request, interface, admin, running, my_start_xmit, device,
      handler_step, my_poll, poll_steps, my_open, my_stop

\* The inductive invariant: resources, running contexts, NAPI, the transmit ring,
\* the interrupt mask and the stored frames agree with the RTNL thread.
THEOREM InductiveInvariant == Spec => []IInv
<1>1. Init => IInv
  <2> SUFFICES ASSUME Init PROVE IInv
    OBVIOUS
  <2>1. TypeOK
    <3>1. 0 \in 0 .. Len(Removal) + 1 /\ 0 \in 0 .. Budget /\ 0 \in 0 .. MaxCompleting
      BY FirstAndLast, SizeAssumption
    <3>2. tx \in [TxSlot -> {"free", "hw", "done"}]
      BY DEF Init
    <3>3. napi \subseteq NapiFlags
      BY NapiTypes DEF Init
    <3> QED BY <3>1, <3>2, <3>3, SlotFacts DEF Init, TypeOK
  <2>2. HeldExactly /\ Contexts /\ NapiOwner /\ MaskOwner /\ FrameOwner
    BY DEF Init, HeldExactly, Contexts, NapiOwner, MaskOwner, FrameOwner,
           Registered, Enabled
  <2>3. TxRing
    BY DEF Init, TxRing
  <2> QED BY <2>1, <2>2, <2>3 DEF IInv
<1> QED BY <1>1, InvStep, PTL DEF Spec

-----------------------------------------------------------------------------
(* What the runs check, for every ring size, budget and number of pending  *)
(* interrupt unmaskings.                                                   *)

\* Every variable keeps its type.
THEOREM TypeCorrect == Spec => []TypeOK
BY InductiveInvariant, PTL DEF IInv

\* my_start_xmit(), the NIC and my_tx_clean() agree on every transmit slot, the
\* doorbell (simple_netdev.c, REG_TX_TAIL) never runs past the posted descriptors and
\* a posted descriptor is the NIC's until its doorbell; the skb itself may be gone
\* when my_start_xmit() reads it after the doorbell.
THEOREM SlotOwnershipHolds == Spec => []SlotOwnership
<1>1. IInv => SlotOwnership
  <2> SUFFICES ASSUME IInv, dma # "off" PROVE SlotOwnership
    BY DEF SlotOwnership
  <2>1. /\ tx_head \in TxSlot /\ tx_clean \in TxSlot /\ dev_tx \in TxSlot
        /\ TX_TAIL \in TxSlot /\ dma = "on"
    BY DEF IInv, TypeOK
  <2>2. /\ TxD(dev_tx) <= TxD(TX_TAIL) /\ TxD(TX_TAIL) <= TxD(tx_head)
        /\ \A s \in TxSlot : tx[s] = IF TxD(s) < TxD(dev_tx) THEN "done"
                                     ELSE IF TxD(s) < TxD(tx_head) THEN "hw"
                                     ELSE "free"
    BY <2>1 DEF IInv, TxRing
  <2>3. \A a, b, s \in TxSlot : s \in Between(a, b) <=> TxDist(a, s) < TxDist(a, b)
    BY SlotFacts DEF Between
  <2>4. \A s \in TxSlot : TxD(s) \in 0 .. TX_RING_SIZE - 1
    BY <2>1, DistanceFacts DEF TxD
  <2>5. TxDist(dev_tx, tx_head) = TxD(tx_head) - TxD(dev_tx)
    <3>1. TxD(dev_tx) <= TxD(tx_head)
      <4> HIDE DEF TxD
      <4> QED BY <2>1, <2>2, <2>4
    <3> QED BY <2>1, <3>1, DistanceFacts DEF TxD
  <2>6. TxDist(dev_tx, TX_TAIL) = TxD(TX_TAIL) - TxD(dev_tx)
    BY <2>1, <2>2, DistanceFacts DEF TxD
  <2>7. \A s \in TxSlot :
          TxDist(dev_tx, s) = IF TxD(s) < TxD(dev_tx)
                                THEN TxD(s) - TxD(dev_tx) + TX_RING_SIZE
                                ELSE TxD(s) - TxD(dev_tx)
    <3>1. TAKE s \in TxSlot
    <3>2. TxD(s) \in Int /\ TxD(dev_tx) \in Int
      BY <2>1, <2>4
    <3>3. CASE TxD(s) < TxD(dev_tx)
      BY <3>3, <2>1, DistanceFacts DEF TxD
    <3>4. CASE ~(TxD(s) < TxD(dev_tx))
      <4>1. TxD(dev_tx) <= TxD(s)
        <5> HIDE DEF TxD
        <5> QED BY <3>2, <3>4
      <4> QED BY <3>4, <4>1, <2>1, DistanceFacts DEF TxD
    <3> QED BY <3>3, <3>4
  <2>8. ASSUME NEW s \in TxSlot
        PROVE  /\ s \in Between(tx_clean, dev_tx) <=> TxD(s) < TxD(dev_tx)
               /\ s \in Between(dev_tx, tx_head)
                    <=> TxDist(dev_tx, s) < TxD(tx_head) - TxD(dev_tx)
               /\ s \in Between(dev_tx, TX_TAIL)
                    <=> TxDist(dev_tx, s) < TxD(TX_TAIL) - TxD(dev_tx)
    <3>1. s \in Between(tx_clean, dev_tx) <=> TxD(s) < TxD(dev_tx)
      <4>1. s \in Between(tx_clean, dev_tx)
              <=> TxDist(tx_clean, s) < TxDist(tx_clean, dev_tx)
        BY <2>1, <2>3
      <4> QED BY <4>1 DEF TxD
    <3>2. /\ s \in Between(dev_tx, tx_head)
               <=> TxDist(dev_tx, s) < TxDist(dev_tx, tx_head)
          /\ s \in Between(dev_tx, TX_TAIL)
               <=> TxDist(dev_tx, s) < TxDist(dev_tx, TX_TAIL)
      BY <2>1, <2>3
    <3> QED BY <3>1, <3>2, <2>5, <2>6
  <2>9. \A s \in TxSlot : s \in Between(dev_tx, TX_TAIL) => s \in Between(dev_tx, tx_head)
    <3>1. TAKE s \in TxSlot
    <3>2. /\ TxDist(dev_tx, s) \in Int /\ TxD(dev_tx) \in Int
          /\ TxD(TX_TAIL) \in Int /\ TxD(tx_head) \in Int
      BY <2>1, <2>4, DistanceFacts
    <3> HIDE DEF TxD
    <3> QED BY <3>2, <2>2, <2>5, <2>6, <2>8
  <2>10. \A s \in TxSlot : tx[s] = IF s \in Between(tx_clean, dev_tx) THEN "done"
                                   ELSE IF s \in Between(dev_tx, tx_head) THEN "hw"
                                   ELSE "free"
    <3>1. TAKE s \in TxSlot
    <3>2. /\ TxD(s) \in Int /\ TxD(dev_tx) \in Int /\ TxD(tx_head) \in Int
      BY <2>1, <2>4
    <3> HIDE DEF TxD
    <3>3. ~(TxD(s) < TxD(dev_tx)) =>
            (s \in Between(dev_tx, tx_head) <=> TxD(s) < TxD(tx_head))
      BY <3>2, <2>5, <2>7, <2>8
    <3> QED BY <2>2, <2>8, <3>3
  <2>11. Between(dev_tx, TX_TAIL) \subseteq TxSlot
    BY DEF Between
  <2>12. xpc = "doorbell" => tx[TxPred(tx_head)] = "hw"
    <3> SUFFICES ASSUME xpc = "doorbell" PROVE tx[TxPred(tx_head)] = "hw"
      OBVIOUS
    <3>1. tx_head = TxSucc(TX_TAIL)
      BY <2>1 DEF IInv, TxRing
    <3>2. TxPred(tx_head) = TX_TAIL /\ tx_head # TX_TAIL
      BY <2>1, <3>1, SizeAssumption DEF TxPred, TxSucc, TxSlot
    <3>3. TxD(TX_TAIL) # TxD(tx_head)
      BY <2>1, <3>2, DistanceFacts DEF TxD
    <3>4. /\ TxD(TX_TAIL) \in Int /\ TxD(tx_head) \in Int /\ TxD(dev_tx) \in Int
      BY <2>1, <2>4
    <3>5. ~(TxD(TX_TAIL) < TxD(dev_tx)) /\ TxD(TX_TAIL) < TxD(tx_head)
      <4> HIDE DEF TxD
      <4> QED BY <2>2, <3>3, <3>4
    <3> QED BY <2>1, <2>2, <3>2, <3>5
  <2> QED BY <2>9, <2>10, <2>11, <2>12 DEF SlotOwnership
<1> QED BY <1>1, InductiveInvariant, PTL

\* A stored frame outside the two windows has somebody who will look at it: the
\* order of my_poll()'s last look, napi_complete_done() and the write of IRQ_MASK.
THEOREM NoStrandedFrameHolds == Spec => []NoStrandedFrame
<1>1. IInv => NoStrandedFrame
  BY DEF IInv, FrameOwner, NoStrandedFrame
<1> QED BY <1>1, InductiveInvariant, PTL

\* An interface that is up and quiet listens to both causes, whatever the order of
\* the writes of IRQ_MASK in handler and poll.
THEOREM QuietMeansListeningHolds == Spec => []QuietMeansListening
<1>1. IInv => QuietMeansListening
  BY DEF IInv, TypeOK, MaskOwner, QuietMeansListening
<1> QED BY <1>1, InductiveInvariant, PTL

\* No handler, poll or transmitter runs on a resource that my_pci_probe()'s error
\* path or my_pci_remove() has released.
THEOREM NoUseAfterFreeHolds == Spec => []NoUseAfterFree
<1>1. IInv => NoUseAfterFree
  <2> SUFFICES ASSUME IInv PROVE NoUseAfterFree
    OBVIOUS
  <2>1. hpc # "idle" => {"netdev", "mmio", "napi", "rx_ring", "tx_ring"} \subseteq held
    <3>1. CASE op \in Registered
      BY <3>1, ListFacts DEF IInv, HeldExactly
    <3>2. CASE op = "probe" /\ step \in 11 .. 12
      <4>1. {"netdev", "mmio", "napi", "rx_ring", "tx_ring"} \subseteq AcquiredBefore(11)
        BY AcquiredTable
      <4>2. AcquiredBefore(11) = AcquiredBefore(12)
        BY AcquiredTable
      <4>3. held = AcquiredBefore(11)
        <5>1. held = AcquiredBefore(step) /\ (step = 11 \/ step = 12)
          BY <3>2 DEF IInv, HeldExactly
        <5> QED BY <5>1, <4>2
      <4> QED BY <4>1, <4>3
    <3>3. CASE op = "unwind" /\ step \in 1 .. 3
      BY <3>3, UnwindStep DEF IInv, HeldExactly
    <3>4. CASE op = "remove" /\ step \in 1 .. 4
      BY <3>4, RemovalStep DEF IInv, HeldExactly
    <3> QED BY <3>1, <3>2, <3>3, <3>4 DEF IInv, Contexts
  <2>2. op \in Registered \/ (op = "remove" /\ step = 1) => held = Everything
    BY FirstAndLast DEF IInv, HeldExactly
  <2>3. /\ ppc # "idle" => op \in Registered
        /\ completing > 0 => op \in Registered \/ (op = "remove" /\ step = 1)
        /\ xpc # "idle" => op \in Registered
    BY DEF IInv, Contexts, NapiOwner, Registered, Enabled
  <2> QED BY <2>1, <2>2, <2>3, ListFacts DEF NoUseAfterFree
<1> QED BY <1>1, InductiveInvariant, PTL

\* A probe that failed and a remove that returned leave nothing held, and the way
\* there releases nothing twice (my_pci_probe()'s error labels).
THEOREM ExactUnwindHolds == Spec => []ExactUnwind
<1>1. IInv => ExactUnwind
  <2> SUFFICES ASSUME IInv PROVE ExactUnwind
    OBVIOUS
  <2>1. op = "unbound" => held = {} /\ (\A s \in TxSlot : tx[s] = "free") /\ dma = "off"
    BY DEF IInv, TypeOK, HeldExactly, Contexts, TxRing, Registered, Enabled
  <2>2. op = "unwind" /\ step <= Len(Unwind) /\ Unwind[step] \notin ReleaseNothing
          => Unwind[step] \in held
    BY UnwindStep, FirstAndLast DEF IInv, HeldExactly
  <2>3. op = "remove" /\ step <= Len(Removal)
          /\ Removal[step] \notin ReleaseNothing \cup {"rings"}
          => Removal[step] \in held
    BY RemovalStep, FirstAndLast DEF IInv, HeldExactly, Released
  <2> QED BY <2>1, <2>2, <2>3 DEF ExactUnwind
<1> QED BY <1>1, InductiveInvariant, PTL
=============================================================================
