------------------------ MODULE EdunicLifecycleProofs ------------------------
(***************************************************************************)
(* Proofs about EdunicLifecycle, for every ring size.                      *)
(***************************************************************************)
EXTENDS EdunicLifecycle, TLAPS

\* The three lists of nic_pci.c: their lengths, and what can occur in them.
LEMMA ListFacts ==
  /\ Len(Acquire) = 11 /\ Len(Unwind) = 8 /\ Len(Removal) = 9
  /\ Resources = {"registered", "napi", "emulation", "rx", "tx", "iomap",
                  "regions", "netdev", "device"}
<1>1. Len(Acquire) = 11 /\ Len(Unwind) = 8 /\ Len(Removal) = 9
  BY DEF Acquire, Unwind, Removal
<1>2. Resources = {Removal[i] : i \in {1, 2, 3, 4, 5, 6, 7, 8, 9}}
  <2>1. 1 .. 9 = {1, 2, 3, 4, 5, 6, 7, 8, 9}
    OBVIOUS
  <2> QED BY <1>1, <2>1 DEF Resources
<1> QED BY <1>1, <1>2 DEF Removal

\* What edunic_probe() holds before each of its calls.
LEMMA AcquiredTable ==
  /\ AcquiredBefore(1) = {}
  /\ AcquiredBefore(2) = {"device"}
  /\ AcquiredBefore(3) = {"device", "regions"}
  /\ AcquiredBefore(4) = {"device", "regions", "iomap"}
  /\ AcquiredBefore(5) = AcquiredBefore(4)
  /\ AcquiredBefore(6) = AcquiredBefore(5) \cup {"netdev"}
  /\ AcquiredBefore(7) = AcquiredBefore(6) \cup {"tx"}
  /\ AcquiredBefore(8) = AcquiredBefore(7) \cup {"rx"}
  /\ AcquiredBefore(9) = AcquiredBefore(8)
  /\ AcquiredBefore(10) = AcquiredBefore(9) \cup {"emulation"}
  /\ AcquiredBefore(11) = AcquiredBefore(10) \cup {"napi"}
<1>1. AcquiredBefore(1) = {}
  BY DEF AcquiredBefore
<1>2. ASSUME NEW s \in 1 .. 10
      PROVE  AcquiredBefore(s + 1)
               = AcquiredBefore(s) \cup ({Acquire[s]} \ NotHeld)
  <2>1. 1 .. (s + 1) - 1 = (1 .. s - 1) \cup {s}
    OBVIOUS
  <2> QED BY <2>1 DEF AcquiredBefore
<1>3. /\ AcquiredBefore(2) = AcquiredBefore(1) \cup ({Acquire[1]} \ NotHeld)
      /\ AcquiredBefore(3) = AcquiredBefore(2) \cup ({Acquire[2]} \ NotHeld)
      /\ AcquiredBefore(4) = AcquiredBefore(3) \cup ({Acquire[3]} \ NotHeld)
      /\ AcquiredBefore(5) = AcquiredBefore(4) \cup ({Acquire[4]} \ NotHeld)
      /\ AcquiredBefore(6) = AcquiredBefore(5) \cup ({Acquire[5]} \ NotHeld)
      /\ AcquiredBefore(7) = AcquiredBefore(6) \cup ({Acquire[6]} \ NotHeld)
      /\ AcquiredBefore(8) = AcquiredBefore(7) \cup ({Acquire[7]} \ NotHeld)
      /\ AcquiredBefore(9) = AcquiredBefore(8) \cup ({Acquire[8]} \ NotHeld)
      /\ AcquiredBefore(10) = AcquiredBefore(9) \cup ({Acquire[9]} \ NotHeld)
      /\ AcquiredBefore(11) = AcquiredBefore(10) \cup ({Acquire[10]} \ NotHeld)
  BY <1>2
<1>4. /\ {Acquire[1]} \ NotHeld = {"device"}
      /\ {Acquire[2]} \ NotHeld = {"regions"}
      /\ {Acquire[3]} \ NotHeld = {"iomap"}
      /\ {Acquire[4]} \ NotHeld = {}
      /\ {Acquire[5]} \ NotHeld = {"netdev"}
      /\ {Acquire[6]} \ NotHeld = {"tx"}
      /\ {Acquire[7]} \ NotHeld = {"rx"}
      /\ {Acquire[8]} \ NotHeld = {}
      /\ {Acquire[9]} \ NotHeld = {"emulation"}
      /\ {Acquire[10]} \ NotHeld = {"napi"}
  BY DEF Acquire, NotHeld
<1>5. /\ \A X : X \cup {} = X /\ {} \cup X = X
      /\ {"device"} \cup {"regions"} = {"device", "regions"}
      /\ {"device", "regions"} \cup {"iomap"} = {"device", "regions", "iomap"}
  OBVIOUS
<1> HIDE DEF AcquiredBefore
<1> QED BY <1>1, <1>3, <1>4, <1>5

\* What is still held at each label of the error path.
LEMMA UnwindTable ==
  /\ UnwoundFrom(9) = {}
  /\ UnwoundFrom(8) = {"device"}
  /\ UnwoundFrom(7) = UnwoundFrom(8) \cup {"regions"}
  /\ UnwoundFrom(6) = UnwoundFrom(7) \cup {"iomap"}
  /\ UnwoundFrom(5) = UnwoundFrom(6) \cup {"netdev"}
  /\ UnwoundFrom(4) = UnwoundFrom(5) \cup {"tx"}
  /\ UnwoundFrom(3) = UnwoundFrom(4) \cup {"rx"}
  /\ UnwoundFrom(2) = UnwoundFrom(3) \cup {"emulation"}
  /\ UnwoundFrom(1) = UnwoundFrom(2) \cup {"napi"}
<1>1. UnwoundFrom(9) = {}
  BY ListFacts DEF UnwoundFrom
<1>2. ASSUME NEW s \in 1 .. 8
      PROVE  UnwoundFrom(s) = UnwoundFrom(s + 1) \cup {Unwind[s]}
  <2>1. s .. 8 = (s + 1 .. 8) \cup {s}
    OBVIOUS
  <2> QED BY <2>1, ListFacts DEF UnwoundFrom
<1>3. /\ UnwoundFrom(8) = UnwoundFrom(9) \cup {Unwind[8]}
      /\ UnwoundFrom(7) = UnwoundFrom(8) \cup {Unwind[7]}
      /\ UnwoundFrom(6) = UnwoundFrom(7) \cup {Unwind[6]}
      /\ UnwoundFrom(5) = UnwoundFrom(6) \cup {Unwind[5]}
      /\ UnwoundFrom(4) = UnwoundFrom(5) \cup {Unwind[4]}
      /\ UnwoundFrom(3) = UnwoundFrom(4) \cup {Unwind[3]}
      /\ UnwoundFrom(2) = UnwoundFrom(3) \cup {Unwind[2]}
      /\ UnwoundFrom(1) = UnwoundFrom(2) \cup {Unwind[1]}
  BY <1>2
<1> QED BY <1>1, <1>3 DEF Unwind

\* What is still held before each release of edunic_remove().
LEMMA RemovalTable ==
  /\ RemovedFrom(10) = {}
  /\ RemovedFrom(9) = {"device"}
  /\ RemovedFrom(8) = RemovedFrom(9) \cup {"netdev"}
  /\ RemovedFrom(7) = RemovedFrom(8) \cup {"regions"}
  /\ RemovedFrom(6) = RemovedFrom(7) \cup {"iomap"}
  /\ RemovedFrom(5) = RemovedFrom(6) \cup {"tx"}
  /\ RemovedFrom(4) = RemovedFrom(5) \cup {"rx"}
  /\ RemovedFrom(3) = RemovedFrom(4) \cup {"emulation"}
  /\ RemovedFrom(2) = RemovedFrom(3) \cup {"napi"}
  /\ RemovedFrom(1) = Resources
<1>1. RemovedFrom(10) = {} /\ RemovedFrom(1) = Resources
  BY ListFacts DEF RemovedFrom, Resources
<1>2. ASSUME NEW s \in 1 .. 9
      PROVE  RemovedFrom(s) = RemovedFrom(s + 1) \cup {Removal[s]}
  <2>1. s .. 9 = (s + 1 .. 9) \cup {s}
    OBVIOUS
  <2> QED BY <2>1, ListFacts DEF RemovedFrom
<1>3. /\ RemovedFrom(9) = RemovedFrom(10) \cup {Removal[9]}
      /\ RemovedFrom(8) = RemovedFrom(9) \cup {Removal[8]}
      /\ RemovedFrom(7) = RemovedFrom(8) \cup {Removal[7]}
      /\ RemovedFrom(6) = RemovedFrom(7) \cup {Removal[6]}
      /\ RemovedFrom(5) = RemovedFrom(6) \cup {Removal[5]}
      /\ RemovedFrom(4) = RemovedFrom(5) \cup {Removal[4]}
      /\ RemovedFrom(3) = RemovedFrom(4) \cup {Removal[3]}
      /\ RemovedFrom(2) = RemovedFrom(3) \cup {Removal[2]}
  BY <1>2
<1> QED BY <1>1, <1>3 DEF Removal

\* A call that succeeds adds what it acquired; the last one completes the set.
LEMMA AcquireStep ==
  /\ \A s \in 1 .. 10 :
       AcquiredBefore(s + 1) = IF Acquire[s] \in NotHeld THEN AcquiredBefore(s)
                               ELSE AcquiredBefore(s) \cup {Acquire[s]}
  /\ AcquiredBefore(11) \cup {"registered"} = Resources
  /\ \A s \in 1 .. 11 : AcquiredBefore(s) \subseteq Resources
  /\ \A s \in 1 .. 11 : Acquire[s] = "registered" <=> s = 11
  /\ Acquire[11] = "registered" /\ Acquire[10] = "napi"
<1>1. \A s \in 1 .. 11 : \/ s = 1 \/ s = 2 \/ s = 3 \/ s = 4 \/ s = 5 \/ s = 6
                        \/ s = 7 \/ s = 8 \/ s = 9 \/ s = 10 \/ s = 11
  OBVIOUS
<1> QED BY <1>1, AcquiredTable, ListFacts DEF Acquire, NotHeld

\* A call that fails jumps to the label from which exactly what was acquired is
\* released: "undoes precisely the steps above it and nothing more"
\* (nic_pci.c:233).
LEMMA FailStep ==
  \A s \in 1 .. 11 : Acquire[s] \notin CannotFail =>
    /\ ErrLabel[Acquire[s]] \in 1 .. 9
    /\ AcquiredBefore(s) = UnwoundFrom(ErrLabel[Acquire[s]])
<1>1. \A s \in 1 .. 11 : \/ s = 1 \/ s = 2 \/ s = 3 \/ s = 4 \/ s = 5 \/ s = 6
                        \/ s = 7 \/ s = 8 \/ s = 9 \/ s = 10 \/ s = 11
  OBVIOUS
<1>2. /\ ErrLabel["device"] = 9 /\ ErrLabel["regions"] = 8
      /\ ErrLabel["iomap"] = 7 /\ ErrLabel["dma_mask"] = 6
      /\ ErrLabel["netdev"] = 6 /\ ErrLabel["tx"] = 5 /\ ErrLabel["rx"] = 4
      /\ ErrLabel["rx_buffers"] = 3 /\ ErrLabel["emulation"] = 3
      /\ ErrLabel["registered"] = 1
  BY DEF ErrLabel
<1>3. /\ AcquiredBefore(1) = UnwoundFrom(9) /\ AcquiredBefore(2) = UnwoundFrom(8)
      /\ AcquiredBefore(3) = UnwoundFrom(7)
  BY AcquiredTable, UnwindTable
<1>4. /\ AcquiredBefore(4) = UnwoundFrom(6) /\ AcquiredBefore(5) = UnwoundFrom(6)
  BY <1>3, AcquiredTable, UnwindTable
<1>5. AcquiredBefore(6) = UnwoundFrom(5)
  BY <1>4, AcquiredTable, UnwindTable
<1>6. AcquiredBefore(7) = UnwoundFrom(4)
  BY <1>5, AcquiredTable, UnwindTable
<1>7. /\ AcquiredBefore(8) = UnwoundFrom(3) /\ AcquiredBefore(9) = UnwoundFrom(3)
  BY <1>6, AcquiredTable, UnwindTable
<1>8. AcquiredBefore(10) = UnwoundFrom(2)
  BY <1>7, AcquiredTable, UnwindTable
<1>9. AcquiredBefore(11) = UnwoundFrom(1)
  BY <1>8, AcquiredTable, UnwindTable
<1>10. /\ Acquire[1] = "device" /\ Acquire[2] = "regions"
       /\ Acquire[3] = "iomap" /\ Acquire[4] = "dma_mask"
       /\ Acquire[5] = "netdev" /\ Acquire[6] = "tx" /\ Acquire[7] = "rx"
       /\ Acquire[8] = "rx_buffers" /\ Acquire[9] = "emulation"
       /\ Acquire[10] \in CannotFail /\ Acquire[11] = "registered"
  BY DEF Acquire, CannotFail
<1> QED
  <2> SUFFICES ASSUME NEW s \in 1 .. 11, Acquire[s] \notin CannotFail
               PROVE  /\ ErrLabel[Acquire[s]] \in 1 .. 9
                      /\ AcquiredBefore(s) = UnwoundFrom(ErrLabel[Acquire[s]])
    OBVIOUS
  <2>1. CASE s = 1
    <3>1. ErrLabel[Acquire[s]] = 9
      BY <2>1, <1>2, <1>10
    <3> QED BY <2>1, <3>1, <1>3
  <2>2. CASE s = 2
    <3>1. ErrLabel[Acquire[s]] = 8
      BY <2>2, <1>2, <1>10
    <3> QED BY <2>2, <3>1, <1>3
  <2>3. CASE s = 3
    <3>1. ErrLabel[Acquire[s]] = 7
      BY <2>3, <1>2, <1>10
    <3> QED BY <2>3, <3>1, <1>3
  <2>4. CASE s = 4
    <3>1. ErrLabel[Acquire[s]] = 6
      BY <2>4, <1>2, <1>10
    <3> QED BY <2>4, <3>1, <1>4
  <2>5. CASE s = 5
    <3>1. ErrLabel[Acquire[s]] = 6
      BY <2>5, <1>2, <1>10
    <3> QED BY <2>5, <3>1, <1>4
  <2>6. CASE s = 6
    <3>1. ErrLabel[Acquire[s]] = 5
      BY <2>6, <1>2, <1>10
    <3> QED BY <2>6, <3>1, <1>5
  <2>7. CASE s = 7
    <3>1. ErrLabel[Acquire[s]] = 4
      BY <2>7, <1>2, <1>10
    <3> QED BY <2>7, <3>1, <1>6
  <2>8. CASE s = 8
    <3>1. ErrLabel[Acquire[s]] = 3
      BY <2>8, <1>2, <1>10
    <3> QED BY <2>8, <3>1, <1>7
  <2>9. CASE s = 9
    <3>1. ErrLabel[Acquire[s]] = 3
      BY <2>9, <1>2, <1>10
    <3> QED BY <2>9, <3>1, <1>7
  <2>10. CASE s = 10
    BY <2>10, <1>10
  <2>11. CASE s = 11
    <3>1. ErrLabel[Acquire[s]] = 1
      BY <2>11, <1>2, <1>10
    <3> QED BY <2>11, <3>1, <1>9
  <2> QED
    BY <1>1, <2>1, <2>2, <2>3, <2>4, <2>5, <2>6, <2>7, <2>8, <2>9, <2>10, <2>11

\* One label releases one thing that is held.
LEMMA UnwindStep ==
  \A s \in 1 .. 8 : /\ Unwind[s] \in UnwoundFrom(s)
                    /\ UnwoundFrom(s + 1) = UnwoundFrom(s) \ {Unwind[s]}
                    /\ UnwoundFrom(s) \subseteq Resources
<1>1. \A s \in 1 .. 8 : \/ s = 1 \/ s = 2 \/ s = 3 \/ s = 4 \/ s = 5 \/ s = 6
                       \/ s = 7 \/ s = 8
  OBVIOUS
<1> QED BY <1>1, UnwindTable, ListFacts DEF Unwind

\* One call of edunic_remove() releases one thing that is held, and the emulation
\* goes before everything its worker and its timer use.
LEMMA RemovalStep ==
  \A s \in 1 .. 9 :
    /\ Removal[s] \in RemovedFrom(s)
    /\ RemovedFrom(s + 1) = RemovedFrom(s) \ {Removal[s]}
    /\ RemovedFrom(s) \subseteq Resources
    /\ "emulation" \in RemovedFrom(s) =>
         {"tx", "rx", "iomap", "netdev"} \subseteq RemovedFrom(s)
<1>1. \A s \in 1 .. 9 : \/ s = 1 \/ s = 2 \/ s = 3 \/ s = 4 \/ s = 5 \/ s = 6
                       \/ s = 7 \/ s = 8 \/ s = 9
  OBVIOUS
<1> QED BY <1>1, RemovalTable, ListFacts DEF Removal

\* The ends of the three lists.
LEMMA FirstAndLast ==
  /\ AcquiredBefore(1) = {}
  /\ UnwoundFrom(9) = {}
  /\ RemovedFrom(10) = {} /\ RemovedFrom(1) = Resources
BY AcquiredTable, UnwindTable, RemovalTable

\* Their lengths.
LEMMA ListLengths == Len(Acquire) = 11 /\ Len(Unwind) = 8 /\ Len(Removal) = 9
BY ListFacts

\* Every operation on the NAPI word leaves a NAPI word.
LEMMA NapiTypes ==
  ASSUME NEW n \in SUBSET NapiFlags
  PROVE  /\ {"SCHED"} \in SUBSET NapiFlags
         /\ AfterSchedulePrep(n) \in SUBSET NapiFlags
         /\ AfterCompleteDone(n) \in SUBSET NapiFlags
         /\ NapiDisableBegin(n) \in SUBSET NapiFlags
         /\ NapiDisableEnd(n) \in SUBSET NapiFlags
         /\ AfterEnable(n) \in SUBSET NapiFlags
BY DEF NapiFlags, AfterSchedulePrep, AfterCompleteDone, NapiDisableBegin,
       NapiDisableEnd, AfterEnable

\* Every step of the RTNL thread and of the contexts it starts and stops keeps the
\* inductive invariant.
LEMMA InvStep == IInv /\ [Next]_vars => IInv'
<1> SUFFICES ASSUME IInv, [Next]_vars PROVE IInv'
  OBVIOUS
<1> USE CapacityAssumption
<1>1. CASE probe_call
  <2>1. HeldExactly'
    BY <1>1, ListLengths, FirstAndLast
    DEF IInv, TypeOK, HeldExactly, Bound, Enabled, probe_call, admin_vars,
        link_vars, worker_vars, timer_vars
  <2>2. TypeOK'
    BY <1>1, <2>1, ListLengths, FirstAndLast
    DEF IInv, TypeOK, HeldExactly, probe_call, admin_vars, link_vars,
        worker_vars, timer_vars
  <2>3. Contexts'
    BY <1>1, ListLengths, FirstAndLast
    DEF IInv, HeldExactly, Contexts, Bound, Enabled, probe_call,
        admin_vars, link_vars, worker_vars, timer_vars
  <2>4. NapiOwner'
    BY <1>1, ListLengths, FirstAndLast
    DEF IInv, TypeOK, HeldExactly, NapiOwner, Enabled, probe_call,
        admin_vars, link_vars, worker_vars, timer_vars
  <2> QED BY <2>1, <2>2, <2>3, <2>4 DEF IInv
<1>2. CASE probe_acquire
  <2>1. HeldExactly'
    <3>1. op = "probe" /\ step \in 1 .. 11 /\ held = AcquiredBefore(step)
      BY <1>2, ListLengths DEF IInv, HeldExactly, probe_acquire
    <3>2. removing = "no" /\ removing' = "no"
      BY <1>2, <3>1
      DEF IInv, TypeOK, HeldExactly, probe_acquire, admin_vars
    <3>3. CASE step = 11
      <4>1. op' = "down" /\ held' = held \cup {"registered"}
        BY <1>2, <3>3, AcquireStep DEF probe_acquire, NotHeld
      <4>2. held' = Resources
        BY <3>1, <3>3, <4>1, AcquireStep
      <4> QED BY <3>2, <4>1, <4>2 DEF HeldExactly
    <3>4. CASE step # 11
      <4>1. step \in 1 .. 10 /\ Acquire[step] # "registered"
        BY <3>1, <3>4, AcquireStep
      <4>2. /\ op' = "probe" /\ step' = step + 1
            /\ held' = IF Acquire[step] \in NotHeld THEN held
                       ELSE held \cup {Acquire[step]}
        BY <1>2, <4>1 DEF probe_acquire
      <4>3. held' = AcquiredBefore(step + 1)
        BY <3>1, <4>1, <4>2, AcquireStep
      <4> QED BY <3>2, <4>1, <4>2, <4>3, ListLengths
              DEF HeldExactly, Bound, Enabled
    <3> QED BY <3>3, <3>4
  <2>2. TypeOK'
    BY <1>2, <2>1, ListLengths, AcquireStep, NapiTypes
    DEF IInv, TypeOK, HeldExactly, probe_acquire, admin_vars, link_vars,
        worker_vars, timer_vars
  <2>3. Contexts'
    BY <1>2, ListLengths, AcquireStep
    DEF IInv, HeldExactly, Contexts, Bound, Enabled, probe_acquire,
        admin_vars, link_vars, worker_vars, timer_vars
  <2>4. NapiOwner'
    BY <1>2, ListLengths, AcquireStep
    DEF IInv, TypeOK, HeldExactly, NapiOwner, Enabled, probe_acquire,
        admin_vars, link_vars, worker_vars, timer_vars
  <2> QED BY <2>1, <2>2, <2>3, <2>4 DEF IInv
<1>3. CASE probe_fail
  <2>1. HeldExactly'
    BY <1>3, ListLengths, FailStep
    DEF IInv, TypeOK, HeldExactly, Bound, Enabled, probe_fail, admin_vars,
        link_vars, worker_vars, timer_vars
  <2>2. TypeOK'
    BY <1>3, <2>1, ListLengths, FailStep
    DEF IInv, TypeOK, HeldExactly, probe_fail, admin_vars, link_vars,
        worker_vars, timer_vars
  <2>3. Contexts'
    BY <1>3, ListLengths, FailStep
    DEF IInv, HeldExactly, Contexts, Bound, Enabled, probe_fail,
        admin_vars, link_vars, worker_vars, timer_vars
  <2>4. NapiOwner'
    BY <1>3, ListLengths, FailStep
    DEF IInv, TypeOK, HeldExactly, NapiOwner, Enabled, probe_fail,
        admin_vars, link_vars, worker_vars, timer_vars
  <2> QED BY <2>1, <2>2, <2>3, <2>4 DEF IInv
<1>4. CASE probe_unwind
  <2>1. HeldExactly'
    BY <1>4, ListLengths, UnwindStep, FirstAndLast
    DEF IInv, TypeOK, HeldExactly, Bound, Enabled, probe_unwind, Release,
        edunic_hw_emulation_uninit, admin_vars, link_vars, worker_vars,
        timer_vars
  <2>2. TypeOK'
    BY <1>4, <2>1, ListLengths, UnwindStep, FirstAndLast
    DEF IInv, TypeOK, HeldExactly, probe_unwind, Release,
        edunic_hw_emulation_uninit, admin_vars, link_vars, worker_vars,
        timer_vars
  <2>3. Contexts'
    BY <1>4, ListLengths, UnwindStep, FirstAndLast
    DEF IInv, HeldExactly, Contexts, Bound, Enabled, probe_unwind,
        Release, edunic_hw_emulation_uninit, admin_vars, link_vars,
        worker_vars, timer_vars
  <2>4. NapiOwner'
    BY <1>4, ListLengths, UnwindStep, FirstAndLast
    DEF IInv, TypeOK, HeldExactly, NapiOwner, Enabled, probe_unwind,
        Release, edunic_hw_emulation_uninit, admin_vars, link_vars,
        worker_vars, timer_vars
  <2> QED BY <2>1, <2>2, <2>3, <2>4 DEF IInv
<1>5. CASE probe_return
  <2>1. HeldExactly'
    BY <1>5, ListLengths, UnwindStep, FirstAndLast
    DEF IInv, TypeOK, HeldExactly, Bound, Enabled, probe_return,
        admin_vars, link_vars, worker_vars, timer_vars
  <2>2. TypeOK'
    BY <1>5, <2>1, ListLengths, UnwindStep, FirstAndLast
    DEF IInv, TypeOK, HeldExactly, probe_return, admin_vars, link_vars,
        worker_vars, timer_vars
  <2>3. Contexts'
    BY <1>5, ListLengths, UnwindStep, FirstAndLast
    DEF IInv, HeldExactly, Contexts, Bound, Enabled, probe_return,
        admin_vars, link_vars, worker_vars, timer_vars
  <2>4. NapiOwner'
    BY <1>5, ListLengths, UnwindStep, FirstAndLast
    DEF IInv, TypeOK, HeldExactly, NapiOwner, Enabled, probe_return,
        admin_vars, link_vars, worker_vars, timer_vars
  <2> QED BY <2>1, <2>2, <2>3, <2>4 DEF IInv
<1>6. CASE open_napi_enable
  <2>1. HeldExactly'
    BY <1>6, ListLengths
    DEF IInv, TypeOK, HeldExactly, Bound, Enabled, open_napi_enable,
        AfterEnable, admin_vars, link_vars, worker_vars, timer_vars
  <2>2. TypeOK'
    BY <1>6, NapiTypes
    DEF IInv, TypeOK, open_napi_enable, admin_vars, link_vars,
        worker_vars, timer_vars
  <2>3. Contexts'
    BY <1>6
    DEF IInv, Contexts, Bound, Enabled, open_napi_enable, admin_vars,
        link_vars, worker_vars, timer_vars
  <2>4. NapiOwner'
    BY <1>6, ListLengths
    DEF IInv, NapiOwner, Enabled, open_napi_enable, AfterEnable,
        admin_vars, link_vars, worker_vars, timer_vars
  <2> QED BY <2>1, <2>2, <2>3, <2>4 DEF IInv
<1>7. CASE open_request_irq
  <2>1. HeldExactly'
    BY <1>7, ListLengths
    DEF IInv, TypeOK, HeldExactly, Bound, Enabled, open_request_irq,
        admin_vars, link_vars, worker_vars, timer_vars
  <2>2. TypeOK'
    BY <1>7
    DEF IInv, TypeOK, open_request_irq, admin_vars, link_vars,
        worker_vars, timer_vars
  <2>3. Contexts'
    BY <1>7
    DEF IInv, Contexts, Bound, Enabled, open_request_irq, admin_vars,
        link_vars, worker_vars, timer_vars
  <2>4. NapiOwner'
    BY <1>7, ListLengths
    DEF IInv, NapiOwner, Enabled, open_request_irq, admin_vars, link_vars,
        worker_vars, timer_vars
  <2> QED BY <2>1, <2>2, <2>3, <2>4 DEF IInv
<1>8. CASE open_fail
  <2>1. HeldExactly'
    BY <1>8, ListLengths
    DEF IInv, TypeOK, HeldExactly, Bound, Enabled, open_fail,
        NapiDisableBegin, admin_vars, link_vars, worker_vars, timer_vars
  <2>2. TypeOK'
    BY <1>8, NapiTypes
    DEF IInv, TypeOK, open_fail, admin_vars, link_vars, worker_vars,
        timer_vars
  <2>3. Contexts'
    BY <1>8
    DEF IInv, Contexts, Bound, Enabled, open_fail, admin_vars, link_vars,
        worker_vars, timer_vars
  <2>4. NapiOwner'
    BY <1>8, ListLengths
    DEF IInv, NapiOwner, Enabled, open_fail, NapiDisableBegin, admin_vars,
        link_vars, worker_vars, timer_vars
  <2> QED BY <2>1, <2>2, <2>3, <2>4 DEF IInv
<1>9. CASE open_fail_return
  <2>1. HeldExactly'
    BY <1>9, ListLengths
    DEF IInv, TypeOK, HeldExactly, Bound, Enabled, open_fail_return,
        NapiDisableReady, NapiDisableEnd, admin_vars, link_vars,
        worker_vars, timer_vars
  <2>2. TypeOK'
    BY <1>9, NapiTypes
    DEF IInv, TypeOK, open_fail_return, admin_vars, link_vars,
        worker_vars, timer_vars
  <2>3. Contexts'
    BY <1>9
    DEF IInv, Contexts, Bound, Enabled, open_fail_return, admin_vars,
        link_vars, worker_vars, timer_vars
  <2>4. NapiOwner'
    BY <1>9, ListLengths
    DEF IInv, NapiOwner, Enabled, open_fail_return, NapiDisableReady,
        NapiDisableEnd, admin_vars, link_vars, worker_vars, timer_vars
  <2> QED BY <2>1, <2>2, <2>3, <2>4 DEF IInv
<1>10. CASE open_start
  <2>1. HeldExactly'
    BY <1>10, ListLengths
    DEF IInv, TypeOK, HeldExactly, Bound, Enabled, open_start, admin_vars,
        link_vars, worker_vars, timer_vars
  <2>2. TypeOK'
    BY <1>10
    DEF IInv, TypeOK, open_start, admin_vars, link_vars, worker_vars,
        timer_vars
  <2>3. Contexts'
    BY <1>10
    DEF IInv, Contexts, Bound, Enabled, open_start, admin_vars, link_vars,
        worker_vars, timer_vars
  <2>4. NapiOwner'
    BY <1>10, ListLengths
    DEF IInv, NapiOwner, Enabled, open_start, admin_vars, link_vars,
        worker_vars, timer_vars
  <2> QED BY <2>1, <2>2, <2>3, <2>4 DEF IInv
<1>11. CASE stop_queue
  <2>1. HeldExactly'
    BY <1>11, ListLengths
    DEF IInv, TypeOK, HeldExactly, Bound, Enabled, stop_queue, admin_vars,
        link_vars, worker_vars, timer_vars
  <2>2. TypeOK'
    BY <1>11
    DEF IInv, TypeOK, stop_queue, admin_vars, link_vars, worker_vars,
        timer_vars
  <2>3. Contexts'
    BY <1>11
    DEF IInv, Contexts, Bound, Enabled, stop_queue, admin_vars, link_vars,
        worker_vars, timer_vars
  <2>4. NapiOwner'
    BY <1>11, ListLengths
    DEF IInv, NapiOwner, Enabled, stop_queue, admin_vars, link_vars,
        worker_vars, timer_vars
  <2> QED BY <2>1, <2>2, <2>3, <2>4 DEF IInv
<1>12. CASE stop_free_irq
  <2>1. HeldExactly'
    BY <1>12, ListLengths
    DEF IInv, TypeOK, HeldExactly, Bound, Enabled, stop_free_irq,
        NapiDisableBegin, admin_vars, link_vars, worker_vars, timer_vars
  <2>2. TypeOK'
    BY <1>12, NapiTypes
    DEF IInv, TypeOK, stop_free_irq, admin_vars, link_vars, worker_vars,
        timer_vars
  <2>3. Contexts'
    BY <1>12
    DEF IInv, Contexts, Bound, Enabled, stop_free_irq, admin_vars,
        link_vars, worker_vars, timer_vars
  <2>4. NapiOwner'
    BY <1>12, ListLengths
    DEF IInv, NapiOwner, Enabled, stop_free_irq, NapiDisableBegin,
        admin_vars, link_vars, worker_vars, timer_vars
  <2> QED BY <2>1, <2>2, <2>3, <2>4 DEF IInv
<1>13. CASE stop_napi_disable
  <2>1. HeldExactly'
    BY <1>13, ListLengths
    DEF IInv, TypeOK, HeldExactly, Bound, Enabled, stop_napi_disable,
        NapiDisableReady, NapiDisableEnd, admin_vars, link_vars,
        worker_vars, timer_vars
  <2>2. TypeOK'
    BY <1>13, NapiTypes
    DEF IInv, TypeOK, stop_napi_disable, admin_vars, link_vars,
        worker_vars, timer_vars
  <2>3. Contexts'
    BY <1>13
    DEF IInv, Contexts, Bound, Enabled, stop_napi_disable, admin_vars,
        link_vars, worker_vars, timer_vars
  <2>4. NapiOwner'
    BY <1>13, ListLengths
    DEF IInv, NapiOwner, Enabled, stop_napi_disable, NapiDisableReady,
        NapiDisableEnd, admin_vars, link_vars, worker_vars, timer_vars
  <2> QED BY <2>1, <2>2, <2>3, <2>4 DEF IInv
<1>14. CASE stop_carrier
  <2>1. HeldExactly'
    BY <1>14, ListLengths, RemovalStep, FirstAndLast
    DEF IInv, TypeOK, HeldExactly, Bound, Enabled, stop_carrier,
        admin_vars, link_vars, worker_vars, timer_vars
  <2>2. TypeOK'
    BY <1>14
    DEF IInv, TypeOK, stop_carrier, admin_vars, link_vars, worker_vars,
        timer_vars
  <2>3. Contexts'
    BY <1>14, ListFacts
    DEF IInv, HeldExactly, Contexts, Bound, Enabled, stop_carrier, admin_vars,
        link_vars, worker_vars, timer_vars
  <2>4. NapiOwner'
    BY <1>14, ListLengths, RemovalStep, FirstAndLast
    DEF IInv, NapiOwner, Enabled, stop_carrier, admin_vars, link_vars,
        worker_vars, timer_vars
  <2> QED BY <2>1, <2>2, <2>3, <2>4 DEF IInv
<1>15. CASE remove_call
  <2>1. HeldExactly'
    BY <1>15, ListLengths, RemovalStep, FirstAndLast
    DEF IInv, TypeOK, HeldExactly, Bound, Enabled, remove_call,
        admin_vars, link_vars, worker_vars, timer_vars
  <2>2. TypeOK'
    BY <1>15, <2>1, ListLengths, RemovalStep, FirstAndLast
    DEF IInv, TypeOK, HeldExactly, remove_call, admin_vars, link_vars,
        worker_vars, timer_vars
  <2>3. Contexts'
    BY <1>15, ListFacts
    DEF IInv, HeldExactly, Contexts, Bound, Enabled, remove_call,
        admin_vars, link_vars, worker_vars, timer_vars
  <2>4. NapiOwner'
    BY <1>15, ListLengths, RemovalStep, FirstAndLast
    DEF IInv, TypeOK, HeldExactly, NapiOwner, Enabled, remove_call,
        admin_vars, link_vars, worker_vars, timer_vars
  <2> QED BY <2>1, <2>2, <2>3, <2>4 DEF IInv
<1>16. CASE remove_release
  <2>1. HeldExactly'
    BY <1>16, ListLengths, RemovalStep, FirstAndLast
    DEF IInv, TypeOK, HeldExactly, Bound, Enabled, remove_release,
        Release, edunic_hw_emulation_uninit, admin_vars, link_vars,
        worker_vars, timer_vars
  <2>2. TypeOK'
    BY <1>16, <2>1, ListLengths, RemovalStep, FirstAndLast
    DEF IInv, TypeOK, HeldExactly, remove_release, Release,
        edunic_hw_emulation_uninit, admin_vars, link_vars, worker_vars,
        timer_vars
  <2>3. Contexts'
    BY <1>16, ListLengths, RemovalStep, FirstAndLast
    DEF IInv, HeldExactly, Contexts, Bound, Enabled, remove_release,
        Release, edunic_hw_emulation_uninit, admin_vars, link_vars,
        worker_vars, timer_vars
  <2>4. NapiOwner'
    BY <1>16, ListLengths, RemovalStep, FirstAndLast
    DEF IInv, TypeOK, HeldExactly, NapiOwner, Enabled, remove_release,
        Release, edunic_hw_emulation_uninit, admin_vars, link_vars,
        worker_vars, timer_vars
  <2> QED BY <2>1, <2>2, <2>3, <2>4 DEF IInv
<1>17. CASE remove_return
  <2>1. HeldExactly'
    BY <1>17, ListLengths, RemovalStep, FirstAndLast
    DEF IInv, TypeOK, HeldExactly, Bound, Enabled, remove_return,
        admin_vars, link_vars, worker_vars, timer_vars
  <2>2. TypeOK'
    BY <1>17, <2>1, ListLengths, RemovalStep, FirstAndLast
    DEF IInv, TypeOK, HeldExactly, remove_return, admin_vars, link_vars,
        worker_vars, timer_vars
  <2>3. Contexts'
    BY <1>17, ListLengths, RemovalStep, FirstAndLast
    DEF IInv, HeldExactly, Contexts, Bound, Enabled, remove_return,
        admin_vars, link_vars, worker_vars, timer_vars
  <2>4. NapiOwner'
    BY <1>17, ListLengths, RemovalStep, FirstAndLast
    DEF IInv, TypeOK, HeldExactly, NapiOwner, Enabled, remove_return,
        admin_vars, link_vars, worker_vars, timer_vars
  <2> QED BY <2>1, <2>2, <2>3, <2>4 DEF IInv
<1>18. CASE edunic_start_xmit
  <2>1. HeldExactly'
    BY <1>18, ListLengths
    DEF IInv, TypeOK, HeldExactly, Bound, Enabled, edunic_start_xmit,
        admin_vars, link_vars, worker_vars, timer_vars
  <2>2. TypeOK'
    BY <1>18
    DEF IInv, TypeOK, edunic_start_xmit, admin_vars, link_vars,
        worker_vars, timer_vars
  <2>3. Contexts'
    BY <1>18
    DEF IInv, TypeOK, Contexts, Bound, Enabled, edunic_start_xmit,
        admin_vars, link_vars, worker_vars, timer_vars
  <2>4. NapiOwner'
    BY <1>18, ListLengths
    DEF IInv, Contexts, NapiOwner, edunic_start_xmit, admin_vars,
        link_vars, worker_vars, timer_vars
  <2> QED BY <2>1, <2>2, <2>3, <2>4 DEF IInv
<1>19. CASE worker_start
  <2>1. HeldExactly'
    BY <1>19, ListLengths
    DEF IInv, TypeOK, HeldExactly, Bound, Enabled, worker_start,
        admin_vars, link_vars, worker_vars, timer_vars
  <2>2. TypeOK'
    BY <1>19
    DEF IInv, TypeOK, Contexts, worker_start, admin_vars, link_vars,
        worker_vars, timer_vars
  <2>3. Contexts'
    BY <1>19
    DEF IInv, TypeOK, Contexts, worker_start, admin_vars, link_vars,
        worker_vars, timer_vars
  <2>4. NapiOwner'
    BY <1>19, ListLengths
    DEF IInv, Contexts, NapiOwner, worker_start, admin_vars, link_vars,
        worker_vars, timer_vars
  <2> QED BY <2>1, <2>2, <2>3, <2>4 DEF IInv
<1>20. CASE worker_mark
  <2>1. HeldExactly'
    BY <1>20, ListLengths
    DEF IInv, TypeOK, HeldExactly, Bound, Enabled, worker_mark,
        admin_vars, link_vars, worker_vars, timer_vars
  <2>2. TypeOK'
    BY <1>20
    DEF IInv, TypeOK, Contexts, worker_mark, admin_vars, link_vars,
        worker_vars, timer_vars
  <2>3. Contexts'
    BY <1>20
    DEF IInv, TypeOK, Contexts, worker_mark, admin_vars, link_vars,
        worker_vars, timer_vars
  <2>4. NapiOwner'
    BY <1>20, ListLengths
    DEF IInv, Contexts, NapiOwner, worker_mark, admin_vars, link_vars,
        worker_vars, timer_vars
  <2> QED BY <2>1, <2>2, <2>3, <2>4 DEF IInv
<1>21. CASE worker_intr
  <2>1. HeldExactly'
    BY <1>21, ListLengths
    DEF IInv, TypeOK, HeldExactly, Bound, Enabled, worker_intr,
        edunic_intr, AfterSchedulePrep, napi_schedule_prep, admin_vars,
        link_vars, worker_vars, timer_vars
  <2>2. TypeOK'
    BY <1>21, NapiTypes
    DEF IInv, TypeOK, Contexts, worker_intr, edunic_intr, admin_vars,
        link_vars, worker_vars, timer_vars
  <2>3. Contexts'
    BY <1>21
    DEF IInv, TypeOK, Contexts, worker_intr, edunic_intr, admin_vars,
        link_vars, worker_vars, timer_vars
  <2>4. NapiOwner'
    BY <1>21, ListLengths
    DEF IInv, Contexts, NapiOwner, Enabled, Bound, worker_intr,
        edunic_intr, AfterSchedulePrep, napi_schedule_prep, admin_vars,
        link_vars, worker_vars, timer_vars
  <2> QED BY <2>1, <2>2, <2>3, <2>4 DEF IInv
<1>22. CASE timer_fire
  <2>1. HeldExactly'
    BY <1>22, ListLengths
    DEF IInv, TypeOK, HeldExactly, Bound, Enabled, timer_fire, admin_vars,
        link_vars, worker_vars, timer_vars
  <2>2. TypeOK'
    BY <1>22
    DEF IInv, TypeOK, timer_fire, admin_vars, link_vars, worker_vars,
        timer_vars
  <2>3. Contexts'
    BY <1>22
    DEF IInv, Contexts, timer_fire, admin_vars, link_vars, worker_vars,
        timer_vars
  <2>4. NapiOwner'
    BY <1>22, ListLengths
    DEF IInv, Contexts, NapiOwner, timer_fire, admin_vars, link_vars,
        worker_vars, timer_vars
  <2> QED BY <2>1, <2>2, <2>3, <2>4 DEF IInv
<1>23. CASE timer_intr
  <2>1. HeldExactly'
    BY <1>23, ListLengths
    DEF IInv, TypeOK, HeldExactly, Bound, Enabled, timer_intr,
        edunic_intr, AfterSchedulePrep, napi_schedule_prep, admin_vars,
        link_vars, worker_vars, timer_vars
  <2>2. TypeOK'
    BY <1>23, NapiTypes
    DEF IInv, TypeOK, timer_intr, edunic_intr, admin_vars, link_vars,
        worker_vars, timer_vars
  <2>3. Contexts'
    BY <1>23
    DEF IInv, Contexts, timer_intr, edunic_intr, admin_vars, link_vars,
        worker_vars, timer_vars
  <2>4. NapiOwner'
    BY <1>23, ListLengths
    DEF IInv, Contexts, NapiOwner, Enabled, Bound, timer_intr,
        edunic_intr, AfterSchedulePrep, napi_schedule_prep, admin_vars,
        link_vars, worker_vars, timer_vars
  <2> QED BY <2>1, <2>2, <2>3, <2>4 DEF IInv
<1>24. CASE poll_clean
  <2>1. HeldExactly'
    BY <1>24, ListLengths
    DEF IInv, TypeOK, HeldExactly, Bound, Enabled, poll_clean, admin_vars,
        link_vars, worker_vars, timer_vars
  <2>2. TypeOK'
    BY <1>24
    DEF IInv, TypeOK, poll_clean, admin_vars, link_vars, worker_vars,
        timer_vars
  <2>3. Contexts'
    BY <1>24
    DEF IInv, Contexts, poll_clean, admin_vars, link_vars, worker_vars,
        timer_vars
  <2>4. NapiOwner'
    BY <1>24, ListLengths
    DEF IInv, Contexts, NapiOwner, poll_clean, admin_vars, link_vars,
        worker_vars, timer_vars
  <2> QED BY <2>1, <2>2, <2>3, <2>4 DEF IInv
<1>25. CASE poll_complete
  <2>1. HeldExactly'
    BY <1>25, ListLengths
    DEF IInv, TypeOK, HeldExactly, Bound, Enabled, poll_complete,
        AfterCompleteDone, napi_complete_done, admin_vars, link_vars,
        worker_vars, timer_vars
  <2>2. TypeOK'
    BY <1>25, NapiTypes
    DEF IInv, TypeOK, poll_complete, admin_vars, link_vars, worker_vars,
        timer_vars
  <2>3. Contexts'
    BY <1>25
    DEF IInv, Contexts, poll_complete, admin_vars, link_vars, worker_vars,
        timer_vars
  <2>4. NapiOwner'
    BY <1>25
    DEF IInv, NapiOwner, Enabled, poll_complete, AfterCompleteDone,
        napi_complete_done, admin_vars, link_vars, worker_vars, timer_vars
  <2> QED BY <2>1, <2>2, <2>3, <2>4 DEF IInv
<1>26. CASE poll_again
  <2>1. HeldExactly'
    BY <1>26, ListLengths
    DEF IInv, TypeOK, HeldExactly, Bound, Enabled, poll_again, admin_vars,
        link_vars, worker_vars, timer_vars
  <2>2. TypeOK'
    BY <1>26
    DEF IInv, TypeOK, poll_again, admin_vars, link_vars, worker_vars,
        timer_vars
  <2>3. Contexts'
    BY <1>26
    DEF IInv, Contexts, poll_again, admin_vars, link_vars, worker_vars,
        timer_vars
  <2>4. NapiOwner'
    BY <1>26, ListLengths
    DEF IInv, Contexts, NapiOwner, poll_again, admin_vars, link_vars,
        worker_vars, timer_vars
  <2> QED BY <2>1, <2>2, <2>3, <2>4 DEF IInv
<1>27. CASE UNCHANGED vars
  <2>1. HeldExactly'
    BY <1>27 DEF vars, admin_vars, link_vars, worker_vars, timer_vars,
        IInv, HeldExactly
  <2>2. TypeOK'
    BY <1>27 DEF vars, admin_vars, link_vars, worker_vars, timer_vars,
        IInv, TypeOK
  <2>3. Contexts'
    BY <1>27 DEF vars, admin_vars, link_vars, worker_vars, timer_vars,
        IInv, Contexts
  <2>4. NapiOwner'
    BY <1>27 DEF vars, admin_vars, link_vars, worker_vars, timer_vars,
        IInv, NapiOwner
  <2> QED BY <2>1, <2>2, <2>3, <2>4 DEF IInv
<1> QED
  BY <1>1, <1>2, <1>3, <1>4, <1>5, <1>6, <1>7, <1>8, <1>9, <1>10, <1>11,
      <1>12, <1>13, <1>14, <1>15, <1>16, <1>17, <1>18, <1>19, <1>20, <1>21,
      <1>22, <1>23, <1>24, <1>25, <1>26, <1>27
  DEF Next, request, admin_step, edunic_hw_tx_worker, edunic_link_timer_fn,
      edunic_poll

\* The inductive invariant: what is held, what runs and who owns NAPI agree with
\* the position of the RTNL thread.
THEOREM InductiveInvariant == Spec => []IInv
<1>1. Init => IInv
  BY CapacityAssumption
  DEF Init, IInv, TypeOK, HeldExactly, Contexts, NapiOwner, Bound, Enabled,
      NapiFlags
<1> QED BY <1>1, InvStep, PTL DEF Spec

\* Every variable keeps its type and the two counters never exceed the ring.
THEOREM TypeCorrect == Spec => []TypeOK
BY InductiveInvariant, PTL DEF IInv

\* No worker, timer callback or poll runs, or is still to run, without everything
\* it touches (nic_hw.c:411, nic_pci.c).
THEOREM NoUseAfterFreeHolds == Spec => []NoUseAfterFree
<1>1. IInv => NoUseAfterFree
  BY ListFacts, RemovalStep, RemovalTable
  DEF IInv, TypeOK, HeldExactly, Contexts, NapiOwner, NoUseAfterFree, Bound,
      Enabled
<1> QED BY <1>1, InductiveInvariant, PTL

\* The error path of probe and remove release exactly what was acquired, each
\* thing once (nic_pci.c:233).
THEOREM ExactUnwindHolds == Spec => []ExactUnwind
<1>1. IInv => ExactUnwind
  BY ListFacts, UnwindStep, RemovalStep DEF IInv, HeldExactly, ExactUnwind
<1> QED BY <1>1, InductiveInvariant, PTL

\* napi_enable() meets only a disabled instance, and no poll outlives
\* napi_disable() (nic_irq.c:223).
THEOREM NapiBalancedHolds == Spec => []NapiBalanced
<1>1. IInv => NapiBalanced
  BY DEF IInv, NapiOwner, NapiBalanced, Enabled
<1> QED BY <1>1, InductiveInvariant, PTL
==============================================================================
