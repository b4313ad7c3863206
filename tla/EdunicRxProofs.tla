--------------------------- MODULE EdunicRxProofs ---------------------------
(***************************************************************************)
(* Proofs about EdunicRx, for every ring size N >= 2, every NAPI budget    *)
(* and every set of frames.                                                *)
(***************************************************************************)
EXTENDS EdunicRx, RingLemmas, TLAPS

\* Indices stay in the ring and distances are below N: the arithmetic of
\* "& EDUNIC_RING_MASK" in nic_rx.c.
LEMMA RingArithmetic ==
  /\ 0 \in Slot
  /\ \A s \in Slot : Succ(s) \in Slot
  /\ \A a, b \in Slot : Dist(a, b) \in 0 .. N - 1
  /\ \A a, b \in Slot : Dist(a, b) = 0 <=> a = b
BY RingAssumption DEF Slot, Succ, Dist

\* Distances along the ring add up, and one step changes them by one.
LEMMA DistanceSteps ==
  /\ \A a, b, s \in Slot :
       Dist(a, b) <= Dist(a, s) => Dist(b, s) = Dist(a, s) - Dist(a, b)
  /\ \A a, b \in Slot :
       Dist(a, b) < N - 1 => Dist(a, Succ(b)) = Dist(a, b) + 1
  /\ \A a, b \in Slot : a # b => Dist(Succ(a), b) = Dist(a, b) - 1
BY RingAssumption DEF Slot, Succ, Dist

\* The initial posting of edunic_alloc_rx_buffers() satisfies the ring invariant.
LEMMA RingInit == Init => RingInv
BY RingAssumption, BudgetAssumption, FrameAssumption
DEF Init, RingInv, TypeOK, RingOrder, SlotState, D, Dist, Oldest, Written,
    Posted, Slot

\* Every step of the device, the interrupt and the poll keeps the ring invariant.
LEMMA RingStep == RingInv /\ [Next]_vars => RingInv'
<1> SUFFICES ASSUME RingInv, [Next]_vars PROVE RingInv'
  OBVIOUS
<1> USE RingAssumption, BudgetAssumption, FrameAssumption
<1>1. ASSUME NEW f \in Frame, deliver_rx_frame(f) PROVE RingInv'
  <2>1. TypeOK'
    BY <1>1, RingArithmetic
    DEF RingInv, TypeOK, deliver_rx_frame, worker_vars, poll_vars
  <2>2. RingOrder'
    BY <1>1
    DEF RingInv, TypeOK, RingOrder, SlotState, D, Dist, Succ, Oldest, Written,
        Posted, Slot, deliver_rx_frame, worker_vars, poll_vars
  <2>3. SlotState'
    BY <1>1
    DEF RingInv, TypeOK, RingOrder, SlotState, D, Dist, Succ, Oldest, Written,
        Posted, Slot, deliver_rx_frame, worker_vars, poll_vars
  <2> QED BY <2>1, <2>2, <2>3 DEF RingInv
<1>2. CASE deliver_write
  <2>1. TypeOK'
    BY <1>2, RingArithmetic
    DEF RingInv, TypeOK, RingOrder, SlotState, Oldest, Posted, Written,
        deliver_write, worker_vars, poll_vars
  <2>2. RingOrder'
    BY <1>2
    DEF RingInv, TypeOK, RingOrder, SlotState, D, Dist, Succ, Oldest, Written,
        Posted, Slot, deliver_write, worker_vars, poll_vars
  <2>3. SlotState'
    BY <1>2
    DEF RingInv, TypeOK, RingOrder, SlotState, D, Dist, Succ, Oldest, Written,
        Posted, Slot, deliver_write, worker_vars, poll_vars
  <2> QED BY <2>1, <2>2, <2>3 DEF RingInv
<1>3. CASE deliver_status
  <2>1. TypeOK'
    BY <1>3, RingArithmetic
    DEF RingInv, TypeOK, deliver_status, worker_vars, poll_vars
  <2>2. RingOrder'
    BY <1>3
    DEF RingInv, TypeOK, RingOrder, SlotState, D, Dist, Succ, Oldest, Written,
        Posted, Slot, deliver_status, worker_vars, poll_vars
  <2>3. SlotState'
    BY <1>3
    DEF RingInv, TypeOK, RingOrder, SlotState, D, Dist, Succ, Oldest, Written,
        Posted, Slot, deliver_status, worker_vars, poll_vars
  <2> QED BY <2>1, <2>2, <2>3 DEF RingInv
<1>4. CASE deliver_advance
  <2>1. TypeOK'
    BY <1>4, RingArithmetic
    DEF RingInv, TypeOK, deliver_advance, worker_vars, poll_vars
  <2>2. RingOrder'
    BY <1>4
    DEF RingInv, TypeOK, RingOrder, SlotState, D, Dist, Succ, Oldest, Written,
        Posted, Slot, deliver_advance, worker_vars, poll_vars
  <2>3. SlotState'
    BY <1>4
    DEF RingInv, TypeOK, RingOrder, SlotState, D, Dist, Succ, Oldest, Written,
        Posted, Slot, deliver_advance, worker_vars, poll_vars
  <2> QED BY <2>1, <2>2, <2>3 DEF RingInv
<1>5. CASE worker_raise
  <2>1. TypeOK'
    BY <1>5, RingArithmetic
    DEF RingInv, TypeOK, worker_raise, worker_vars, poll_vars
  <2>2. RingOrder'
    BY <1>5
    DEF RingInv, TypeOK, RingOrder, SlotState, D, Dist, Succ, Oldest, Written,
        Posted, Slot, worker_raise, worker_vars, poll_vars
  <2>3. SlotState'
    BY <1>5
    DEF RingInv, TypeOK, RingOrder, SlotState, D, Dist, Succ, Oldest, Written,
        Posted, Slot, worker_raise, worker_vars, poll_vars
  <2> QED BY <2>1, <2>2, <2>3 DEF RingInv
<1>6. CASE edunic_intr
  <2>1. TypeOK'
    BY <1>6, RingArithmetic
    DEF RingInv, TypeOK, edunic_intr, AfterSchedulePrep, worker_vars,
        poll_vars
  <2>2. RingOrder'
    BY <1>6
    DEF RingInv, TypeOK, RingOrder, SlotState, D, Dist, Succ, Oldest, Written,
        Posted, Slot, edunic_intr, AfterSchedulePrep, worker_vars, poll_vars
  <2>3. SlotState'
    BY <1>6
    DEF RingInv, TypeOK, RingOrder, SlotState, D, Dist, Succ, Oldest, Written,
        Posted, Slot, edunic_intr, AfterSchedulePrep, worker_vars, poll_vars
  <2> QED BY <2>1, <2>2, <2>3 DEF RingInv
<1>7. CASE poll_start
  <2>1. TypeOK'
    BY <1>7, RingArithmetic
    DEF RingInv, TypeOK, poll_start, worker_vars, poll_vars
  <2>2. RingOrder'
    BY <1>7
    DEF RingInv, TypeOK, RingOrder, SlotState, D, Dist, Succ, Oldest, Written,
        Posted, Slot, poll_start, worker_vars, poll_vars
  <2>3. SlotState'
    BY <1>7
    DEF RingInv, TypeOK, RingOrder, SlotState, D, Dist, Succ, Oldest, Written,
        Posted, Slot, poll_start, worker_vars, poll_vars
  <2> QED BY <2>1, <2>2, <2>3 DEF RingInv
<1>8. CASE clean_rx_slot
  <2>1. TypeOK'
    BY <1>8, RingArithmetic
    DEF RingInv, TypeOK, RingOrder, SlotState, Oldest, Posted, Written,
        clean_rx_slot, Harvestable, worker_vars, poll_vars
  <2>2. RingOrder'
    BY <1>8
    DEF RingInv, TypeOK, RingOrder, SlotState, D, Dist, Succ, Oldest, Written,
        Posted, Slot, clean_rx_slot, Harvestable, worker_vars, poll_vars
  <2>3. SlotState'
    BY <1>8
    DEF RingInv, TypeOK, RingOrder, SlotState, D, Dist, Succ, Oldest, Written,
        Posted, Slot, clean_rx_slot, Harvestable, worker_vars, poll_vars
  <2> QED BY <2>1, <2>2, <2>3 DEF RingInv
<1>9. CASE clean_rx_end
  <2>1. TypeOK'
    BY <1>9, RingArithmetic
    DEF RingInv, TypeOK, clean_rx_end, Harvestable, worker_vars, poll_vars
  <2>2. RingOrder'
    BY <1>9
    DEF RingInv, TypeOK, RingOrder, SlotState, D, Dist, Succ, Oldest, Written,
        Posted, Slot, clean_rx_end, Harvestable, worker_vars, poll_vars
  <2>3. SlotState'
    BY <1>9
    DEF RingInv, TypeOK, RingOrder, SlotState, D, Dist, Succ, Oldest, Written,
        Posted, Slot, clean_rx_end, Harvestable, worker_vars, poll_vars
  <2> QED BY <2>1, <2>2, <2>3 DEF RingInv
<1>10. CASE alloc_rx_slot
  <2>1. TypeOK'
    BY <1>10, RingArithmetic
    DEF RingInv, TypeOK, RingOrder, SlotState, Oldest, Posted, Written,
        alloc_rx_slot, worker_vars, poll_vars
  <2>2. RingOrder'
    BY <1>10
    DEF RingInv, TypeOK, RingOrder, SlotState, D, Dist, Succ, Oldest, Written,
        Posted, Slot, alloc_rx_slot, worker_vars, poll_vars
  <2>3. SlotState'
    BY <1>10
    DEF RingInv, TypeOK, RingOrder, SlotState, D, Dist, Succ, Oldest, Written,
        Posted, Slot, alloc_rx_slot, worker_vars, poll_vars
  <2> QED BY <2>1, <2>2, <2>3 DEF RingInv
<1>11. CASE alloc_rx_fail
  <2>1. TypeOK'
    BY <1>11, RingArithmetic
    DEF RingInv, TypeOK, alloc_rx_fail, worker_vars, poll_vars
  <2>2. RingOrder'
    BY <1>11
    DEF RingInv, TypeOK, RingOrder, SlotState, D, Dist, Succ, Oldest, Written,
        Posted, Slot, alloc_rx_fail, worker_vars, poll_vars
  <2>3. SlotState'
    BY <1>11
    DEF RingInv, TypeOK, RingOrder, SlotState, D, Dist, Succ, Oldest, Written,
        Posted, Slot, alloc_rx_fail, worker_vars, poll_vars
  <2> QED BY <2>1, <2>2, <2>3 DEF RingInv
<1>12. CASE alloc_rx_end
  <2>1. TypeOK'
    BY <1>12, RingArithmetic
    DEF RingInv, TypeOK, alloc_rx_end, worker_vars, poll_vars
  <2>2. RingOrder'
    BY <1>12
    DEF RingInv, TypeOK, RingOrder, SlotState, D, Dist, Succ, Oldest, Written,
        Posted, Slot, alloc_rx_end, worker_vars, poll_vars
  <2>3. SlotState'
    BY <1>12
    DEF RingInv, TypeOK, RingOrder, SlotState, D, Dist, Succ, Oldest, Written,
        Posted, Slot, alloc_rx_end, worker_vars, poll_vars
  <2> QED BY <2>1, <2>2, <2>3 DEF RingInv
<1>13. CASE poll_again
  <2>1. TypeOK'
    BY <1>13, RingArithmetic
    DEF RingInv, TypeOK, poll_again, worker_vars, poll_vars
  <2>2. RingOrder'
    BY <1>13
    DEF RingInv, TypeOK, RingOrder, SlotState, D, Dist, Succ, Oldest, Written,
        Posted, Slot, poll_again, worker_vars, poll_vars
  <2>3. SlotState'
    BY <1>13
    DEF RingInv, TypeOK, RingOrder, SlotState, D, Dist, Succ, Oldest, Written,
        Posted, Slot, poll_again, worker_vars, poll_vars
  <2> QED BY <2>1, <2>2, <2>3 DEF RingInv
<1>14. CASE poll_complete
  <2>1. TypeOK'
    BY <1>14, RingArithmetic
    DEF RingInv, TypeOK, poll_complete, AfterCompleteDone, worker_vars,
        poll_vars
  <2>2. RingOrder'
    BY <1>14
    DEF RingInv, TypeOK, RingOrder, SlotState, D, Dist, Succ, Oldest, Written,
        Posted, Slot, poll_complete, AfterCompleteDone, worker_vars, poll_vars
  <2>3. SlotState'
    BY <1>14
    DEF RingInv, TypeOK, RingOrder, SlotState, D, Dist, Succ, Oldest, Written,
        Posted, Slot, poll_complete, AfterCompleteDone, worker_vars, poll_vars
  <2> QED BY <2>1, <2>2, <2>3 DEF RingInv
<1>15. CASE UNCHANGED vars
  BY <1>15
  DEF vars, worker_vars, poll_vars, RingInv, TypeOK, RingOrder, SlotState,
      D, Dist, Succ, Oldest, Written, Posted, Slot
<1> QED
  BY <1>1, <1>2, <1>3, <1>4, <1>5, <1>6, <1>7, <1>8, <1>9, <1>10, <1>11,
     <1>12, <1>13, <1>14, <1>15
  DEF Next, device, edunic_poll

\* The ring invariant of the receive path: indices in pipeline order, DD and the
\* buffers agreeing with them.
THEOREM RingInvariant == Spec => []RingInv
BY RingInit, RingStep, PTL DEF Spec

\* Every step keeps every stored frame in somebody's hands.
LEMMA WakeStep == RingInv /\ WakeInv /\ [Next]_vars => WakeInv'
<1> SUFFICES ASSUME RingInv, WakeInv, [Next]_vars PROVE WakeInv'
  OBVIOUS
<1> USE RingAssumption, BudgetAssumption, FrameAssumption
<1>1. ASSUME NEW f \in Frame, deliver_rx_frame(f) PROVE WakeInv'
  BY <1>1
  DEF WakeInv, deliver_rx_frame, worker_vars, poll_vars, RingInv, TypeOK
<1>2. CASE deliver_write
  BY <1>2
  DEF WakeInv, deliver_write, worker_vars, poll_vars, RingInv, TypeOK
<1>3. CASE deliver_status
  BY <1>3
  DEF WakeInv, deliver_status, worker_vars, poll_vars, RingInv, TypeOK,
      RingOrder, SlotState, D, Dist, Succ, Oldest, Written, Posted, Slot
<1>4. CASE deliver_advance
  BY <1>4
  DEF WakeInv, deliver_advance, worker_vars, poll_vars, RingInv, TypeOK
<1>5. CASE worker_raise
  BY <1>5
  DEF WakeInv, worker_raise, worker_vars, poll_vars, RingInv, TypeOK
<1>6. CASE edunic_intr
  BY <1>6
  DEF WakeInv, edunic_intr, AfterSchedulePrep, worker_vars, poll_vars,
      RingInv, TypeOK
<1>7. CASE poll_start
  BY <1>7
  DEF WakeInv, poll_start, worker_vars, poll_vars, RingInv, TypeOK
<1>8. CASE clean_rx_slot
  BY <1>8
  DEF WakeInv, clean_rx_slot, Harvestable, worker_vars, poll_vars, RingInv,
      TypeOK, RingOrder, SlotState, D, Dist, Succ, Oldest, Written, Posted,
      Slot
<1>9. CASE clean_rx_end
  <2>1. \A s \in Slot : s \in done => i \in done
    <3>1. Oldest = i /\ i \in Slot /\ Written \in Slot
      BY <1>9, RingArithmetic
      DEF clean_rx_end, RingInv, TypeOK, Oldest, Written
    <3>2. \A s \in Slot : D(s) \in Int
      BY RingArithmetic DEF RingInv, TypeOK, D
    <3> QED BY <3>1, <3>2 DEF RingInv, SlotState
  <2>2. done # {} => i \in done
    BY <2>1 DEF RingInv, TypeOK
  <2>3. done # {} => work_done >= Budget
    BY <1>9, <2>2 DEF clean_rx_end, Harvestable, RingInv, TypeOK
  <2> QED
    BY <1>9, <2>3 DEF WakeInv, clean_rx_end, worker_vars, poll_vars
<1>10. CASE alloc_rx_slot
  BY <1>10
  DEF WakeInv, alloc_rx_slot, worker_vars, poll_vars, RingInv, TypeOK,
      RingOrder, SlotState, D, Dist, Succ, Oldest, Written, Posted, Slot
<1>11. CASE alloc_rx_fail
  BY <1>11
  DEF WakeInv, alloc_rx_fail, worker_vars, poll_vars, RingInv, TypeOK
<1>12. CASE alloc_rx_end
  BY <1>12
  DEF WakeInv, alloc_rx_end, worker_vars, poll_vars, RingInv, TypeOK
<1>13. CASE poll_again
  BY <1>13
  DEF WakeInv, poll_again, worker_vars, poll_vars, RingInv, TypeOK
<1>14. CASE poll_complete
  BY <1>14
  DEF WakeInv, poll_complete, AfterCompleteDone, worker_vars, poll_vars,
      RingInv, TypeOK
<1>15. CASE UNCHANGED vars
  BY <1>15 DEF vars, worker_vars, poll_vars, WakeInv
<1> QED
  BY <1>1, <1>2, <1>3, <1>4, <1>5, <1>6, <1>7, <1>8, <1>9, <1>10, <1>11,
     <1>12, <1>13, <1>14, <1>15
  DEF Next, device, edunic_poll

\* The full inductive invariant: descriptors, buffers and indices agree, and every
\* stored frame has an agent that will fetch it (nic_rx.c and nic_irq.c together).
THEOREM InductiveInvariant == Spec => []IInv
<1>1. Init => IInv
  BY RingInit DEF Init, IInv, WakeInv
<1>2. IInv /\ [Next]_vars => IInv'
  BY RingStep, WakeStep DEF IInv
<1> QED BY <1>1, <1>2, PTL DEF Spec

\* Every variable of the receive path keeps its type; the budget bounds
\* cleaned_count and work_done.
THEOREM TypeCorrect == Spec => []TypeOK
BY RingInvariant, PTL DEF RingInv

\* The device writes only into a posted, empty buffer, the harvest takes only a
\* written one and the refill overwrites none (nic_rx.c:327, nic_hw.c).
THEOREM BufferOwnershipHolds == Spec => []BufferOwnership
<1>1. RingInv => BufferOwnership
  BY RingAssumption, FrameAssumption
  DEF RingInv, TypeOK, RingOrder, SlotState, BufferOwnership, Harvestable, D,
      Dist, Oldest, Written, Posted, Slot
<1> QED BY <1>1, RingInvariant, PTL

\* No interleaving of the device, its interrupt and the poll leaves a stored frame
\* behind once everything has come to rest (nic_irq.c:83, nic_irq.c:134).
THEOREM NoForgottenFrameHolds == Spec => []NoForgottenFrame
<1>1. IInv => NoForgottenFrame
  BY DEF IInv, WakeInv, NoForgottenFrame, Quiescent
<1> QED BY <1>1, InductiveInvariant, PTL

-----------------------------------------------------------------------------
(* The receive path implements the queue of RxFifo.                        *)

\* The stored frames are a window of the ring.
LEMMA StoredIsWindow ==
  Stored = Window(N, buf, Oldest, Dist(Oldest, Written))
BY DEF Stored, Window, Wrap, Written

\* Walking forward from a by Dist(a, s) arrives at s.
LEMMA WalkDistance ==
  \A a, s \in Slot : Wrap(N, a + Dist(a, s)) = s
BY RingAssumption DEF Slot, Wrap, Dist

\* The indices of the mapping are slots, and the window is the done slots.
LEMMA StoredSlots ==
  ASSUME RingInv
  PROVE  /\ Oldest \in Slot /\ Written \in Slot
         /\ Dist(Oldest, Written) \in 0 .. N - 1
         /\ \A k \in 1 .. Dist(Oldest, Written) :
              Wrap(N, Oldest + k - 1) \in done
<1>1. Oldest \in Slot /\ Written \in Slot
  BY RingArithmetic DEF RingInv, TypeOK, Oldest, Written
<1>2. Dist(Oldest, Written) \in 0 .. N - 1
  BY <1>1, RingArithmetic
<1>3. ASSUME NEW k \in 1 .. Dist(Oldest, Written)
      PROVE  Wrap(N, Oldest + k - 1) \in done
  <2> DEFINE s == Wrap(N, Oldest + k - 1)
  <2>1. s \in Slot
    BY <1>1, <1>2, RingAssumption DEF Wrap, Slot
  <2>2. D(Oldest) <= D(s) /\ D(s) < D(Written)
    BY <1>1, <1>2, RingAssumption
    DEF RingInv, TypeOK, RingOrder, D, Dist, Wrap, Slot
  <2> QED BY <2>1, <2>2 DEF RingInv, SlotState
<1> QED BY <1>1, <1>2, <1>3

\* A step that keeps the two indices and the contents of the done slots is a
\* stuttering step of the queue.
LEMMA QueueStutter ==
  ASSUME RingInv, Oldest' = Oldest, Written' = Written, up' = up,
         \A s \in done : buf'[s] = buf[s]
  PROVE  UNCHANGED Fifo!rx_fifo_vars
<1> DEFINE n == Dist(Oldest, Written)
<1>1. Stored' = Window(N, buf', Oldest, n)
  BY DEF Stored, Window, Wrap, Written
<1>2. \A k \in 1 .. n :
        buf'[Wrap(N, Oldest + k - 1)] = buf[Wrap(N, Oldest + k - 1)]
  BY StoredSlots
<1>3. Window(N, buf', Oldest, n) = Window(N, buf, Oldest, n)
  BY <1>2 DEF Window
<1> QED BY <1>1, <1>3, StoredIsWindow DEF Fifo!rx_fifo_vars

\* Every step of the receive path is a step of the queue or leaves it alone: the
\* status write stores a frame, one turn of the harvest hands the oldest one up.
LEMMA QueueStep ==
  RingInv /\ [Next]_vars => [Fifo!Next]_(Fifo!rx_fifo_vars)
<1> SUFFICES ASSUME RingInv, [Next]_vars
             PROVE  [Fifo!Next]_(Fifo!rx_fifo_vars)
  OBVIOUS
<1> USE RingAssumption, FrameAssumption
<1>1. ASSUME NEW f \in Frame, deliver_rx_frame(f)
      PROVE  UNCHANGED Fifo!rx_fifo_vars
  BY <1>1, QueueStutter DEF deliver_rx_frame, poll_vars, Oldest, Written
<1>2. CASE deliver_write
  <2>1. /\ UNCHANGED <<Oldest, Written, up>>
        /\ buf' = [buf EXCEPT ![RDH] = frame]
    BY <1>2 DEF deliver_write, poll_vars, Oldest, Written
  <2>2. RDH \notin done
    BY <1>2 DEF deliver_write, RingInv, TypeOK, SlotState, Written, D, Dist, Slot
  <2>3. \A s \in done : buf'[s] = buf[s]
    BY <2>1, <2>2 DEF RingInv, TypeOK
  <2> QED BY <2>1, <2>3, QueueStutter
<1>3. CASE deliver_status
  <2> DEFINE n == Dist(Oldest, Written)
  <2>1. /\ Written = RDH /\ Written' = Succ(RDH) /\ RDH # next_to_use
        /\ UNCHANGED <<Oldest, buf, up>>
    BY <1>3
    DEF deliver_status, poll_vars, Oldest, Written, RingInv, RingOrder
  <2>2. n \in 0 .. N - 2 /\ Dist(Oldest, Succ(RDH)) = n + 1
    <3>1. D(Oldest) <= D(RDH) /\ D(RDH) < D(next_to_use)
      <4>1. D(RDH) # D(next_to_use)
        BY <2>1 DEF RingInv, TypeOK, D, Dist, Slot
      <4> QED BY <2>1, <4>1, RingArithmetic DEF RingInv, TypeOK, RingOrder, D
    <3>2. n = D(RDH) - D(Oldest)
      BY <2>1, <3>1, StoredSlots, DistanceSteps DEF RingInv, TypeOK, D
    <3>3. D(Oldest) \in Nat /\ D(next_to_use) \in 0 .. N - 1 /\ D(RDH) \in Nat
      BY StoredSlots, RingArithmetic DEF RingInv, TypeOK, D
    <3> HIDE DEF n
    <3>4. n \in 0 .. N - 2
      BY <3>1, <3>2, <3>3
    <3> QED BY <2>1, <3>4, StoredSlots, DistanceSteps DEF n
  <2>3. buf[RDH] \in Frame
    BY <1>3 DEF deliver_status, RingInv, TypeOK, SlotState
  <2>4. Wrap(N, Oldest + n) = RDH
    BY <2>1, StoredSlots, WalkDistance
  <2>5. Oldest \in 0 .. N - 1 /\ N \in Nat
    BY StoredSlots DEF Slot
  <2>6. Window(N, buf, Oldest, n + 1)
          = Append(Window(N, buf, Oldest, n), buf[RDH])
    <3>1. n \in 0 .. N - 1
      BY <2>2, <2>5
    <3> HIDE DEF n
    <3>2. Window(N, buf, Oldest, n + 1)
            = Append(Window(N, buf, Oldest, n), buf[Wrap(N, Oldest + n)])
      BY <2>5, <3>1, WindowGrow
    <3> QED BY <2>4, <3>2
  <2>7. Stored' = Window(N, buf, Oldest, n + 1)
    BY <2>1, <2>2 DEF Stored, Window, Wrap, Written
  <2>8. Len(Stored) < N - 1
    BY <2>2, <2>5, StoredIsWindow, WindowLength
  <2>9. Fifo!Store(buf[RDH])
    BY <2>1, <2>6, <2>7, <2>8, StoredIsWindow DEF Fifo!Store
  <2> QED BY <2>3, <2>9 DEF Fifo!Next
<1>4. CASE deliver_advance
  BY <1>4, QueueStutter
  DEF deliver_advance, worker_vars, poll_vars, Oldest, Written
<1>5. CASE worker_raise
  BY <1>5, QueueStutter
  DEF worker_raise, worker_vars, poll_vars, Oldest, Written
<1>6. CASE edunic_intr
  BY <1>6, QueueStutter
  DEF edunic_intr, worker_vars, poll_vars, Oldest, Written
<1>7. CASE poll_start
  BY <1>7, QueueStutter
  DEF poll_start, worker_vars, poll_vars, Oldest, Written
<1>8. CASE clean_rx_slot
  <2> DEFINE n == Dist(Oldest, Written)
  <2>1. /\ Oldest = i /\ Oldest' = Succ(i) /\ i \in done
        /\ up' = buf[i] /\ buf' = [buf EXCEPT ![i] = NULL]
        /\ UNCHANGED Written
    BY <1>8
    DEF clean_rx_slot, Harvestable, worker_vars, poll_vars, Oldest, Written
  <2>2. n \in 1 .. N - 1 /\ Dist(Succ(i), Written) = n - 1
    <3>1. i # Written
      BY <2>1, RingArithmetic DEF RingInv, TypeOK, SlotState, D
    <3>2. i \in Slot /\ Written \in Slot /\ n = Dist(i, Written)
      BY <2>1, StoredSlots
    <3>3. n \in 1 .. N - 1
      BY <3>1, <3>2, RingArithmetic
    <3> QED BY <3>1, <3>2, <3>3, DistanceSteps
  <2>3. i \in 0 .. N - 1 /\ N \in Nat /\ Succ(i) = Wrap(N, i + 1)
    BY <2>1, StoredSlots DEF Slot, Succ, Wrap
  <2>4. \A k \in 1 .. n - 1 :
          buf'[Wrap(N, Succ(i) + k - 1)] = buf[Wrap(N, Succ(i) + k - 1)]
    BY <2>1, <2>2, <2>3 DEF RingInv, TypeOK, Wrap, Succ, Slot
  <2>5. Window(N, buf', Succ(i), n - 1) = Window(N, buf, Succ(i), n - 1)
    BY <2>4 DEF Window
  <2>6. n \in 1 .. N
    BY <2>2
  <2>7. Stored' = Window(N, buf', Succ(i), n - 1)
    BY <2>1, <2>2 DEF Stored, Window, Wrap, Written
  <2> HIDE DEF n
  <2>8. /\ Window(N, buf, i, n) # <<>>
        /\ Head(Window(N, buf, i, n)) = buf[i]
        /\ Window(N, buf, Wrap(N, i + 1), n - 1) = Tail(Window(N, buf, i, n))
    BY <2>3, <2>6, WindowDrop
  <2>9. Fifo!HandUp
    BY <2>1, <2>3, <2>5, <2>7, <2>8, StoredIsWindow DEF Fifo!HandUp, n
  <2> QED BY <2>9 DEF Fifo!Next
<1>9. CASE clean_rx_end
  BY <1>9, QueueStutter
  DEF clean_rx_end, worker_vars, poll_vars, Oldest, Written
<1>10. CASE alloc_rx_slot
  <2>1. /\ UNCHANGED <<Oldest, Written, up>>
        /\ buf' = [buf EXCEPT ![i] = EMPTY]
    BY <1>10 DEF alloc_rx_slot, worker_vars, Oldest, Written
  <2>2. i \notin done
    <3>1. D(Written) <= D(next_to_use) /\ D(next_to_use) <= D(i)
      BY <1>10 DEF alloc_rx_slot, RingInv, RingOrder
    <3>2. /\ i \in Slot /\ D(Written) \in Int /\ D(next_to_use) \in Int
          /\ D(i) \in Int
      BY StoredSlots, RingArithmetic DEF RingInv, TypeOK, D
    <3>3. ~(D(i) < D(Written))
      BY <3>1, <3>2
    <3> QED BY <3>2, <3>3 DEF RingInv, SlotState
  <2>3. \A s \in done : buf'[s] = buf[s]
    BY <2>1, <2>2 DEF RingInv, TypeOK
  <2> QED BY <2>1, <2>3, QueueStutter
<1>11. CASE alloc_rx_fail
  BY <1>11, QueueStutter
  DEF alloc_rx_fail, worker_vars, poll_vars, Oldest, Written
<1>12. CASE alloc_rx_end
  BY <1>12, QueueStutter
  DEF alloc_rx_end, worker_vars, poll_vars, Oldest, Written
<1>13. CASE poll_again
  BY <1>13, QueueStutter
  DEF poll_again, worker_vars, poll_vars, Oldest, Written
<1>14. CASE poll_complete
  BY <1>14, QueueStutter
  DEF poll_complete, worker_vars, poll_vars, Oldest, Written
<1>15. CASE UNCHANGED vars
  BY <1>15, QueueStutter DEF vars, worker_vars, poll_vars, Oldest, Written
<1> QED
  BY <1>1, <1>2, <1>3, <1>4, <1>5, <1>6, <1>7, <1>8, <1>9, <1>10, <1>11, <1>12,
     <1>13, <1>14, <1>15
  DEF Next, device, edunic_poll

\* The receive path implements the queue of stored frames: each one reaches the
\* stack once, unchanged and in order (nic_rx.c, nic_hw.c).
THEOREM QueueRefinement == Spec => ImplementsRxFifo
<1>1. Init => Fifo!Init
  BY RingAssumption DEF Init, Fifo!Init, Stored, Oldest, Dist
<1>2. RingInv /\ [Next]_vars => [Fifo!Next]_(Fifo!rx_fifo_vars)
  BY QueueStep
<1> QED BY <1>1, <1>2, RingInvariant, PTL DEF Spec, ImplementsRxFifo, Fifo!Spec
=============================================================================
