--------------------------- MODULE EdunicTxProofs ---------------------------
(***************************************************************************)
(* Proofs about EdunicTx, for every ring size N >= 2 and every set of      *)
(* frames.                                                                 *)
(***************************************************************************)
EXTENDS EdunicTx, RingLemmas, TLAPS

\* Indices stay in the ring and distances are below N: the arithmetic of
\* "& EDUNIC_RING_MASK" in nic_tx.c and nic_hw.c.
LEMMA RingArithmetic ==
  /\ 0 \in Slot
  /\ \A i \in Slot : Succ(i) \in Slot
  /\ \A a, b \in Slot : Dist(a, b) \in 0 .. N - 1
  /\ \A a, b \in Slot : Dist(a, b) = 0 <=> a = b
BY RingAssumption DEF Slot, Succ, Dist

\* The remainder of a number below twice the modulus.
LEMMA SmallRemainder ==
  \A x \in Nat : /\ x < N => x % N = x
                 /\ N <= x /\ x < 2 * N => x % N = x - N
BY RingAssumption

\* edunic_tx_unused() leaves exactly one slot as a gap: there is room for a packet
\* as long as fewer than N - 1 slots are taken.
LEMMA RoomMeansGap ==
  ASSUME NEW c \in Slot, next_to_use \in Slot
  PROVE  Room(c) <=> Dist(c, next_to_use) < N - 1
<1> DEFINE x == c - next_to_use - 1 + N
<1>1. x \in Nat /\ x < 2 * N
  BY RingAssumption DEF Slot
<1>2. CASE x < N
  <2>1. x % N = x
    BY <1>1, <1>2, SmallRemainder
  <2> QED BY <1>2, <2>1, RingAssumption
          DEF Room, edunic_tx_unused, EDUNIC_TX_DESC_PER_PKT, Dist, Slot
<1>3. CASE x >= N
  <2>1. x % N = x - N
    BY <1>1, <1>3, SmallRemainder, RingAssumption
  <2> QED BY <1>3, <2>1, RingAssumption
          DEF Room, edunic_tx_unused, EDUNIC_TX_DESC_PER_PKT, Dist, Slot
<1> QED BY <1>1, <1>2, <1>3, RingAssumption

\* Every step of xmit, worker and poll keeps the ring invariant.
LEMMA RingStep == RingInv /\ [Next]_vars => RingInv'
<1> SUFFICES ASSUME RingInv, [Next]_vars PROVE RingInv'
  OBVIOUS
<1> USE RingAssumption, FrameAssumption, MemoryAssumption
<1>1. ASSUME NEW f \in Frame, xmit_call(f) PROVE RingInv'
  <2>1. TypeOK'
    BY <1>1, RingArithmetic
    DEF RingInv, TypeOK, xmit_call, xmit_vars, worker_vars, poll_vars
  <2>2. RingOrder'
    BY <1>1
    DEF RingInv, RingOrder, D, xmit_call, xmit_vars, worker_vars, poll_vars
  <2>3. SlotState'
    BY <1>1
    DEF RingInv, SlotState, D, xmit_call, xmit_vars, worker_vars, poll_vars
  <2>4. LocalState'
    BY <1>1
    DEF RingInv, LocalState, D, OwnNextToClean, xmit_call, xmit_vars,
        worker_vars, poll_vars
  <2> QED BY <2>1, <2>2, <2>3, <2>4 DEF RingInv
<1>2. CASE maybe_stop_check
  <2>1. TypeOK'
    BY <1>2, RingArithmetic
    DEF RingInv, TypeOK, maybe_stop_check, RoomFound, XmitReturn, xmit_vars,
        worker_vars, poll_vars
  <2>2. RingOrder'
    BY <1>2, RoomMeansGap
    DEF RingInv, TypeOK, RingOrder, D, Dist, Slot, maybe_stop_check, RoomFound,
        XmitReturn, xmit_vars, worker_vars, poll_vars
  <2>3. SlotState'
    BY <1>2
    DEF RingInv, SlotState, D, maybe_stop_check, RoomFound, XmitReturn,
        xmit_vars, worker_vars, poll_vars
  <2>4. LocalState'
    BY <1>2
    DEF RingInv, TypeOK, LocalState, OwnNextToClean, D, Dist, Succ, Slot,
        maybe_stop_check, RoomFound, XmitReturn, xmit_vars, worker_vars,
        poll_vars
  <2> QED BY <2>1, <2>2, <2>3, <2>4 DEF RingInv
<1>3. CASE maybe_stop_stop
  <2>1. TypeOK'
    BY <1>3, RingArithmetic
    DEF RingInv, TypeOK, maybe_stop_stop, xmit_vars, worker_vars, poll_vars
  <2>2. RingOrder'
    BY <1>3
    DEF RingInv, RingOrder, D, maybe_stop_stop, xmit_vars, worker_vars,
        poll_vars
  <2>3. SlotState'
    BY <1>3
    DEF RingInv, SlotState, D, maybe_stop_stop, xmit_vars, worker_vars,
        poll_vars
  <2>4. LocalState'
    BY <1>3
    DEF RingInv, LocalState, D, OwnNextToClean, maybe_stop_stop, xmit_vars,
        worker_vars, poll_vars
  <2> QED BY <2>1, <2>2, <2>3, <2>4 DEF RingInv
<1>4. CASE maybe_stop_recheck
  <2>1. TypeOK'
    BY <1>4, RingArithmetic
    DEF RingInv, TypeOK, maybe_stop_recheck, RoomFound, XmitReturn, xmit_vars,
        worker_vars, poll_vars
  <2>2. RingOrder'
    BY <1>4, RoomMeansGap
    DEF RingInv, TypeOK, RingOrder, D, Dist, Slot, maybe_stop_recheck,
        RoomFound, XmitReturn, xmit_vars, worker_vars, poll_vars
  <2>3. SlotState'
    BY <1>4
    DEF RingInv, SlotState, D, maybe_stop_recheck, RoomFound, XmitReturn,
        xmit_vars, worker_vars, poll_vars
  <2>4. LocalState'
    BY <1>4
    DEF RingInv, TypeOK, LocalState, OwnNextToClean, D, Dist, Succ, Slot,
        maybe_stop_recheck, RoomFound, XmitReturn, xmit_vars, worker_vars,
        poll_vars
  <2> QED BY <2>1, <2>2, <2>3, <2>4 DEF RingInv
<1>5. CASE xmit_map_error
  <2>1. TypeOK'
    BY <1>5, RingArithmetic
    DEF RingInv, TypeOK, xmit_map_error, XmitReturn, xmit_vars, worker_vars,
        poll_vars
  <2>2. RingOrder'
    BY <1>5
    DEF RingInv, RingOrder, D, xmit_map_error, XmitReturn, xmit_vars,
        worker_vars, poll_vars
  <2>3. SlotState'
    BY <1>5
    DEF RingInv, SlotState, D, xmit_map_error, XmitReturn, xmit_vars,
        worker_vars, poll_vars
  <2>4. LocalState'
    BY <1>5
    DEF RingInv, LocalState, D, OwnNextToClean, xmit_map_error, XmitReturn,
        xmit_vars, worker_vars, poll_vars
  <2> QED BY <2>1, <2>2, <2>3, <2>4 DEF RingInv
<1>6. CASE xmit_fill
  <2>1. TypeOK'
    BY <1>6, RingArithmetic
    DEF RingInv, TypeOK, xmit_fill, xmit_vars, worker_vars, poll_vars
  <2>2. RingOrder'
    BY <1>6
    DEF RingInv, RingOrder, D, xmit_fill, xmit_vars, worker_vars, poll_vars
  <2>3. SlotState'
    BY <1>6
    DEF RingInv, TypeOK, RingOrder, SlotState, LocalState, D, Dist, Succ,
        OwnNextToClean, Slot, xmit_fill, xmit_vars, worker_vars, poll_vars
  <2>4. LocalState'
    BY <1>6
    DEF RingInv, LocalState, D, OwnNextToClean, xmit_fill, xmit_vars,
        worker_vars, poll_vars
  <2> QED BY <2>1, <2>2, <2>3, <2>4 DEF RingInv
<1>7. CASE xmit_bump
  <2>1. TypeOK'
    BY <1>7, RingArithmetic
    DEF RingInv, TypeOK, xmit_bump, xmit_vars, worker_vars, poll_vars
  <2>2. RingOrder'
    BY <1>7
    DEF RingInv, TypeOK, RingOrder, D, Dist, Succ, Slot, xmit_bump, xmit_vars,
        worker_vars, poll_vars
  <2>3. SlotState'
    BY <1>7
    DEF RingInv, TypeOK, RingOrder, SlotState, D, Dist, Succ, Slot, xmit_bump,
        xmit_vars, worker_vars, poll_vars
  <2>4. LocalState'
    BY <1>7
    DEF RingInv, LocalState, D, OwnNextToClean, xmit_bump, xmit_vars,
        worker_vars, poll_vars
  <2> QED BY <2>1, <2>2, <2>3, <2>4 DEF RingInv
<1>8. CASE xmit_doorbell
  <2>1. TypeOK'
    BY <1>8, RingArithmetic
    DEF RingInv, TypeOK, xmit_doorbell, xmit_vars, worker_vars, poll_vars
  <2>2. RingOrder'
    BY <1>8
    DEF RingInv, TypeOK, RingOrder, D, Dist, Slot, xmit_doorbell, xmit_vars,
        worker_vars, poll_vars
  <2>3. SlotState'
    BY <1>8
    DEF RingInv, SlotState, D, xmit_doorbell, xmit_vars, worker_vars, poll_vars
  <2>4. LocalState'
    BY <1>8
    DEF RingInv, LocalState, D, OwnNextToClean, xmit_doorbell, xmit_vars,
        worker_vars, poll_vars
  <2> QED BY <2>1, <2>2, <2>3, <2>4 DEF RingInv
<1>9. CASE edunic_hw_kick_tx
  <2>1. TypeOK'
    BY <1>9, RingArithmetic
    DEF RingInv, TypeOK, edunic_hw_kick_tx, xmit_vars, worker_vars, poll_vars
  <2>2. RingOrder'
    BY <1>9
    DEF RingInv, RingOrder, D, edunic_hw_kick_tx, xmit_vars, worker_vars,
        poll_vars
  <2>3. SlotState'
    BY <1>9
    DEF RingInv, SlotState, D, edunic_hw_kick_tx, xmit_vars, worker_vars,
        poll_vars
  <2>4. LocalState'
    BY <1>9
    DEF RingInv, LocalState, D, OwnNextToClean, edunic_hw_kick_tx, xmit_vars,
        worker_vars, poll_vars
  <2> QED BY <2>1, <2>2, <2>3, <2>4 DEF RingInv
<1>10. CASE worker_start
  <2>1. TypeOK'
    BY <1>10, RingArithmetic
    DEF RingInv, TypeOK, worker_start, xmit_vars, worker_vars, poll_vars
  <2>2. RingOrder'
    BY <1>10
    DEF RingInv, TypeOK, RingOrder, D, Dist, Slot, worker_start, xmit_vars,
        worker_vars, poll_vars
  <2>3. SlotState'
    BY <1>10
    DEF RingInv, TypeOK, RingOrder, SlotState, D, Dist, Slot, worker_start,
        xmit_vars, worker_vars, poll_vars
  <2>4. LocalState'
    BY <1>10
    DEF RingInv, LocalState, D, OwnNextToClean, worker_start, xmit_vars,
        worker_vars, poll_vars
  <2> QED BY <2>1, <2>2, <2>3, <2>4 DEF RingInv
<1>11. CASE worker_copy
  <2>1. TypeOK'
    BY <1>11, RingArithmetic
    DEF RingInv, TypeOK, worker_copy, xmit_vars, worker_vars, poll_vars
  <2>2. RingOrder'
    BY <1>11
    DEF RingInv, RingOrder, D, worker_copy, xmit_vars, worker_vars, poll_vars
  <2>3. SlotState'
    BY <1>11
    DEF RingInv, SlotState, D, worker_copy, xmit_vars, worker_vars, poll_vars
  <2>4. LocalState'
    BY <1>11
    DEF RingInv, LocalState, D, OwnNextToClean, worker_copy, xmit_vars,
        worker_vars, poll_vars
  <2> QED BY <2>1, <2>2, <2>3, <2>4 DEF RingInv
<1>12. CASE worker_mark
  <2>1. TypeOK'
    BY <1>12, RingArithmetic
    DEF RingInv, TypeOK, worker_mark, xmit_vars, worker_vars, poll_vars
  <2>2. RingOrder'
    BY <1>12
    DEF RingInv, TypeOK, RingOrder, D, Dist, Succ, Slot, worker_mark,
        xmit_vars, worker_vars, poll_vars
  <2>3. SlotState'
    BY <1>12
    DEF RingInv, TypeOK, RingOrder, SlotState, D, Dist, Succ, Slot,
        worker_mark, xmit_vars, worker_vars, poll_vars
  <2>4. LocalState'
    BY <1>12
    DEF RingInv, LocalState, D, OwnNextToClean, worker_mark, xmit_vars,
        worker_vars, poll_vars
  <2> QED BY <2>1, <2>2, <2>3, <2>4 DEF RingInv
<1>13. CASE worker_raise
  <2>1. TypeOK'
    BY <1>13, RingArithmetic
    DEF RingInv, TypeOK, worker_raise, xmit_vars, worker_vars, poll_vars
  <2>2. RingOrder'
    BY <1>13
    DEF RingInv, RingOrder, D, worker_raise, xmit_vars, worker_vars, poll_vars
  <2>3. SlotState'
    BY <1>13
    DEF RingInv, SlotState, D, worker_raise, xmit_vars, worker_vars, poll_vars
  <2>4. LocalState'
    BY <1>13
    DEF RingInv, LocalState, D, OwnNextToClean, worker_raise, xmit_vars,
        worker_vars, poll_vars
  <2> QED BY <2>1, <2>2, <2>3, <2>4 DEF RingInv
<1>14. CASE edunic_intr
  <2>1. TypeOK'
    BY <1>14, RingArithmetic
    DEF RingInv, TypeOK, edunic_intr, AfterSchedulePrep, xmit_vars,
        worker_vars, poll_vars
  <2>2. RingOrder'
    BY <1>14
    DEF RingInv, RingOrder, D, edunic_intr, AfterSchedulePrep, xmit_vars,
        worker_vars, poll_vars
  <2>3. SlotState'
    BY <1>14
    DEF RingInv, SlotState, D, edunic_intr, AfterSchedulePrep, xmit_vars,
        worker_vars, poll_vars
  <2>4. LocalState'
    BY <1>14
    DEF RingInv, LocalState, D, OwnNextToClean, edunic_intr, AfterSchedulePrep,
        xmit_vars, worker_vars, poll_vars
  <2> QED BY <2>1, <2>2, <2>3, <2>4 DEF RingInv
<1>15. CASE poll_start
  <2>1. TypeOK'
    BY <1>15, RingArithmetic
    DEF RingInv, TypeOK, OwnNextToClean, poll_start, xmit_vars, worker_vars,
        poll_vars
  <2>2. RingOrder'
    BY <1>15
    DEF RingInv, TypeOK, RingOrder, SlotState, LocalState, D, Dist, Succ,
        OwnNextToClean, Slot, poll_start, xmit_vars, worker_vars, poll_vars
  <2>3. SlotState'
    BY <1>15
    DEF RingInv, TypeOK, RingOrder, SlotState, LocalState, D, Dist, Succ,
        OwnNextToClean, Slot, poll_start, xmit_vars, worker_vars, poll_vars
  <2>4. LocalState'
    BY <1>15
    DEF RingInv, LocalState, D, OwnNextToClean, poll_start, xmit_vars,
        worker_vars, poll_vars
  <2> QED BY <2>1, <2>2, <2>3, <2>4 DEF RingInv
<1>16. CASE clean_tx_slot
  <2>1. TypeOK'
    BY <1>16, RingArithmetic
    DEF RingInv, TypeOK, clean_tx_slot, Reclaimable, xmit_vars, worker_vars,
        poll_vars
  <2>2. RingOrder'
    BY <1>16
    DEF RingInv, TypeOK, RingOrder, SlotState, LocalState, D, Dist, Succ,
        OwnNextToClean, Slot, clean_tx_slot, Reclaimable, xmit_vars,
        worker_vars, poll_vars
  <2>3. SlotState'
    BY <1>16
    DEF RingInv, TypeOK, RingOrder, SlotState, D, Dist, Succ, Slot,
        clean_tx_slot, Reclaimable, xmit_vars, worker_vars, poll_vars
  <2>4. LocalState'
    BY <1>16
    DEF RingInv, TypeOK, RingOrder, SlotState, LocalState, D, Dist, Succ,
        OwnNextToClean, Slot, clean_tx_slot, Reclaimable, xmit_vars,
        worker_vars, poll_vars
  <2> QED BY <2>1, <2>2, <2>3, <2>4 DEF RingInv
<1>17. CASE clean_tx_store
  <2>1. TypeOK'
    BY <1>17, RingArithmetic
    DEF RingInv, TypeOK, clean_tx_store, Reclaimable, xmit_vars, worker_vars,
        poll_vars
  <2>2. CASE MemoryModel = "SC"
    <3>1. next_to_clean' = clean /\ store_buf' = store_buf
      BY <1>17, <2>2 DEF clean_tx_store
    <3>2. RingOrder'
      <4>1. /\ UNCHANGED <<clean, head, tail, TDT, TDH, next_to_use, xpc, wpc>>
            /\ next_to_clean' = clean
        BY <1>17, <3>1 DEF clean_tx_store, xmit_vars, worker_vars
      <4>2. /\ N \in Nat /\ next_to_clean \in Slot /\ clean \in Slot
            /\ head \in Slot /\ tail \in Slot /\ TDT \in Slot
            /\ next_to_use \in Slot
        BY RingAssumption DEF RingInv, TypeOK, Slot
      <4>3. RingOrder
        BY DEF RingInv
      <4> QED BY <4>1, <4>2, <4>3 DEF RingOrder, D, Dist, Slot, Succ
    <3>3. SlotState'
      BY <1>17, <3>1
      DEF RingInv, TypeOK, RingOrder, SlotState, D, Dist, Succ, Slot,
          clean_tx_store, Reclaimable, xmit_vars, worker_vars, poll_vars
    <3>4. LocalState'
      BY <1>17, <2>2, <3>1
      DEF RingInv, LocalState, D, OwnNextToClean, clean_tx_store, Reclaimable,
          xmit_vars, worker_vars, poll_vars
    <3> QED BY <2>1, <3>2, <3>3, <3>4 DEF RingInv
  <2>3. CASE MemoryModel = "TSO"
    <3>1. next_to_clean' = next_to_clean /\ store_buf' = clean
      BY <1>17, <2>3 DEF clean_tx_store
    <3>2. RingOrder'
      BY <1>17, <3>1
      DEF RingInv, RingOrder, D, clean_tx_store, Reclaimable, xmit_vars,
          worker_vars, poll_vars
    <3>3. SlotState'
      BY <1>17, <3>1
      DEF RingInv, SlotState, D, clean_tx_store, Reclaimable, xmit_vars,
          worker_vars, poll_vars
    <3>4. LocalState'
      BY <1>17, <2>3, <3>1
      DEF RingInv, TypeOK, LocalState, OwnNextToClean, D, Dist, Succ, Slot,
          clean_tx_store, Reclaimable, xmit_vars, worker_vars, poll_vars
    <3> QED BY <2>1, <3>2, <3>3, <3>4 DEF RingInv
  <2> QED BY <2>2, <2>3
<1>18. CASE clean_tx_test
  <2>1. TypeOK'
    BY <1>18, RingArithmetic
    DEF RingInv, TypeOK, clean_tx_test, xmit_vars, worker_vars, poll_vars
  <2>2. RingOrder'
    BY <1>18
    DEF RingInv, RingOrder, D, clean_tx_test, xmit_vars, worker_vars, poll_vars
  <2>3. SlotState'
    BY <1>18
    DEF RingInv, SlotState, D, clean_tx_test, xmit_vars, worker_vars, poll_vars
  <2>4. LocalState'
    BY <1>18
    DEF RingInv, LocalState, D, OwnNextToClean, clean_tx_test, xmit_vars,
        worker_vars, poll_vars
  <2> QED BY <2>1, <2>2, <2>3, <2>4 DEF RingInv
<1>19. CASE clean_tx_wake
  <2>1. TypeOK'
    BY <1>19, RingArithmetic
    DEF RingInv, TypeOK, clean_tx_wake, xmit_vars, worker_vars, poll_vars
  <2>2. RingOrder'
    BY <1>19
    DEF RingInv, RingOrder, D, clean_tx_wake, xmit_vars, worker_vars, poll_vars
  <2>3. SlotState'
    BY <1>19
    DEF RingInv, SlotState, D, clean_tx_wake, xmit_vars, worker_vars, poll_vars
  <2>4. LocalState'
    BY <1>19
    DEF RingInv, LocalState, D, OwnNextToClean, clean_tx_wake, xmit_vars,
        worker_vars, poll_vars
  <2> QED BY <2>1, <2>2, <2>3, <2>4 DEF RingInv
<1>20. CASE poll_again
  <2>1. TypeOK'
    BY <1>20, RingArithmetic
    DEF RingInv, TypeOK, poll_again, xmit_vars, worker_vars, poll_vars
  <2>2. RingOrder'
    BY <1>20
    DEF RingInv, RingOrder, D, poll_again, xmit_vars, worker_vars, poll_vars
  <2>3. SlotState'
    BY <1>20
    DEF RingInv, SlotState, D, poll_again, xmit_vars, worker_vars, poll_vars
  <2>4. LocalState'
    BY <1>20
    DEF RingInv, LocalState, D, OwnNextToClean, poll_again, xmit_vars,
        worker_vars, poll_vars
  <2> QED BY <2>1, <2>2, <2>3, <2>4 DEF RingInv
<1>21. CASE poll_complete
  <2>1. TypeOK'
    BY <1>21, RingArithmetic
    DEF RingInv, TypeOK, poll_complete, AfterCompleteDone, xmit_vars,
        worker_vars, poll_vars
  <2>2. RingOrder'
    BY <1>21
    DEF RingInv, RingOrder, D, poll_complete, AfterCompleteDone, xmit_vars,
        worker_vars, poll_vars
  <2>3. SlotState'
    BY <1>21
    DEF RingInv, SlotState, D, poll_complete, AfterCompleteDone, xmit_vars,
        worker_vars, poll_vars
  <2>4. LocalState'
    BY <1>21
    DEF RingInv, LocalState, D, OwnNextToClean, poll_complete,
        AfterCompleteDone, xmit_vars, worker_vars, poll_vars
  <2> QED BY <2>1, <2>2, <2>3, <2>4 DEF RingInv
<1>22. CASE drain
  <2>1. TypeOK'
    BY <1>22, RingArithmetic
    DEF RingInv, TypeOK, drain, xmit_vars, worker_vars, poll_vars
  <2>2. RingOrder'
    BY <1>22
    DEF RingInv, TypeOK, RingOrder, SlotState, LocalState, D, Dist, Succ,
        OwnNextToClean, Slot, drain, xmit_vars, worker_vars, poll_vars
  <2>3. SlotState'
    BY <1>22
    DEF RingInv, TypeOK, RingOrder, SlotState, LocalState, D, Dist, Succ,
        OwnNextToClean, Slot, drain, xmit_vars, worker_vars, poll_vars
  <2>4. LocalState'
    BY <1>22
    DEF RingInv, LocalState, D, OwnNextToClean, drain, xmit_vars, worker_vars,
        poll_vars
  <2> QED BY <2>1, <2>2, <2>3, <2>4 DEF RingInv
<1>23. CASE UNCHANGED vars
  BY <1>23
  DEF vars, xmit_vars, worker_vars, poll_vars, RingInv, TypeOK, RingOrder,
      SlotState, LocalState, D, OwnNextToClean
<1> QED
  BY <1>1, <1>2, <1>3, <1>4, <1>5, <1>6, <1>7, <1>8, <1>9, <1>10, <1>11, <1>12,
     <1>13, <1>14, <1>15, <1>16, <1>17, <1>18, <1>19, <1>20, <1>21, <1>22,
     <1>23
  DEF Next, edunic_start_xmit, edunic_hw_tx_worker, edunic_poll

\* The ring invariant of the transmit path: indices in pipeline order, DD and buf
\* agreeing with them, for both memory models.
THEOREM RingInvariant == Spec => []RingInv
<1>1. Init => RingInv
  BY RingAssumption, FrameAssumption, MemoryAssumption
  DEF Init, RingInv, TypeOK, RingOrder, SlotState, LocalState, D, Dist,
      OwnNextToClean, Slot
<1> QED BY <1>1, RingStep, PTL DEF Spec

\* Every variable of the transmit path keeps its type.
THEOREM TypeCorrect == Spec => []TypeOK
BY RingInvariant, PTL DEF RingInv

\* The worker never reads, the poll never frees and xmit never overwrites an skb
\* that is not theirs (nic_hw.c:302, nic_tx.c:301, nic_tx.c:218).
THEOREM SlotOwnershipHolds == Spec => []SlotOwnership
<1>1. ASSUME RingInv PROVE SlotOwnership
  <2>1. /\ N \in Nat /\ head \in Slot /\ clean \in Slot /\ next_to_use \in Slot
        /\ tail \in Slot /\ TDT \in Slot
    BY <1>1, RingAssumption DEF RingInv, TypeOK, Slot
  <2>2. ASSUME wpc \in {"copy", "mark"} PROVE buf[head] # NULL
    <3>1. /\ head # tail /\ D(clean) <= D(head) /\ D(head) <= D(tail)
          /\ D(tail) <= D(TDT) /\ D(TDT) <= D(next_to_use)
      BY <1>1, <2>2 DEF RingInv, RingOrder
    <3>2. /\ D(head) # D(tail)
          /\ \A s \in {head, tail, TDT, next_to_use} : D(s) \in Int
      BY <1>1, <2>1, <3>1 DEF RingInv, TypeOK, D, Dist, Slot
    <3>3. D(head) < D(next_to_use)
      BY <3>1, <3>2
    <3> QED BY <1>1, <2>1, <3>1, <3>3 DEF RingInv, SlotState
  <2>3. ASSUME Reclaimable PROVE buf[clean] # NULL
    <3>1. clean # next_to_use /\ D(clean) <= D(clean) /\ D(clean) < D(head)
      BY <1>1, <2>1, <2>3 DEF RingInv, SlotState, Reclaimable
    <3>2. /\ D(head) <= D(tail) /\ D(tail) <= D(TDT) /\ D(TDT) <= D(next_to_use)
          /\ \A s \in {clean, head, tail, TDT, next_to_use} : D(s) \in Int
      BY <1>1, <2>1 DEF RingInv, TypeOK, RingOrder, D, Dist, Slot
    <3>3. D(clean) < D(next_to_use)
      BY <3>1, <3>2
    <3> QED BY <1>1, <2>1, <3>1, <3>3 DEF RingInv, SlotState
  <2>4. ASSUME xpc = "map" PROVE buf[next_to_use] = NULL
    <3>1. D(next_to_use) \in Int /\ xpc # "bump"
      BY <1>1, <2>1, <2>4 DEF RingInv, TypeOK, D, Dist, Slot
    <3>2. ~(D(next_to_use) < D(next_to_use))
      BY <3>1
    <3> QED BY <1>1, <2>1, <3>1, <3>2 DEF RingInv, SlotState
  <2> QED BY <2>2, <2>3, <2>4 DEF SlotOwnership
<1> QED BY <1>1, RingInvariant, PTL

\* Without store buffers every step keeps the duties of WakeInv assigned.
LEMMA WakeStep ==
  ASSUME MemoryModel = "SC"
  PROVE  RingInv /\ WakeInv /\ [Next]_vars => WakeInv'
<1> SUFFICES ASSUME RingInv, WakeInv, [Next]_vars PROVE WakeInv'
  OBVIOUS
<1> USE RingAssumption, FrameAssumption
<1>1. ASSUME NEW f \in Frame, xmit_call(f) PROVE WakeInv'
  BY <1>1 DEF WakeInv, xmit_call, xmit_vars, worker_vars, poll_vars
<1>2. CASE maybe_stop_check
  BY <1>2, RoomMeansGap
  DEF WakeInv, maybe_stop_check, RoomFound, XmitReturn, xmit_vars, worker_vars,
      poll_vars
<1>3. CASE maybe_stop_stop
  BY <1>3 DEF WakeInv, maybe_stop_stop, xmit_vars, worker_vars, poll_vars
<1>4. CASE maybe_stop_recheck
  BY <1>4, RoomMeansGap
  DEF RingInv, TypeOK, RingOrder, SlotState, LocalState, WakeInv, D, Dist,
      Succ, OwnNextToClean, Slot, maybe_stop_recheck, RoomFound, XmitReturn,
      xmit_vars, worker_vars, poll_vars
<1>5. CASE xmit_map_error
  BY <1>5
  DEF WakeInv, xmit_map_error, XmitReturn, xmit_vars, worker_vars, poll_vars
<1>6. CASE xmit_fill
  BY <1>6 DEF WakeInv, xmit_fill, xmit_vars, worker_vars, poll_vars
<1>7. CASE xmit_bump
  BY <1>7 DEF WakeInv, xmit_bump, xmit_vars, worker_vars, poll_vars
<1>8. CASE xmit_doorbell
  BY <1>8 DEF WakeInv, xmit_doorbell, xmit_vars, worker_vars, poll_vars
<1>9. CASE edunic_hw_kick_tx
  BY <1>9 DEF WakeInv, edunic_hw_kick_tx, xmit_vars, worker_vars, poll_vars
<1>10. CASE worker_start
  BY <1>10
  DEF RingInv, RingOrder, WakeInv, worker_start, xmit_vars, worker_vars,
      poll_vars
<1>11. CASE worker_copy
  BY <1>11 DEF WakeInv, worker_copy, xmit_vars, worker_vars, poll_vars
<1>12. CASE worker_mark
  BY <1>12 DEF WakeInv, worker_mark, xmit_vars, worker_vars, poll_vars
<1>13. CASE worker_raise
  BY <1>13 DEF WakeInv, worker_raise, xmit_vars, worker_vars, poll_vars
<1>14. CASE edunic_intr
  BY <1>14
  DEF RingInv, TypeOK, LocalState, WakeInv, OwnNextToClean, edunic_intr,
      AfterSchedulePrep, xmit_vars, worker_vars, poll_vars
<1>15. CASE poll_start
  BY <1>15
  DEF RingInv, TypeOK, LocalState, WakeInv, OwnNextToClean, poll_start,
      xmit_vars, worker_vars, poll_vars
<1>16. CASE clean_tx_slot
  BY <1>16
  DEF WakeInv, clean_tx_slot, Reclaimable, xmit_vars, worker_vars, poll_vars
<1>17. CASE clean_tx_store
  BY <1>17
  DEF RingInv, TypeOK, RingOrder, SlotState, LocalState, WakeInv, D, Dist,
      Succ, OwnNextToClean, Slot, clean_tx_store, Reclaimable, xmit_vars,
      worker_vars, poll_vars
<1>18. CASE clean_tx_test
  BY <1>18, RoomMeansGap
  DEF RingInv, TypeOK, RingOrder, SlotState, LocalState, WakeInv, D, Dist,
      Succ, OwnNextToClean, Slot, clean_tx_test, xmit_vars, worker_vars,
      poll_vars
<1>19. CASE clean_tx_wake
  BY <1>19 DEF WakeInv, clean_tx_wake, xmit_vars, worker_vars, poll_vars
<1>20. CASE poll_again
  BY <1>20 DEF WakeInv, poll_again, xmit_vars, worker_vars, poll_vars
<1>21. CASE poll_complete
  BY <1>21
  DEF WakeInv, poll_complete, AfterCompleteDone, xmit_vars, worker_vars,
      poll_vars
<1>22. CASE drain
  BY <1>22
  DEF RingInv, TypeOK, LocalState, WakeInv, OwnNextToClean, drain, xmit_vars,
      worker_vars, poll_vars
<1>23. CASE UNCHANGED vars
  BY <1>23 DEF vars, xmit_vars, worker_vars, poll_vars, WakeInv
<1> QED
  BY <1>1, <1>2, <1>3, <1>4, <1>5, <1>6, <1>7, <1>8, <1>9, <1>10, <1>11, <1>12,
     <1>13, <1>14, <1>15, <1>16, <1>17, <1>18, <1>19, <1>20, <1>21, <1>22,
     <1>23
  DEF Next, edunic_start_xmit, edunic_hw_tx_worker, edunic_poll

\* On a machine without store buffers no interleaving of xmit, worker, interrupt
\* and poll leaves the queue stopped or a descriptor unreclaimed once everything
\* has come to rest: the check/stop/recheck of nic_tx.c:62 is sufficient there.
THEOREM NoStrandedQueueHolds ==
  ASSUME MemoryModel = "SC"
  PROVE  Spec => []NoStrandedQueue
<1>1. Init => WakeInv
  BY DEF Init, WakeInv
<1>2. RingInv /\ WakeInv => NoStrandedQueue
  BY RingAssumption, FrameAssumption
  DEF RingInv, TypeOK, RingOrder, LocalState, WakeInv, NoStrandedQueue,
      Quiescent, OwnNextToClean
<1>3. RingInv /\ WakeInv /\ [Next]_vars => WakeInv'
  BY WakeStep
<1> QED BY <1>1, <1>2, <1>3, RingInvariant, PTL DEF Spec

\* The full inductive invariant, for both memory models: the indices, descriptors
\* and buffers agree always, and without store buffers every pending duty has an
\* agent that will discharge it (nic_tx.c, nic_hw.c and nic_irq.c together).
THEOREM InductiveInvariant == Spec => []IInv
<1>1. Init => IInv
  <2>1. Init => RingInv
    BY RingAssumption, FrameAssumption, MemoryAssumption
    DEF Init, RingInv, TypeOK, RingOrder, SlotState, LocalState, D, Dist,
        OwnNextToClean, Slot
  <2>2. Init => WakeInv
    BY DEF Init, WakeInv
  <2> QED BY <2>1, <2>2 DEF IInv
<1>2. IInv /\ [Next]_vars => IInv'
  <2>1. CASE MemoryModel = "SC"
    BY <2>1, RingStep, WakeStep DEF IInv
  <2>2. CASE MemoryModel # "SC"
    BY <2>2, RingStep DEF IInv
  <2> QED BY <2>1, <2>2
<1> QED BY <1>1, <1>2, PTL DEF Spec

-----------------------------------------------------------------------------
(* The transmit path implements the pipeline of TxFifo.                    *)

\* The frames held are a window of the ring.
LEMMA HeldIsWindow ==
  Held = Window(N, buf, clean, Dist(clean, next_to_use))
BY DEF Held, Window, Wrap

\* Walking forward from a by Dist(a, s) arrives at s.
LEMMA WalkDistance ==
  \A a, s \in Slot : Wrap(N, a + Dist(a, s)) = s
BY RingAssumption DEF Slot, Wrap, Dist

\* The stages of the pipeline are ordered, so the distances the refinement
\* mapping uses are differences of positions in the ring.
LEMMA PipelineDistances ==
  ASSUME RingInv
  PROVE  /\ Dist(clean, next_to_use) = D(next_to_use) - D(clean)
         /\ Dist(clean, head) = D(head) - D(clean)
         /\ Dist(clean, head) \in 0 .. Dist(clean, next_to_use)
         /\ Dist(clean, next_to_use) \in 0 .. N - 1
<1>1. \A i \in Slot : D(i) \in 0 .. N - 1
  BY RingArithmetic DEF RingInv, TypeOK, D
<1>2. \A i, j \in Slot : D(i) <= D(j) => Dist(i, j) = D(j) - D(i)
  BY RingAssumption DEF RingInv, TypeOK, D, Dist, Slot
<1>3. /\ D(clean) <= D(head) /\ D(head) <= D(next_to_use)
      /\ clean \in Slot /\ head \in Slot /\ next_to_use \in Slot
      /\ D(clean) \in Int /\ D(head) \in Int /\ D(next_to_use) \in 0 .. N - 1
  BY <1>1 DEF RingInv, TypeOK, RingOrder
<1> HIDE DEF D, Dist
<1> QED BY <1>1, <1>2, <1>3, RingAssumption

\* A step that touches none of what the mapping reads is a stuttering step.
LEMMA PipelineStutter ==
  ASSUME UNCHANGED <<buf, clean, next_to_use, head, frame_copy>>,
         wpc' = "mark" <=> wpc = "mark"
  PROVE  UNCHANGED Fifo!fifo_vars
BY DEF Fifo!fifo_vars, Held, Sent, Acked, Dist

\* Every step of the transmit path is a step of the pipeline or leaves it alone:
\* posting accepts a frame, the worker's copy transmits it, DD reports it, and the
\* poll's loop reclaims it.
LEMMA PipelineStep ==
  RingInv /\ RingInv' /\ [Next]_vars => [Fifo!Next]_(Fifo!fifo_vars)
<1> SUFFICES ASSUME RingInv, RingInv', [Next]_vars
             PROVE  [Fifo!Next]_(Fifo!fifo_vars)
  OBVIOUS
<1> USE RingAssumption, FrameAssumption
<1>0. /\ buf \in [0 .. N - 1 -> Frame \cup {NULL}]
      /\ clean \in 0 .. N - 1 /\ N \in Nat
      /\ next_to_use \in Slot /\ head \in Slot /\ clean \in Slot
  BY DEF RingInv, TypeOK, Slot
<1>1. ASSUME NEW f \in Frame, xmit_call(f) PROVE UNCHANGED Fifo!fifo_vars
  BY <1>1, PipelineStutter DEF xmit_call, worker_vars, poll_vars
<1>2. CASE maybe_stop_check
  BY <1>2, PipelineStutter DEF maybe_stop_check, worker_vars, poll_vars
<1>3. CASE maybe_stop_stop
  BY <1>3, PipelineStutter DEF maybe_stop_stop, worker_vars, poll_vars
<1>4. CASE maybe_stop_recheck
  BY <1>4, PipelineStutter DEF maybe_stop_recheck, worker_vars, poll_vars
<1>5. CASE xmit_map_error
  BY <1>5, PipelineStutter DEF xmit_map_error, worker_vars, poll_vars
<1>6. CASE xmit_fill
  <2> DEFINE n == Dist(clean, next_to_use)
  <2>1. /\ buf' = [buf EXCEPT ![next_to_use] = skb]
        /\ UNCHANGED <<clean, next_to_use, head, frame_copy, wpc>>
    BY <1>6 DEF xmit_fill, worker_vars, poll_vars
  <2>2. n \in 0 .. N - 1
    BY PipelineDistances
  <2>3. \A k \in 1 .. n : Wrap(N, clean + k - 1) # next_to_use
    BY <1>0, <2>2 DEF Wrap, Dist, Slot
  <2>4. \A k \in 1 .. n :
          buf'[Wrap(N, clean + k - 1)] = buf[Wrap(N, clean + k - 1)]
    BY <1>0, <2>1, <2>2, <2>3 DEF Wrap
  <2>5. Window(N, buf', clean, n) = Window(N, buf, clean, n)
    <3> HIDE DEF n
    <3> QED BY <2>4 DEF Window
  <2>6. Held' = Held
    BY <2>1, <2>5 DEF Held, Window, Wrap
  <2> QED BY <2>1, <2>6 DEF Fifo!fifo_vars, Sent, Acked
<1>7. CASE xmit_bump
  <2> DEFINE n == Dist(clean, next_to_use)
  <2>1. /\ next_to_use' = Succ(next_to_use) /\ xpc = "bump"
        /\ UNCHANGED <<buf, clean, head, frame_copy, wpc>>
    BY <1>7 DEF xmit_bump, worker_vars, poll_vars
  <2>2. n \in 0 .. N - 2 /\ Dist(clean, Succ(next_to_use)) = n + 1
    BY <1>0, <2>1, PipelineDistances
    DEF RingInv, TypeOK, RingOrder, D, Dist, Succ, Slot
  <2>3. buf[next_to_use] \in Frame
    BY <1>0, <2>1, RingArithmetic DEF RingInv, SlotState, Slot
  <2>4. Wrap(N, clean + n) = next_to_use
    BY <1>0, WalkDistance
  <2>5. Window(N, buf, clean, n + 1)
          = Append(Window(N, buf, clean, n), buf[next_to_use])
    <3>1. N \in Nat /\ clean \in 0 .. N - 1 /\ n \in 0 .. N - 1
      BY <1>0, <2>2
    <3> HIDE DEF n
    <3>2. Window(N, buf, clean, n + 1)
            = Append(Window(N, buf, clean, n), buf[Wrap(N, clean + n)])
      BY <3>1, WindowGrow
    <3> QED BY <2>4, <3>2
  <2>6. Held' = Append(Held, buf[next_to_use])
    BY <2>1, <2>2, <2>5 DEF Held, Window, Wrap
  <2>7. Len(Held) < N - 1
    BY <1>0, <2>2, HeldIsWindow, WindowLength
  <2>8. Fifo!Accept(buf[next_to_use])
    BY <2>1, <2>6, <2>7 DEF Fifo!Accept, Sent, Acked
  <2> QED BY <2>3, <2>8 DEF Fifo!Next
<1>8. CASE xmit_doorbell
  BY <1>8, PipelineStutter DEF xmit_doorbell, worker_vars, poll_vars
<1>9. CASE edunic_hw_kick_tx
  BY <1>9, PipelineStutter DEF edunic_hw_kick_tx, worker_vars, poll_vars
<1>10. CASE worker_start
  <2>1. head' = head
    BY <1>10 DEF worker_start, RingInv, RingOrder
  <2> QED BY <1>10, <2>1, PipelineStutter
          DEF worker_start, xmit_vars, poll_vars
<1>11. CASE worker_copy
  <2> DEFINE n == Dist(clean, next_to_use)
  <2>1. /\ wpc = "copy" /\ wpc' = "mark" /\ frame_copy' \in {buf[head], NULL}
        /\ UNCHANGED <<buf, clean, next_to_use, head>>
    BY <1>11 DEF worker_copy, xmit_vars, poll_vars
  <2>2. n \in 0 .. N - 1 /\ Acked \in 0 .. n - 1
    <3>1. /\ head # tail /\ D(head) <= D(tail)
          /\ D(tail) <= D(TDT) /\ D(TDT) <= D(next_to_use)
      <4>1. RingOrder /\ wpc \in {"copy", "mark"}
        BY <2>1 DEF RingInv
      <4> QED BY <4>1 DEF RingOrder
    <3>2. /\ D(head) # D(tail) /\ D(head) \in Int /\ D(tail) \in Int
          /\ D(TDT) \in Int /\ D(next_to_use) \in Int /\ D(clean) \in Int
      <4>1. /\ N \in Nat /\ head \in Slot /\ tail \in Slot /\ TDT \in Slot
            /\ next_to_use \in Slot /\ clean \in Slot /\ next_to_clean \in Slot
        BY RingAssumption DEF RingInv, TypeOK
      <4> QED BY <3>1, <4>1 DEF D, Dist, Slot
    <3> HIDE DEF n
    <3>3. Dist(clean, head) < Dist(clean, next_to_use)
      BY <3>1, <3>2, PipelineDistances
    <3>4. /\ Dist(clean, head) \in 0 .. Dist(clean, next_to_use)
          /\ Dist(clean, next_to_use) \in 0 .. N - 1
      BY PipelineDistances
    <3> QED BY <3>3, <3>4 DEF Acked, n
  <2>3. Len(Held) = n
    BY <1>0, <2>2, HeldIsWindow, WindowLength
  <2>4. Held[Acked + 1] = buf[head]
    <3>1. Held[Acked + 1] = buf[Wrap(N, clean + (Acked + 1) - 1)]
      BY <2>2 DEF Held, Wrap
    <3>2. clean + (Acked + 1) - 1 = clean + Acked
      BY <1>0, <2>2
    <3>3. Wrap(N, clean + Acked) = head
      BY <1>0, WalkDistance DEF Acked
    <3> QED BY <3>1, <3>2, <3>3
  <2>5. Sent = Acked /\ Sent' = Acked + 1 /\ Acked' = Acked /\ Held' = Held
    BY <2>1, <2>2 DEF Sent, Acked, Held
  <2>6. Fifo!Transmit
    BY <2>1, <2>2, <2>3, <2>4, <2>5 DEF Fifo!Transmit
  <2> QED BY <2>6 DEF Fifo!Next
<1>12. CASE worker_mark
  <2>1. /\ wpc = "mark" /\ wpc' # "mark" /\ head' = Succ(head)
        /\ frame_copy' = NULL
        /\ UNCHANGED <<buf, clean, next_to_use>>
    BY <1>12 DEF worker_mark, xmit_vars, poll_vars
  <2>2. Acked \in Nat /\ Dist(clean, Succ(head)) = Acked + 1
    BY <1>0, <2>1, PipelineDistances
    DEF RingInv, TypeOK, RingOrder, D, Dist, Succ, Slot, Acked
  <2>3. Sent = Acked + 1 /\ Sent' = Acked' /\ Acked' = Acked + 1 /\ Held' = Held
    BY <2>1, <2>2 DEF Sent, Acked, Held
  <2>4. Fifo!Report
    BY <2>1, <2>2, <2>3 DEF Fifo!Report
  <2> QED BY <2>4 DEF Fifo!Next
<1>13. CASE worker_raise
  BY <1>13, PipelineStutter DEF worker_raise, xmit_vars, poll_vars
<1>14. CASE edunic_intr
  BY <1>14, PipelineStutter DEF edunic_intr, xmit_vars, poll_vars
<1>15. CASE poll_start
  <2>1. clean' = clean
    BY <1>15 DEF poll_start, RingInv, LocalState
  <2> QED BY <1>15, <2>1, PipelineStutter
          DEF poll_start, xmit_vars, worker_vars
<1>16. CASE clean_tx_slot
  <2> DEFINE n == Dist(clean, next_to_use)
  <2>1. /\ clean # next_to_use /\ clean \in done /\ clean' = Succ(clean)
        /\ buf' = [buf EXCEPT ![clean] = NULL]
        /\ UNCHANGED <<next_to_use, head, frame_copy, wpc>>
    BY <1>16 DEF clean_tx_slot, Reclaimable, xmit_vars, worker_vars
  <2>2. /\ n \in 1 .. N - 1 /\ Dist(Succ(clean), next_to_use) = n - 1
        /\ Acked \in 1 .. n /\ Dist(Succ(clean), head) = Acked - 1
    BY <1>0, <2>1, PipelineDistances
    DEF RingInv, TypeOK, RingOrder, SlotState, D, Dist, Succ, Slot, Acked
  <2>3. Succ(clean) = Wrap(N, clean + 1) /\ Succ(clean) \in 0 .. N - 1
    BY <1>0 DEF Succ, Wrap, Slot
  <2>4. \A k \in 1 .. n - 1 : buf'[Wrap(N, Succ(clean) + k - 1)]
                              = buf[Wrap(N, Succ(clean) + k - 1)]
    BY <1>0, <2>1, <2>2 DEF Wrap, Succ, Slot
  <2>5. Window(N, buf', Succ(clean), n - 1) = Window(N, buf, Succ(clean), n - 1)
    BY <2>4 DEF Window
  <2>6. Window(N, buf, Succ(clean), n - 1) = Tail(Held)
    <3>1. n \in 1 .. N
      BY <1>0, <2>2
    <3> HIDE DEF n
    <3>2. Window(N, buf, Wrap(N, clean + 1), n - 1)
            = Tail(Window(N, buf, clean, n))
      BY <1>0, <3>1, WindowDrop
    <3> QED BY <2>3, <3>2, HeldIsWindow DEF n
  <2>7. Held' = Tail(Held)
    BY <2>1, <2>2, <2>5, <2>6 DEF Held, Window, Wrap
  <2>8. Acked > 0 /\ Acked' = Acked - 1 /\ Sent' = Sent - 1
    BY <2>1, <2>2 DEF Acked, Sent
  <2>9. Fifo!Reclaim
    BY <2>1, <2>7, <2>8 DEF Fifo!Reclaim
  <2> QED BY <2>9 DEF Fifo!Next
<1>17. CASE clean_tx_store
  BY <1>17, PipelineStutter DEF clean_tx_store, xmit_vars, worker_vars
<1>18. CASE clean_tx_test
  BY <1>18, PipelineStutter DEF clean_tx_test, xmit_vars, worker_vars
<1>19. CASE clean_tx_wake
  BY <1>19, PipelineStutter DEF clean_tx_wake, xmit_vars, worker_vars
<1>20. CASE poll_again
  BY <1>20, PipelineStutter DEF poll_again, xmit_vars, worker_vars
<1>21. CASE poll_complete
  BY <1>21, PipelineStutter DEF poll_complete, xmit_vars, worker_vars
<1>22. CASE drain
  BY <1>22, PipelineStutter DEF drain, worker_vars, poll_vars
<1>23. CASE UNCHANGED vars
  BY <1>23, PipelineStutter DEF vars, worker_vars, poll_vars
<1> QED
  BY <1>1, <1>2, <1>3, <1>4, <1>5, <1>6, <1>7, <1>8, <1>9, <1>10, <1>11, <1>12,
     <1>13, <1>14, <1>15, <1>16, <1>17, <1>18, <1>19, <1>20, <1>21, <1>22,
     <1>23
  DEF Next, edunic_start_xmit, edunic_hw_tx_worker, edunic_poll

\* The transmit path implements the first-in first-out pipeline, with and without
\* store buffers: frames go to the wire once and in order, are reported after
\* that and freed after the report (nic_tx.c, nic_hw.c).
THEOREM PipelineRefinement == Spec => ImplementsTxFifo
<1>1. Init => Fifo!Init
  BY RingAssumption DEF Init, Fifo!Init, Held, Sent, Acked, Dist
<1>2. RingInv /\ RingInv' /\ [Next]_vars => [Fifo!Next]_(Fifo!fifo_vars)
  BY PipelineStep
<1> QED BY <1>1, <1>2, RingInvariant, PTL DEF Spec, ImplementsTxFifo, Fifo!Spec
=============================================================================
