\* The transmit path with a store buffer on the polling CPU.
CONSTANTS
  N = 4
  Frame = {f1, f2}
  NULL = NULL
  MemoryModel = "TSO"
SPECIFICATION Spec
INVARIANTS SlotOwnership
PROPERTIES ImplementsTxFifo
\* The stranded queue of EdunicTxStoreBuffer.cfg is a state without successors.
CHECK_DEADLOCK FALSE
