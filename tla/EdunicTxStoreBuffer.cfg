\* The transmit path on a machine with store buffers.
CONSTANTS
  N = 2
  Frame = {f1}
  NULL = NULL
  MemoryModel = "TSO"
SPECIFICATION Spec
INVARIANT NoStrandedQueue
