\* The transmit path on a machine whose stores are visible at once.
CONSTANTS
  N = 4
  Frame = {f1, f2}
  NULL = NULL
  MemoryModel = "SC"
SPECIFICATION FairSpec
INVARIANTS IInv NoStrandedQueue
PROPERTIES StoppedIsWoken
