\* The receive path, with failing allocations.
CONSTANTS
  N = 4
  Budget = 2
  Frame = {f1, f2}
  EMPTY = EMPTY
  NULL = NULL
SPECIFICATION FairSpec
INVARIANTS IInv BufferOwnership NoForgottenFrame
PROPERTIES ImplementsRxFifo DoneIsHarvested
