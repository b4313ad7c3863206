\* Two usable transmit descriptors, one receive descriptor, a budget of one.
CONSTANTS
  TX_RING_SIZE = 3
  RX_RING_SIZE = 1
  Budget = 1
  MaxCompleting = 1
SPECIFICATION FairSpec
INVARIANTS IInv SlotOwnership NoStrandedFrame QuietMeansListening
           NoUseAfterFree ExactUnwind
PROPERTY OperationsReturn
