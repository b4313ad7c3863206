\* One usable transmit descriptor is enough to free the packet that is still read.
CONSTANTS
  TX_RING_SIZE = 2
  RX_RING_SIZE = 1
  Budget = 1
  MaxCompleting = 1
SPECIFICATION FairSpec
INVARIANT XmitReadsItsSkb
