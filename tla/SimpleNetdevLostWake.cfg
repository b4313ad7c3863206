\* One usable transmit descriptor is enough to lose the wake-up.
CONSTANTS
  TX_RING_SIZE = 2
  RX_RING_SIZE = 1
  Budget = 1
  MaxCompleting = 1
SPECIFICATION FairSpec
PROPERTY StoppedIsWoken
