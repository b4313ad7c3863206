\* Two-byte buffers, one-byte send queues, three bytes one way and one the other.
CONSTANTS
  Size = 2
  SendRoom = 1
  ClientBytes = 3
  ServerBytes = 1
SPECIFICATION FairSpec
INVARIANTS IInv Conservation NoDataAfterFin DroppedOnlyAfterHangUp EndedByPeers
PROPERTIES NoStall CloseIsRelayed ClosedIsFreed
CHECK_DEADLOCK FALSE
