\* A peer that sends more than one buffer and closes.
CONSTANTS
  Size = 2
  SendRoom = 1
  ClientBytes = 3
  ServerBytes = 1
SPECIFICATION Spec
INVARIANT FinMeansComplete
CHECK_DEADLOCK FALSE
