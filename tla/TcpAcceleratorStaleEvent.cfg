\* Two events of one connection in a batch, of which the first may free it.
CONSTANTS
  Size = 2
  SendRoom = 1
  ClientBytes = 1
  ServerBytes = 1
SPECIFICATION Spec
INVARIANT DispatchedAlive
CHECK_DEADLOCK FALSE
