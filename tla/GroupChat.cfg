\* Two clients and two names; the server stays down once it is killed.
CONSTANTS
  MAX_CLIENTS = 2
  Name = {ayse, can}
  MaxLines = 2
  NOBODY = NOBODY
SPECIFICATION FairSpec
INVARIANTS IInv RosterAgrees NeverBlocked
PROPERTIES Served
CHECK_DEADLOCK FALSE
