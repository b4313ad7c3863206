\* Two clients, two names and three accounts (a name that was cut, and the same name
\* typed again), chunks of up to two lines, one stored message, one failing write and
\* any number of crashes.
CONSTANTS
  Admin = "ahmet"
  Name <- MCName
  Pieces <- MCPieces
  Word <- MCWord
  Room <- MCRoom
  NOBODY = NOBODY
  MAX_CLIENTS = 2
  MAX_USERS = 3
  MaxLines = 2
  MaxMessages = 1
  MaxFaults = 1
SPECIFICATION Spec
\* A full table without the default admin: every start exits (server.c:364-366).
CHECK_DEADLOCK FALSE
INVARIANTS IInv SessionsSound HistoryKeepsItsPeople BlockedOnlyOnReusedSlot
PROPERTIES AccountsKept
