\* One client and two accounts: a cut line is read, saved and read again.
CONSTANTS
  Admin = "ahmet"
  Name <- MCNameWithBlank
  Pieces <- MCPiecesWithBlank
  Word <- MCWordWithBlank
  Room <- MCRoomWithBlank
  NOBODY = NOBODY
  MAX_CLIENTS = 1
  MAX_USERS = 2
  MaxLines = 1
  MaxMessages = 0
  MaxFaults = 1
SPECIFICATION Spec
INVARIANTS ConvertedToNewFormat
