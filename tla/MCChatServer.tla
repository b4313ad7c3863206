---------------------------- MODULE MCChatServer ----------------------------
(* TLC instances of ChatServer: the default admin's username, one it       *)
(* begins with and, where a run can afford three, one it is the first word *)
(* of.  All are long, so that there is room for a few signs behind them,   *)
(* or for none where a blank ends the word.                                *)
EXTENDS ChatServer

MCName == {"ahmet", "ahm"}
MCPieces == [n \in MCName |-> {"ahm"} \ {n}]
MCWord == [n \in MCName |-> n]
MCRoom == [n \in MCName |-> 5]

MCNameWithBlank == MCName \cup {"ahmet x"}
MCPiecesWithBlank ==
  [n \in MCNameWithBlank |-> IF n = "ahmet x" THEN MCName ELSE MCPieces[n]]
MCWordWithBlank == [n \in MCNameWithBlank |-> IF n = "ahmet x" THEN "ahmet" ELSE n]
MCRoomWithBlank == [n \in MCNameWithBlank |-> IF n = "ahmet x" THEN 0 ELSE 5]
=============================================================================
