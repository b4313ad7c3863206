---------------------------- MODULE MCGroupChat -----------------------------
(* TLC instance of GroupChat.                                              *)
EXTENDS GroupChat
=============================================================================
