-------------------------- MODULE MCTcpAccelerator --------------------------
(* TLC instance of TcpAccelerator.                                         *)
EXTENDS TcpAccelerator
=============================================================================
