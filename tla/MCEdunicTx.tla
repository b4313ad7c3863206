----------------------------- MODULE MCEdunicTx -----------------------------
(* TLC instance of EdunicTx.                                               *)
EXTENDS EdunicTx
=============================================================================
