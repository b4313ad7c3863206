----------------------------- MODULE MCEdunicRx -----------------------------
(* TLC instance of EdunicRx.                                               *)
EXTENDS EdunicRx
=============================================================================
