------------------------- MODULE MCEdunicLifecycle -------------------------
(* TLC instance of EdunicLifecycle.                                        *)
EXTENDS EdunicLifecycle
=============================================================================
