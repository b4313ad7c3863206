--------------------------- MODULE MCSimpleNetdev ---------------------------
(* TLC instance of SimpleNetdevLifecycle.                                  *)
EXTENDS SimpleNetdevLifecycle
=============================================================================
