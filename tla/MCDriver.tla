------------------------------ MODULE MCDriver ------------------------------
(* Small instances of Driver for TLC.                                      *)
EXTENDS Driver, TLC

CONSTANTS d1, d2

=============================================================================
