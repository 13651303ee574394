---------------------------- MODULE MCClientRpc ----------------------------
(* Small instances of ClientRpc for TLC.                                   *)
EXTENDS ClientRpc

CONSTANTS c1, c2, f1

=============================================================================
