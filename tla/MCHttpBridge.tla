---------------------------- MODULE MCHttpBridge ----------------------------
(* Small instances of HttpBridge for TLC.                                  *)
EXTENDS HttpBridge

CONSTANTS c1, p1, r1, r2, q1

=============================================================================
