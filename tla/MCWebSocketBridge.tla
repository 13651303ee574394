------------------------- MODULE MCWebSocketBridge -------------------------
(* Small instances of WebSocketBridge for TLC.                             *)
EXTENDS WebSocketBridge, TLC

CONSTANTS c1, c2, r1, r2

=============================================================================
