---------------------------- MODULE MCTurnStream ----------------------------
(* Small instances of TurnStream for TLC.                                  *)
EXTENDS TurnStream

CONSTANTS c1, c2

\* A client that can read files, or one that offers nothing.
Reads == {{}, {"readTextFile"}}
ReadTool == {"fs_read_text_file"}
\* A result and then an error, as far as they are prepared.
Replies == [t \in ReadTool |-> <<FALSE, TRUE>>]

=============================================================================
