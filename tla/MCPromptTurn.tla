---------------------------- MODULE MCPromptTurn ----------------------------
(* Small instances of PromptTurn for TLC.                                  *)
EXTENDS PromptTurn, TLC

CONSTANTS r1, r2, r3, s1, s2

Symmetry == Permutations(Request)

=============================================================================
