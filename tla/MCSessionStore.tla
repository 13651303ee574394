--------------------------- MODULE MCSessionStore ---------------------------
(* Small instances of SessionStore for TLC.                                *)
EXTENDS SessionStore, TLC

CONSTANTS r1, r2, r3, s1, s2

Symmetry == Permutations(Request)

=============================================================================
