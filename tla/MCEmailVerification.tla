------------------------ MODULE MCEmailVerification -------------------------
(***************************************************************************)
(* EmailVerification for TLC: calls and codes are interchangeable.         *)
(***************************************************************************)
EXTENDS EmailVerification, TLC

CONSTANTS r1, r2, c1, c2

Symmetry == Permutations({r1, r2}) \cup Permutations({c1, c2})
=============================================================================
