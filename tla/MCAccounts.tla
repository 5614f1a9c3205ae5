----------------------------- MODULE MCAccounts -----------------------------
(***************************************************************************)
(* Accounts for TLC: calls, passwords and names are interchangeable.       *)
(***************************************************************************)
EXTENDS Accounts, TLC

CONSTANTS c1, c2, p1, p2, n1, n2

Symmetry == Permutations({c1, c2}) \cup Permutations({p1, p2}) \cup Permutations({n1, n2})
=============================================================================
