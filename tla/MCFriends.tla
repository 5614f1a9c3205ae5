------------------------------- MODULE MCFriends -------------------------------
(***************************************************************************)
(* Friends for TLC: two users, three rows, two requests at once.           *)
(***************************************************************************)
EXTENDS Friends, TLC

Symmetry == Permutations(Requests) \cup Permutations(Users)
=============================================================================
