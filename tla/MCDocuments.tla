------------------------------ MODULE MCDocuments ------------------------------
(***************************************************************************)
(* Documents for TLC: a user beside requests that name none, two folders,  *)
(* one comment, two requests at once; or two users, one request at a time. *)
(***************************************************************************)
EXTENDS Documents, TLC

Symmetry == Permutations(Requests) \cup Permutations(Users)
=============================================================================
