----------------------------- MODULE MCPresence -----------------------------
(***************************************************************************)
(* Presence for TLC: one user with two sockets, one with a single socket,  *)
(* and one place of each kind, or a thread and a call.  The two sockets of *)
(* the one user are interchangeable.                                       *)
(***************************************************************************)
EXTENDS Presence, TLC

CONSTANTS u1, u2, s1, s2, s3

MCUserOf == s1 :> u1 @@ s2 :> u1 @@ s3 :> u2

MCTabs == Permutations({s1, s2})
=============================================================================
