------------------------------ MODULE MCChatMarks ------------------------------
(***************************************************************************)
(* ChatMarks for TLC: two users of the project, one group of them, one     *)
(* private channel with its maker alone, two requests at once.             *)
(***************************************************************************)
EXTENDS ChatMarks, TLC

CONSTANTS u1, u2

MCGroups == {{u1, u2}}
MCAsked == {{}}

Symmetry == Permutations(Requests) \cup Permutations(Members)
=============================================================================
