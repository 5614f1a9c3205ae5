--------------------------- MODULE MCTeamMembers ---------------------------
(***************************************************************************)
(* TeamMembers for TLC: calls, custom roles and invites are                *)
(* interchangeable.                                                        *)
(***************************************************************************)
EXTENDS TeamMembers, TLC

Symmetry == Permutations(Calls) \cup Permutations(CustomRoles) \cup Permutations(Invites)
=============================================================================
