----------------------------- MODULE MCSfuRooms -----------------------------
(***************************************************************************)
(* SfuRooms on small instances.                                            *)
(***************************************************************************)
EXTENDS SfuRooms, TLC

\* Objects of one kind are interchangeable.
Symmetry == Permutations(Users) \cup Permutations(Transports)
              \cup Permutations(Producers) \cup Permutations(Routers)
              \cup Permutations(Calls)
=============================================================================
