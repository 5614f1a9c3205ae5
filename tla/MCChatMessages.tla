--------------------------- MODULE MCChatMessages ---------------------------
(***************************************************************************)
(* ChatMessages for TLC: messages, texts and requests are interchangeable. *)
(***************************************************************************)
EXTENDS ChatMessages, TLC

Symmetry == Permutations(Messages) \cup Permutations(Contents) \cup Permutations(Calls)
=============================================================================
