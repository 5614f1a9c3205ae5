---------------------------- MODULE ProofOfEmail ----------------------------
(***************************************************************************)
(* What verifying an address by mail promises to sign-up and to password   *)
(* reset: an address is proved for a purpose only after a secret that was  *)
(* out for just this address and purpose was presented.  Secrets and       *)
(* proofs lapse or are used up.  EmailVerification implements it.          *)
(***************************************************************************)
CONSTANT Slots  \* pairs of an address and a purpose

VARIABLES
  issued,     \* slots for which a secret is out
  presented,  \* slots whose secret was presented to a call still in progress
  proved      \* slots that count as verified

vars == <<issued, presented, proved>>

Init == issued = {} /\ presented = {} /\ proved = {}

Issue(s) == issued' = issued \cup {s} /\ UNCHANGED <<presented, proved>>

\* A secret expires, or is used up.
Forget(s) == issued' = issued \ {s} /\ UNCHANGED <<presented, proved>>

Present(s) ==
  /\ s \in issued
  /\ presented' = presented \cup {s}
  /\ UNCHANGED <<issued, proved>>

\* The call ends, unless another call was presented the same secret.
Ends(s) == presented' \in {presented, presented \ {s}}

Prove(s) == s \in presented /\ Ends(s) /\ proved' = proved \cup {s} /\ UNCHANGED issued

Withdraw(s) == Ends(s) /\ UNCHANGED <<issued, proved>>

\* A proof expires or is consumed.
Drop(s) == proved' = proved \ {s} /\ UNCHANGED <<issued, presented>>

Next ==
  \E s \in Slots : Issue(s) \/ Forget(s) \/ Present(s) \/ Prove(s) \/ Withdraw(s) \/ Drop(s)

Spec == Init /\ [][Next]_vars
=============================================================================
