--------------------------- MODULE VerifiedEmails ---------------------------
(***************************************************************************)
(* What sign-up and password reset (Accounts) ask of VerificationService   *)
(* (EmailVerification): which addresses are verified, and for what.        *)
(***************************************************************************)
CONSTANT Emails

Slots == Emails \X {"signup", "password"}

VARIABLE verified  \* slots with a key verified:<type>:<email>
=============================================================================
