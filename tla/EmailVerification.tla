------------------------- MODULE EmailVerification --------------------------
(***************************************************************************)
(* VerificationService (src/src/modules/verification): codes sent by mail, *)
(* for sign-up and for a forgotten password, kept in Redis.                *)
(*                                                                         *)
(* Every Redis command is atomic and is awaited, so requests interleave    *)
(* between any two commands, and the service may fail at each: what was    *)
(* written before stays.  A request is the local state of one call of      *)
(* sendVerificationCode or verifyCode.                                     *)
(***************************************************************************)
EXTENDS Naturals, VerifiedEmails

CONSTANTS
  Codes, NoCode,
  Requests,  \* calls in progress at the same time
  MaxDaily   \* 5 in the code

ASSUME MaxDailyAssumption == MaxDaily \in Nat \ {0}
ASSUME NoCodeAssumption == NoCode \notin Codes

VARIABLES
  accounts,    \* external: addresses with a user
  code,        \* verification:<type>:<email>
  cooldown,    \* addresses with a cooldown key
  count,       \* email-count:<today>
  req,         \* the calls in progress
  granted,     \* history: sends that were counted today
  overlapped,  \* history: two sends of today read the count before either wrote
  mailed,      \* history: the last code mailed, unless used, replaced, expired
  disturbed    \* history: slots used by two calls at once, or expired in a send

keys == <<code, verified, cooldown, count>>
codeHistory == <<granted, overlapped, mailed, disturbed>>
verificationVars == <<accounts, keys, req, codeHistory>>

Sending == {"cooldown", "count", "code", "cooling", "counting", "mailing"}
Verifying == {"compared", "deleted"}

NoCall == [phase |-> "idle"]

Request ==
  {NoCall}
  \cup [phase : Sending, slot : Slots, count : Nat, today : BOOLEAN, code : Codes \cup {NoCode}]
  \cup [phase : Verifying, slot : Slots]

(* Every key holds what its writers write, and no count passes the limit,  *)
(* not even by the sends that lose an update.                              *)
VerificationTypeOK ==
  /\ accounts \subseteq Emails
  /\ code \in [Slots -> Codes \cup {NoCode}]
  /\ verified \subseteq Slots
  /\ cooldown \subseteq Emails
  /\ count \in 0 .. MaxDaily
  /\ req \in [Requests -> Request]
  /\ granted \in Nat
  /\ overlapped \in BOOLEAN
  /\ mailed \in [Slots -> Codes \cup {NoCode}]
  /\ disturbed \subseteq Slots

VerificationInit ==
  /\ accounts = {}
  /\ code = [s \in Slots |-> NoCode]
  /\ verified = {} /\ cooldown = {} /\ count = 0
  /\ req = [r \in Requests |-> NoCall]
  /\ granted = 0 /\ overlapped = FALSE
  /\ mailed = [s \in Slots |-> NoCode]
  /\ disturbed = {}

\* Another call than r works on the slot s.
Busy(r, s) == \E q \in Requests \ {r} : req[q].phase # "idle" /\ req[q].slot = s

\* What a call of r on s, starting or writing, does to the history.
Touched(r, s) == IF Busy(r, s) THEN disturbed \cup {s} ELSE disturbed
-----------------------------------------------------------------------------
(***************************************************************************)
(* sendVerificationCode.  An operator whose name ends in _Wrong is a       *)
(* plausible slip in the definition after it, used by mutants only.        *)
(***************************************************************************)
\* Sign-up refuses a known address, sendPasswordFindEmail an unknown one.
Eligible(e, type) == (e \in accounts) <=> (type = "password")

BeginSend(r, e, type) ==
  /\ req[r].phase = "idle" /\ Eligible(e, type)
  /\ req' = [req EXCEPT ![r] = [phase |-> "cooldown", slot |-> <<e, type>>,
                                count |-> 0, today |-> TRUE, code |-> NoCode]]
  /\ disturbed' = Touched(r, <<e, type>>)
  /\ UNCHANGED <<accounts, keys, granted, overlapped, mailed>>

CheckCooldown(r) ==
  /\ req[r].phase = "cooldown"
  /\ req' = IF req[r].slot[1] \in cooldown
            THEN [req EXCEPT ![r] = NoCall]
            ELSE [req EXCEPT ![r].phase = "count", ![r].today = TRUE]
  /\ UNCHANGED <<accounts, keys, codeHistory>>

OverLimit(n) == n >= MaxDaily

\* A send of today that has read the count and not yet written it.
Counting(q) == req[q].phase \in {"code", "cooling", "counting"} /\ req[q].today

\* The day of the key was taken just before; after midnight it is yesterday's.
CheckCount(r) ==
  /\ req[r].phase = "count"
  /\ \E n \in IF req[r].today THEN {count} ELSE 0 .. MaxDaily :
       IF OverLimit(n)
       THEN /\ req' = [req EXCEPT ![r] = NoCall]
            /\ UNCHANGED overlapped
       ELSE /\ req' = [req EXCEPT ![r].phase = "code", ![r].count = n]
            /\ overlapped' = (overlapped \/
                 (req[r].today /\ \E q \in Requests \ {r} : Counting(q)))
  /\ UNCHANGED <<accounts, keys, granted, mailed, disturbed>>

\* A random code, good for five minutes, in the place of an older one.
SetCode(r) ==
  /\ req[r].phase = "code"
  /\ LET s == req[r].slot IN
     /\ \E c \in Codes :
          /\ code' = [code EXCEPT ![s] = c]
          /\ req' = [req EXCEPT ![r].phase = "cooling", ![r].code = c]
     /\ mailed' = [mailed EXCEPT ![s] = NoCode]
     /\ disturbed' = IF Busy(r, s) THEN disturbed \cup {s} ELSE disturbed \ {s}
  /\ UNCHANGED <<accounts, verified, cooldown, count, granted, overlapped>>

SetCooldown(r) ==
  /\ req[r].phase = "cooling"
  /\ cooldown' = cooldown \cup {req[r].slot[1]}
  /\ req' = [req EXCEPT ![r].phase = "counting"]
  /\ UNCHANGED <<accounts, code, verified, count, codeHistory>>

NewCount_Wrong(r) == req[r].count

NewCount(r) == req[r].count + 1

SetCount(r) ==
  /\ req[r].phase = "counting"
  /\ req' = [req EXCEPT ![r].phase = "mailing"]
  /\ IF req[r].today
     THEN /\ count' = NewCount(r)
          /\ granted' = granted + 1
     ELSE UNCHANGED <<count, granted>>
  /\ UNCHANGED <<accounts, code, verified, cooldown, overlapped, mailed, disturbed>>

SendMail(r) ==
  /\ req[r].phase = "mailing"
  /\ mailed' = [mailed EXCEPT ![req[r].slot] = req[r].code]
  /\ req' = [req EXCEPT ![r] = NoCall]
  /\ UNCHANGED <<accounts, keys, granted, overlapped, disturbed>>
-----------------------------------------------------------------------------
(***************************************************************************)
(* verifyCode, and what happens to the keys from outside.                  *)
(***************************************************************************)
KeyRead_Wrong(s) == <<s[1], "signup">>

\* The slot whose code a verification reads.
KeyRead(s) == s

\* The code that was typed is compared with the stored one.
Compare(r, s, typed) ==
  /\ req[r].phase = "idle"
  /\ code[KeyRead(s)] = typed
  /\ req' = [req EXCEPT ![r] = [phase |-> "compared", slot |-> s]]
  /\ mailed' = [mailed EXCEPT ![s] = NoCode]
  /\ disturbed' = Touched(r, s)
  /\ UNCHANGED <<accounts, keys, granted, overlapped>>

KeyDeleted_Wrong(s) == <<s[1], "signup">>

\* The slot whose code a successful verification deletes.
KeyDeleted(s) == s

DeleteCode(r) ==
  /\ req[r].phase = "compared"
  /\ code' = [code EXCEPT ![KeyDeleted(req[r].slot)] = NoCode]
  /\ req' = [req EXCEPT ![r].phase = "deleted"]
  /\ UNCHANGED <<accounts, verified, cooldown, count, codeHistory>>

SetVerified(r) ==
  /\ req[r].phase = "deleted"
  /\ verified' = verified \cup {req[r].slot}
  /\ req' = [req EXCEPT ![r] = NoCall]
  /\ UNCHANGED <<accounts, code, cooldown, count, codeHistory>>

\* Redis, the database or the mail server fails the call where it stands.
CallFails(r) ==
  /\ req[r].phase # "idle"
  /\ req' = [req EXCEPT ![r] = NoCall]
  /\ UNCHANGED <<accounts, keys, codeHistory>>

\* Five minutes after it was set.
ExpireCode(s) ==
  /\ code' = [code EXCEPT ![s] = NoCode]
  /\ mailed' = [mailed EXCEPT ![s] = NoCode]
  /\ disturbed' = IF \E q \in Requests : req[q].phase # "idle" /\ req[q].slot = s
                  THEN disturbed \cup {s} ELSE disturbed
  /\ UNCHANGED <<accounts, verified, cooldown, count, req, granted, overlapped>>

\* A minute after it was set.
ExpireCooldown(e) ==
  /\ e \in cooldown
  /\ cooldown' = cooldown \ {e}
  /\ UNCHANGED <<accounts, code, verified, count, req, codeHistory>>

\* The key expires, or consumeVerification deletes it.
DropVerified(s) ==
  /\ s \in verified
  /\ verified' = verified \ {s}
  /\ UNCHANGED <<accounts, code, cooldown, count, req, codeHistory>>

\* The name of the count key changes with the date, in UTC.
Midnight ==
  /\ count' = 0 /\ granted' = 0 /\ overlapped' = FALSE
  /\ req' = [r \in Requests |->
               IF req[r].phase \in Sending THEN [req[r] EXCEPT !.today = FALSE] ELSE req[r]]
  /\ UNCHANGED <<accounts, code, verified, cooldown, mailed, disturbed>>

\* External: a user with the address e comes into being.
CreateAccount(e) ==
  /\ accounts' = accounts \cup {e}
  /\ UNCHANGED <<keys, req, codeHistory>>

VerificationNext ==
  \/ \E r \in Requests :
       \/ \E e \in Emails, type \in {"signup", "password"} : BeginSend(r, e, type)
       \/ CheckCooldown(r) \/ CheckCount(r) \/ SetCode(r) \/ SetCooldown(r)
       \/ SetCount(r) \/ SendMail(r)
       \/ \E s \in Slots, typed \in Codes : Compare(r, s, typed)
       \/ DeleteCode(r) \/ SetVerified(r) \/ CallFails(r)
  \/ \E s \in Slots : ExpireCode(s) \/ DropVerified(s)
  \/ \E e \in Emails : ExpireCooldown(e) \/ CreateAccount(e)
  \/ Midnight

VerificationSpec == VerificationInit /\ [][VerificationNext]_verificationVars
-----------------------------------------------------------------------------
(***************************************************************************)
(* Properties.                                                             *)
(***************************************************************************)
(* The daily limit (verification.service.ts:53-57) holds as long as no two *)
(* sends of the day read the count before one of them has written it.      *)
LimitUnlessOverlap == ~overlapped => granted <= MaxDaily

(* A code that was mailed can be used until it expires, is used or is      *)
(* replaced: no failure, no other address and no code for the other        *)
(* purpose disturbs it, only a second call for the same slot.              *)
MailedCodeWorks ==
  \A s \in Slots : mailed[s] # NoCode /\ s \notin disturbed => code[s] = mailed[s]

Issued == {s \in Slots : code[s] # NoCode}

Presented == {s \in Slots : \E r \in Requests : req[r].phase \in Verifying /\ req[r].slot = s}

Proof == INSTANCE ProofOfEmail WITH issued <- Issued, presented <- Presented, proved <- verified

(* An address is verified for a purpose only by a code that was out for    *)
(* just this address and this purpose.                                     *)
ImplementsProof == Proof!Spec
=============================================================================
