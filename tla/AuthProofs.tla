----------------------------- MODULE AuthProofs -----------------------------
(***************************************************************************)
(* Theorems about EmailVerification, for every number of addresses, codes  *)
(* and calls in progress and for every daily limit, and about Accounts,    *)
(* for every number of users, calls, passwords and names.                  *)
(***************************************************************************)
EXTENDS EmailVerification, Accounts, TLAPS

-----------------------------------------------------------------------------
(***************************************************************************)
(* EmailVerification.                                                      *)
(***************************************************************************)
SendRecord ==
  [phase : Sending, slot : Slots, count : Nat, today : BOOLEAN, code : Codes \cup {NoCode}]

\* A send past the limit check has read a count below the limit: VerificationTypeOK
\* bounds the stored count, and is not inductive without it.
BelowLimit ==
  \A r \in Requests :
    req[r].phase \in {"code", "cooling", "counting"} => req[r].count < MaxDaily

TInv == VerificationTypeOK /\ BelowLimit

(* What the phase of a call says of its record.                            *)
LEMMA PhaseRecord ==
  ASSUME VerificationTypeOK, NEW r \in Requests
  PROVE  /\ req[r].phase \in Sending => req[r] \in SendRecord
         /\ req[r].phase \in Verifying => req[r] \in [phase : Verifying, slot : Slots]
         /\ req[r].phase \in {"idle"} \cup Sending \cup Verifying
BY DEF VerificationTypeOK, Request, NoCall, Sending, Verifying, SendRecord


(* Type correctness, including that the stored count never passes the limit. *)
LEMMA VerificationTypes ==
  ASSUME TInv, [VerificationNext]_verificationVars
  PROVE  TInv'
<1> USE MaxDailyAssumption, NoCodeAssumption DEF TInv, keys, codeHistory
<1>1. ASSUME NEW r \in Requests, NEW e \in Emails, NEW type \in {"signup", "password"},
             BeginSend(r, e, type)
      PROVE  TInv'
  <2>1. req' \in [Requests -> Request]
    BY <1>1 DEF BeginSend, VerificationTypeOK, Request, Slots, Sending
  <2>2. disturbed' \subseteq Slots
    BY <1>1 DEF BeginSend, Touched, VerificationTypeOK, Slots
  <2>3. BelowLimit'
    BY <1>1 DEF BeginSend, BelowLimit, VerificationTypeOK
  <2> QED
    BY <1>1, <2>1, <2>2, <2>3 DEF BeginSend, VerificationTypeOK
<1>2. ASSUME NEW r \in Requests, CheckCooldown(r) PROVE TInv'
  <2>1. req[r] \in SendRecord
    BY <1>2, PhaseRecord DEF CheckCooldown, Sending
  <2>2. req' \in [Requests -> Request]
    BY <1>2, <2>1 DEF CheckCooldown, VerificationTypeOK, Request, SendRecord, Sending, NoCall
  <2>3. BelowLimit'
    BY <1>2 DEF CheckCooldown, BelowLimit, VerificationTypeOK, NoCall
  <2> QED
    BY <1>2, <2>2, <2>3 DEF CheckCooldown, VerificationTypeOK
<1>3. ASSUME NEW r \in Requests, CheckCount(r) PROVE TInv'
  <2>1. req[r] \in SendRecord
    BY <1>3, PhaseRecord DEF CheckCount, Sending
  <2>2. req' \in [Requests -> Request]
    BY <1>3, <2>1 DEF CheckCount, VerificationTypeOK, Request, SendRecord, Sending, NoCall
  <2>3. BelowLimit'
    <3>1. PICK n \in 0 .. MaxDaily :
            \/ req' = [req EXCEPT ![r] = NoCall]
            \/ ~OverLimit(n) /\ req' = [req EXCEPT ![r].phase = "code", ![r].count = n]
      BY <1>3 DEF CheckCount, VerificationTypeOK
    <3> QED
      BY <2>1, <3>1 DEF BelowLimit, OverLimit, VerificationTypeOK, NoCall, SendRecord
  <2>4. overlapped' \in BOOLEAN
    BY <1>3 DEF CheckCount, VerificationTypeOK
  <2> QED
    BY <1>3, <2>2, <2>3, <2>4 DEF CheckCount, VerificationTypeOK
<1>4. ASSUME NEW r \in Requests, SetCode(r) PROVE TInv'
  <2>1. req[r] \in SendRecord
    BY <1>4, PhaseRecord DEF SetCode, Sending
  <2> DEFINE s == req[r].slot
  <2>2. PICK c \in Codes :
          /\ code' = [code EXCEPT ![s] = c]
          /\ req' = [req EXCEPT ![r].phase = "cooling", ![r].code = c]
    BY <1>4 DEF SetCode
  <2>3. req' \in [Requests -> Request] /\ code' \in [Slots -> Codes \cup {NoCode}]
    BY <2>1, <2>2 DEF VerificationTypeOK, Request, SendRecord, Sending
  <2>4. BelowLimit'
    BY <1>4, <2>2 DEF SetCode, BelowLimit, VerificationTypeOK
  <2>5. disturbed' \subseteq Slots
    BY <1>4, <2>1 DEF SetCode, VerificationTypeOK, SendRecord
  <2>6. mailed' \in [Slots -> Codes \cup {NoCode}]
    BY <1>4 DEF SetCode, VerificationTypeOK
  <2> QED
    BY <1>4, <2>3, <2>4, <2>5, <2>6 DEF SetCode, VerificationTypeOK
<1>5. ASSUME NEW r \in Requests, SetCooldown(r) PROVE TInv'
  <2>1. req[r] \in SendRecord
    BY <1>5, PhaseRecord DEF SetCooldown, Sending
  <2>2. req' \in [Requests -> Request]
    BY <1>5, <2>1 DEF SetCooldown, VerificationTypeOK, Request, SendRecord, Sending
  <2>3. BelowLimit'
    BY <1>5 DEF SetCooldown, BelowLimit, VerificationTypeOK
  <2>4. cooldown' \subseteq Emails
    BY <1>5, <2>1 DEF SetCooldown, VerificationTypeOK, SendRecord, Slots
  <2> QED
    BY <1>5, <2>2, <2>3, <2>4 DEF SetCooldown, VerificationTypeOK
<1>6. ASSUME NEW r \in Requests, SetCount(r) PROVE TInv'
  <2>1. req[r] \in SendRecord
    BY <1>6, PhaseRecord DEF SetCount, Sending
  <2>2. req' \in [Requests -> Request]
    BY <1>6, <2>1 DEF SetCount, VerificationTypeOK, Request, SendRecord, Sending
  <2>3. BelowLimit'
    BY <1>6 DEF SetCount, BelowLimit, VerificationTypeOK
  <2>4. req[r].count \in Nat /\ req[r].count < MaxDaily
    BY <1>6, <2>1 DEF SetCount, BelowLimit, SendRecord
  <2>5. count' \in 0 .. MaxDaily /\ granted' \in Nat
    BY <1>6, <2>4 DEF SetCount, NewCount, VerificationTypeOK
  <2> QED
    BY <1>6, <2>2, <2>3, <2>5 DEF SetCount, VerificationTypeOK
<1>7. ASSUME NEW r \in Requests, SendMail(r) PROVE TInv'
  <2>1. req[r] \in SendRecord
    BY <1>7, PhaseRecord DEF SendMail, Sending
  <2>2. req' \in [Requests -> Request] /\ mailed' \in [Slots -> Codes \cup {NoCode}]
    BY <1>7, <2>1 DEF SendMail, VerificationTypeOK, Request, SendRecord
  <2>3. BelowLimit'
    BY <1>7 DEF SendMail, BelowLimit, VerificationTypeOK, NoCall
  <2> QED
    BY <1>7, <2>2, <2>3 DEF SendMail, VerificationTypeOK
<1>8. ASSUME NEW r \in Requests, NEW s \in Slots, NEW typed \in Codes, Compare(r, s, typed)
      PROVE  TInv'
  <2>1. req' \in [Requests -> Request]
    BY <1>8 DEF Compare, VerificationTypeOK, Request, Verifying
  <2>2. BelowLimit'
    BY <1>8 DEF Compare, BelowLimit, VerificationTypeOK
  <2> QED
    BY <1>8, <2>1, <2>2 DEF Compare, Touched, VerificationTypeOK
<1>9. ASSUME NEW r \in Requests, DeleteCode(r) PROVE TInv'
  <2>1. req[r] \in [phase : Verifying, slot : Slots]
    BY <1>9, PhaseRecord DEF DeleteCode, Verifying
  <2>2. req' \in [Requests -> Request]
    BY <1>9, <2>1 DEF DeleteCode, VerificationTypeOK, Request, Verifying
  <2>3. BelowLimit'
    BY <1>9 DEF DeleteCode, BelowLimit, VerificationTypeOK
  <2> QED
    BY <1>9, <2>2, <2>3 DEF DeleteCode, VerificationTypeOK
<1>10. ASSUME NEW r \in Requests, SetVerified(r) PROVE TInv'
  <2>1. req[r].slot \in Slots
    BY <1>10, PhaseRecord DEF SetVerified, Verifying
  <2>2. BelowLimit'
    BY <1>10 DEF SetVerified, BelowLimit, VerificationTypeOK, NoCall
  <2> QED
    BY <1>10, <2>1, <2>2 DEF SetVerified, VerificationTypeOK, Request
<1>11. ASSUME NEW r \in Requests, CallFails(r) PROVE TInv'
  <2>1. BelowLimit'
    BY <1>11 DEF CallFails, BelowLimit, VerificationTypeOK, NoCall
  <2> QED
    BY <1>11, <2>1 DEF CallFails, VerificationTypeOK, Request
<1>12. ASSUME NEW s \in Slots, ExpireCode(s) \/ DropVerified(s) PROVE TInv'
  BY <1>12 DEF ExpireCode, DropVerified, VerificationTypeOK, BelowLimit
<1>13. ASSUME NEW e \in Emails, ExpireCooldown(e) \/ CreateAccount(e) PROVE TInv'
  BY <1>13 DEF ExpireCooldown, CreateAccount, VerificationTypeOK, BelowLimit
<1>14. CASE Midnight
  <2>1. ASSUME NEW r \in Requests PROVE req'[r] \in Request
    BY <1>14, <2>1, PhaseRecord DEF Midnight, VerificationTypeOK, Request, SendRecord
  <2>2. ASSUME NEW r \in Requests, req'[r].phase \in {"code", "cooling", "counting"}
        PROVE  req'[r].count < MaxDaily
    BY <1>14, <2>2, PhaseRecord DEF Midnight, BelowLimit, SendRecord
  <2>3. req' \in [Requests -> Request]
    BY <1>14, <2>1 DEF Midnight
  <2>4. count' \in 0 .. MaxDaily /\ granted' \in Nat
    BY <1>14 DEF Midnight
  <2>5. overlapped' \in BOOLEAN
    BY <1>14 DEF Midnight
  <2>6. VerificationTypeOK'
    BY <1>14, <2>3, <2>4, <2>5 DEF Midnight, VerificationTypeOK
  <2> QED
    BY <2>2, <2>6 DEF BelowLimit
<1>15. CASE UNCHANGED verificationVars
  BY <1>15 DEF verificationVars, VerificationTypeOK, BelowLimit
<1> QED
  BY <1>1, <1>2, <1>3, <1>4, <1>5, <1>6, <1>7, <1>8, <1>9, <1>10, <1>11, <1>12, <1>13,
     <1>14, <1>15 DEF VerificationNext

(* The stored count never passes the limit, whatever updates are lost.     *)
THEOREM VerificationTypeCorrect == VerificationSpec => []VerificationTypeOK
<1>1. VerificationInit => TInv
  <2> SUFFICES ASSUME VerificationInit PROVE TInv
    OBVIOUS
  <2>1. req \in [Requests -> Request]
    BY DEF VerificationInit, Request
  <2>2. BelowLimit
    BY DEF VerificationInit, BelowLimit, NoCall
  <2>3. count \in 0 .. MaxDaily /\ granted \in Nat
    BY MaxDailyAssumption DEF VerificationInit
  <2>4. overlapped \in BOOLEAN
    BY DEF VerificationInit
  <2> QED
    BY <2>1, <2>2, <2>3, <2>4 DEF VerificationInit, TInv, VerificationTypeOK
<1>2. TInv /\ [VerificationNext]_verificationVars => TInv'
  BY VerificationTypes
<1>3. TInv => VerificationTypeOK
  BY DEF TInv
<1> QED
  BY <1>1, <1>2, <1>3, PTL DEF VerificationSpec
-----------------------------------------------------------------------------
(***************************************************************************)
(* The daily limit.  While no two sends have overlapped, every send counted *)
(* is in the stored count, and at most one send holds what it read: just   *)
(* the stored count, which it is about to increment.                       *)
(***************************************************************************)
GrantedIsCount == ~overlapped => granted = count

ReadIsCurrent ==
  ~overlapped => \A q \in Requests : Counting(q) => req[q].count = count

OneCounts ==
  ~overlapped => \A q, p \in Requests : Counting(q) /\ Counting(p) => q = p

LInv == GrantedIsCount /\ ReadIsCurrent /\ OneCounts

(* A step after which no further send holds a count keeps the invariant.   *)
LEMMA CountKeeps ==
  ASSUME LInv, UNCHANGED <<count, granted>>, ~overlapped' => ~overlapped,
         \A q \in Requests : Counting(q)' => Counting(q) /\ req'[q].count = req[q].count
  PROVE  LInv'
BY DEF LInv, GrantedIsCount, ReadIsCurrent, OneCounts

(* Every step keeps it: only the reading, the writing and midnight matter. *)
LEMMA NextCounts ==
  ASSUME VerificationTypeOK, LInv, [VerificationNext]_verificationVars
  PROVE  LInv'
<1> USE DEF keys, codeHistory
<1>1. ASSUME NEW r \in Requests, CheckCount(r) PROVE LInv'
  <2>0. req[r] \in SendRecord
    BY <1>1, PhaseRecord DEF CheckCount, Sending
  <2>1. CASE req'[r].phase # "code"
    <3>1. req' = [req EXCEPT ![r] = NoCall] /\ UNCHANGED overlapped
      BY <1>1, <2>0, <2>1 DEF CheckCount, VerificationTypeOK, SendRecord
    <3> QED
      BY <1>1, <3>1, CountKeeps DEF CheckCount, Counting, VerificationTypeOK, NoCall
  <2>2. CASE req'[r].phase = "code"
    <3>1. PICK n \in IF req[r].today THEN {count} ELSE 0 .. MaxDaily :
            /\ req' = [req EXCEPT ![r].phase = "code", ![r].count = n]
            /\ overlapped' = (overlapped \/
                 (req[r].today /\ \E q \in Requests \ {r} : Counting(q)))
      BY <1>1, <2>2 DEF CheckCount, VerificationTypeOK, NoCall
    <3>2. /\ req'[r].today = req[r].today /\ req'[r].count = n
          /\ \A q \in Requests \ {r} : req'[q] = req[q]
      BY <2>0, <3>1 DEF VerificationTypeOK, SendRecord
    <3>3. CASE req[r].today = FALSE
      BY <1>1, <3>1, <3>2, <3>3, CountKeeps DEF CheckCount, Counting
    <3>4. CASE req[r].today = TRUE
      <4>1. ~overlapped' => ~overlapped /\ \A q \in Requests \ {r} : ~Counting(q)'
        BY <3>1, <3>2, <3>4 DEF Counting
      <4>2. n = count /\ UNCHANGED <<count, granted>>
        BY <1>1, <3>1, <3>4 DEF CheckCount
      <4> QED
        BY <3>2, <4>1, <4>2 DEF LInv, GrantedIsCount, ReadIsCurrent, OneCounts
    <3> QED BY <2>0, <3>3, <3>4 DEF SendRecord
  <2> QED BY <2>1, <2>2
<1>2. ASSUME NEW r \in Requests, SetCount(r) PROVE LInv'
  <2>1. req[r] \in SendRecord
    BY <1>2, PhaseRecord DEF SetCount, Sending
  <2>2. ~Counting(r)' /\ \A q \in Requests \ {r} : req'[q] = req[q]
    BY <1>2, <2>1 DEF SetCount, Counting, VerificationTypeOK, SendRecord
  <2>3. CASE req[r].today = FALSE
    BY <1>2, <2>2, <2>3, CountKeeps DEF SetCount, Counting
  <2>4. CASE req[r].today = TRUE
    <3>1. Counting(r)
      BY <1>2, <2>4 DEF SetCount, Counting
    <3>2. ~overlapped => \A q \in Requests : ~Counting(q)'
      BY <2>2, <3>1 DEF LInv, OneCounts, Counting
    <3>3. ~overlapped => count' = count + 1 /\ granted' = count + 1
      BY <1>2, <2>4, <3>1 DEF SetCount, NewCount, LInv, GrantedIsCount, ReadIsCurrent
    <3> QED
      BY <1>2, <3>2, <3>3 DEF SetCount, LInv, GrantedIsCount, ReadIsCurrent, OneCounts
  <2> QED BY <2>1, <2>3, <2>4 DEF SendRecord
<1>3. CASE Midnight
  <2>1. \A q \in Requests : ~Counting(q)'
    BY <1>3, PhaseRecord DEF Midnight, Counting, SendRecord, Sending
  <2> QED
    BY <1>3, <2>1 DEF Midnight, LInv, GrantedIsCount, ReadIsCurrent, OneCounts
<1>4. ASSUME NEW r \in Requests, CheckCooldown(r) \/ SetCode(r) \/ SetCooldown(r) \/ SendMail(r)
      PROVE  LInv'
  <2>1. req[r] \in SendRecord
    BY <1>4, PhaseRecord DEF CheckCooldown, SetCode, SetCooldown, SendMail, Sending
  <2>2. \A q \in Requests : Counting(q)' => Counting(q) /\ req'[q].count = req[q].count
    BY <1>4, <2>1 DEF CheckCooldown, SetCode, SetCooldown, SendMail, Counting, VerificationTypeOK, SendRecord, NoCall
  <2> QED
    BY <1>4, <2>2, CountKeeps DEF CheckCooldown, SetCode, SetCooldown, SendMail
<1>5. ASSUME NEW r \in Requests, DeleteCode(r) PROVE LInv'
  <2>1. req[r] \in [phase : Verifying, slot : Slots]
    BY <1>5, PhaseRecord DEF DeleteCode, Verifying
  <2>2. \A q \in Requests : Counting(q)' => Counting(q) /\ req'[q].count = req[q].count
    BY <1>5, <2>1 DEF DeleteCode, Counting, VerificationTypeOK
  <2> QED
    BY <1>5, <2>2, CountKeeps DEF DeleteCode
<1>6. ASSUME NEW r \in Requests, SetVerified(r) \/ CallFails(r) PROVE LInv'
  <2>1. \A q \in Requests : Counting(q)' => Counting(q) /\ req'[q].count = req[q].count
    BY <1>6 DEF SetVerified, CallFails, Counting, VerificationTypeOK, NoCall
  <2> QED
    BY <1>6, <2>1, CountKeeps DEF SetVerified, CallFails
<1>7. ASSUME NEW r \in Requests, NEW s \in Slots, NEW typed \in Codes, Compare(r, s, typed)
      PROVE  LInv'
  <2>1. \A q \in Requests : Counting(q)' => Counting(q) /\ req'[q].count = req[q].count
    BY <1>7 DEF Compare, Counting, VerificationTypeOK
  <2> QED
    BY <1>7, <2>1, CountKeeps DEF Compare
<1>8. ASSUME NEW r \in Requests, NEW e \in Emails, NEW type \in {"signup", "password"},
             BeginSend(r, e, type)
      PROVE  LInv'
  <2>1. \A q \in Requests : Counting(q)' => Counting(q) /\ req'[q].count = req[q].count
    BY <1>8 DEF BeginSend, Counting, VerificationTypeOK
  <2> QED
    BY <1>8, <2>1, CountKeeps DEF BeginSend
<1>9. ASSUME \/ \E s \in Slots : ExpireCode(s) \/ DropVerified(s)
             \/ \E e \in Emails : ExpireCooldown(e) \/ CreateAccount(e)
             \/ UNCHANGED verificationVars
      PROVE  LInv'
  <2>1. UNCHANGED <<req, count, granted, overlapped>>
    BY <1>9 DEF ExpireCode, DropVerified, ExpireCooldown, CreateAccount, verificationVars
  <2> QED
    BY <2>1, CountKeeps DEF Counting
<1> QED
  BY <1>1, <1>2, <1>3, <1>4, <1>5, <1>6, <1>7, <1>8, <1>9 DEF VerificationNext

(* Without overlapping sends no day grants more codes than the limit.      *)
THEOREM LimitHolds == VerificationSpec => []LimitUnlessOverlap
<1>1. VerificationInit => LInv
  BY DEF VerificationInit, LInv, GrantedIsCount, ReadIsCurrent, OneCounts, Counting, NoCall
<1>2. VerificationTypeOK /\ LInv /\ [VerificationNext]_verificationVars => LInv'
  BY NextCounts
<1>3. VerificationTypeOK /\ LInv => LimitUnlessOverlap
  BY MaxDailyAssumption DEF VerificationTypeOK, LInv, GrantedIsCount, LimitUnlessOverlap
<1> QED
  BY <1>1, <1>2, <1>3, VerificationTypeCorrect, PTL DEF VerificationSpec
-----------------------------------------------------------------------------
(***************************************************************************)
(* Mailed codes work.  On a slot that is not disturbed at most one call is *)
(* at work; once it has stored its code, that code stays; and a code that  *)
(* was presented has been taken off the mail's codeHistory.                    *)
(***************************************************************************)
Active(r, s) == req[r].phase # "idle" /\ req[r].slot = s

Stored(r) == req[r].phase \in {"cooling", "counting", "mailing"}

OneCallPerSlot ==
  \A s \in Slots \ disturbed : \A r, q \in Requests : Active(r, s) /\ Active(q, s) => r = q

StoredIsKept ==
  \A s \in Slots \ disturbed : \A r \in Requests :
    Stored(r) /\ req[r].slot = s => code[s] = req[r].code

PresentedIsUsed ==
  \A s \in Slots \ disturbed : \A r \in Requests :
    req[r].phase = "compared" /\ req[r].slot = s => mailed[s] = NoCode

MInv == OneCallPerSlot /\ StoredIsKept /\ PresentedIsUsed /\ MailedCodeWorks

(* A step that ends calls, or moves them on without touching a code.       *)
LEMMA MailKeeps ==
  ASSUME MInv, UNCHANGED <<code, mailed, disturbed>>,
         \A q \in Requests :
           \/ req'[q].phase = "idle"
           \/ /\ req[q].phase # "idle" /\ req'[q].slot = req[q].slot
              /\ Stored(q)' => Stored(q) /\ req'[q].code = req[q].code
              /\ req'[q].phase = "compared" => req[q].phase = "compared"
  PROVE  MInv'
<1>1. \A q \in Requests, s \in Slots : Active(q, s)' => Active(q, s)
  BY DEF Active
<1>2. OneCallPerSlot'
  BY <1>1 DEF MInv, OneCallPerSlot
<1>3. StoredIsKept'
  BY DEF MInv, StoredIsKept, Stored
<1>4. PresentedIsUsed' /\ MailedCodeWorks'
  BY DEF MInv, PresentedIsUsed, MailedCodeWorks
<1> QED
  BY <1>2, <1>3, <1>4 DEF MInv

(* A call that begins on a slot, and finds it idle or marks it disturbed.  *)
LEMMA BeginKeeps ==
  ASSUME MInv, UNCHANGED code, NEW r \in Requests, NEW s \in Slots, req[r].phase = "idle",
         disturbed' = Touched(r, s), \A q \in Requests \ {r} : req'[q] = req[q],
         req'[r].slot = s, req'[r].phase \in {"cooldown", "compared"},
         \A t \in Slots : mailed'[t] = mailed[t] \/ mailed'[t] = NoCode,
         req'[r].phase = "compared" => mailed'[s] = NoCode
  PROVE  MInv'
<1>1. disturbed \subseteq disturbed'
  BY DEF Touched
<1>2. s \notin disturbed' => \A q \in Requests \ {r} : ~Active(q, s)
  BY DEF Touched, Busy, Active
<1>3. OneCallPerSlot'
  BY <1>1, <1>2 DEF MInv, OneCallPerSlot, Active
<1>4. StoredIsKept'
  BY <1>1 DEF MInv, StoredIsKept, Stored
<1>5. PresentedIsUsed'
  BY <1>1 DEF MInv, PresentedIsUsed
<1>6. MailedCodeWorks'
  BY <1>1 DEF MInv, MailedCodeWorks
<1> QED
  BY <1>3, <1>4, <1>5, <1>6 DEF MInv

(* Every step keeps it.                                                    *)
LEMMA NextMails ==
  ASSUME VerificationTypeOK, MInv, [VerificationNext]_verificationVars
  PROVE  MInv'
<1> USE DEF keys, codeHistory
<1>1. ASSUME NEW r \in Requests, NEW e \in Emails, NEW type \in {"signup", "password"},
             BeginSend(r, e, type)
      PROVE  MInv'
  <2>1. <<e, type>> \in Slots
    BY DEF Slots
  <2> QED
    BY <1>1, <2>1, BeginKeeps DEF BeginSend, VerificationTypeOK
<1>2. ASSUME NEW r \in Requests,
             CheckCooldown(r) \/ CheckCount(r) \/ SetCooldown(r) \/ SetCount(r)
      PROVE  MInv'
  <2>1. req[r] \in SendRecord
    BY <1>2, PhaseRecord DEF CheckCooldown, CheckCount, SetCooldown, SetCount, Sending
  <2>2. \A q \in Requests \ {r} : req'[q] = req[q]
    BY <1>2 DEF CheckCooldown, CheckCount, SetCooldown, SetCount, VerificationTypeOK
  <2>3. \/ req'[r].phase = "idle"
        \/ /\ req[r].phase # "idle" /\ req'[r].slot = req[r].slot
           /\ Stored(r)' => Stored(r) /\ req'[r].code = req[r].code
           /\ req'[r].phase # "compared"
    BY <1>2, <2>1 DEF CheckCooldown, CheckCount, SetCooldown, SetCount, VerificationTypeOK, SendRecord, NoCall, Stored
  <2>4. UNCHANGED <<code, mailed, disturbed>>
    BY <1>2 DEF CheckCooldown, CheckCount, SetCooldown, SetCount
  <2> QED
    BY <2>2, <2>3, <2>4, MailKeeps DEF Stored
<1>3. ASSUME NEW r \in Requests, SetCode(r) PROVE MInv'
  <2> DEFINE s == req[r].slot
  <2>1. req[r] \in SendRecord /\ s \in Slots
    BY <1>3, PhaseRecord DEF SetCode, Sending, SendRecord
  <2>2. /\ \A q \in Requests \ {r} : req'[q] = req[q]
        /\ req'[r].phase = "cooling" /\ req'[r].slot = s /\ code'[s] = req'[r].code
        /\ \A t \in Slots \ {s} : code'[t] = code[t] /\ mailed'[t] = mailed[t]
        /\ mailed'[s] = NoCode
    BY <1>3, <2>1 DEF SetCode, VerificationTypeOK, SendRecord
  <2>3. s \notin disturbed' => \A q \in Requests \ {r} : ~Active(q, s)
    BY <1>3 DEF SetCode, Busy, Active
  <2>4. \A t \in Slots \ {s} : t \notin disturbed' => t \notin disturbed
    BY <1>3 DEF SetCode
  <2>5. OneCallPerSlot'
    BY <1>3, <2>2, <2>3, <2>4 DEF MInv, OneCallPerSlot, Active
  <2>6. StoredIsKept'
    BY <2>2, <2>3, <2>4 DEF MInv, StoredIsKept, Stored, Active
  <2>7. PresentedIsUsed' /\ MailedCodeWorks'
    BY <2>2, <2>4 DEF MInv, PresentedIsUsed, MailedCodeWorks
  <2> QED
    BY <2>5, <2>6, <2>7 DEF MInv
<1>4. ASSUME NEW r \in Requests, SendMail(r) PROVE MInv'
  <2> DEFINE s == req[r].slot
  <2>1. req[r] \in SendRecord /\ s \in Slots
    BY <1>4, PhaseRecord DEF SendMail, Sending, SendRecord
  <2>2. /\ \A q \in Requests \ {r} : req'[q] = req[q]
        /\ req'[r].phase = "idle"
        /\ \A t \in Slots \ {s} : mailed'[t] = mailed[t]
        /\ mailed'[s] = req[r].code
        /\ UNCHANGED <<code, disturbed>>
    BY <1>4, <2>1 DEF SendMail, VerificationTypeOK, NoCall
  <2>3. s \notin disturbed => \A q \in Requests \ {r} : ~Active(q, s)
    BY <1>4, <2>1 DEF SendMail, MInv, OneCallPerSlot, Active
  <2>4. OneCallPerSlot' /\ StoredIsKept'
    BY <2>2 DEF MInv, OneCallPerSlot, StoredIsKept, Active, Stored
  <2>5. PresentedIsUsed'
    BY <2>2, <2>3 DEF MInv, PresentedIsUsed, Active
  <2>6. MailedCodeWorks'
    BY <1>4, <2>1, <2>2 DEF SendMail, MInv, StoredIsKept, Stored, MailedCodeWorks
  <2> QED
    BY <2>4, <2>5, <2>6 DEF MInv
<1>5. ASSUME NEW r \in Requests, NEW s \in Slots, NEW typed \in Codes, Compare(r, s, typed)
      PROVE  MInv'
  BY <1>5, BeginKeeps DEF Compare, VerificationTypeOK
<1>6. ASSUME NEW r \in Requests, DeleteCode(r) PROVE MInv'
  <2> DEFINE s == req[r].slot
  <2>1. req[r] \in [phase : Verifying, slot : Slots]
    BY <1>6, PhaseRecord DEF DeleteCode, Verifying
  <2>2. /\ \A q \in Requests \ {r} : req'[q] = req[q]
        /\ req'[r].phase = "deleted" /\ req'[r].slot = s
        /\ \A t \in Slots \ {s} : code'[t] = code[t]
        /\ UNCHANGED <<mailed, disturbed>>
    BY <1>6, <2>1 DEF DeleteCode, KeyDeleted, VerificationTypeOK
  <2>3. s \notin disturbed => mailed[s] = NoCode /\ \A q \in Requests \ {r} : ~Active(q, s)
    BY <1>6, <2>1 DEF DeleteCode, MInv, OneCallPerSlot, PresentedIsUsed, Active
  <2>4. OneCallPerSlot'
    BY <1>6, <2>2 DEF DeleteCode, MInv, OneCallPerSlot, Active
  <2>5. StoredIsKept'
    BY <2>2, <2>3 DEF MInv, StoredIsKept, Stored, Active
  <2>6. PresentedIsUsed' /\ MailedCodeWorks'
    BY <2>2, <2>3 DEF MInv, PresentedIsUsed, MailedCodeWorks
  <2> QED
    BY <2>4, <2>5, <2>6 DEF MInv
<1>7. ASSUME NEW r \in Requests, SetVerified(r) \/ CallFails(r) PROVE MInv'
  <2>1. req'[r].phase = "idle" /\ \A q \in Requests \ {r} : req'[q] = req[q]
    BY <1>7 DEF SetVerified, CallFails, VerificationTypeOK, NoCall
  <2>2. UNCHANGED <<code, mailed, disturbed>>
    BY <1>7 DEF SetVerified, CallFails
  <2> QED
    BY <2>1, <2>2, MailKeeps DEF Stored
<1>8. ASSUME NEW s \in Slots, ExpireCode(s) PROVE MInv'
  <2>1. /\ UNCHANGED req /\ disturbed \subseteq disturbed' /\ mailed'[s] = NoCode
        /\ \A t \in Slots \ {s} : code'[t] = code[t] /\ mailed'[t] = mailed[t]
        /\ s \notin disturbed' => \A q \in Requests : ~Active(q, s)
    BY <1>8 DEF ExpireCode, VerificationTypeOK, Active
  <2>2. OneCallPerSlot'
    BY <2>1 DEF MInv, OneCallPerSlot, Active
  <2>3. StoredIsKept'
    BY <2>1 DEF MInv, StoredIsKept, Stored, Active
  <2>4. PresentedIsUsed' /\ MailedCodeWorks'
    BY <2>1 DEF MInv, PresentedIsUsed, MailedCodeWorks
  <2> QED
    BY <2>2, <2>3, <2>4 DEF MInv
<1>9. CASE Midnight
  <2>1. ASSUME NEW q \in Requests
        PROVE  \/ req'[q].phase = "idle"
               \/ /\ req[q].phase # "idle" /\ req'[q].slot = req[q].slot
                  /\ Stored(q)' => Stored(q) /\ req'[q].code = req[q].code
                  /\ req'[q].phase = "compared" => req[q].phase = "compared"
    BY <1>9, PhaseRecord DEF Midnight, SendRecord, Stored
  <2>2. UNCHANGED <<code, mailed, disturbed>>
    BY <1>9 DEF Midnight
  <2> QED
    BY <2>1, <2>2, MailKeeps
<1>10. ASSUME \/ \E s \in Slots : DropVerified(s)
              \/ \E e \in Emails : ExpireCooldown(e) \/ CreateAccount(e)
              \/ UNCHANGED verificationVars
       PROVE  MInv'
  <2>1. UNCHANGED <<req, code, mailed, disturbed>>
    BY <1>10 DEF DropVerified, ExpireCooldown, CreateAccount, verificationVars
  <2> QED
    BY <2>1, MailKeeps DEF Stored
<1> QED
  BY <1>1, <1>2, <1>3, <1>4, <1>5, <1>6, <1>7, <1>8, <1>9, <1>10 DEF VerificationNext

(* A mailed code works until it expires, is used or replaced, unless two   *)
(* calls work on its slot at once.                                         *)
THEOREM MailedCodesWork == VerificationSpec => []MailedCodeWorks
<1>1. VerificationInit => MInv
  BY DEF VerificationInit, MInv, OneCallPerSlot, StoredIsKept, PresentedIsUsed, MailedCodeWorks, Active, Stored, NoCall
<1>2. VerificationTypeOK /\ MInv /\ [VerificationNext]_verificationVars => MInv'
  BY NextMails
<1>3. MInv => MailedCodeWorks
  BY DEF MInv
<1> QED
  BY <1>1, <1>2, <1>3, VerificationTypeCorrect, PTL DEF VerificationSpec
-----------------------------------------------------------------------------
(***************************************************************************)
(* The refinement.  Codes decide what is issued, calls what is presented.  *)
(***************************************************************************)
(* Calls that are no verifications, before and after a step, present       *)
(* nothing.                                                                *)
LEMMA SamePresented ==
  ASSUME \A q \in Requests :
           \/ req'[q].phase \notin Verifying /\ req[q].phase \notin Verifying
           \/ req'[q].phase \in Verifying /\ req[q].phase \in Verifying /\ req'[q].slot = req[q].slot
  PROVE  UNCHANGED Presented
BY DEF Presented

(* A call ends, and the slot it was presented may be presented no more.    *)
LEMMA CallEnds ==
  ASSUME NEW r \in Requests, NEW s \in Slots, req[r].slot = s,
         req'[r].phase \notin Verifying, \A q \in Requests \ {r} : req'[q] = req[q]
  PROVE  Presented' \in {Presented, Presented \ {s}}
<1>1. \A t \in Slots : t # s => (t \in Presented' <=> t \in Presented)
  BY DEF Presented
<1>2. s \in Presented' => s \in Presented
  BY DEF Presented
<1>3. Presented \subseteq Slots /\ Presented' \subseteq Slots
  BY DEF Presented
<1> QED
  BY <1>1, <1>2, <1>3

(* Every step is a step of ProofOfEmail or changes nothing it speaks of.   *)
LEMMA StepProves ==
  ASSUME VerificationTypeOK, [VerificationNext]_verificationVars
  PROVE  [Proof!Next]_(Proof!vars)
<1> USE DEF keys, codeHistory
<1> DEFINE Same == UNCHANGED <<Issued, Presented, verified>>
<1>1. ASSUME NEW r \in Requests, NEW e \in Emails, NEW type \in {"signup", "password"},
             BeginSend(r, e, type)
      PROVE  Same
  <2>1. req[r].phase \notin Verifying /\ req'[r].phase \notin Verifying
    BY <1>1 DEF BeginSend, VerificationTypeOK, Verifying
  <2>2. \A q \in Requests \ {r} : req'[q] = req[q]
    BY <1>1 DEF BeginSend, VerificationTypeOK
  <2>3. UNCHANGED Presented
    BY <2>1, <2>2, SamePresented
  <2> QED
    BY <1>1, <2>3 DEF BeginSend, Issued
<1>2. ASSUME NEW r \in Requests,
             CheckCooldown(r) \/ CheckCount(r) \/ SetCooldown(r) \/ SetCount(r) \/ SendMail(r)
      PROVE  Same
  <2>1. req[r] \in SendRecord
    BY <1>2, PhaseRecord DEF CheckCooldown, CheckCount, SetCooldown, SetCount, SendMail, Sending
  <2>2. req[r].phase \notin Verifying /\ req'[r].phase \notin Verifying
    BY <1>2, <2>1 DEF CheckCooldown, CheckCount, SetCooldown, SetCount, SendMail, VerificationTypeOK,
                      SendRecord, NoCall, Sending, Verifying
  <2>3. \A q \in Requests \ {r} : req'[q] = req[q]
    BY <1>2 DEF CheckCooldown, CheckCount, SetCooldown, SetCount, SendMail, VerificationTypeOK
  <2>4. UNCHANGED Presented
    BY <2>2, <2>3, SamePresented
  <2>5. UNCHANGED <<code, verified>>
    BY <1>2 DEF CheckCooldown, CheckCount, SetCooldown, SetCount, SendMail
  <2> QED
    BY <2>4, <2>5 DEF Issued
<1>3. ASSUME NEW r \in Requests, SetCode(r) PROVE Proof!Next
  <2> DEFINE s == req[r].slot
  <2>1. req[r] \in SendRecord /\ s \in Slots
    BY <1>3, PhaseRecord DEF SetCode, Sending, SendRecord
  <2>2. /\ req[r].phase \notin Verifying /\ req'[r].phase \notin Verifying
        /\ \A q \in Requests \ {r} : req'[q] = req[q]
    BY <1>3, <2>1 DEF SetCode, VerificationTypeOK, SendRecord, Verifying
  <2>3. UNCHANGED Presented
    BY <2>2, SamePresented
  <2>4. Issued' = Issued \cup {s} /\ UNCHANGED verified
    BY <1>3, <2>1, NoCodeAssumption DEF SetCode, VerificationTypeOK, Issued
  <2> QED
    BY <2>1, <2>3, <2>4 DEF Proof!Next, Proof!Issue
<1>4. ASSUME NEW r \in Requests, NEW s \in Slots, NEW typed \in Codes, Compare(r, s, typed)
      PROVE  Proof!Next
  <2>1. s \in Issued /\ UNCHANGED <<Issued, verified>>
    BY <1>4, NoCodeAssumption DEF Compare, KeyRead, Issued
  <2>2. /\ req'[r].phase \in Verifying /\ req'[r].slot = s /\ req[r].phase \notin Verifying
        /\ \A q \in Requests \ {r} : req'[q] = req[q]
    BY <1>4 DEF Compare, VerificationTypeOK, Verifying
  <2>3. Presented' = Presented \cup {s}
    BY <2>2 DEF Presented
  <2> QED
    BY <2>1, <2>3 DEF Proof!Next, Proof!Present
<1>5. ASSUME NEW r \in Requests, DeleteCode(r) PROVE Proof!Next
  <2> DEFINE s == req[r].slot
  <2>1. req[r] \in [phase : Verifying, slot : Slots]
    BY <1>5, PhaseRecord DEF DeleteCode, Verifying
  <2>2. /\ req[r].phase \in Verifying /\ req'[r].phase \in Verifying /\ req'[r].slot = s
        /\ \A q \in Requests \ {r} : req'[q] = req[q]
    BY <1>5, <2>1 DEF DeleteCode, VerificationTypeOK, Verifying
  <2>3. UNCHANGED Presented
    BY <2>2, SamePresented
  <2>4. Issued' = Issued \ {s} /\ UNCHANGED verified
    BY <1>5, <2>1 DEF DeleteCode, KeyDeleted, VerificationTypeOK, Issued
  <2> QED
    BY <2>1, <2>3, <2>4 DEF Proof!Next, Proof!Forget
<1>6. ASSUME NEW r \in Requests, SetVerified(r) PROVE Proof!Next
  <2> DEFINE s == req[r].slot
  <2>1. s \in Slots
    BY <1>6, PhaseRecord DEF SetVerified, Verifying
  <2>2. s \in Presented
    BY <1>6, <2>1 DEF SetVerified, Presented, Verifying
  <2>3. req'[r].phase \notin Verifying /\ \A q \in Requests \ {r} : req'[q] = req[q]
    BY <1>6 DEF SetVerified, VerificationTypeOK, NoCall, Verifying
  <2>4. Presented' \in {Presented, Presented \ {s}}
    BY <2>1, <2>3, CallEnds
  <2>5. UNCHANGED Issued /\ verified' = verified \cup {s}
    BY <1>6 DEF SetVerified, Issued
  <2> QED
    BY <2>1, <2>2, <2>4, <2>5 DEF Proof!Next, Proof!Prove, Proof!Ends
<1>7. ASSUME NEW r \in Requests, CallFails(r) PROVE Proof!Next \/ Same
  <2> DEFINE s == req[r].slot
  <2>1. /\ s \in Slots
        /\ req'[r].phase \notin Verifying /\ \A q \in Requests \ {r} : req'[q] = req[q]
    BY <1>7, PhaseRecord DEF CallFails, VerificationTypeOK, NoCall, Verifying, SendRecord
  <2>2. Presented' \in {Presented, Presented \ {s}}
    BY <2>1, CallEnds
  <2>3. UNCHANGED <<Issued, verified>>
    BY <1>7 DEF CallFails, Issued
  <2> QED
    BY <2>1, <2>2, <2>3 DEF Proof!Next, Proof!Withdraw, Proof!Ends
<1>8. ASSUME NEW s \in Slots, ExpireCode(s) PROVE Proof!Next
  <2>1. Issued' = Issued \ {s} /\ UNCHANGED <<Presented, verified>>
    BY <1>8 DEF ExpireCode, VerificationTypeOK, Issued, Presented
  <2> QED
    BY <2>1 DEF Proof!Next, Proof!Forget
<1>9. ASSUME NEW s \in Slots, DropVerified(s) PROVE Proof!Next
  <2>1. verified' = verified \ {s} /\ UNCHANGED <<Issued, Presented>>
    BY <1>9 DEF DropVerified, Issued, Presented
  <2> QED
    BY <2>1 DEF Proof!Next, Proof!Drop
<1>10. ASSUME Midnight PROVE Same
  <2>1. ASSUME NEW q \in Requests
        PROVE  \/ req'[q].phase \notin Verifying /\ req[q].phase \notin Verifying
               \/ /\ req'[q].phase \in Verifying /\ req[q].phase \in Verifying
                  /\ req'[q].slot = req[q].slot
    BY <1>10, PhaseRecord DEF Midnight, SendRecord, Sending, Verifying
  <2>2. UNCHANGED Presented
    BY <2>1, SamePresented
  <2> QED
    BY <1>10, <2>2 DEF Midnight, Issued
<1>11. ASSUME \/ \E e \in Emails : ExpireCooldown(e) \/ CreateAccount(e)
              \/ UNCHANGED verificationVars
       PROVE  Same
  BY <1>11 DEF ExpireCooldown, CreateAccount, verificationVars, Issued, Presented
<1> QED
  BY <1>1, <1>2, <1>3, <1>4, <1>5, <1>6, <1>7, <1>8, <1>9, <1>10, <1>11 DEF VerificationNext, Proof!vars

(* An address is verified only by a code that was out for it and for the   *)
(* purpose: VerificationService implements ProofOfEmail.                   *)
THEOREM ProofImplemented == VerificationSpec => ImplementsProof
<1>1. VerificationInit => Proof!Init
  BY DEF VerificationInit, Proof!Init, Issued, Presented, NoCall, Verifying
<1>2. VerificationTypeOK /\ [VerificationNext]_verificationVars => [Proof!Next]_(Proof!vars)
  BY StepProves
<1> QED
  BY <1>1, <1>2, VerificationTypeCorrect, PTL DEF VerificationSpec, ImplementsProof, Proof!Spec

-----------------------------------------------------------------------------
(***************************************************************************)
(* Accounts.                                                               *)
(***************************************************************************)
(***************************************************************************)
(* What each phase of a call has established.                              *)
(***************************************************************************)
StoreOps == {"change", "reset", "profile", "social", "avatar"}

CallOK(c) ==
  /\ call[c].phase \in {"load", "store", "drop", "save"} => call[c].email \in registered
  /\ call[c].phase \in {"store", "recheck", "insert"} => call[c].name # None
  /\ call[c].phase = "load" => call[c].op \in {"change", "reset"}
  /\ call[c].phase = "store" => call[c].op \in StoreOps
  /\ call[c].phase = "proof" =>
       \/ call[c].op = "signUp" /\ call[c].name # None
       \/ call[c].op = "reset" /\ call[c].email \in registered

CallsOK == \A c \in Calls : CallOK(c)

(* A call in progress has a full record.                                   *)
LEMMA Record ==
  ASSUME TypeOK, NEW c \in Calls, call[c].phase # "idle"
  PROVE  call[c] \in CallRecord
BY DEF TypeOK, Idle

(* A call that moves to another phase, and may carry another name.         *)
LEMMA Moves ==
  ASSUME TypeOK, NEW c \in Calls, NEW q \in CallRecord \cup {Idle}, call' = [call EXCEPT ![c] = q]
  PROVE  /\ call' \in [Calls -> {Idle} \cup CallRecord]
         /\ call'[c] = q
         /\ \A d \in Calls \ {c} : call'[d] = call[d]
BY DEF TypeOK

(* What becomes of a call that is sent to the phase p.                     *)
LEMMA GoesTo ==
  ASSUME TypeOK, NEW c \in Calls, call[c].phase # "idle", NEW p \in Phases, Goto(c, p)
  PROVE  /\ call' \in [Calls -> {Idle} \cup CallRecord]
         /\ call'[c].phase = p /\ call'[c].op = call[c].op /\ call'[c].email = call[c].email
         /\ call'[c].password = call[c].password /\ call'[c].name = call[c].name
         /\ \A d \in Calls \ {c} : call'[d] = call[d]
<1>1. call[c] \in CallRecord
  BY Record
<1> QED
  BY <1>1 DEF TypeOK, CallRecord, Goto

(* What becomes of a call that is done.                                    *)
LEMMA IsDone ==
  ASSUME TypeOK, NEW c \in Calls, Done(c)
  PROVE  /\ call' \in [Calls -> {Idle} \cup CallRecord]
         /\ call'[c] = Idle /\ call'[c].phase = "idle"
         /\ \A d \in Calls \ {c} : call'[d] = call[d]
BY DEF TypeOK, Done, Idle

(* A call that begins has the record it is given.                          *)
LEMMA Begins ==
  ASSUME TypeOK, NEW c \in Calls, NEW phase \in Phases, NEW op \in Ops, NEW e \in Emails,
         NEW p \in Passwords \cup {None}, NEW n \in Names \cup {None},
         call' = [call EXCEPT ![c] = Call(phase, op, e, p, n)]
  PROVE  /\ call' \in [Calls -> {Idle} \cup CallRecord]
         /\ call'[c].phase = phase /\ call'[c].op = op /\ call'[c].email = e
         /\ call'[c].password = p /\ call'[c].name = n
         /\ \A d \in Calls \ {c} : call'[d] = call[d]
BY DEF TypeOK, Call, CallRecord

(* Calls other than c are not disturbed by what c does.                    *)
LEMMA OthersOK ==
  ASSUME CallsOK, NEW c \in Calls, registered \subseteq registered',
         \A d \in Calls \ {c} : call'[d] = call[d], CallOK(c)'
  PROVE  CallsOK'
BY DEF CallsOK, CallOK

(* The types, with what the phases have established, are inductive.        *)
LEMMA NextTypes ==
  ASSUME TypeOK, CallsOK, [Next]_vars
  PROVE  TypeOK' /\ CallsOK'
<1> USE DEF table, history
<1> DEFINE Goal == TypeOK' /\ CallsOK'
<1>1. ASSUME NEW c \in Calls, NEW e \in Emails, NEW p \in Passwords, NEW n \in Names,
             BeginSignUp(c, e, p, n) \/ BeginCreate(c, e, p, n)
      PROVE  Goal
  <2>1. PICK phase \in {"proof", "recheck"}, op \in {"signUp", "create"} :
          /\ call' = [call EXCEPT ![c] = Call(phase, op, e, p, n)]
          /\ phase = "proof" => op = "signUp"
    BY <1>1 DEF BeginSignUp, BeginCreate
  <2>2. /\ call' \in [Calls -> {Idle} \cup CallRecord]
        /\ call'[c].phase = phase /\ call'[c].op = op /\ call'[c].name = n
        /\ \A d \in Calls \ {c} : call'[d] = call[d]
    <3>1. phase \in Phases /\ op \in Ops
      BY DEF Phases, Ops
    <3>2. p \in Passwords \cup {None} /\ n \in Names \cup {None}
      OBVIOUS
    <3> QED BY <2>1, <3>1, <3>2, Begins
  <2>3. UNCHANGED <<table, session, verified, history>>
    BY <1>1 DEF BeginSignUp, BeginCreate
  <2>4. CallOK(c)'
    BY <2>1, <2>2, NoneAssumption DEF CallOK
  <2> QED
    BY <2>2, <2>3, <2>4, OthersOK DEF TypeOK
<1>2. ASSUME NEW c \in Calls, CheckProof(c) PROVE Goal
  <2>1. UNCHANGED <<table, session, verified, history>>
    BY <1>2 DEF CheckProof
  <2>2. CASE Done(c)
    BY <2>1, <2>2, IsDone, OthersOK DEF TypeOK, CallOK
  <2>3. CASE Goto(c, "recheck") /\ call[c].op = "signUp"
    <3>1. CallOK(c)
      BY DEF CallsOK
    <3> QED
      BY <1>2, <2>1, <2>3, <3>1, GoesTo, OthersOK DEF CheckProof, TypeOK, CallOK, Phases
  <2>4. CASE Goto(c, "load") /\ call[c].op # "signUp"
    <3>1. CallOK(c)
      BY DEF CallsOK
    <3> QED
      BY <1>2, <2>1, <2>4, <3>1, GoesTo, OthersOK DEF CheckProof, TypeOK, CallOK, Phases
  <2> QED
    BY <1>2, <2>2, <2>3, <2>4 DEF CheckProof
<1>3. ASSUME NEW c \in Calls, Recheck(c) PROVE Goal
  <2>1. UNCHANGED <<table, session, verified, history>>
    BY <1>3 DEF Recheck
  <2>2. CASE Done(c)
    BY <2>1, <2>2, IsDone, OthersOK DEF TypeOK, CallOK
  <2>3. CASE Goto(c, "insert")
    <3>1. CallOK(c)
      BY DEF CallsOK
    <3> QED
      BY <1>3, <2>1, <2>3, <3>1, GoesTo, OthersOK DEF Recheck, TypeOK, CallOK, Phases
  <2> QED
    BY <1>3, <2>2, <2>3 DEF Recheck
<1>4. ASSUME NEW c \in Calls, Insert(c) PROVE Goal
  <2>1. call[c] \in CallRecord /\ CallOK(c)
    BY <1>4, Record DEF Insert, CallsOK
  <2>2. Done(c) \/ Goto(c, "consume")
    BY <1>4 DEF Insert
  <2>3. /\ call' \in [Calls -> {Idle} \cup CallRecord]
        /\ call'[c].phase \in {"idle", "consume"}
        /\ \A d \in Calls \ {c} : call'[d] = call[d]
    BY <1>4, <2>2, IsDone, GoesTo DEF Insert, Phases
  <2>4. registered \subseteq registered' /\ CallOK(c)'
    BY <1>4, <2>3 DEF Insert, CallOK
  <2>5. CallsOK'
    BY <2>3, <2>4, OthersOK
  <2>6. CASE call[c].email \in registered
    BY <1>4, <2>3, <2>5, <2>6 DEF Insert, TypeOK
  <2>7. CASE call[c].email \notin registered
    BY <1>4, <2>1, <2>3, <2>5, <2>7 DEF Insert, TypeOK, CallRecord, CallOK
  <2> QED
    BY <2>6, <2>7
<1>5. ASSUME NEW c \in Calls, Consume(c) \/ SaveSession(c) PROVE Goal
  <2>1. call[c] \in CallRecord
    BY <1>5, Record DEF Consume, SaveSession
  <2>2. Done(c) /\ UNCHANGED <<table, history>>
    BY <1>5 DEF Consume, SaveSession
  <2>3. session' \in [Emails -> Passwords \cup {None}] /\ verified' \subseteq Slots
    BY <1>5, <2>1 DEF Consume, SaveSession, TypeOK, CallRecord
  <2> QED
    BY <2>2, <2>3, IsDone, OthersOK DEF TypeOK, CallOK
<1>6. ASSUME NEW c \in Calls, NEW e \in Emails, BeginSignIn(c, e) PROVE Goal
  <2>1. password[e] \in Passwords \cup {None} /\ UNCHANGED <<table, session, verified, history>>
    BY <1>6 DEF BeginSignIn, TypeOK
  <2>2. /\ call' \in [Calls -> {Idle} \cup CallRecord]
        /\ call'[c].phase = "drop" /\ call'[c].email = e
        /\ \A d \in Calls \ {c} : call'[d] = call[d]
    <3> DEFINE q == Call("drop", "signIn", e, password[e], None)
    <3>1. q \in CallRecord
      BY <2>1 DEF Call, CallRecord, Phases, Ops
    <3>2. q.phase = "drop" /\ q.email = e
      BY DEF Call
    <3>3. call' = [call EXCEPT ![c] = q]
      BY <1>6 DEF BeginSignIn
    <3> HIDE DEF q
    <3> QED BY <3>1, <3>2, <3>3, Moves
  <2> QED
    BY <1>6, <2>1, <2>2, OthersOK DEF BeginSignIn, TypeOK, CallOK
<1>7. ASSUME NEW c \in Calls, DropSession(c) PROVE Goal
  <2>1. CallOK(c) /\ UNCHANGED <<table, verified, history>>
    BY <1>7 DEF DropSession, CallsOK
  <2>2. session' \in [Emails -> Passwords \cup {None}]
    BY <1>7 DEF DropSession, TypeOK
  <2>3. /\ call' \in [Calls -> {Idle} \cup CallRecord]
        /\ call'[c].phase = "save" /\ call'[c].email = call[c].email
        /\ \A d \in Calls \ {c} : call'[d] = call[d]
    BY <1>7, GoesTo DEF DropSession, Phases
  <2> QED
    BY <1>7, <2>1, <2>2, <2>3, OthersOK DEF DropSession, TypeOK, CallOK
<1>8. ASSUME NEW c \in Calls, NEW e \in Emails, NEW p \in Passwords,
             BeginChange(c, e, p) \/ BeginReset(c, e, p)
      PROVE  Goal
  <2>1. PICK phase \in {"load", "proof"}, op \in {"change", "reset"} :
          /\ call' = [call EXCEPT ![c] = Call(phase, op, e, p, None)]
          /\ phase = "proof" => op = "reset"
    BY <1>8 DEF BeginChange, BeginReset
  <2>2. /\ call' \in [Calls -> {Idle} \cup CallRecord]
        /\ call'[c].phase = phase /\ call'[c].op = op /\ call'[c].email = e
        /\ \A d \in Calls \ {c} : call'[d] = call[d]
    <3>1. phase \in Phases /\ op \in Ops
      BY DEF Phases, Ops
    <3>2. p \in Passwords \cup {None} /\ None \in Names \cup {None}
      OBVIOUS
    <3> QED BY <2>1, <3>1, <3>2, Begins
  <2>3. e \in registered /\ UNCHANGED <<table, session, verified, history>>
    BY <1>8 DEF BeginChange, BeginReset
  <2>4. CallOK(c)'
    BY <2>1, <2>2, <2>3 DEF CallOK
  <2> QED
    BY <2>2, <2>3, <2>4, OthersOK DEF TypeOK
<1>9. ASSUME NEW c \in Calls, Load(c) PROVE Goal
  <2>1. call[c] \in CallRecord /\ CallOK(c)
    BY <1>9, Record DEF Load, CallsOK
  <2>2. name[call[c].email] \in Names \cup {None} /\ name[call[c].email] # None
    BY <1>9, <2>1 DEF Load, TypeOK, CallRecord, CallOK
  <2>3. /\ call' \in [Calls -> {Idle} \cup CallRecord]
        /\ call'[c].phase = "store" /\ call'[c].email = call[c].email
        /\ call'[c].op = call[c].op /\ call'[c].name = name[call[c].email]
        /\ \A d \in Calls \ {c} : call'[d] = call[d]
    BY <1>9, <2>1, <2>2 DEF Load, Carried, TypeOK, CallRecord, Phases
  <2>4. CallOK(c)'
    BY <1>9, <2>1, <2>2, <2>3 DEF Load, CallOK, StoreOps
  <2> QED
    BY <1>9, <2>3, <2>4, OthersOK DEF Load, TypeOK
<1>10. ASSUME NEW c \in Calls, NEW e \in Emails, NEW n \in Names,
              NEW op \in {"profile", "social", "avatar"}, LoadProfile(c, e, n, op)
       PROVE  Goal
  <2>1. PICK p \in Passwords \cup {None}, m \in Names \cup {None} :
          m # None /\ call' = [call EXCEPT ![c] = Call("store", op, e, p, m)]
    BY <1>10, NoneAssumption DEF LoadProfile, Carried, TypeOK
  <2>2. /\ call' \in [Calls -> {Idle} \cup CallRecord]
        /\ call'[c].phase = "store" /\ call'[c].op = op /\ call'[c].email = e /\ call'[c].name = m
        /\ \A d \in Calls \ {c} : call'[d] = call[d]
    <3> DEFINE q == Call("store", op, e, p, m)
    <3>1. q \in CallRecord
      BY DEF Call, CallRecord, Phases, Ops
    <3>2. q.phase = "store" /\ q.op = op /\ q.email = e /\ q.name = m
      BY DEF Call
    <3>3. call' = [call EXCEPT ![c] = q]
      BY <2>1
    <3> HIDE DEF q
    <3> QED BY <3>1, <3>2, <3>3, Moves
  <2>3. CallOK(c)'
    BY <1>10, <2>1, <2>2 DEF LoadProfile, CallOK, StoreOps
  <2> QED
    BY <1>10, <2>2, <2>3, OthersOK DEF LoadProfile, TypeOK
<1>11. ASSUME NEW c \in Calls, NEW e \in Emails, NEW n \in Names, BeginSocial(c, e, n)
       PROVE  Goal
  <2>1. /\ call' \in [Calls -> {Idle} \cup CallRecord]
        /\ call'[c].phase = "insert" /\ call'[c].name = n
        /\ \A d \in Calls \ {c} : call'[d] = call[d]
    <3> DEFINE q == Call("insert", "social", e, None, n)
    <3>1. q \in CallRecord
      BY DEF Call, CallRecord, Phases, Ops
    <3>2. q.phase = "insert" /\ q.name = n
      BY DEF Call
    <3>3. call' = [call EXCEPT ![c] = q]
      BY <1>11 DEF BeginSocial
    <3> HIDE DEF q
    <3> QED BY <3>1, <3>2, <3>3, Moves
  <2> QED
    BY <1>11, <2>1, NoneAssumption, OthersOK DEF BeginSocial, TypeOK, CallOK
<1>12. ASSUME NEW c \in Calls, Store(c) PROVE Goal
  <2>1. call[c] \in CallRecord /\ CallOK(c)
    BY <1>12, Record DEF Store, CallsOK
  <2>2. Done(c) \/ Goto(c, "revoke")
    BY <1>12 DEF Store, AfterStore
  <2>3. /\ call' \in [Calls -> {Idle} \cup CallRecord]
        /\ call'[c].phase \in {"idle", "revoke"}
        /\ \A d \in Calls \ {c} : call'[d] = call[d]
    BY <1>12, <2>2, IsDone, GoesTo DEF Store, Phases
  <2>4. CallsOK'
    BY <1>12, <2>3, OthersOK DEF Store, CallOK
  <2>5. PasswordSaved(c) \in Passwords \cup {None}
    BY <2>1 DEF PasswordSaved, TypeOK, CallRecord
  <2>6. /\ password' \in [Emails -> Passwords \cup {None}]
        /\ name' \in [Emails -> Names \cup {None}]
        /\ \A e \in registered' : name'[e] # None
    BY <1>12, <2>1, <2>5 DEF Store, TypeOK, CallRecord, CallOK
  <2>7. /\ lastPassword' \in [Emails -> Passwords \cup {None}]
        /\ lastName' \in [Emails -> Names \cup {None}]
    BY <1>12, <2>1 DEF Store, TypeOK, CallRecord
  <2>8. raced' \subseteq Emails /\ crossed' \subseteq Emails /\ unrevoked' \subseteq Emails
    BY <1>12, <2>1 DEF Store, TypeOK, CallRecord
  <2> QED
    BY <1>12, <2>3, <2>4, <2>6, <2>7, <2>8 DEF Store, TypeOK
<1>13. ASSUME NEW c \in Calls, Revoke(c) PROVE Goal
  <2>1. Done(c) \/ Goto(c, "consume")
    BY <1>13 DEF Revoke
  <2>2. /\ call' \in [Calls -> {Idle} \cup CallRecord]
        /\ call'[c].phase \in {"idle", "consume"}
        /\ \A d \in Calls \ {c} : call'[d] = call[d]
    BY <1>13, <2>1, IsDone, GoesTo DEF Revoke, Phases
  <2> QED
    BY <1>13, <2>2, OthersOK DEF Revoke, TypeOK, CallOK
<1>14. ASSUME NEW c \in Calls, Fail(c) PROVE Goal
  <2>1. call[c] \in CallRecord
    BY <1>14, Record DEF Fail
  <2>2. unrevoked' \subseteq Emails
    BY <1>14, <2>1 DEF Fail, TypeOK, CallRecord
  <2> QED
    BY <1>14, <2>2, IsDone, OthersOK DEF Fail, TypeOK, CallOK
<1>15. ASSUME NEW e \in Emails, EndSession(e) PROVE Goal
  BY <1>15 DEF EndSession, TypeOK, CallsOK, CallOK
<1>16. ASSUME NEW s \in Slots, Prove(s) \/ Lapse(s) PROVE Goal
  BY <1>16 DEF Prove, Lapse, TypeOK, CallsOK, CallOK
<1>17. CASE UNCHANGED vars
  BY <1>17 DEF vars, TypeOK, CallsOK, CallOK
<1> QED
  BY <1>1, <1>2, <1>3, <1>4, <1>5, <1>6, <1>7, <1>8, <1>9, <1>10, <1>11, <1>12, <1>13, <1>14,
     <1>15, <1>16, <1>17 DEF Next

(* Types and phases hold in every reachable state.                         *)
LEMMA Typing == Spec => [](TypeOK /\ CallsOK)
<1>1. Init => TypeOK /\ CallsOK
  BY DEF Init, TypeOK, CallsOK, CallOK, Nothing, Idle
<1>2. TypeOK /\ CallsOK /\ [Next]_vars => TypeOK' /\ CallsOK'
  BY NextTypes
<1> QED
  BY <1>1, <1>2, PTL DEF Spec

(* Rows, tokens and calls keep their types, and no name becomes null.      *)
THEOREM TypeCorrect == Spec => []TypeOK
BY Typing, PTL
-----------------------------------------------------------------------------
(***************************************************************************)
(* Lost updates.  On a row that has not been raced for, the columns a call *)
(* has loaded and not been asked to change are still those of the row.     *)
(***************************************************************************)
CarriedCurrent ==
  \A c \in Calls : call[c].phase = "store" /\ call[c].email \notin raced =>
    /\ call[c].op \in {"change", "reset", "avatar"} => call[c].name = name[call[c].email]
    /\ call[c].op \in {"profile", "social"} => call[c].password = password[call[c].email]

RInv == NoLostUpdate /\ CarriedCurrent

(* A step that writes no row and loads none keeps the invariant.           *)
LEMMA RowsKeep ==
  ASSUME RInv, UNCHANGED <<registered, password, name, lastPassword, lastName, raced>>,
         \A d \in Calls : call'[d].phase = "store" => call'[d] = call[d]
  PROVE  RInv'
BY DEF RInv, NoLostUpdate, CarriedCurrent

(* Every step keeps it.                                                    *)
LEMMA NextRows ==
  ASSUME TypeOK, CallsOK, RInv, [Next]_vars
  PROVE  RInv'
<1> USE DEF table, history
<1> DEFINE Rows == UNCHANGED <<registered, password, name, lastPassword, lastName, raced>>
           Loads == \A d \in Calls : call'[d].phase = "store" => call'[d] = call[d]
<1>1. ASSUME NEW c \in Calls, NEW e \in Emails, NEW p \in Passwords, NEW n \in Names,
             BeginSignUp(c, e, p, n) \/ BeginCreate(c, e, p, n)
      PROVE  RInv'
  <2>1. Rows /\ Loads
    BY <1>1 DEF BeginSignUp, BeginCreate, Call, TypeOK
  <2> QED BY <2>1, RowsKeep
<1>2. ASSUME NEW c \in Calls, NEW e \in Emails, NEW p \in Passwords,
             BeginChange(c, e, p) \/ BeginReset(c, e, p)
      PROVE  RInv'
  <2>1. Rows /\ Loads
    BY <1>2 DEF BeginChange, BeginReset, Call, TypeOK
  <2> QED BY <2>1, RowsKeep
<1>3. ASSUME NEW c \in Calls, NEW e \in Emails, NEW n \in Names, BeginSocial(c, e, n)
      PROVE  RInv'
  <2>1. Rows /\ Loads
    BY <1>3 DEF BeginSocial, Call, TypeOK
  <2> QED BY <2>1, RowsKeep
<1>4. ASSUME NEW c \in Calls,
             CheckProof(c) \/ Recheck(c) \/ Consume(c) \/ DropSession(c) \/ SaveSession(c)
             \/ Revoke(c) \/ Fail(c)
      PROVE  RInv'
  <2>1. Rows /\ call[c].phase # "idle"
    BY <1>4 DEF CheckProof, Recheck, Consume, DropSession, SaveSession, Revoke, Fail
  <2>2. PICK p \in {"recheck", "load", "insert", "save", "consume"} : Done(c) \/ Goto(c, p)
    BY <1>4 DEF CheckProof, Recheck, Consume, DropSession, SaveSession, Revoke, Fail
  <2>3. p \in Phases /\ p # "store"
    BY DEF Phases
  <2>4. Loads
    BY <2>1, <2>2, <2>3, IsDone, GoesTo
  <2> QED BY <2>1, <2>4, RowsKeep
<1>5. ASSUME NEW c \in Calls, Insert(c) PROVE RInv'
  <2>1. call[c] \in CallRecord
    BY <1>5, Record DEF Insert
  <2>2. Done(c) \/ Goto(c, "consume")
    BY <1>5 DEF Insert
  <2>3. Loads
    BY <1>5, <2>2, IsDone, GoesTo DEF Insert, Phases
  <2>4. CASE call[c].email \in registered
    BY <1>5, <2>3, <2>4, RowsKeep DEF Insert
  <2>5. CASE call[c].email \notin registered
    <3> DEFINE e == call[c].email
    <3>1. /\ registered' = registered \cup {e} /\ raced' = raced /\ e \in Emails
          /\ password'[e] = lastPassword'[e] /\ name'[e] = lastName'[e]
          /\ \A f \in Emails \ {e} : /\ password'[f] = password[f] /\ name'[f] = name[f]
                                     /\ lastPassword'[f] = lastPassword[f] /\ lastName'[f] = lastName[f]
      BY <1>5, <2>1, <2>5 DEF Insert, TypeOK, CallRecord
    <3>2. NoLostUpdate'
      BY <3>1 DEF RInv, NoLostUpdate, TypeOK
    <3>3. ASSUME NEW d \in Calls, call'[d].phase = "store"
          PROVE  call'[d] = call[d] /\ call[d].email \in Emails \ {e}
      BY <2>3, <2>5, <3>3, Record DEF CallsOK, CallOK, CallRecord
    <3>4. CarriedCurrent'
      BY <3>1, <3>3 DEF RInv, CarriedCurrent
    <3> QED BY <3>2, <3>4 DEF RInv
  <2> QED BY <2>4, <2>5
<1>6. ASSUME NEW c \in Calls, Load(c) PROVE RInv'
  <2>1. call[c] \in CallRecord /\ CallOK(c)
    BY <1>6, Record DEF Load, CallsOK
  <2>2. Rows
    BY <1>6 DEF Load
  <2>3. /\ call'[c].email = call[c].email /\ call'[c].op \in {"change", "reset"}
        /\ call'[c].name = name[call[c].email]
        /\ \A d \in Calls \ {c} : call'[d] = call[d]
    BY <1>6, <2>1 DEF Load, Carried, TypeOK, CallRecord, CallOK
  <2> QED
    BY <2>2, <2>3 DEF RInv, NoLostUpdate, CarriedCurrent
<1>7. ASSUME NEW c \in Calls, NEW e \in Emails, NEW n \in Names,
             NEW op \in {"profile", "social", "avatar"}, LoadProfile(c, e, n, op)
      PROVE  RInv'
  <2>1. Rows
    BY <1>7 DEF LoadProfile
  <2>2. /\ call'[c].email = e /\ call'[c].op = op
        /\ op = "avatar" => call'[c].name = name[e]
        /\ op # "avatar" => call'[c].password = password[e]
        /\ \A d \in Calls \ {c} : call'[d] = call[d]
    BY <1>7 DEF LoadProfile, Carried, Call, TypeOK
  <2> QED
    BY <2>1, <2>2 DEF RInv, NoLostUpdate, CarriedCurrent
<1>8. ASSUME NEW c \in Calls, Store(c) PROVE RInv'
  <2> DEFINE e == call[c].email
  <2>1. call[c] \in CallRecord /\ CallOK(c) /\ e \in Emails /\ e \in registered
    BY <1>8, Record DEF Store, CallsOK, CallOK, CallRecord
  <2>2. Done(c) \/ Goto(c, "revoke")
    BY <1>8 DEF Store, AfterStore
  <2>3. /\ call'[c].phase # "store"
        /\ \A d \in Calls \ {c} : call'[d] = call[d]
    BY <1>8, <2>2, IsDone, GoesTo DEF Store, Phases
  <2>4. /\ password'[e] = PasswordSaved(c) /\ name'[e] = call[c].name
        /\ UNCHANGED registered /\ raced \subseteq raced'
        /\ e \notin raced' => \A d \in Calls \ {c} : ~(call[d].phase = "store" /\ call[d].email = e)
        /\ \A f \in Emails \ {e} : /\ password'[f] = password[f] /\ name'[f] = name[f]
                                   /\ lastPassword'[f] = lastPassword[f] /\ lastName'[f] = lastName[f]
                                   /\ f \in raced' <=> f \in raced
    BY <1>8, <2>1 DEF Store, TypeOK, Loaded
  <2>5. CarriedCurrent'
    <3>1. ASSUME NEW d \in Calls, call'[d].phase = "store", call'[d].email \notin raced'
          PROVE  d # c /\ call'[d] = call[d] /\ call[d].email \in Emails \ {e}
      BY <2>3, <2>4, <3>1, Record DEF CallRecord
    <3> QED
      BY <2>4, <3>1 DEF RInv, CarriedCurrent
  <2>6. e \notin raced' => password'[e] = lastPassword'[e]
    <3>1. CASE SetsPassword(c)
      BY <1>8, <2>1, <2>4, <3>1 DEF Store, SetsPassword, PasswordSaved, TypeOK
    <3>2. CASE call[c].op = "avatar"
      BY <1>8, <2>1, <2>4, <3>2 DEF Store, SetsPassword, PasswordSaved, RInv, NoLostUpdate
    <3>3. CASE call[c].op \in {"profile", "social"}
      BY <1>8, <2>1, <2>4, <3>3 DEF Store, SetsPassword, PasswordSaved, RInv, NoLostUpdate, CarriedCurrent
    <3> QED BY <1>8, <2>1, <3>1, <3>2, <3>3 DEF Store, SetsPassword, CallOK, StoreOps
  <2>7. e \notin raced' => name'[e] = lastName'[e]
    <3>1. CASE call[c].op \in {"profile", "social"}
      BY <1>8, <2>1, <2>4, <3>1 DEF Store, TypeOK
    <3>2. CASE call[c].op \in {"change", "reset", "avatar"}
      BY <1>8, <2>1, <2>4, <3>2 DEF Store, RInv, NoLostUpdate, CarriedCurrent
    <3> QED BY <1>8, <2>1, <3>1, <3>2 DEF Store, CallOK, StoreOps
  <2>8. NoLostUpdate'
    BY <2>4, <2>6, <2>7 DEF RInv, NoLostUpdate, TypeOK
  <2> QED BY <2>5, <2>8 DEF RInv
<1>9. ASSUME \/ \E e \in Emails : EndSession(e)
             \/ \E c \in Calls, e \in Emails : BeginSignIn(c, e)
             \/ \E s \in Slots : Prove(s) \/ Lapse(s)
             \/ UNCHANGED vars
      PROVE  RInv'
  <2>1. Rows /\ Loads
    BY <1>9 DEF EndSession, BeginSignIn, Call, Prove, Lapse, vars, TypeOK
  <2> QED BY <2>1, RowsKeep
<1> QED
  BY <1>1, <1>2, <1>3, <1>4, <1>5, <1>6, <1>7, <1>8, <1>9 DEF Next

(* Nothing that was stored is lost, but on rows that calls raced for.      *)
THEOREM UpdatesKept == Spec => []NoLostUpdate
<1>1. Init => RInv
  BY DEF Init, RInv, NoLostUpdate, CarriedCurrent, Idle
<1>2. TypeOK /\ CallsOK /\ RInv /\ [Next]_vars => RInv'
  BY NextRows
<1>3. RInv => NoLostUpdate
  BY DEF RInv
<1> QED
  BY <1>1, <1>2, <1>3, Typing, PTL DEF Spec
-----------------------------------------------------------------------------
(***************************************************************************)
(* Sessions.  A sign-in in progress holds the password of the row, or a    *)
(* history variable knows why it does not.                                 *)
(***************************************************************************)
NoRowNoSession == \A e \in Emails \ registered : session[e] = None

SignsIn(c) == call[c].phase \in {"drop", "save"}

SigningCurrent ==
  \A c \in Calls : SignsIn(c) /\ call[c].email \notin raced \cup crossed =>
    call[c].password = password[call[c].email]

SInv == NoRowNoSession /\ SigningCurrent /\ SessionsFollowPassword

(* A step keeps the invariant that leaves rows and tokens alone, begins no *)
(* sign-in and ends no revocation.                                         *)
LEMMA SessionsKeep ==
  ASSUME SInv, UNCHANGED <<registered, password, session, raced, crossed>>,
         unrevoked \subseteq unrevoked',
         \A d \in Calls : SignsIn(d)' => /\ SignsIn(d)
                                         /\ call'[d].email = call[d].email
                                         /\ call'[d].password = call[d].password,
         \A d \in Calls : call[d].phase = "revoke" =>
                           call'[d] = call[d] \/ call[d].email \in unrevoked'
  PROVE  SInv'
<1>1. ASSUME NEW e \in Emails \ unrevoked', RevokePending(e) PROVE RevokePending(e)'
  BY <1>1 DEF RevokePending
<1>2. SessionsFollowPassword'
  BY <1>1 DEF SInv, SessionsFollowPassword
<1>3. SigningCurrent'
  BY DEF SInv, SigningCurrent
<1> QED
  BY <1>2, <1>3 DEF SInv, NoRowNoSession

(* So does one that takes the token of e away, if it moves calls on e only. *)
LEMMA SessionsCleared ==
  ASSUME TypeOK, SInv, NEW e \in Emails,
         UNCHANGED <<registered, password, raced, crossed, unrevoked>>,
         session' = [session EXCEPT ![e] = None],
         \A d \in Calls : SignsIn(d)' => /\ SignsIn(d)
                                         /\ call'[d].email = call[d].email
                                         /\ call'[d].password = call[d].password,
         \A d \in Calls : call[d].phase = "revoke" /\ call[d].email # e => call'[d] = call[d]
  PROVE  SInv'
<1>1. session'[e] = None /\ \A f \in Emails \ {e} : session'[f] = session[f]
  BY DEF TypeOK
<1>2. ASSUME NEW f \in Emails \ {e}, RevokePending(f) PROVE RevokePending(f)'
  BY <1>2 DEF RevokePending
<1>3. SessionsFollowPassword'
  BY <1>1, <1>2 DEF SInv, SessionsFollowPassword
<1>4. SigningCurrent'
  BY DEF SInv, SigningCurrent
<1>5. NoRowNoSession'
  BY <1>1 DEF SInv, NoRowNoSession
<1> QED
  BY <1>3, <1>4, <1>5 DEF SInv

(* Every step keeps it.                                                    *)
LEMMA NextSessions ==
  ASSUME TypeOK, CallsOK, RInv, SInv, [Next]_vars
  PROVE  SInv'
<1> USE DEF table, history
<1> DEFINE Rows == UNCHANGED <<registered, password, session, raced, crossed>>
           Signs == \A d \in Calls : SignsIn(d)' => /\ SignsIn(d)
                                                    /\ call'[d].email = call[d].email
                                                    /\ call'[d].password = call[d].password
           Revokes == \A d \in Calls : call[d].phase = "revoke" => call'[d] = call[d]
<1>1. ASSUME NEW c \in Calls, NEW e \in Emails, NEW p \in Passwords, NEW n \in Names,
             BeginSignUp(c, e, p, n) \/ BeginCreate(c, e, p, n)
      PROVE  SInv'
  <2>1. Rows /\ Signs /\ Revokes /\ UNCHANGED unrevoked
    BY <1>1 DEF BeginSignUp, BeginCreate, Call, TypeOK, SignsIn
  <2> QED BY <2>1, SessionsKeep
<1>2. ASSUME NEW c \in Calls, NEW e \in Emails, NEW p \in Passwords,
             BeginChange(c, e, p) \/ BeginReset(c, e, p)
      PROVE  SInv'
  <2>1. Rows /\ Signs /\ Revokes /\ UNCHANGED unrevoked
    BY <1>2 DEF BeginChange, BeginReset, Call, TypeOK, SignsIn
  <2> QED BY <2>1, SessionsKeep
<1>3. ASSUME NEW c \in Calls, NEW e \in Emails, NEW n \in Names,
             NEW op \in {"profile", "social", "avatar"},
             BeginSocial(c, e, n) \/ LoadProfile(c, e, n, op)
      PROVE  SInv'
  <2>1. Rows /\ Signs /\ Revokes /\ UNCHANGED unrevoked
    BY <1>3 DEF BeginSocial, LoadProfile, Call, TypeOK, SignsIn
  <2> QED BY <2>1, SessionsKeep
<1>4. ASSUME NEW c \in Calls, NEW e \in Emails, BeginSignIn(c, e) PROVE SInv'
  <2>1. Rows /\ Revokes /\ UNCHANGED unrevoked
    BY <1>4 DEF BeginSignIn, Call, TypeOK
  <2>2. /\ call'[c].email = e /\ call'[c].password = password[e]
        /\ \A d \in Calls \ {c} : call'[d] = call[d]
    BY <1>4 DEF BeginSignIn, Call, TypeOK
  <2>3. SigningCurrent'
    BY <2>1, <2>2 DEF SInv, SigningCurrent, SignsIn
  <2>4. ASSUME NEW f \in Emails, RevokePending(f) PROVE RevokePending(f)'
    BY <2>1, <2>4 DEF RevokePending
  <2>5. SessionsFollowPassword'
    BY <2>1, <2>4 DEF SInv, SessionsFollowPassword
  <2> QED BY <2>1, <2>3, <2>5 DEF SInv, NoRowNoSession
<1>5. ASSUME NEW c \in Calls, CheckProof(c) \/ Recheck(c) \/ Consume(c) \/ Load(c) PROVE SInv'
  <2>1. Rows /\ UNCHANGED unrevoked /\ call[c].phase \notin {"idle", "revoke"}
    BY <1>5 DEF CheckProof, Recheck, Consume, Load
  <2>2. call[c] \in CallRecord
    BY <2>1, Record
  <2>3. /\ call'[c].phase \in {"idle", "recheck", "load", "insert", "store"}
        /\ \A d \in Calls \ {c} : call'[d] = call[d]
    <3>1. CASE Load(c)
      BY <2>2, <3>1 DEF Load, TypeOK, CallRecord
    <3>2. CASE CheckProof(c) \/ Recheck(c) \/ Consume(c)
      <4>1. PICK p \in {"recheck", "load", "insert"} : Done(c) \/ Goto(c, p)
        BY <3>2 DEF CheckProof, Recheck, Consume
      <4>2. p \in Phases
        BY DEF Phases
      <4> QED BY <2>1, <4>1, <4>2, IsDone, GoesTo
    <3> QED BY <1>5, <3>1, <3>2
  <2>4. Signs /\ Revokes
    BY <2>1, <2>3 DEF SignsIn
  <2> QED BY <2>1, <2>4, SessionsKeep
<1>6. ASSUME NEW c \in Calls, Insert(c) PROVE SInv'
  <2>1. call[c] \in CallRecord /\ call[c].phase = "insert"
    BY <1>6, Record DEF Insert
  <2>2. Done(c) \/ Goto(c, "consume")
    BY <1>6 DEF Insert
  <2>3. Signs /\ Revokes
    BY <2>1, <2>2, IsDone, GoesTo DEF Phases, SignsIn
  <2>4. UNCHANGED <<session, raced, crossed, unrevoked>>
    BY <1>6 DEF Insert
  <2>5. CASE call[c].email \in registered
    BY <1>6, <2>3, <2>4, <2>5, SessionsKeep DEF Insert
  <2>6. CASE call[c].email \notin registered
    <3> DEFINE e == call[c].email
    <3>1. /\ registered' = registered \cup {e} /\ e \in Emails /\ session[e] = None
          /\ \A f \in Emails \ {e} : password'[f] = password[f]
      BY <1>6, <2>1, <2>6 DEF Insert, TypeOK, CallRecord, SInv, NoRowNoSession
    <3>2. ASSUME NEW f \in Emails, RevokePending(f) PROVE RevokePending(f)'
      BY <2>3, <3>2 DEF RevokePending
    <3>3. SessionsFollowPassword'
      BY <2>4, <3>1, <3>2 DEF SInv, SessionsFollowPassword
    <3>4. ASSUME NEW d \in Calls, SignsIn(d)' PROVE call'[d].email \in Emails \ {e}
      BY <2>3, <2>6, <3>4, Record DEF CallsOK, CallOK, SignsIn, CallRecord
    <3>5. SigningCurrent'
      BY <2>3, <2>4, <3>1, <3>4 DEF SInv, SigningCurrent
    <3>6. NoRowNoSession'
      BY <2>4, <3>1 DEF SInv, NoRowNoSession
    <3> QED BY <3>3, <3>5, <3>6 DEF SInv
  <2> QED BY <2>5, <2>6
<1>7. ASSUME NEW c \in Calls, DropSession(c) \/ Revoke(c) PROVE SInv'
  <2> DEFINE e == call[c].email
  <2>1. call[c] \in CallRecord /\ e \in Emails /\ call[c].phase \in {"drop", "revoke"}
    BY <1>7, Record DEF DropSession, Revoke, CallRecord
  <2>2. /\ UNCHANGED <<registered, password, raced, crossed, unrevoked>>
        /\ session' = [session EXCEPT ![e] = None]
    BY <1>7 DEF DropSession, Revoke
  <2>3. /\ call'[c].phase = "save" => call[c].phase = "drop"
        /\ call'[c].phase \in {"save", "consume", "idle"}
        /\ call'[c].phase = "save" => call'[c].email = e /\ call'[c].password = call[c].password
        /\ \A d \in Calls \ {c} : call'[d] = call[d]
    <3>1. CASE DropSession(c)
      BY <2>1, <3>1, GoesTo DEF DropSession, Phases
    <3>2. CASE Revoke(c)
      BY <2>1, <3>2, GoesTo, IsDone DEF Revoke, Phases
    <3> QED BY <1>7, <3>1, <3>2
  <2>4. Signs /\ \A d \in Calls : call[d].phase = "revoke" /\ call[d].email # e => call'[d] = call[d]
    BY <2>3 DEF SignsIn
  <2> QED BY <2>1, <2>2, <2>4, SessionsCleared
<1>8. ASSUME NEW c \in Calls, SaveSession(c) PROVE SInv'
  <2> DEFINE e == call[c].email
  <2>1. call[c] \in CallRecord /\ e \in Emails /\ e \in registered /\ SignsIn(c)
    BY <1>8, Record DEF SaveSession, CallRecord, CallsOK, CallOK, SignsIn
  <2>2. Signs /\ Revokes
    BY <1>8, IsDone DEF SaveSession, SignsIn
  <2>3. /\ session'[e] = call[c].password
        /\ \A f \in Emails \ {e} : session'[f] = session[f]
        /\ UNCHANGED <<registered, password, raced, crossed, unrevoked>>
    BY <1>8, <2>1 DEF SaveSession, TypeOK
  <2>4. e \notin raced \cup crossed => session'[e] = password[e]
    BY <2>1, <2>3 DEF SInv, SigningCurrent
  <2>5. ASSUME NEW f \in Emails, RevokePending(f) PROVE RevokePending(f)'
    BY <2>2, <2>5 DEF RevokePending
  <2>6. SessionsFollowPassword'
    BY <2>3, <2>4, <2>5 DEF SInv, SessionsFollowPassword
  <2>7. SigningCurrent'
    BY <2>2, <2>3 DEF SInv, SigningCurrent
  <2>8. NoRowNoSession'
    BY <2>1, <2>3 DEF SInv, NoRowNoSession
  <2> QED BY <2>6, <2>7, <2>8 DEF SInv
<1>9. ASSUME NEW c \in Calls, Store(c) PROVE SInv'
  <2> DEFINE e == call[c].email
  <2>1. call[c] \in CallRecord /\ CallOK(c) /\ e \in Emails /\ e \in registered
    BY <1>9, Record DEF Store, CallsOK, CallOK, CallRecord
  <2>2. /\ UNCHANGED <<registered, session, unrevoked>>
        /\ raced \subseteq raced' /\ crossed \subseteq crossed'
        /\ password'[e] = PasswordSaved(c)
        /\ \A f \in Emails \ {e} : /\ password'[f] = password[f]
                                   /\ f \in raced' <=> f \in raced
                                   /\ f \in crossed' <=> f \in crossed
    BY <1>9, <2>1 DEF Store, TypeOK
  <2>3. CASE SetsPassword(c)
    <3>1. Goto(c, "revoke")
      BY <1>9, <2>3 DEF Store, AfterStore
    <3>2. call'[c].phase = "revoke" /\ call'[c].email = e /\ \A d \in Calls \ {c} : call'[d] = call[d]
      BY <1>9, <3>1, GoesTo DEF Store, Phases
    <3>3. ASSUME NEW f \in Emails, RevokePending(f) \/ f = e PROVE RevokePending(f)'
      BY <1>9, <3>2, <3>3 DEF RevokePending, Store
    <3>4. SessionsFollowPassword'
      BY <2>2, <3>3 DEF SInv, SessionsFollowPassword
    <3>5. e \notin crossed' => ~SigningIn(e)
      BY <1>9, <2>1, <2>3 DEF Store
    <3>6. SigningCurrent'
      <4> SUFFICES ASSUME NEW d \in Calls, SignsIn(d)', call'[d].email \notin raced' \cup crossed'
                   PROVE  call'[d].password = password'[call'[d].email]
        BY DEF SigningCurrent
      <4>1. call'[d] = call[d] /\ SignsIn(d)
        BY <3>2 DEF SignsIn
      <4>2. call[d].email \in Emails \ {e}
        BY <3>5, <4>1, Record DEF SigningIn, SignsIn, CallRecord
      <4> QED BY <2>2, <4>1, <4>2 DEF SInv, SigningCurrent
    <3> QED BY <2>2, <3>4, <3>6 DEF SInv, NoRowNoSession
  <2>4. CASE ~SetsPassword(c)
    <3>1. Done(c)
      BY <1>9, <2>4 DEF Store, AfterStore
    <3>2. Signs /\ Revokes
      BY <1>9, <3>1, IsDone DEF Store, SignsIn
    <3>3. e \notin raced => password'[e] = password[e]
      BY <1>9, <2>1, <2>2, <2>4 DEF Store, SetsPassword, PasswordSaved, RInv, CarriedCurrent, CallOK, StoreOps
    <3>4. ASSUME NEW f \in Emails, RevokePending(f) PROVE RevokePending(f)'
      BY <3>2, <3>4 DEF RevokePending
    <3>5. SessionsFollowPassword'
      BY <2>2, <3>3, <3>4 DEF SInv, SessionsFollowPassword
    <3>6. ASSUME NEW d \in Calls, SignsIn(d)' PROVE call'[d].email \in Emails
      BY <3>2, <3>6, Record DEF SignsIn, CallRecord
    <3>7. SigningCurrent'
      BY <2>2, <3>2, <3>3, <3>6 DEF SInv, SigningCurrent
    <3> QED BY <2>2, <3>5, <3>7 DEF SInv, NoRowNoSession
  <2> QED BY <2>3, <2>4
<1>10. ASSUME NEW c \in Calls, Fail(c) PROVE SInv'
  <2>1. Rows /\ Signs /\ unrevoked \subseteq unrevoked'
    BY <1>10, IsDone DEF Fail, SignsIn
  <2>2. \A d \in Calls : call[d].phase = "revoke" =>
                          call'[d] = call[d] \/ call[d].email \in unrevoked'
    BY <1>10, IsDone DEF Fail
  <2> QED BY <2>1, <2>2, SessionsKeep
<1>11. ASSUME NEW e \in Emails, EndSession(e) PROVE SInv'
  <2>1. UNCHANGED <<registered, password, raced, crossed, unrevoked, call>>
    BY <1>11 DEF EndSession
  <2>2. Signs /\ Revokes
    BY <2>1 DEF SignsIn
  <2> QED BY <1>11, <2>1, <2>2, SessionsCleared DEF EndSession
<1>12. CASE (\E s \in Slots : Prove(s) \/ Lapse(s)) \/ UNCHANGED vars
  <2>1. Rows /\ UNCHANGED <<unrevoked, call>>
    BY <1>12 DEF Prove, Lapse, vars
  <2>2. Signs /\ Revokes
    BY <2>1 DEF SignsIn
  <2> QED BY <2>1, <2>2, SessionsKeep
<1> QED
  BY <1>1, <1>2, <1>3, <1>4, <1>5, <1>6, <1>7, <1>8, <1>9, <1>10, <1>11, <1>12 DEF Next

(* A session was opened with the password its user has now, but for rows   *)
(* that calls raced for and revocations that failed.                       *)
THEOREM SessionsCurrent == Spec => []SessionsFollowPassword
<1>1. Init => RInv /\ SInv
  BY DEF Init, Nothing, RInv, NoLostUpdate, CarriedCurrent, SInv, NoRowNoSession, SigningCurrent,
         SignsIn, SessionsFollowPassword, Idle
<1>2. TypeOK /\ CallsOK /\ RInv /\ SInv /\ [Next]_vars => RInv' /\ SInv'
  BY NextRows, NextSessions
<1>3. SInv => SessionsFollowPassword
  BY DEF SInv
<1> QED
  BY <1>1, <1>2, <1>3, Typing, PTL DEF Spec
=============================================================================
