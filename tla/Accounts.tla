------------------------------ MODULE Accounts ------------------------------
(***************************************************************************)
(* AuthService and UsersService (src/src/modules/auth, users): sign-up,    *)
(* sign-in and sign-out, changed and forgotten passwords, profile edits,   *)
(* against one row per user in the database and one refresh token per user *)
(* in Redis.                                                               *)
(*                                                                         *)
(* Every query, Redis command and hash is awaited.  repository.save writes *)
(* every column in which the loaded entity differs from the row, so a call *)
(* that loaded the row before another call wrote it puts the old columns   *)
(* back.  A call is the local state of one request.  A sign-in with a      *)
(* wrong password, or one the validation refuses, changes nothing and is   *)
(* left out.                                                               *)
(***************************************************************************)
EXTENDS FiniteSets, VerifiedEmails

CONSTANTS Passwords, Names, Calls, None

ASSUME NoneAssumption == None \notin Passwords /\ None \notin Names

VARIABLES
  registered,  \* addresses with a row; email is unique
  password,    \* the password column: the password whose hash it holds
  name,        \* the profile columns
  session,     \* the refresh token: the password its sign-in was checked with
  call,        \* the requests in progress
  lastPassword, lastName,  \* history: what was last asked for and stored
  raced,       \* history: rows written while another call had loaded them
  crossed,     \* history: passwords stored while a sign-in was in progress
  unrevoked    \* history: passwords stored whose call then failed to revoke

table == <<registered, password, name>>
history == <<lastPassword, lastName, raced, crossed, unrevoked>>
vars == <<table, session, verified, call, history>>

Idle == [phase |-> "idle"]

\* A request: what it does, for whom, what it was given and what it loaded.
Call(phase, op, e, p, n) == [phase |-> phase, op |-> op, email |-> e, password |-> p, name |-> n]

Ops == {"signUp", "create", "signIn", "change", "reset", "profile", "social", "avatar"}

Phases == {"proof", "recheck", "insert", "consume", "drop", "save", "load", "store", "revoke"}

CallRecord ==
  [phase : Phases, op : Ops, email : Emails, password : Passwords \cup {None},
   name : Names \cup {None}]

(* Every row, token and request has its type; name may not be null.        *)
TypeOK ==
  /\ registered \subseteq Emails
  /\ password \in [Emails -> Passwords \cup {None}]
  /\ name \in [Emails -> Names \cup {None}]
  /\ \A e \in registered : name[e] # None
  /\ session \in [Emails -> Passwords \cup {None}]
  /\ verified \subseteq Slots
  /\ call \in [Calls -> {Idle} \cup CallRecord]
  /\ lastPassword \in [Emails -> Passwords \cup {None}]
  /\ lastName \in [Emails -> Names \cup {None}]
  /\ raced \subseteq Emails /\ crossed \subseteq Emails /\ unrevoked \subseteq Emails

Nothing == [e \in Emails |-> None]

Init ==
  /\ registered = {} /\ password = Nothing /\ name = Nothing
  /\ session = Nothing /\ verified = {}
  /\ call = [c \in Calls |-> Idle]
  /\ lastPassword = Nothing /\ lastName = Nothing
  /\ raced = {} /\ crossed = {} /\ unrevoked = {}

At(c, op, phase) == call[c].phase = phase /\ call[c].op = op

Goto(c, phase) == call' = [call EXCEPT ![c].phase = phase]

Done(c) == call' = [call EXCEPT ![c] = Idle]

\* Another call than c has loaded the row of e and will save it.
Loaded(c, e) ==
  \E d \in Calls \ {c} : call[d].phase = "store" /\ call[d].email = e

\* A sign-in for e has checked a password and not yet saved its token.
SigningIn(e) == \E d \in Calls : call[d].phase \in {"drop", "save"} /\ call[d].email = e
-----------------------------------------------------------------------------
(***************************************************************************)
(* Sign-up, and users created by an administrator.                         *)
(***************************************************************************)
BeginSignUp(c, e, p, n) ==
  /\ call[c].phase = "idle" /\ e \notin registered
  /\ call' = [call EXCEPT ![c] = Call("proof", "signUp", e, p, n)]
  /\ UNCHANGED <<table, session, verified, history>>

BeginCreate(c, e, p, n) ==
  /\ call[c].phase = "idle"
  /\ call' = [call EXCEPT ![c] = Call("recheck", "create", e, p, n)]
  /\ UNCHANGED <<table, session, verified, history>>

\* isEmailVerified, for sign-up and for reset; otherwise the call ends.
CheckProof(c) ==
  /\ call[c].phase = "proof"
  /\ LET signUp == call[c].op = "signUp"
         slot == <<call[c].email, IF signUp THEN "signup" ELSE "password">>
     IN IF slot \in verified THEN Goto(c, IF signUp THEN "recheck" ELSE "load") ELSE Done(c)
  /\ UNCHANGED <<table, session, verified, history>>

\* createLocalUser looks the address up once more.
Recheck(c) ==
  /\ call[c].phase = "recheck"
  /\ IF call[c].email \in registered THEN Done(c) ELSE Goto(c, "insert")
  /\ UNCHANGED <<table, session, verified, history>>

\* The unique column turns the second of two inserts away.
Insert(c) ==
  /\ call[c].phase = "insert"
  /\ LET e == call[c].email IN
     IF e \in registered
     THEN Done(c) /\ UNCHANGED <<table, lastPassword, lastName>>
     ELSE /\ registered' = registered \cup {e}
          /\ password' = [password EXCEPT ![e] = call[c].password]
          /\ name' = [name EXCEPT ![e] = call[c].name]
          /\ lastPassword' = [lastPassword EXCEPT ![e] = call[c].password]
          /\ lastName' = [lastName EXCEPT ![e] = call[c].name]
          /\ IF call[c].op = "signUp" THEN Goto(c, "consume") ELSE Done(c)
  /\ UNCHANGED <<session, verified, raced, crossed, unrevoked>>

\* consumeVerification, after a sign-up or a reset.
Consume(c) ==
  /\ call[c].phase = "consume"
  /\ verified' = verified \ {<<call[c].email, IF call[c].op = "signUp" THEN "signup" ELSE "password">>}
  /\ Done(c)
  /\ UNCHANGED <<table, session, history>>
-----------------------------------------------------------------------------
(***************************************************************************)
(* Sessions.                                                               *)
(***************************************************************************)
\* The password is compared with the row that was read.
BeginSignIn(c, e) ==
  /\ call[c].phase = "idle" /\ e \in registered /\ password[e] # None
  /\ call' = [call EXCEPT ![c] = Call("drop", "signIn", e, password[e], None)]
  /\ UNCHANGED <<table, session, verified, history>>

\* The token of an earlier sign-in goes.
DropSession(c) ==
  /\ call[c].phase = "drop"
  /\ session' = [session EXCEPT ![call[c].email] = None]
  /\ Goto(c, "save")
  /\ UNCHANGED <<table, verified, history>>

SaveSession(c) ==
  /\ call[c].phase = "save"
  /\ session' = [session EXCEPT ![call[c].email] = call[c].password]
  /\ Done(c)
  /\ UNCHANGED <<table, verified, history>>

\* A sign-out, or the token expires.
EndSession(e) ==
  /\ session[e] # None
  /\ session' = [session EXCEPT ![e] = None]
  /\ UNCHANGED <<table, verified, call, history>>
-----------------------------------------------------------------------------
(***************************************************************************)
(* Calls that load a row, await and save it.  An operator whose name ends  *)
(* in _Wrong is a plausible slip in the definition after it, used by       *)
(* mutants only.                                                           *)
(***************************************************************************)
\* changePassword: the current password was right.
BeginChange(c, e, p) ==
  /\ call[c].phase = "idle" /\ e \in registered /\ password[e] # None
  /\ call' = [call EXCEPT ![c] = Call("load", "change", e, p, None)]
  /\ UNCHANGED <<table, session, verified, history>>

BeginReset(c, e, p) ==
  /\ call[c].phase = "idle" /\ e \in registered
  /\ call' = [call EXCEPT ![c] = Call("proof", "reset", e, p, None)]
  /\ UNCHANGED <<table, session, verified, history>>

\* The profile columns, which come with the row.
Carried(e) == name[e]

\* updatePassword reads the row again, with all its columns.
Load(c) ==
  /\ call[c].phase = "load"
  /\ call' = [call EXCEPT ![c].phase = "store", ![c].name = Carried(call[c].email)]
  /\ UNCHANGED <<table, session, verified, history>>

\* updateProfile, and a social sign-in that finds the address, load the row;
\* updateAvatar works on the row its guard loaded, without the password.
LoadProfile(c, e, n, op) ==
  /\ call[c].phase = "idle" /\ e \in registered
  /\ call' = [call EXCEPT ![c] =
       Call("store", op, e, IF op = "avatar" THEN None ELSE password[e],
            IF op = "avatar" THEN Carried(e) ELSE n)]
  /\ UNCHANGED <<table, session, verified, history>>

\* A social sign-in of an unknown address: a user without a password.
BeginSocial(c, e, n) ==
  /\ call[c].phase = "idle" /\ e \notin registered
  /\ call' = [call EXCEPT ![c] = Call("insert", "social", e, None, n)]
  /\ UNCHANGED <<table, session, verified, history>>

PasswordSaved_Wrong(c) == IF call[c].op = "avatar" THEN None ELSE call[c].password

\* What save does to the password column: a plain object that lacks it keeps it.
PasswordSaved(c) == IF call[c].op = "avatar" THEN password[call[c].email] ELSE call[c].password

SetsPassword(c) == call[c].op \in {"change", "reset"}

AfterStore_Wrong(c) == "idle"

\* A stored password is followed by a revocation.
AfterStore(c) == IF SetsPassword(c) THEN "revoke" ELSE "idle"

\* save: the columns of the loaded entity, the changed and the stale ones.
Store(c) ==
  /\ call[c].phase = "store"
  /\ LET e == call[c].email IN
     /\ password' = [password EXCEPT ![e] = PasswordSaved(c)]
     /\ name' = [name EXCEPT ![e] = call[c].name]
     /\ lastPassword' = IF SetsPassword(c)
                        THEN [lastPassword EXCEPT ![e] = call[c].password] ELSE lastPassword
     /\ lastName' = IF call[c].op \in {"profile", "social"}
                    THEN [lastName EXCEPT ![e] = call[c].name] ELSE lastName
     /\ raced' = IF Loaded(c, e) THEN raced \cup {e} ELSE raced
     /\ crossed' = IF SetsPassword(c) /\ SigningIn(e) THEN crossed \cup {e} ELSE crossed
  /\ IF AfterStore(c) = "idle" THEN Done(c) ELSE Goto(c, AfterStore(c))
  /\ UNCHANGED <<registered, session, verified, unrevoked>>

\* deleteRefreshToken; a reset then consumes its verification.
Revoke(c) ==
  /\ call[c].phase = "revoke"
  /\ session' = [session EXCEPT ![call[c].email] = None]
  /\ IF call[c].op = "reset" THEN Goto(c, "consume") ELSE Done(c)
  /\ UNCHANGED <<table, verified, history>>

\* The database or Redis fails the call where it stands.
Fail(c) ==
  /\ call[c].phase # "idle"
  /\ Done(c)
  /\ unrevoked' = IF call[c].phase = "revoke" THEN unrevoked \cup {call[c].email} ELSE unrevoked
  /\ UNCHANGED <<table, session, verified, lastPassword, lastName, raced, crossed>>

\* External: VerificationService proves an address.
Prove(s) ==
  /\ verified' = verified \cup {s}
  /\ UNCHANGED <<table, session, call, history>>

\* External: the proof expires.
Lapse(s) ==
  /\ s \in verified
  /\ verified' = verified \ {s}
  /\ UNCHANGED <<table, session, call, history>>

Next ==
  \/ \E c \in Calls, e \in Emails :
       \/ \E p \in Passwords, n \in Names : BeginSignUp(c, e, p, n) \/ BeginCreate(c, e, p, n)
       \/ BeginSignIn(c, e)
       \/ \E p \in Passwords : BeginChange(c, e, p) \/ BeginReset(c, e, p)
       \/ \E n \in Names, op \in {"profile", "social", "avatar"} : LoadProfile(c, e, n, op)
       \/ \E n \in Names : BeginSocial(c, e, n)
  \/ \E c \in Calls :
       \/ CheckProof(c) \/ Recheck(c) \/ Insert(c) \/ Consume(c)
       \/ DropSession(c) \/ SaveSession(c)
       \/ Load(c) \/ Store(c) \/ Revoke(c) \/ Fail(c)
  \/ \E e \in Emails : EndSession(e)
  \/ \E s \in Slots : Prove(s) \/ Lapse(s)

Spec == Init /\ [][Next]_vars
-----------------------------------------------------------------------------
(***************************************************************************)
(* Properties.                                                             *)
(***************************************************************************)
(* What was stored last is in the row, whatever calls came and failed      *)
(* since, unless one saved while another had loaded the row.               *)
NoLostUpdate ==
  \A e \in registered \ raced : password[e] = lastPassword[e] /\ name[e] = lastName[e]

RevokePending(e) == \E c \in Calls : call[c].phase = "revoke" /\ call[c].email = e

(* The session of a user was opened with the password the user has now, or *)
(* is about to be revoked, unless calls raced or the revocation failed.    *)
SessionsFollowPassword ==
  \A e \in Emails \ (raced \cup crossed \cup unrevoked) :
    session[e] \in {None, password[e]} \/ RevokePending(e)

(* "The password was changed" (auth.service.ts:158): it stays so until     *)
(* the next change.                                                        *)
PasswordSticks == \A e \in registered : password[e] = lastPassword[e]
=============================================================================
