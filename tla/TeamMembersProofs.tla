-------------------------- MODULE TeamMembersProofs --------------------------
(***************************************************************************)
(* TeamMembers keeps its invariants for any number of teams, people,       *)
(* invites, custom roles and requests.                                     *)
(***************************************************************************)
EXTENDS TeamMembers, FiniteSetTheorems, TLAPS

(***************************************************************************)
(* What is known of a request from the step it has reached.                *)
(***************************************************************************)
Holds(q) == q.phase \in {"policy", "save"}

Answering(q) == q.phase \in {"mark", "join"}

\* The operations that reach each step, and what they carry there.
Shape(q) ==
  /\ q.phase = "fallback" => q.op \in {"list", "mine"}
  /\ q.phase \in {"seat", "sit"} => q.op \in {"register", "list", "mine", "create", "accept"}
  /\ q.phase \in {"team", "own"} => q.op = "create"
  /\ q.phase \in {"load", "rewrite"} => q.op = "update"
  /\ q.phase = "target" => q.op \in {"role", "rename", "assign", "remove", "invite", "dropRole"}
  /\ q.phase = "policy" => q.op = "assign"
  /\ q.phase = "save" => q.op \in {"role", "rename", "assign", "remove"}
  /\ q.phase \in {"pending", "post"} => q.op = "invite"
  /\ q.phase = "mark" => q.op \in {"accept", "reject"}
  /\ q.phase = "join" => q.op = "accept"
  /\ q.phase \in {"count", "find", "drop"} => q.op = "remove"
  /\ q.phase \in {"limit", "insert"} => q.op = "addRole"
  /\ q.phase \in {"unassign", "unrole"} => q.op = "dropRole"

Carries(q) ==
  /\ q.op \in {"register", "list", "mine", "create"} => q.user = Creator
  /\ q.op \notin {"register", "list", "mine", "create"} => q.team \in Teams
  /\ q.phase = "own" => q.team \in Teams
  /\ q.phase \in {"fallback", "seat", "sit", "team"} /\ q.op # "accept" => q.team = None
  /\ Holds(q) /\ q.op # "remove" => q.role \in TeamRole
  /\ Answering(q) => q.invite \in Invites /\ q.role \in TeamRole

\* The row a request holds is there while the request does not know better ...
RowThere(q) == Holds(q) /\ q.row # "gone" => member[q.team][q.user] # None

\* ... and has the role it was loaded with while it is fresh.
RowFresh(q) ==
  Holds(q) /\ q.op \in {"rename", "assign"} /\ q.row = "fresh" => member[q.team][q.user] = q.role

\* Nobody but a renaming holds the row of the creator.
CreatorSpared(q) ==
  Holds(q) /\ team[q.team] = "live" /\ q.user = Creator => q.op = "rename" /\ q.role = "OWNER"

\* The creator has a seat before its team is made.
CreatorSeated(q) == q.phase \in {"team", "own"} => Creator \in seats

\* An answer knows the workspace of a live team, and joins after the invite is marked.
AnswerKnows(q) ==
  Answering(q) =>
    /\ team[q.team] = "live" => q.home
    /\ invite[q.invite].status # "none"
    /\ q.phase = "join" => invite[q.invite].status # "PENDING"

\* Who is about to lose the seat is not the creator, and in no team.
DropSound(q) ==
  /\ q.phase = "drop" => q.user # Creator
  /\ q.phase \in {"find", "drop"} /\ q.user \notin excused \cup {Creator} => ~InTeam(q.user)

CallOK(q) ==
  q.phase # "idle" =>
    /\ Shape(q) /\ Carries(q)
    /\ RowThere(q) /\ RowFresh(q) /\ CreatorSpared(q)
    /\ CreatorSeated(q) /\ AnswerKnows(q) /\ DropSound(q)

(***************************************************************************)
(* What is known of the rows, and of the requests together.                *)
(***************************************************************************)
CallsOK == \A c \in Calls : CallOK(call[c])

Owned(t) == member[t][Creator] = "OWNER" /\ custom[t][Creator] = None

Asks(q, t) == q.phase \notin {"idle", "own"} /\ q.team = t

\* A team of which nobody but its maker has heard.
Untouched(t) ==
  /\ \A u \in Users : member[t][u] = None
  /\ \A i \in Invites : invite[i].status # "none" => invite[i].team # t
  /\ \A c \in Calls : ~Asks(call[c], t)

Owns(q, t) == q.phase = "own" /\ q.team = t

TeamsOwned == \A t \in Teams : team[t] = "live" => Owned(t) \/ Untouched(t)

NobodyKnows == \A t \in Teams : team[t] = "none" => Untouched(t) /\ \A c \in Calls : ~Owns(call[c], t)

MakersAlone ==
  \A c \in Calls, t \in Teams : Owns(call[c], t) =>
    /\ team[t] = "live" /\ Untouched(t)
    /\ \A d \in Calls : Owns(call[d], t) => d = c

Answers(q, i) == Answering(q) /\ q.invite = i

\* Only a contested invite is answered by two requests; one that was answered by none.
AnswersApart ==
  \A i \in Invites :
    /\ answered[i] # "contested" =>
         \A c, d \in Calls : Answers(call[c], i) /\ Answers(call[d], i) => c = d
    /\ answered[i] = "once" =>
         /\ invite[i].status \notin {"none", "PENDING"}
         /\ \A c \in Calls : ~Answers(call[c], i)

RolesFinite == \A t \in Teams : IsFiniteSet(roles[t])

IInv ==
  /\ TypeOK /\ CallsOK
  /\ TeamsOwned /\ NobodyKnows /\ MakersAlone
  /\ AnswersApart /\ AnsweredOnce
  /\ RolesFinite /\ RolesBounded
  /\ SeatsFollowTeams
-----------------------------------------------------------------------------
(***************************************************************************)
(* Types.                                                                  *)
(***************************************************************************)
(* The members of one team, and what a request that has begun is made of.  *)
LEMMA Types ==
  ASSUME TypeOK
  PROVE  /\ \A t \in Teams : team[t] \in {"none", "live", "deleted", "orphan"}
         /\ \A t \in Teams, u \in Users : member[t][u] \in TeamRole \cup {None}
         /\ \A t \in Teams, u \in Users : custom[t][u] \in CustomRoles \cup {None}
         /\ \A t \in Teams : roles[t] \subseteq CustomRoles
         /\ \A i \in Invites : invite[i] = NoInvite \/ invite[i] \in InviteRecord
  <1>1. member \in [Teams -> [Users -> TeamRole \cup {None}]] BY DEF TypeOK
  <1>2. custom \in [Teams -> [Users -> CustomRoles \cup {None}]] BY DEF TypeOK
  <1>3. \A t \in Teams, u \in Users : member[t][u] \in TeamRole \cup {None} BY <1>1
  <1>4. \A t \in Teams, u \in Users : custom[t][u] \in CustomRoles \cup {None} BY <1>2
  <1> QED BY <1>3, <1>4 DEF TypeOK

LEMMA CallTypes ==
  ASSUME TypeOK, NEW c \in Calls
  PROVE  /\ call[c] = Idle \/ call[c] \in CallRecord
         /\ call[c].phase # "idle" => call[c] \in CallRecord
         /\ call[c] \in CallRecord => call[c].phase # "idle" /\ call[c].user \in Users
  <1>1. call[c] = Idle \/ call[c] \in CallRecord BY DEF TypeOK
  <1>2. Idle.phase = "idle" BY DEF Idle
  <1>3. call[c] \in CallRecord => call[c].phase # "idle" /\ call[c].user \in Users BY DEF CallRecord
  <1> QED BY <1>1, <1>2, <1>3

(* Only a team that exists has members.                                    *)
LEMMA MembersExist ==
  ASSUME TypeOK, NEW t \in Teams, NEW u \in Users, member[t][u] # None
  PROVE  team[t] \in {"live", "orphan"} /\ Exists(t)
  BY DEF TypeOK, Exists

(* The limit on roles, when neither roles nor insertions are added.        *)
LEMMA FewerRoles ==
  ASSUME RolesBounded, RolesFinite, NEW t \in Teams,
         roles'[t] \subseteq roles[t],
         \A d \in Calls : (call[d].phase = "insert" /\ call[d].team = t)'
                            => call[d].phase = "insert" /\ call[d].team = t
  PROVE  /\ IsFiniteSet(roles'[t])
         /\ Cardinality(roles'[t]) + Cardinality(Inserting(t)') < MaxRoles + Cardinality(Calls)
  <1>1. Inserting(t)' \subseteq Inserting(t) BY DEF Inserting
  <1>2. IsFiniteSet(Inserting(t)) BY CallsAssumption, FS_Subset DEF Inserting
  <1>3. IsFiniteSet(roles[t]) BY DEF RolesFinite
  <1>4. IsFiniteSet(Inserting(t)') /\ Cardinality(Inserting(t)') <= Cardinality(Inserting(t))
    BY <1>1, <1>2, FS_Subset
  <1>5. IsFiniteSet(roles'[t]) /\ Cardinality(roles'[t]) <= Cardinality(roles[t]) BY <1>3, FS_Subset
  <1>6. Cardinality(Inserting(t)) \in Nat /\ Cardinality(Inserting(t)') \in Nat BY <1>2, <1>4, FS_CardinalityType
  <1>7. Cardinality(roles[t]) \in Nat /\ Cardinality(roles'[t]) \in Nat BY <1>3, <1>5, FS_CardinalityType
  <1>8. Cardinality(Calls) \in Nat BY CallsAssumption, FS_CardinalityType
  <1>9. Cardinality(roles[t]) + Cardinality(Inserting(t)) < MaxRoles + Cardinality(Calls) BY DEF RolesBounded
  <1> QED BY <1>4, <1>5, <1>6, <1>7, <1>8, <1>9, LimitAssumption

-----------------------------------------------------------------------------
(***************************************************************************)
(* Steps that change a request only, to q.                                 *)
(***************************************************************************)
(* What is known of a request stays known while the rows stay.             *)
LEMMA CallStaysOK ==
  ASSUME UNCHANGED <<team, member, invite>>, seats \subseteq seats', excused \subseteq excused',
         NEW q, CallOK(q)
  PROVE  CallOK(q)'
  BY DEF CallOK, Shape, Carries, RowThere, RowFresh, CreatorSpared, CreatorSeated, AnswerKnows, DropSound,
         Holds, Answering, InTeam

(* A request may go on where its own step is sound, names a team that is   *)
(* known and answers no invite, whatever it does to roles and seats, as    *)
(* long as it takes no seat and gives the creator no custom role.          *)
LEMMA CallChange ==
  ASSUME IInv, NEW c \in Calls, NEW q \in {Idle} \cup CallRecord,
         call' = [call EXCEPT ![c] = q],
         UNCHANGED <<team, member, invite, answered>>,
         seats \subseteq seats', excused \subseteq excused',
         \A t \in Teams : custom[t][Creator] = None => custom'[t][Creator] = None,
         TypeOK', (RolesFinite /\ RolesBounded)',
         CallOK(q)',
         q.phase \notin {"own", "mark", "join"},
         \A t \in Teams : Asks(q, t) => Asks(call[c], t) \/ ~Untouched(t),
         call[c].phase \in {"seat", "sit"} /\ call[c].op = "accept" =>
           \/ call[c].user \in seats' \cup excused'
           \/ q.phase \in {"seat", "sit"} /\ q.op = "accept" /\ q.user = call[c].user
  PROVE  IInv'
  <1> USE DEF IInv
  <1>0. call \in [Calls -> {Idle} \cup CallRecord] BY DEF TypeOK
  <1>1. call'[c] = q /\ \A d \in Calls \ {c} : call'[d] = call[d] BY <1>0
  <1>3. CallsOK'
    <2> SUFFICES ASSUME NEW d \in Calls PROVE CallOK(call[d])' BY DEF CallsOK
    <2> PICK p : p = call'[d] OBVIOUS
    <2>1. CASE d = c
      <3>1. p = q BY <1>1, <2>1
      <3>2. CallOK(p)' BY <3>1
      <3> QED BY <3>2 DEF CallOK, Shape, Carries, RowThere, RowFresh, CreatorSpared, CreatorSeated, AnswerKnows,
                          DropSound, Holds, Answering, InTeam
    <2>2. CASE d # c
      <3>1. CallOK(p) BY <1>1, <2>2 DEF CallsOK
      <3>2. CallOK(p)' BY <3>1, CallStaysOK
      <3> QED BY <3>2 DEF CallOK, Shape, Carries, RowThere, RowFresh, CreatorSpared, CreatorSeated, AnswerKnows,
                          DropSound, Holds, Answering, InTeam
    <2> QED BY <2>1, <2>2
  <1>4. \A t \in Teams : Untouched(t) => Untouched(t)' BY <1>1 DEF Untouched, Asks
  <1>5. \A d \in Calls, t \in Teams : Owns(call[d], t)' => Owns(call[d], t) BY <1>1 DEF Owns
  <1>6. TeamsOwned' BY <1>4 DEF TeamsOwned, Owned
  <1>7. NobodyKnows' BY <1>4, <1>5 DEF NobodyKnows
  <1>8. MakersAlone' BY <1>4, <1>5 DEF MakersAlone
  <1>9. \A d \in Calls, i \in Invites : Answers(call[d], i)' => Answers(call[d], i) BY <1>1 DEF Answers, Answering
  <1>10. AnswersApart' BY <1>9 DEF AnswersApart
  <1>11. AnsweredOnce' BY DEF AnsweredOnce
  <1>14. SeatsFollowTeams'
    <2>1. \A d \in Calls : call[d].phase \in {"seat", "sit"} /\ call[d].op = "accept" =>
            \/ call[d].user \in seats' \cup excused'
            \/ call'[d].phase \in {"seat", "sit"} /\ call'[d].op = "accept" /\ call'[d].user = call[d].user
      BY <1>1
    <2>2. \A u \in Users : Seating(u) => u \in seats' \cup excused' \/ Seating(u)' BY <2>1 DEF Seating
    <2> QED BY <2>2 DEF SeatsFollowTeams, InTeam
  <1> QED BY <1>3, <1>6, <1>7, <1>8, <1>10, <1>11, <1>14

(* The limit on roles, when no request goes to insert one.                 *)
LEMMA RolesStay ==
  ASSUME IInv, NEW c \in Calls, NEW q, call' = [call EXCEPT ![c] = q], q.phase # "insert",
         \A t \in Teams : roles'[t] \subseteq roles[t]
  PROVE  (RolesFinite /\ RolesBounded)'
  <1>1. \A d \in Calls \ {c} : call'[d] = call[d] BY DEF IInv, TypeOK
  <1>2. call'[c] = q BY DEF IInv, TypeOK
  <1>3. \A t \in Teams, d \in Calls : (call[d].phase = "insert" /\ call[d].team = t)'
            => call[d].phase = "insert" /\ call[d].team = t BY <1>1, <1>2
  <1>4. \A t \in Teams : /\ IsFiniteSet(roles'[t])
            /\ Cardinality(roles'[t]) + Cardinality(Inserting(t)') < MaxRoles + Cardinality(Calls)
    BY <1>3, FewerRoles DEF IInv
  <1> QED BY <1>4 DEF RolesFinite, RolesBounded

(* A request that changes nothing but itself.                              *)
LEMMA CallStep ==
  ASSUME IInv, NEW c \in Calls, NEW q \in {Idle} \cup CallRecord,
         call' = [call EXCEPT ![c] = q],
         workspace' \in {"none", "live"},
         UNCHANGED <<team, member, custom, roles, invite, seats, answered>>,
         excused \subseteq excused', excused' \subseteq Users,
         CallOK(q),
         q.phase \notin {"own", "insert", "mark", "join"},
         \A t \in Teams : Asks(q, t) => Asks(call[c], t) \/ ~Untouched(t),
         call[c].phase \in {"seat", "sit"} /\ call[c].op = "accept" =>
           \/ call[c].user \in seats \cup excused'
           \/ q.phase \in {"seat", "sit"} /\ q.op = "accept" /\ q.user = call[c].user
  PROVE  IInv'
  <1>1. TypeOK' BY DEF IInv, TypeOK
  <1>2. (RolesFinite /\ RolesBounded)' BY RolesStay
  <1>3. CallOK(q)' BY CallStaysOK
  <1> HIDE DEF IInv, TypeOK, CallOK
  <1> QED BY <1>1, <1>2, <1>3, CallChange

(* A request that ends.                                                    *)
LEMMA EndStep ==
  ASSUME IInv, NEW c \in Calls, Done(c),
         workspace' = workspace, UNCHANGED <<team, member, custom, roles, invite, seats, answered>>,
         excused \subseteq excused', excused' \subseteq Users,
         call[c].phase \in {"seat", "sit"} /\ call[c].op = "accept" => call[c].user \in seats \cup excused'
  PROVE  IInv'
  <1>1. Idle.phase = "idle" BY DEF Idle
  <1>2. CallOK(Idle) BY <1>1 DEF CallOK
  <1>3. \A t \in Teams : ~Asks(Idle, t) BY <1>1 DEF Asks
  <1>4. call' = [call EXCEPT ![c] = Idle] BY DEF Done
  <1>5. workspace' \in {"none", "live"} BY DEF IInv, TypeOK
  <1> HIDE DEF IInv, Idle
  <1> QED BY <1>1, <1>2, <1>3, <1>4, <1>5, CallStep

\* The request c at its next step.
Moved(c, p) == [call[c] EXCEPT !.phase = p]

Steps == {"fallback", "seat", "sit", "team", "load", "rewrite", "target", "policy", "save", "pending", "post",
          "count", "find", "drop", "limit", "unassign", "unrole"}

LEMMA MovedIs ==
  ASSUME TypeOK, NEW c \in Calls, call[c].phase # "idle", NEW p \in Steps \cup {"insert", "join"}
  PROVE  /\ Moved(c, p) \in CallRecord /\ Moved(c, p).phase = p
         /\ Moved(c, p).op = call[c].op /\ Moved(c, p).team = call[c].team
         /\ Moved(c, p).user = call[c].user /\ Moved(c, p).role = call[c].role
         /\ Moved(c, p).home = call[c].home /\ Moved(c, p).row = call[c].row
         /\ Moved(c, p).custom = call[c].custom /\ Moved(c, p).invite = call[c].invite
         /\ Moved(c, p).manager = call[c].manager
  <1>1. call[c] \in CallRecord BY CallTypes
  <1> QED BY <1>1 DEF Moved, CallRecord, Steps

LEMMA GotoIsMoved ==
  ASSUME TypeOK, NEW c \in Calls, NEW p, Goto(c, p)
  PROVE  call' = [call EXCEPT ![c] = Moved(c, p)]
  BY DEF Goto, Moved, TypeOK

(* A request that goes on as it is.                                        *)
LEMMA GotoStep ==
  ASSUME IInv, NEW c \in Calls, NEW p \in Steps, Goto(c, p),
         call[c].phase \notin {"idle", "own"},
         UNCHANGED <<workspace, team, member, custom, roles, invite, seats, answered, excused>>,
         CallOK(Moved(c, p)),
         call[c].phase \in {"seat", "sit"} /\ call[c].op = "accept" => p \in {"seat", "sit"}
  PROVE  IInv'
  <1>1. TypeOK BY DEF IInv
  <1>2. PICK q : q = Moved(c, p) OBVIOUS
  <1>3. q \in CallRecord /\ q.phase = p /\ q.op = call[c].op /\ q.team = call[c].team /\ q.user = call[c].user
    BY <1>1, <1>2, MovedIs
  <1>4. call' = [call EXCEPT ![c] = q] BY <1>1, <1>2, GotoIsMoved
  <1>5. workspace' \in {"none", "live"} /\ excused' \subseteq Users BY <1>1 DEF TypeOK
  <1>6. q.phase \notin {"own", "insert", "mark", "join"} BY <1>3 DEF Steps
  <1>7. \A t \in Teams : Asks(q, t) => Asks(call[c], t) BY <1>3 DEF Asks
  <1> HIDE DEF IInv, CallOK
  <1> QED BY <1>2, <1>3, <1>4, <1>5, <1>6, <1>7, CallStep

\* Where requests about a team begin.
FirstSteps == {"sit", "fallback", "seat", "load", "target", "limit"}

(* A request that begins, about a team that is known or none yet.          *)
LEMMA BeginStep ==
  ASSUME IInv, NEW c \in Calls, call[c].phase = "idle", NEW q \in CallRecord,
         call' = [call EXCEPT ![c] = q],
         workspace' \in {"none", "live"},
         UNCHANGED <<team, member, custom, roles, invite, seats, answered, excused>>,
         q.phase \in FirstSteps, Shape(q), Carries(q),
         q.team \in Teams => \E u \in Users : member[q.team][u] # None
  PROVE  IInv'
  <1>1. CallOK(q)
    BY DEF FirstSteps, CallOK, RowThere, RowFresh, CreatorSpared, CreatorSeated, AnswerKnows, DropSound, Holds, Answering
  <1>2. excused' \subseteq Users BY DEF IInv, TypeOK
  <1>3. q.phase \notin {"own", "insert", "mark", "join"} BY DEF FirstSteps
  <1>4. \A t \in Teams : Asks(q, t) => ~Untouched(t) BY DEF Asks, Untouched
  <1> HIDE DEF IInv, CallOK
  <1> QED BY <1>1, <1>2, <1>3, <1>4, CallStep

LEMMA CallTyped ==
  ASSUME NEW op \in {"register", "list", "mine", "create", "update", "role", "rename", "assign", "remove",
                     "invite", "accept", "addRole", "dropRole"},
         NEW phase \in Steps, NEW t \in Teams \cup {None}, NEW u \in Users
  PROVE  Call(op, phase, t, u) \in CallRecord
  BY DEF Call, CallRecord, Steps

(* createDefaultWorkspace, getMyWorkspaces, getMyWorkspace and createTeam  *)
(* begin for the creator.                                                  *)
LEMMA BeginForCreator ==
  ASSUME IInv, NEW c \in Calls, call[c].phase = "idle", workspace' \in {"none", "live"},
         UNCHANGED <<team, member, custom, roles, invite, seats, history>>,
         NEW op \in {"register", "list", "mine", "create"}, NEW phase \in {"sit", "fallback", "seat"},
         call' = [call EXCEPT ![c] = Call(op, phase, None, Creator)],
         phase = "fallback" => op \in {"list", "mine"}
  PROVE  IInv'
  <1>1. PICK q : q = Call(op, phase, None, Creator) OBVIOUS
  <1>2. q.op = op /\ q.phase = phase /\ q.team = None /\ q.user = Creator BY <1>1 DEF Call
  <1>3. q \in CallRecord BY <1>1, CallTyped, CreatorAssumption DEF Steps
  <1>4. Shape(q) BY <1>2 DEF Shape
  <1>5. Carries(q) BY <1>2 DEF Carries, Holds, Answering
  <1>6. q.team \notin Teams BY <1>2, NoneAssumption
  <1>7. q.phase \in FirstSteps BY <1>2 DEF FirstSteps
  <1> HIDE DEF IInv, Shape, Carries
  <1> QED BY <1>1, <1>3, <1>4, <1>5, <1>6, <1>7, BeginStep DEF history

LEMMA WorkspaceSteps ==
  ASSUME IInv, NEW c \in Calls,
         \/ CreateWorkspace(c) \/ BeginCreate(c)
         \/ \E op \in {"list", "mine"} : ListWorkspaces(c, op)
  PROVE  IInv'
  <1>1. workspace \in {"none", "live"} BY DEF IInv, TypeOK
  <1>2. CASE CreateWorkspace(c) BY <1>2, BeginForCreator DEF CreateWorkspace
  <1>3. CASE BeginCreate(c) BY <1>1, <1>3, BeginForCreator DEF BeginCreate
  <1>4. ASSUME NEW op \in {"list", "mine"}, ListWorkspaces(c, op) PROVE IInv'
    BY <1>1, <1>4, BeginForCreator DEF ListWorkspaces
  <1> QED BY <1>2, <1>3, <1>4

(* A request about a team begins.                                          *)
LEMMA BeginInTeam ==
  ASSUME IInv, NEW c \in Calls, call[c].phase = "idle",
         UNCHANGED <<workspace, team, member, custom, roles, invite, seats, history>>,
         NEW t \in Teams, \E u \in Users : member[t][u] # None,
         NEW q \in CallRecord, call' = [call EXCEPT ![c] = q],
         q.team = t,
         \/ q.phase = "load" /\ q.op = "update"
         \/ q.phase = "limit" /\ q.op = "addRole"
         \/ q.phase = "target" /\ q.op \in {"role", "rename", "assign", "remove", "invite", "dropRole"}
  PROVE  IInv'
  <1>1. Shape(q) BY DEF Shape
  <1>2. Carries(q) BY DEF Carries, Holds, Answering
  <1>3. q.phase \in FirstSteps BY DEF FirstSteps
  <1>4. workspace' \in {"none", "live"} BY DEF IInv, TypeOK
  <1> HIDE DEF IInv, Shape, Carries
  <1> QED BY <1>1, <1>2, <1>3, <1>4, BeginStep DEF history

LEMMA TeamBegins ==
  ASSUME IInv, NEW c \in Calls, NEW t \in Teams, NEW a \in Users,
         BeginUpdate(c, t, a) \/ BeginAddRole(c, t, a)
  PROVE  IInv'
  <1>1. member[t][a] # None /\ call[c].phase = "idle"
        /\ UNCHANGED <<workspace, team, member, custom, roles, invite, seats, history>>
    BY DEF BeginUpdate, BeginAddRole, Permitted
  <1>2. CASE BeginUpdate(c, t, a)
    <2>1. PICK q : q = Call("update", "load", t, Creator) OBVIOUS
    <2>2. q.op = "update" /\ q.phase = "load" /\ q.team = t BY <2>1 DEF Call
    <2>3. q \in CallRecord BY <2>1, CallTyped, CreatorAssumption DEF Steps
    <2>4. call' = [call EXCEPT ![c] = q] BY <1>2, <2>1 DEF BeginUpdate
    <2> HIDE DEF IInv
    <2> QED BY <1>1, <2>2, <2>3, <2>4, BeginInTeam
  <1>3. CASE BeginAddRole(c, t, a)
    <2>1. PICK q : q = Call("addRole", "limit", t, Creator) OBVIOUS
    <2>2. q.op = "addRole" /\ q.phase = "limit" /\ q.team = t BY <2>1 DEF Call
    <2>3. q \in CallRecord BY <2>1, CallTyped, CreatorAssumption DEF Steps
    <2>4. call' = [call EXCEPT ![c] = q] BY <1>3, <2>1 DEF BeginAddRole
    <2> HIDE DEF IInv
    <2> QED BY <1>1, <2>2, <2>3, <2>4, BeginInTeam
  <1> QED BY <1>2, <1>3

LEMMA ManageBegins ==
  ASSUME IInv, NEW c \in Calls, NEW t \in Teams, NEW a \in Users, NEW u \in Users,
         NEW op \in {"role", "assign", "remove", "invite"}, BeginManage(c, t, a, u, op)
  PROVE  IInv'
  <1>1. member[t][a] # None /\ call[c].phase = "idle"
        /\ UNCHANGED <<workspace, team, member, custom, roles, invite, seats, history>>
    BY DEF BeginManage, Permitted
  <1>2. Call(op, "target", t, u) \in CallRecord BY CallTyped DEF Steps
  <1>3. Call(op, "target", t, u).op = op /\ Call(op, "target", t, u).phase = "target" /\ Call(op, "target", t, u).team = t
    BY DEF Call
  <1>4. PICK m \in BOOLEAN, h \in BOOLEAN :
           call' = [call EXCEPT ![c] = [Call(op, "target", t, u) EXCEPT !.manager = m, !.home = h]]
    BY DEF BeginManage
  <1>5. PICK q : q = [Call(op, "target", t, u) EXCEPT !.manager = m, !.home = h] OBVIOUS
  <1>6. q \in CallRecord /\ q.op = op /\ q.phase = "target" /\ q.team = t BY <1>2, <1>3, <1>5 DEF CallRecord
  <1>7. call' = [call EXCEPT ![c] = q] BY <1>4, <1>5
  <1> HIDE DEF IInv
  <1> QED BY <1>1, <1>6, <1>7, BeginInTeam

LEMMA RenameBegins ==
  ASSUME IInv, NEW c \in Calls, NEW t \in Teams, NEW a \in Users, NEW u \in Users, BeginRename(c, t, a, u)
  PROVE  IInv'
  <1>1. member[t][a] # None /\ call[c].phase = "idle"
        /\ UNCHANGED <<workspace, team, member, custom, roles, invite, seats, history>>
    BY DEF BeginRename
  <1>2. PICK q : q = Call("rename", "target", t, u) OBVIOUS
  <1>3. q.op = "rename" /\ q.phase = "target" /\ q.team = t BY <1>2 DEF Call
  <1>4. q \in CallRecord BY <1>2, CallTyped DEF Steps
  <1>5. call' = [call EXCEPT ![c] = q] BY <1>2 DEF BeginRename
  <1> HIDE DEF IInv
  <1> QED BY <1>1, <1>3, <1>4, <1>5, BeginInTeam

LEMMA DropRoleBegins ==
  ASSUME IInv, NEW c \in Calls, NEW t \in Teams, NEW a \in Users, NEW x \in CustomRoles, BeginDropRole(c, t, a, x)
  PROVE  IInv'
  <1>1. member[t][a] # None /\ call[c].phase = "idle"
        /\ UNCHANGED <<workspace, team, member, custom, roles, invite, seats, history>>
    BY DEF BeginDropRole, Permitted
  <1>2. Call("dropRole", "target", t, Creator) \in CallRecord BY CallTyped, CreatorAssumption DEF Steps
  <1>3. /\ Call("dropRole", "target", t, Creator).op = "dropRole"
        /\ Call("dropRole", "target", t, Creator).phase = "target" /\ Call("dropRole", "target", t, Creator).team = t
    BY DEF Call
  <1>4. PICK q : q = [Call("dropRole", "target", t, Creator) EXCEPT !.custom = x] OBVIOUS
  <1>5. q \in CallRecord /\ q.op = "dropRole" /\ q.phase = "target" /\ q.team = t BY <1>2, <1>3, <1>4 DEF CallRecord
  <1>6. call' = [call EXCEPT ![c] = q] BY <1>4 DEF BeginDropRole
  <1> HIDE DEF IInv
  <1> QED BY <1>1, <1>5, <1>6, BeginInTeam

-----------------------------------------------------------------------------
(***************************************************************************)
(* Steps that read the rows.                                               *)
(***************************************************************************)
(* What is known of a request in progress.                                 *)
LEMMA InProgress ==
  ASSUME IInv, NEW c \in Calls, call[c].phase # "idle"
  PROVE  /\ call[c] \in CallRecord /\ call[c].user \in Users
         /\ Shape(call[c]) /\ Carries(call[c])
         /\ RowThere(call[c]) /\ RowFresh(call[c]) /\ CreatorSpared(call[c])
         /\ CreatorSeated(call[c]) /\ AnswerKnows(call[c]) /\ DropSound(call[c])
  BY CallTypes DEF IInv, CallsOK, CallOK

(* A request whose next step holds no row, answers nothing and is neither  *)
(* of the creator's team nor of a seat to drop.                            *)
LEMMA PlainGoto ==
  ASSUME IInv, NEW c \in Calls, NEW p \in Steps, Goto(c, p),
         call[c].phase \notin {"idle", "own"},
         UNCHANGED <<workspace, team, member, custom, roles, invite, seats, history>>,
         p \notin {"team", "policy", "save", "find", "drop"},
         Shape(Moved(c, p)), p \in {"fallback", "seat", "sit"} => call[c].phase \in {"fallback", "seat", "sit"},
         call[c].phase \in {"seat", "sit"} /\ call[c].op = "accept" => p \in {"seat", "sit"}
  PROVE  IInv'
  <1>1. TypeOK BY DEF IInv
  <1>2. Carries(call[c]) BY InProgress
  <1>3. PICK q : q = Moved(c, p) OBVIOUS
  <1>4. /\ q.phase = p /\ q.op = call[c].op /\ q.team = call[c].team /\ q.user = call[c].user
        /\ q.role = call[c].role /\ q.invite = call[c].invite
    BY <1>1, <1>3, MovedIs
  <1>5. Carries(q) BY <1>2, <1>4 DEF Carries, Holds, Answering, Steps
  <1>6. CallOK(q)
    BY <1>3, <1>4, <1>5 DEF CallOK, RowThere, RowFresh, CreatorSpared, CreatorSeated, AnswerKnows, DropSound, Holds,
       Answering, Steps
  <1>7. CallOK(Moved(c, p)) BY <1>3, <1>6
  <1> HIDE DEF IInv, CallOK, Shape
  <1> QED BY <1>7, GotoStep DEF history

(* A request that ends where its last step was not the seat of an answer.  *)
LEMMA PlainEnd ==
  ASSUME IInv, NEW c \in Calls, Done(c),
         UNCHANGED <<workspace, team, member, custom, roles, invite, seats, history>>,
         call[c].phase \notin {"seat", "sit"} \/ call[c].user \in seats
  PROVE  IInv'
  <1>1. excused' \subseteq Users BY DEF IInv, TypeOK, history
  <1> HIDE DEF IInv
  <1> QED BY <1>1, EndStep DEF history

(* FindWorkspace, LoadTeam, CheckMember, CheckPending and FindRole go on   *)
(* or end by what they find.                                               *)
LEMMA PlainSteps ==
  ASSUME IInv, NEW c \in Calls,
         LoadTeam(c) \/ CheckMember(c) \/ CheckPending(c) \/ FindRole(c)
  PROVE  IInv'
  <1>1. PICK p \in {"rewrite", "pending", "post", "unassign"} :
          /\ Goto(c, p) \/ Done(c)
          /\ \/ call[c].phase = "load" /\ p = "rewrite"
             \/ call[c].phase = "target" /\ call[c].op = "invite" /\ p = "pending"
             \/ call[c].phase = "pending" /\ p = "post"
             \/ call[c].phase = "target" /\ call[c].op = "dropRole" /\ p = "unassign"
    BY DEF LoadTeam, CheckMember, CheckPending, FindRole, At
  <1>2. UNCHANGED <<workspace, team, member, custom, roles, invite, seats, history>>
    BY DEF LoadTeam, CheckMember, CheckPending, FindRole
  <1>3. call[c].phase # "idle" /\ call[c].phase \notin {"own", "seat", "sit"} BY <1>1
  <1>4. Shape(call[c]) BY <1>3, InProgress
  <1>5. TypeOK BY DEF IInv
  <1>6. p \in Steps BY DEF Steps
  <1>7. Moved(c, p).phase = p /\ Moved(c, p).op = call[c].op BY <1>3, <1>5, <1>6, MovedIs
  <1>8. Shape(Moved(c, p)) BY <1>1, <1>4, <1>7 DEF Shape
  <1> HIDE DEF IInv, Shape
  <1>9. CASE Done(c) BY <1>2, <1>3, <1>9, PlainEnd
  <1>10. CASE Goto(c, p) BY <1>2, <1>3, <1>6, <1>8, <1>10, PlainGoto
  <1> QED BY <1>1, <1>9, <1>10

(* FindWorkspace goes on to the seat of the creator, or ends.              *)
LEMMA FindWorkspaceStep ==
  ASSUME IInv, NEW c \in Calls, FindWorkspace(c)
  PROVE  IInv'
  <1>1. call[c].phase = "fallback" /\ UNCHANGED <<workspace, team, member, custom, roles, invite, seats, history>>
    BY DEF FindWorkspace
  <1>2. call[c] \in CallRecord /\ Shape(call[c]) /\ Carries(call[c]) BY <1>1, InProgress
  <1>3. call[c].op \in {"list", "mine"} /\ call[c].user = Creator /\ call[c].team = None
    BY <1>1, <1>2 DEF Shape, Carries
  <1>4. TypeOK BY DEF IInv
  <1>5. CASE Goto(c, "seat")
    <2>1. "seat" \in Steps BY DEF Steps
    <2>2. Moved(c, "seat").phase = "seat" /\ Moved(c, "seat").op = call[c].op BY <1>1, <1>4, <2>1, MovedIs
    <2>3. Shape(Moved(c, "seat")) BY <1>3, <2>2 DEF Shape
    <2> HIDE DEF IInv, Shape
    <2> QED BY <1>1, <1>5, <2>1, <2>3, PlainGoto
  <1>6. CASE Done(c)
    <2> HIDE DEF IInv
    <2> QED BY <1>1, <1>6, PlainEnd
  <1>7. CASE call' = [call EXCEPT ![c].op = "list"]
    <2>1. PICK q : q = [call[c] EXCEPT !.op = "list"] OBVIOUS
    <2>2. q \in CallRecord /\ q.phase = "fallback" /\ q.op = "list" /\ q.user = Creator /\ q.team = None
      BY <1>1, <1>2, <1>3, <2>1 DEF CallRecord
    <2>3. call' = [call EXCEPT ![c] = q] BY <2>1, <1>7, <1>4 DEF TypeOK
    <2>4. Shape(q) /\ Carries(q) BY <2>2 DEF Shape, Carries, Holds, Answering
    <2>5. CallOK(q)
      BY <2>2, <2>4 DEF CallOK, RowThere, RowFresh, CreatorSpared, CreatorSeated, AnswerKnows, DropSound, Holds, Answering
    <2>6. \A t \in Teams : ~Asks(q, t) BY <2>2, NoneAssumption DEF Asks
    <2>7. workspace' \in {"none", "live"} /\ excused' \subseteq Users BY <1>1, <1>4 DEF TypeOK, history
    <2>8. q.phase \notin {"own", "insert", "mark", "join"} BY <2>2
    <2>9. call[c].phase \notin {"seat", "sit"} BY <1>1
    <2> HIDE DEF IInv, CallOK
    <2> QED BY <1>1, <2>2, <2>3, <2>5, <2>6, <2>7, <2>8, <2>9, CallStep DEF history
  <1> QED BY <1>5, <1>6, <1>7 DEF FindWorkspace

(* CheckSeat finds a seat, and createTeam then goes on.                    *)
LEMMA CheckSeatStep ==
  ASSUME IInv, NEW c \in Calls, CheckSeat(c)
  PROVE  IInv'
  <1>1. call[c].phase = "seat" /\ UNCHANGED <<workspace, team, member, custom, roles, invite, seats, history>>
    BY DEF CheckSeat
  <1>2. call[c] \in CallRecord /\ Shape(call[c]) /\ Carries(call[c]) BY <1>1, InProgress
  <1>3. TypeOK BY DEF IInv
  <1>4. CASE Goto(c, "sit")
    <2>1. "sit" \in Steps BY DEF Steps
    <2>2. Moved(c, "sit").phase = "sit" /\ Moved(c, "sit").op = call[c].op BY <1>1, <1>3, <2>1, MovedIs
    <2>3. Shape(Moved(c, "sit")) BY <1>1, <1>2, <2>2 DEF Shape
    <2> HIDE DEF IInv, Shape
    <2> QED BY <1>1, <1>4, <2>1, <2>3, PlainGoto
  <1>5. CASE call[c].user \in seats /\ Done(c)
    <2> HIDE DEF IInv
    <2> QED BY <1>1, <1>5, PlainEnd
  <1>6. CASE call[c].user \in seats /\ call[c].op = "create" /\ Goto(c, "team")
    <2>1. "team" \in Steps BY DEF Steps
    <2>2. PICK q : q = Moved(c, "team") OBVIOUS
    <2>3. q.phase = "team" /\ q.op = call[c].op /\ q.team = call[c].team /\ q.user = call[c].user
      BY <1>1, <1>3, <2>1, <2>2, MovedIs
    <2>4. Shape(q) /\ Carries(q) BY <1>1, <1>2, <1>6, <2>3 DEF Shape, Carries, Holds, Answering
    <2>5. call[c].user = Creator BY <1>2, <1>6 DEF Carries
    <2>6. CallOK(q)
      BY <1>6, <2>3, <2>4, <2>5 DEF CallOK, RowThere, RowFresh, CreatorSpared, CreatorSeated, AnswerKnows, DropSound, Holds, Answering
    <2>7. CallOK(Moved(c, "team")) BY <2>2, <2>6
    <2> HIDE DEF IInv, CallOK
    <2> QED BY <1>1, <1>6, <2>1, <2>7, GotoStep DEF history
  <1> QED BY <1>4, <1>5, <1>6 DEF CheckSeat, Seated

(* Count and Find: who has no team may lose the seat.                      *)
LEMMA CountFindSteps ==
  ASSUME IInv, NEW c \in Calls, Count(c) \/ Find(c)
  PROVE  IInv'
  <1>1. /\ call[c].phase \in {"count", "find"}
        /\ UNCHANGED <<workspace, team, member, custom, roles, invite, seats, history>>
    BY DEF Count, Find
  <1>2. /\ call[c] \in CallRecord /\ call[c].user \in Users /\ Shape(call[c]) /\ Carries(call[c])
        /\ DropSound(call[c])
    BY <1>1, InProgress
  <1>3. TypeOK BY DEF IInv
  <1>4. CASE Done(c)
    <2> HIDE DEF IInv
    <2> QED BY <1>1, <1>4, PlainEnd
  <1>5. CASE call[c].phase = "count" /\ LastTeam(call[c].user) /\ Goto(c, "find")
    <2>1. "find" \in Steps BY DEF Steps
    <2>2. PICK q : q = Moved(c, "find") OBVIOUS
    <2>3. q.phase = "find" /\ q.op = call[c].op /\ q.team = call[c].team /\ q.user = call[c].user
      BY <1>1, <1>3, <2>1, <2>2, MovedIs
    <2>4. Shape(q) /\ Carries(q) BY <1>1, <1>2, <1>5, <2>3 DEF Shape, Carries, Holds, Answering
    <2>5. ~InTeam(q.user) BY <1>5, <2>3 DEF LastTeam, InTeam
    <2>6. CallOK(q)
      BY <2>3, <2>4, <2>5 DEF CallOK, RowThere, RowFresh, CreatorSpared, CreatorSeated, AnswerKnows, DropSound, Holds, Answering
    <2>7. CallOK(Moved(c, "find")) BY <2>2, <2>6
    <2> HIDE DEF IInv, CallOK
    <2> QED BY <1>1, <2>1, <2>7, <1>5, GotoStep DEF history
  <1>6. CASE /\ call[c].phase = "find" /\ call[c].user \in seats \ {Creator}
             /\ call' = [call EXCEPT ![c].phase = "drop", ![c].row = "fresh"]
    <2>1. PICK q : q = [call[c] EXCEPT !.phase = "drop", !.row = "fresh"] OBVIOUS
    <2>2. q \in CallRecord /\ q.phase = "drop" /\ q.op = call[c].op /\ q.user = call[c].user /\ q.team = call[c].team
      BY <1>2, <2>1 DEF CallRecord
    <2>3. call' = [call EXCEPT ![c] = q] BY <2>1, <1>6, <1>3 DEF TypeOK
    <2>4. Shape(q) /\ Carries(q) BY <1>2, <1>6, <2>2 DEF Shape, Carries, Holds, Answering
    <2>5. CallOK(q)
      BY <1>2, <1>6, <2>2, <2>4 DEF CallOK, RowThere, RowFresh, CreatorSpared, CreatorSeated, AnswerKnows, DropSound, Holds, Answering
    <2>6. \A t \in Teams : Asks(q, t) => Asks(call[c], t) BY <1>6, <2>2 DEF Asks
    <2>7. workspace' \in {"none", "live"} /\ excused' \subseteq Users BY <1>1, <1>3 DEF TypeOK, history
    <2>8. q.phase \notin {"own", "insert", "mark", "join"} BY <2>2
    <2>9. call[c].phase \notin {"seat", "sit"} BY <1>6
    <2> HIDE DEF IInv, CallOK
    <2> QED BY <1>1, <2>2, <2>3, <2>5, <2>6, <2>7, <2>8, <2>9, CallStep DEF history
  <1> QED BY <1>4, <1>5, <1>6 DEF Count, Find

(* A request that fails half way leaves its user excused, if it was to     *)
(* give a seat.                                                            *)
LEMMA FailStep ==
  ASSUME IInv, NEW c \in Calls, Fail(c)
  PROVE  IInv'
  <1>1. Done(c) /\ UNCHANGED <<workspace, team, member, custom, roles, invite, seats, answered>> BY DEF Fail
  <1>2. call[c].user \in Users BY InProgress DEF Fail
  <1>3. excused \subseteq excused' /\ excused' \subseteq Users BY <1>2 DEF Fail, IInv, TypeOK
  <1>4. call[c].phase \in {"seat", "sit"} /\ call[c].op = "accept" => call[c].user \in seats \cup excused'
    BY DEF Fail
  <1> HIDE DEF IInv
  <1> QED BY <1>1, <1>3, <1>4, EndStep

(* A request that is about to hold the row of its user.                    *)
LEMMA HoldStep ==
  ASSUME IInv, NEW c \in Calls, call[c].phase \in {"target", "policy"},
         NEW q \in CallRecord, call' = [call EXCEPT ![c] = q],
         UNCHANGED <<workspace, team, member, custom, roles, invite, seats, history>>,
         Holds(q), q.op = call[c].op, q.team = call[c].team, q.user = call[c].user,
         q.op \in {"role", "rename", "assign", "remove"}, q.phase = "policy" => q.op = "assign",
         q.op # "remove" => q.role \in TeamRole,
         RowThere(q), RowFresh(q), CreatorSpared(q)
  PROVE  IInv'
  <1>1. Carries(call[c]) BY InProgress
  <1>2. Shape(q) BY DEF Shape, Holds
  <1>3. Carries(q) BY <1>1 DEF Carries, Holds, Answering
  <1>4. CallOK(q) BY <1>2, <1>3 DEF CallOK, CreatorSeated, AnswerKnows, DropSound, Holds, Answering
  <1>5. \A t \in Teams : Asks(q, t) => Asks(call[c], t) BY DEF Asks
  <1>6. workspace' \in {"none", "live"} /\ excused' \subseteq Users BY DEF IInv, TypeOK, history
  <1>7. q.phase \notin {"own", "insert", "mark", "join"} BY DEF Holds
  <1> HIDE DEF IInv, CallOK
  <1> QED BY <1>4, <1>5, <1>6, <1>7, CallStep DEF history

(* In a live team the row of the creator says OWNER where somebody asks.   *)
LEMMA CreatorOwns ==
  ASSUME IInv, NEW c \in Calls, NEW t \in Teams, Asks(call[c], t), team[t] = "live"
  PROVE  member[t][Creator] = "OWNER"
  BY DEF IInv, TeamsOwned, Owned, Untouched

(* The row of the user as it is loaded.                                    *)
LEMMA LoadForRoleStep ==
  ASSUME IInv, NEW c \in Calls, NEW r \in TeamRole, LoadForRole(c, r)
  PROVE  IInv'
  <1>1. /\ call[c].phase = "target" /\ call[c].op = "role"
        /\ UNCHANGED <<workspace, team, member, custom, roles, invite, seats, history>>
    BY DEF LoadForRole, At
  <1>2. call[c] \in CallRecord /\ call[c].user \in Users /\ call[c].team \in Teams BY <1>1, InProgress DEF Carries
  <1>3. TypeOK BY DEF IInv
  <1>4. CASE Done(c)
    <2> HIDE DEF IInv
    <2> QED BY <1>1, <1>4, PlainEnd
  <1>5. CASE ~Untouchable(c) /\ call' = [call EXCEPT ![c].phase = "save", ![c].role = r]
    <2>1. PICK q : q = [call[c] EXCEPT !.phase = "save", !.role = r] OBVIOUS
    <2>2. /\ q \in CallRecord /\ q.phase = "save" /\ q.op = "role" /\ q.team = call[c].team /\ q.user = call[c].user
          /\ q.role = r
      BY <1>1, <1>2, <2>1 DEF CallRecord
    <2>3. call' = [call EXCEPT ![c] = q] BY <2>1, <1>5, <1>3 DEF TypeOK
    <2>4. RowThere(q) BY <1>5, <2>2 DEF RowThere, Untouchable, Target
    <2>5. CreatorSpared(q) BY <1>1, <1>2, <1>5, <2>2, CreatorOwns DEF CreatorSpared, Asks, Untouchable, Target
    <2>6. Holds(q) /\ RowFresh(q) BY <2>2 DEF Holds, RowFresh
    <2> HIDE DEF IInv
    <2> QED BY <1>1, <2>2, <2>3, <2>4, <2>5, <2>6, HoldStep
  <1> QED BY <1>4, <1>5 DEF LoadForRole

LEMMA LoadForRenameStep ==
  ASSUME IInv, NEW c \in Calls, LoadForRename(c)
  PROVE  IInv'
  <1>1. /\ call[c].phase = "target" /\ call[c].op = "rename"
        /\ UNCHANGED <<workspace, team, member, custom, roles, invite, seats, history>>
    BY DEF LoadForRename, At
  <1>2. call[c] \in CallRecord /\ call[c].user \in Users /\ call[c].team \in Teams BY <1>1, InProgress DEF Carries
  <1>3. TypeOK BY DEF IInv
  <1>4. CASE Done(c)
    <2> HIDE DEF IInv
    <2> QED BY <1>1, <1>4, PlainEnd
  <1>5. CASE Target(c) # None /\ call' = [call EXCEPT ![c].phase = "save", ![c].role = Loaded(c)]
    <2>0. Target(c) \in TeamRole BY <1>2, <1>3, <1>5, Types DEF Target
    <2>1. PICK q : q = [call[c] EXCEPT !.phase = "save", !.role = Target(c)] OBVIOUS
    <2>2. /\ q \in CallRecord /\ q.phase = "save" /\ q.op = "rename" /\ q.team = call[c].team /\ q.user = call[c].user
          /\ q.role = Target(c)
      BY <1>1, <1>2, <2>0, <2>1 DEF CallRecord
    <2>3. call' = [call EXCEPT ![c] = q] BY <2>1, <1>5, <1>3 DEF TypeOK, Loaded
    <2>4. RowThere(q) /\ RowFresh(q) BY <1>5, <2>2 DEF RowThere, RowFresh, Target
    <2>5. CreatorSpared(q) BY <1>1, <1>2, <2>2, CreatorOwns DEF CreatorSpared, Asks, Target
    <2>6. Holds(q) BY <2>2 DEF Holds
    <2> HIDE DEF IInv, TeamRole
    <2> QED BY <1>1, <2>0, <2>2, <2>3, <2>4, <2>5, <2>6, HoldStep
  <1> QED BY <1>4, <1>5 DEF LoadForRename

LEMMA LoadForAssignStep ==
  ASSUME IInv, NEW c \in Calls, NEW x \in CustomRoles \cup {None}, LoadForAssign(c, x)
  PROVE  IInv'
  <1>1. /\ call[c].phase = "target" /\ call[c].op = "assign"
        /\ UNCHANGED <<workspace, team, member, custom, roles, invite, seats, history>>
    BY DEF LoadForAssign, At
  <1>2. call[c] \in CallRecord /\ call[c].user \in Users /\ call[c].team \in Teams BY <1>1, InProgress DEF Carries
  <1>3. TypeOK BY DEF IInv
  <1>4. CASE Done(c)
    <2> HIDE DEF IInv
    <2> QED BY <1>1, <1>4, PlainEnd
  <1>5. ASSUME NEW p \in {"save", "policy"}, ~Untouchable(c),
               call' = [call EXCEPT ![c].phase = p, ![c].role = Loaded(c), ![c].custom = x]
        PROVE  IInv'
    <2>0. Target(c) \in TeamRole BY <1>2, <1>3, <1>5, Types DEF Target, Untouchable
    <2>1. PICK q : q = [call[c] EXCEPT !.phase = p, !.role = Target(c), !.custom = x] OBVIOUS
    <2>2. /\ q \in CallRecord /\ q.phase = p /\ q.op = "assign" /\ q.team = call[c].team /\ q.user = call[c].user
          /\ q.role = Target(c)
      BY <1>1, <1>2, <2>0, <2>1 DEF CallRecord
    <2>3. call' = [call EXCEPT ![c] = q] BY <2>1, <1>5, <1>3 DEF TypeOK, Loaded
    <2>4. RowThere(q) /\ RowFresh(q) BY <1>5, <2>2 DEF RowThere, RowFresh, Target, Untouchable
    <2>5. CreatorSpared(q) BY <1>1, <1>2, <1>5, <2>2, CreatorOwns DEF CreatorSpared, Asks, Target, Untouchable
    <2>6. Holds(q) BY <2>2 DEF Holds
    <2> HIDE DEF IInv, TeamRole
    <2> QED BY <1>1, <2>0, <2>2, <2>3, <2>4, <2>5, <2>6, HoldStep
  <1>6. CASE x = None /\ ~Untouchable(c) /\ ~Done(c)
    <2>1. call' = [call EXCEPT ![c].phase = "save", ![c].role = Loaded(c), ![c].custom = x] BY <1>6 DEF LoadForAssign
    <2> QED BY <1>5, <1>6, <2>1
  <1>7. CASE x # None /\ ~Untouchable(c) /\ ~Done(c)
    <2>1. call' = [call EXCEPT ![c].phase = "policy", ![c].role = Loaded(c), ![c].custom = x] BY <1>7 DEF LoadForAssign
    <2> QED BY <1>5, <1>7, <2>1
  <1> QED BY <1>4, <1>6, <1>7 DEF LoadForAssign

LEMMA HoldGoes ==
  ASSUME IInv, NEW c \in Calls, CheckPolicy(c) \/ LoadForRemove(c)
  PROVE  IInv'
  <1>1. /\ \/ call[c].phase = "target" /\ call[c].op = "remove" /\ (~Untouchable(c) \/ Done(c))
           \/ call[c].phase = "policy" /\ call[c].op = "assign"
        /\ UNCHANGED <<workspace, team, member, custom, roles, invite, seats, history>>
        /\ Goto(c, "save") \/ Done(c)
    BY InProgress DEF LoadForRemove, CheckPolicy, At, Shape
  <1>2. call[c] \in CallRecord /\ call[c].user \in Users /\ call[c].team \in Teams BY <1>1, InProgress DEF Carries
  <1>3. RowThere(call[c]) /\ RowFresh(call[c]) /\ CreatorSpared(call[c]) /\ Carries(call[c]) BY <1>1, InProgress
  <1>4. TypeOK BY DEF IInv
  <1>5. CASE Done(c)
    <2> HIDE DEF IInv
    <2> QED BY <1>1, <1>5, PlainEnd
  <1>6. CASE Goto(c, "save") /\ ~Done(c)
    <2>0. "save" \in Steps BY DEF Steps
    <2>1. PICK q : q = Moved(c, "save") OBVIOUS
    <2>2. /\ q \in CallRecord /\ q.phase = "save" /\ q.op = call[c].op /\ q.team = call[c].team /\ q.user = call[c].user
          /\ q.role = call[c].role /\ q.row = call[c].row
      BY <1>1, <1>4, <2>0, <2>1, MovedIs
    <2>3. call' = [call EXCEPT ![c] = q] BY <2>1, <1>6, <1>4, GotoIsMoved
    <2>4. RowThere(q) /\ RowFresh(q)
      BY <1>1, <1>3, <1>6, <2>2 DEF RowThere, RowFresh, Target, Untouchable, Holds
    <2>5. CreatorSpared(q)
      BY <1>1, <1>2, <1>3, <1>6, <2>2, CreatorOwns DEF CreatorSpared, Asks, Target, Untouchable, Holds
    <2>6. Holds(q) /\ (q.op # "remove" => q.role \in TeamRole) BY <1>1, <1>3, <2>2 DEF Holds, Carries
    <2> HIDE DEF IInv, TeamRole
    <2> QED BY <1>1, <2>2, <2>3, <2>4, <2>5, <2>6, HoldStep
  <1> QED BY <1>1, <1>5, <1>6

-----------------------------------------------------------------------------
(***************************************************************************)
(* Custom roles and seats.                                                 *)
(***************************************************************************)
(* createCustomRole counts, and goes on to insert below the limit.         *)
LEMMA CountRolesStep ==
  ASSUME IInv, NEW c \in Calls, CountRoles(c)
  PROVE  IInv'
  <1>1. call[c].phase = "limit" /\ UNCHANGED <<workspace, team, member, custom, roles, invite, seats, history>>
    BY DEF CountRoles
  <1>2. call[c] \in CallRecord /\ Shape(call[c]) /\ Carries(call[c]) /\ call[c].team \in Teams
    BY <1>1, InProgress DEF Carries, Shape
  <1>3. TypeOK BY DEF IInv
  <1>4. CASE Done(c)
    <2> HIDE DEF IInv
    <2> QED BY <1>1, <1>4, PlainEnd
  <1>5. CASE ~Full(call[c].team) /\ Goto(c, "insert")
    <2>1. PICK q : q = Moved(c, "insert") OBVIOUS
    <2>2. q \in CallRecord /\ q.phase = "insert" /\ q.op = call[c].op /\ q.team = call[c].team /\ q.user = call[c].user
      BY <1>1, <1>3, <2>1, MovedIs
    <2>3. call' = [call EXCEPT ![c] = q] BY <2>1, <1>5, <1>3, GotoIsMoved
    <2>4. Shape(q) /\ Carries(q) BY <1>1, <1>2, <2>2 DEF Shape, Carries, Holds, Answering
    <2>5. CallOK(q)
      BY <2>2, <2>4 DEF CallOK, RowThere, RowFresh, CreatorSpared, CreatorSeated, AnswerKnows, DropSound, Holds, Answering
    <2>6. CallOK(q)' BY <1>1, <2>5, CallStaysOK DEF history
    <2>7. TypeOK' BY <1>1, <1>3, <2>2, <2>3 DEF TypeOK, history
    <2>8. \A d \in Calls \ {c} : call'[d] = call[d] BY <2>3, <1>3 DEF TypeOK
    <2>9. (RolesFinite /\ RolesBounded)'
      <3> SUFFICES ASSUME NEW t \in Teams
                   PROVE  /\ IsFiniteSet(roles'[t])
                          /\ Cardinality(roles'[t]) + Cardinality(Inserting(t)') < MaxRoles + Cardinality(Calls)
        BY DEF RolesFinite, RolesBounded
      <3>1. CASE t = call[c].team
        <4>1. IsFiniteSet(roles[t]) /\ Cardinality(roles[t]) \in Nat BY FS_CardinalityType DEF IInv, RolesFinite
        <4>2. Cardinality(roles[t]) < MaxRoles BY <1>5, <3>1, <4>1, LimitAssumption DEF Full
        <4>3. Inserting(t)' \subseteq Calls BY DEF Inserting
        <4>4. Cardinality(Inserting(t)') <= Cardinality(Calls) /\ IsFiniteSet(Inserting(t)')
          BY <4>3, CallsAssumption, FS_Subset
        <4>5. Cardinality(Inserting(t)') \in Nat /\ Cardinality(Calls) \in Nat
          BY <4>4, CallsAssumption, FS_CardinalityType
        <4>6. roles'[t] = roles[t] BY <1>1
        <4> QED BY <4>1, <4>2, <4>4, <4>5, <4>6, LimitAssumption
      <3>2. CASE t # call[c].team
        <4>1. call'[c].team # t BY <2>2, <2>3, <3>2, <1>3 DEF TypeOK
        <4>2. \A d \in Calls : (call[d].phase = "insert" /\ call[d].team = t)'
                => call[d].phase = "insert" /\ call[d].team = t BY <2>8, <4>1
        <4> QED BY <1>1, <4>2, FewerRoles DEF IInv
      <3> QED BY <3>1, <3>2
    <2>10. \A t \in Teams : Asks(q, t) => Asks(call[c], t) BY <1>1, <2>2 DEF Asks
    <2> HIDE DEF IInv, TypeOK, CallOK
    <2> QED BY <1>1, <2>2, <2>3, <2>6, <2>7, <2>9, <2>10, CallChange DEF history
  <1> QED BY <1>4, <1>5 DEF CountRoles

LEMMA InsertRoleStep ==
  ASSUME IInv, NEW c \in Calls, NEW x \in CustomRoles, InsertRole(c, x)
  PROVE  IInv'
  <1>1. call[c].phase = "insert" /\ UNCHANGED <<workspace, team, member, custom, invite, seats, history>> /\ Done(c)
    BY DEF InsertRole
  <1>2. call[c] \in CallRecord /\ Shape(call[c]) /\ Carries(call[c]) /\ call[c].team \in Teams
    BY <1>1, InProgress DEF Carries, Shape
  <1>3. TypeOK BY DEF IInv
  <1>4. CASE ~Exists(call[c].team)
    <2>1. roles' = roles BY <1>4 DEF InsertRole
    <2> HIDE DEF IInv
    <2> QED BY <1>1, <2>1, PlainEnd
  <1>5. CASE Exists(call[c].team)
    <2>1. PICK s \in Teams : s = call[c].team BY <1>2
    <2>2. /\ roles' = [roles EXCEPT ![s] = roles[s] \cup {x}] BY <1>5, <2>1 DEF InsertRole
    <2>3. roles \in [Teams -> SUBSET CustomRoles] BY <1>3 DEF TypeOK
    <2>4. roles'[s] = roles[s] \cup {x} /\ \A t \in Teams \ {s} : roles'[t] = roles[t] BY <2>2, <2>3
    <2>5. call' = [call EXCEPT ![c] = Idle] BY <1>1 DEF Done
    <2>6. call'[c] = Idle /\ \A d \in Calls \ {c} : call'[d] = call[d] BY <2>5, <1>3 DEF TypeOK
    <2>7. Idle.phase = "idle" BY DEF Idle
    <2>8. TypeOK'
      <3>1. roles' \in [Teams -> SUBSET CustomRoles] BY <2>2, <2>3
      <3>2. call' \in [Calls -> {Idle} \cup CallRecord] BY <2>5, <1>3 DEF TypeOK
      <3>3. team[s] \notin {"none", "deleted"} BY <1>5, <2>1 DEF Exists
      <3>4. \A t \in Teams : roles[t] \subseteq roles'[t] BY <2>4
      <3> QED BY <1>1, <1>3, <2>4, <3>1, <3>2, <3>3, <3>4 DEF TypeOK, history
    <2>9. (RolesFinite /\ RolesBounded)'
      <3> SUFFICES ASSUME NEW t \in Teams
                   PROVE  /\ IsFiniteSet(roles'[t])
                          /\ Cardinality(roles'[t]) + Cardinality(Inserting(t)') < MaxRoles + Cardinality(Calls)
        BY DEF RolesFinite, RolesBounded
      <3>1. CASE t = s
        <4>1. IsFiniteSet(roles[t]) /\ Cardinality(roles[t]) \in Nat BY FS_CardinalityType DEF IInv, RolesFinite
        <4>2. IsFiniteSet(roles'[t]) /\ Cardinality(roles'[t]) \in Nat /\ Cardinality(roles'[t]) <= Cardinality(roles[t]) + 1
          <5>1. PICK R : R = roles[t] OBVIOUS
          <5>2. IsFiniteSet(R) /\ roles'[t] = R \cup {x} BY <2>4, <3>1, <4>1, <5>1
          <5>3. IsFiniteSet(R \cup {x}) /\ (Cardinality(R \cup {x}) = Cardinality(R) \/ Cardinality(R \cup {x}) = Cardinality(R) + 1)
            BY <5>2, FS_AddElement
          <5>4. Cardinality(R) \in Nat BY <4>1, <5>1
          <5> QED BY <5>1, <5>2, <5>3, <5>4
        <4>3. c \in Inserting(t) BY <1>1, <2>1, <3>1 DEF Inserting
        <4>4. Inserting(t)' \subseteq Inserting(t) \ {c} BY <2>6, <2>7 DEF Inserting
        <4>5. IsFiniteSet(Inserting(t)) BY CallsAssumption, FS_Subset DEF Inserting
        <4>6. /\ IsFiniteSet(Inserting(t) \ {c})
              /\ Cardinality(Inserting(t) \ {c}) = Cardinality(Inserting(t)) - 1 BY <4>3, <4>5, FS_RemoveElement
        <4>7. IsFiniteSet(Inserting(t)') /\ Cardinality(Inserting(t)') <= Cardinality(Inserting(t) \ {c})
          BY <4>4, <4>6, FS_Subset
        <4>8. Cardinality(Inserting(t)') \in Nat /\ Cardinality(Inserting(t)) \in Nat /\ Cardinality(Calls) \in Nat
          BY <4>5, <4>7, CallsAssumption, FS_CardinalityType
        <4>9. Cardinality(roles[t]) + Cardinality(Inserting(t)) < MaxRoles + Cardinality(Calls)
          BY DEF IInv, RolesBounded
        <4> QED BY <4>1, <4>2, <4>6, <4>7, <4>8, <4>9, LimitAssumption
      <3>2. CASE t # s
        <4>1. \A d \in Calls : (call[d].phase = "insert" /\ call[d].team = t)'
                => call[d].phase = "insert" /\ call[d].team = t BY <2>6, <2>7
        <4> QED BY <2>4, <3>2, <4>1, FewerRoles DEF IInv
      <3> QED BY <3>1, <3>2
    <2>10. CallOK(Idle)' BY <2>7 DEF CallOK
    <2>11. \A t \in Teams : ~Asks(Idle, t) BY <2>7 DEF Asks
    <2> HIDE DEF IInv, TypeOK, CallOK, Idle
    <2> QED BY <1>1, <2>5, <2>7, <2>8, <2>9, <2>10, <2>11, CallChange DEF history
  <1> QED BY <1>4, <1>5

LEMMA WithoutIs ==
  ASSUME TypeOK, NEW t \in Teams, NEW x
  PROVE  /\ Without(t, x) \in [Teams -> [Users -> CustomRoles \cup {None}]]
         /\ \A s \in Teams, u \in Users : Without(t, x)[s][u] = IF s = t /\ custom[s][u] = x THEN None ELSE custom[s][u]
  <1>1. custom \in [Teams -> [Users -> CustomRoles \cup {None}]] BY DEF TypeOK
  <1> QED BY <1>1 DEF Without

(* deleteCustomRole takes the role from the members, and then away.        *)
LEMMA UnroleSteps ==
  ASSUME IInv, NEW c \in Calls, Unassign(c) \/ DropRole(c)
  PROVE  IInv'
  <1>1. /\ call[c].phase \in {"unassign", "unrole"}
        /\ UNCHANGED <<workspace, team, member, invite, seats, history>>
        /\ custom' = Without(call[c].team, call[c].custom)
    BY DEF Unassign, DropRole
  <1>2. call[c] \in CallRecord /\ Shape(call[c]) /\ Carries(call[c]) /\ call[c].team \in Teams
    BY <1>1, InProgress DEF Carries, Shape
  <1>3. TypeOK BY DEF IInv
  <1>4. PICK s \in Teams : s = call[c].team BY <1>2
  <1>5. PICK x : x = call[c].custom OBVIOUS
  <1>6. custom' \in [Teams -> [Users -> CustomRoles \cup {None}]] BY <1>1, <1>3, <1>4, <1>5, WithoutIs
  <1>7. \A t \in Teams, u \in Users : custom'[t][u] = IF t = s /\ custom[t][u] = x THEN None ELSE custom[t][u]
    BY <1>1, <1>3, <1>4, <1>5, WithoutIs
  <1>8. \A t \in Teams : custom[t][Creator] = None => custom'[t][Creator] = None BY <1>7, CreatorAssumption
  <1>9. PICK q \in {Idle} \cup CallRecord :
          /\ call' = [call EXCEPT ![c] = q]
          /\ CallOK(q)' /\ q.phase \notin {"own", "insert", "mark", "join"}
          /\ \A t \in Teams : Asks(q, t) => Asks(call[c], t)
    <2>1. CASE Unassign(c)
      <3>0. "unrole" \in Steps BY DEF Steps
      <3>1. PICK q : q = Moved(c, "unrole") OBVIOUS
      <3>2. q \in CallRecord /\ q.phase = "unrole" /\ q.op = call[c].op /\ q.team = call[c].team /\ q.user = call[c].user
        BY <1>1, <1>3, <3>0, <3>1, MovedIs
      <3>3. call' = [call EXCEPT ![c] = q] BY <2>1, <3>1, <1>3, GotoIsMoved DEF Unassign
      <3>4. Shape(q) /\ Carries(q) BY <1>2, <2>1, <3>2 DEF Shape, Carries, Holds, Answering, Unassign
      <3>5. CallOK(q)
        BY <3>2, <3>4 DEF CallOK, RowThere, RowFresh, CreatorSpared, CreatorSeated, AnswerKnows, DropSound, Holds, Answering
      <3>6. CallOK(q)' BY <1>1, <3>5, CallStaysOK DEF history
      <3>7. \A t \in Teams : Asks(q, t) => Asks(call[c], t) BY <1>1, <3>2 DEF Asks
      <3> QED BY <3>2, <3>3, <3>6, <3>7
    <2>2. CASE DropRole(c)
      <3>1. Idle.phase = "idle" BY DEF Idle
      <3>2. CallOK(Idle)' /\ \A t \in Teams : ~Asks(Idle, t) BY <3>1 DEF CallOK, Asks
      <3> QED BY <2>2, <3>1, <3>2 DEF DropRole, Done
    <2> QED BY <2>1, <2>2
  <1>10. \/ roles' = roles
         \/ roles' = [roles EXCEPT ![s] = roles[s] \ {x}] /\ Without(s, x) = custom'
    BY <1>4, <1>5 DEF Unassign, DropRole
  <1>11. \A t \in Teams : roles'[t] \subseteq roles[t] BY <1>3, <1>10 DEF TypeOK
  <1>12. (RolesFinite /\ RolesBounded)' BY <1>9, <1>11, RolesStay
  <1>13. TypeOK'
    <2>1. roles' \in [Teams -> SUBSET CustomRoles] BY <1>3, <1>10 DEF TypeOK
    <2>2. call' \in [Calls -> {Idle} \cup CallRecord] BY <1>3, <1>9 DEF TypeOK
    <2>3. \A t \in Teams, u \in Users : custom'[t][u] # None => custom'[t][u] \in roles'[t] /\ member[t][u] # None
      <3> SUFFICES ASSUME NEW t \in Teams, NEW u \in Users, custom'[t][u] # None
                   PROVE  custom'[t][u] \in roles'[t] /\ member[t][u] # None
        OBVIOUS
      <3>1. custom'[t][u] = custom[t][u] /\ ~(t = s /\ custom[t][u] = x) BY <1>7
      <3>2. custom[t][u] \in roles[t] /\ member[t][u] # None BY <1>3, <3>1 DEF TypeOK
      <3>3. roles[t] \ roles'[t] \subseteq IF t = s THEN {x} ELSE {} BY <1>3, <1>10 DEF TypeOK
      <3> QED BY <3>1, <3>2, <3>3
    <2>4. \A t \in Teams : team[t] \in {"none", "deleted"} => roles'[t] = {} BY <1>3, <1>11 DEF TypeOK
    <2> QED BY <1>1, <1>3, <1>6, <2>1, <2>2, <2>3, <2>4 DEF TypeOK, history
  <1> HIDE DEF IInv, TypeOK, CallOK, Idle
  <1> QED BY <1>1, <1>8, <1>9, <1>12, <1>13, CallChange DEF history

(* A seat is saved, or found taken.                                        *)
LEMMA SitStep ==
  ASSUME IInv, NEW c \in Calls, Sit(c)
  PROVE  IInv'
  <1>1. /\ call[c].phase = "sit"
        /\ UNCHANGED <<workspace, team, member, custom, roles, invite, history>>
        /\ seats' = seats \cup {call[c].user}
    BY DEF Sit
  <1>2. call[c] \in CallRecord /\ Shape(call[c]) /\ Carries(call[c]) /\ call[c].user \in Users
    BY <1>1, InProgress
  <1>3. TypeOK BY DEF IInv
  <1>4. PICK q \in {Idle} \cup CallRecord :
          /\ call' = [call EXCEPT ![c] = q]
          /\ CallOK(q)' /\ q.phase \notin {"own", "insert", "mark", "join"}
          /\ \A t \in Teams : ~Asks(q, t)
    <2>1. CASE Done(c)
      <3>1. Idle.phase = "idle" BY DEF Idle
      <3>2. CallOK(Idle)' /\ \A t \in Teams : ~Asks(Idle, t) BY <3>1 DEF CallOK, Asks
      <3> QED BY <2>1, <3>1, <3>2 DEF Done
    <2>2. CASE call[c].op = "create" /\ Goto(c, "team")
      <3>0. "team" \in Steps BY DEF Steps
      <3>1. PICK q : q = Moved(c, "team") OBVIOUS
      <3>2. q \in CallRecord /\ q.phase = "team" /\ q.op = call[c].op /\ q.team = call[c].team /\ q.user = call[c].user
        BY <1>1, <1>3, <3>0, <3>1, MovedIs
      <3>3. call' = [call EXCEPT ![c] = q] BY <2>2, <3>1, <1>3, GotoIsMoved
      <3>4. Shape(q) /\ Carries(q) BY <1>1, <1>2, <2>2, <3>2 DEF Shape, Carries, Holds, Answering
      <3>5. Creator \in seats' BY <1>1, <1>2, <2>2 DEF Carries
      <3>6. CallOK(q)'
        BY <3>2, <3>4, <3>5 DEF CallOK, Shape, Carries, RowThere, RowFresh, CreatorSpared, CreatorSeated, AnswerKnows,
           DropSound, Holds, Answering
      <3>7. \A t \in Teams : ~Asks(q, t) BY <1>1, <1>2, <2>2, <3>2, NoneAssumption DEF Asks, Carries
      <3> QED BY <3>2, <3>3, <3>6, <3>7
    <2> QED BY <2>1, <2>2 DEF Sit, Seated
  <1>5. \A t \in Teams : roles'[t] \subseteq roles[t] BY <1>1
  <1>6. (RolesFinite /\ RolesBounded)' BY <1>4, <1>5, RolesStay
  <1>7. TypeOK' BY <1>1, <1>2, <1>3, <1>4 DEF TypeOK, history
  <1> HIDE DEF IInv, TypeOK, CallOK, Idle
  <1> QED BY <1>1, <1>4, <1>6, <1>7, CallChange DEF history

-----------------------------------------------------------------------------
(***************************************************************************)
(* Steps that write the rows of teams and members.                         *)
(***************************************************************************)
\* The request q becomes p: as it was but for its row, ended, or gone on to count teams.
Alike(p, q) ==
  /\ p.phase = q.phase /\ p.op = q.op /\ p.team = q.team /\ p.user = q.user
  /\ p.home = q.home /\ p.role = q.role /\ p.custom = q.custom /\ p.invite = q.invite

Follows(p, q) ==
  \/ Alike(p, q)
  \/ p.phase = "idle"
  \/ p.phase = "count" /\ q.phase = "save" /\ p.team = q.team

(* What the requests do together, when none takes a new step but these.    *)
LEMMA FollowSound ==
  ASSUME IInv, \A d \in Calls : Follows(call'[d], call[d]),
         \A d \in Calls : call[d].phase \in {"seat", "sit"} => Alike(call'[d], call[d])
  PROVE  /\ \A d \in Calls, t \in Teams : Asks(call[d], t)' => Asks(call[d], t)
         /\ \A d \in Calls, t \in Teams : Owns(call[d], t)' => Owns(call[d], t)
         /\ \A d \in Calls, i \in Invites : Answers(call[d], i)' => Answers(call[d], i)
         /\ \A u \in Users : Seating(u) => Seating(u)'
         /\ (\A t \in Teams : roles'[t] \subseteq roles[t]) => (RolesFinite /\ RolesBounded)'
  <1>1. \A d \in Calls, t \in Teams : Asks(call[d], t)' => Asks(call[d], t) BY DEF Follows, Alike, Asks
  <1>2. \A d \in Calls, t \in Teams : Owns(call[d], t)' => Owns(call[d], t) BY DEF Follows, Alike, Owns
  <1>3. \A d \in Calls, i \in Invites : Answers(call[d], i)' => Answers(call[d], i)
    BY DEF Follows, Alike, Answers, Answering
  <1>4. \A u \in Users : Seating(u) => Seating(u)' BY DEF Alike, Seating
  <1>5. ASSUME \A t \in Teams : roles'[t] \subseteq roles[t] PROVE (RolesFinite /\ RolesBounded)'
    <2>1. \A t \in Teams, d \in Calls : (call[d].phase = "insert" /\ call[d].team = t)'
            => call[d].phase = "insert" /\ call[d].team = t BY DEF Follows, Alike
    <2>2. \A t \in Teams : /\ IsFiniteSet(roles'[t])
            /\ Cardinality(roles'[t]) + Cardinality(Inserting(t)') < MaxRoles + Cardinality(Calls)
      BY <1>5, <2>1, FewerRoles DEF IInv
    <2> QED BY <2>2 DEF RolesFinite, RolesBounded
  <1> QED BY <1>1, <1>2, <1>3, <1>4, <1>5

(* A request that is as it was but for its row.                            *)
LEMMA AlikeSound ==
  ASSUME IInv, NEW d \in Calls, call[d].phase # "idle", NEW p, Alike(p, call[d])
  PROVE  Shape(p) /\ Carries(p) /\ p.user \in Users
  <1>1. Shape(call[d]) /\ Carries(call[d]) /\ call[d].user \in Users BY InProgress
  <1>2. Shape(p) BY <1>1 DEF Alike, Shape
  <1>3. Carries(p) BY <1>1 DEF Alike, Carries, Holds, Answering
  <1> QED BY <1>1, <1>2, <1>3 DEF Alike

(* What a step of the rows leaves alone.                                   *)
LEMMA AnswersStay ==
  ASSUME IInv, answered' = answered,
         \A d \in Calls, i \in Invites : Answers(call[d], i)' => Answers(call[d], i),
         \A i \in Invites : invite[i].status \notin {"none", "PENDING"} => invite'[i].status \notin {"none", "PENDING"}
  PROVE  AnswersApart' /\ AnsweredOnce'
  BY DEF IInv, AnswersApart, AnsweredOnce

(* The removal of a seat, of somebody who is in no team.                   *)
LEMMA DropStep ==
  ASSUME IInv, NEW c \in Calls, Drop(c)
  PROVE  IInv'
  <1>1. /\ call[c].phase = "drop"
        /\ UNCHANGED <<workspace, team, member, custom, roles, invite, history>>
    BY DEF Drop
  <1>2. call[c] \in CallRecord /\ call[c].user \in Users /\ DropSound(call[c])
    BY <1>1, InProgress
  <1>3. TypeOK BY DEF IInv
  <1>4. PICK u \in Users : u = call[c].user BY <1>2
  <1>5. seats \ {u} \subseteq seats' /\ seats' \subseteq seats BY <1>4 DEF Drop
  <1>6. Idle.phase = "idle" BY DEF Idle
  <1>7. call'[c] = Idle BY <1>3 DEF Drop, TypeOK
  <1>8. ASSUME NEW d \in Calls \ {c}
        PROVE  Alike(call'[d], call[d]) /\ (call'[d] = call[d] \/ call[d].phase = "drop") /\ call'[d] \in {Idle} \cup CallRecord
    <2>1. CASE call[d].phase = "drop" /\ call[d].user = u
      <3>1. call[d] \in CallRecord BY <2>1, <1>3, CallTypes
      <3>2. call'[d] = [call[d] EXCEPT !.row = "gone"] BY <1>4, <2>1 DEF Drop
      <3>3. PICK q : q = call[d] OBVIOUS
      <3>4. PICK p : p = [q EXCEPT !.row = "gone"] OBVIOUS
      <3>5. p \in CallRecord /\ Alike(p, q) BY <3>1, <3>3, <3>4 DEF CallRecord, Alike
      <3> QED BY <2>1, <3>2, <3>3, <3>4, <3>5
    <2>2. CASE ~(call[d].phase = "drop" /\ call[d].user = u)
      <3>1. call'[d] = call[d] BY <1>4, <2>2 DEF Drop
      <3> QED BY <3>1, <1>3 DEF Alike, TypeOK
    <2> QED BY <2>1, <2>2
  <1>9. \A d \in Calls : Follows(call'[d], call[d]) BY <1>6, <1>7, <1>8 DEF Follows
  <1>10. \A d \in Calls : call[d].phase \in {"seat", "sit"} => Alike(call'[d], call[d]) BY <1>1, <1>8
  <1>11. TypeOK'
    <2>1. call' \in [Calls -> {Idle} \cup CallRecord]
      <3>1. \A d \in Calls : call'[d] \in {Idle} \cup CallRecord BY <1>7, <1>8
      <3>2. call' = [d \in Calls |-> call'[d]] BY DEF Drop
      <3> QED BY <3>1, <3>2
    <2> QED BY <1>1, <1>3, <1>5, <2>1 DEF TypeOK, history
  <1>12. CallsOK'
    <2> SUFFICES ASSUME NEW d \in Calls, call'[d].phase # "idle" PROVE CallOK(call[d])' BY DEF CallsOK, CallOK
    <2>1. d # c BY <1>6, <1>7
    <2>2. PICK p : p = call'[d] OBVIOUS
    <2>3. Alike(p, call[d]) /\ (p = call[d] \/ call[d].phase = "drop") /\ call[d].phase # "idle" BY <1>8, <2>1, <2>2 DEF Alike
    <2>4. Shape(p) /\ Carries(p) BY <2>3, AlikeSound
    <2>5. CallOK(call[d]) BY DEF IInv, CallsOK
    <2>6. u # Creator BY <1>1, <1>2, <1>4 DEF DropSound
    <2>7. CallOK(p)'
      BY <1>1, <1>5, <2>3, <2>4, <2>5, <2>6 DEF Alike, CallOK, Shape, Carries, RowThere, RowFresh, CreatorSpared,
         CreatorSeated, AnswerKnows, DropSound, Holds, Answering, InTeam, history
    <2> QED BY <2>2, <2>7 DEF CallOK, Shape, Carries, RowThere, RowFresh, CreatorSpared, CreatorSeated, AnswerKnows,
               DropSound, Holds, Answering, InTeam
  <1>13. /\ \A d \in Calls, t \in Teams : Asks(call[d], t)' => Asks(call[d], t)
         /\ \A d \in Calls, t \in Teams : Owns(call[d], t)' => Owns(call[d], t)
         /\ \A d \in Calls, i \in Invites : Answers(call[d], i)' => Answers(call[d], i)
         /\ \A w \in Users : Seating(w) => Seating(w)'
         /\ (RolesFinite /\ RolesBounded)'
    BY <1>1, <1>9, <1>10, FollowSound
  <1>14. \A t \in Teams : Untouched(t) => Untouched(t)' BY <1>1, <1>13 DEF Untouched
  <1>15. TeamsOwned' /\ NobodyKnows' /\ MakersAlone'
    BY <1>1, <1>13, <1>14 DEF IInv, TeamsOwned, Owned, NobodyKnows, MakersAlone
  <1>16. AnswersApart' /\ AnsweredOnce' BY <1>1, <1>13, AnswersStay DEF history
  <1>17. SeatsFollowTeams'
    <2>1. u \notin excused => ~InTeam(u) BY <1>1, <1>2, <1>4 DEF DropSound
    <2>2. \A w \in Users \ excused : InTeam(w) => w \in seats \/ Seating(w) BY DEF IInv, SeatsFollowTeams
    <2>3. \A w \in Users \ excused : InTeam(w) => w \in seats' \/ Seating(w)' BY <1>5, <1>13, <2>1, <2>2
    <2> QED BY <1>1, <2>3 DEF SeatsFollowTeams, InTeam, history
  <1> QED BY <1>11, <1>12, <1>13, <1>15, <1>16, <1>17 DEF IInv

LEMMA CallLift ==
  ASSUME NEW d \in Calls, NEW p, p = call'[d], CallOK(p)'
  PROVE  CallOK(call[d])'
  BY DEF CallOK, Shape, Carries, RowThere, RowFresh, CreatorSpared, CreatorSeated, AnswerKnows, DropSound, Holds,
     Answering, InTeam

(* createTeam: of a new team nobody has heard.                             *)
LEMMA CreateTeamStep ==
  ASSUME IInv, NEW c \in Calls, NEW s \in Teams, CreateTeam(c, s)
  PROVE  IInv'
  <1>1. /\ call[c].phase = "team" /\ team[s] = "none"
        /\ UNCHANGED <<workspace, member, custom, roles, invite, seats, history>>
        /\ team' = [team EXCEPT ![s] = "live"]
    BY DEF CreateTeam
  <1>2. /\ call[c] \in CallRecord /\ Shape(call[c]) /\ Carries(call[c]) /\ CreatorSeated(call[c])
        /\ call[c].user \in Users /\ call[c].team = None
    BY <1>1, InProgress DEF Carries, Shape
  <1>3. TypeOK BY DEF IInv
  <1>4. PICK q : q = [call[c] EXCEPT !.phase = "own", !.team = s] OBVIOUS
  <1>5. /\ q \in CallRecord /\ q.phase = "own" /\ q.op = call[c].op /\ q.team = s /\ q.user = call[c].user
    <2>1. PICK k \in CallRecord : k = call[c] BY <1>2
    <2>2. q = [k EXCEPT !.phase = "own", !.team = s] BY <1>4, <2>1
    <2>3. q.phase = "own" /\ q.op = k.op /\ q.team = s /\ q.user = k.user BY <2>2 DEF CallRecord
    <2>4. q \in CallRecord BY <2>2 DEF CallRecord
    <2> QED BY <2>1, <2>3, <2>4
  <1>6. call' = [call EXCEPT ![c] = q] BY <1>3, <1>4 DEF CreateTeam, TypeOK
  <1>7. call'[c] = q /\ \A d \in Calls \ {c} : call'[d] = call[d] BY <1>3, <1>6 DEF TypeOK
  <1>8. team'[s] = "live" /\ \A t \in Teams \ {s} : team'[t] = team[t] BY <1>1, <1>3 DEF TypeOK
  <1>9. Untouched(s) /\ \A d \in Calls : ~Owns(call[d], s) BY <1>1 DEF IInv, NobodyKnows
  <1>10. TypeOK'
    <2>1. call' \in [Calls -> {Idle} \cup CallRecord] BY <1>3, <1>5, <1>6 DEF TypeOK
    <2>2. team' \in [Teams -> {"none", "live", "deleted", "orphan"}] BY <1>1, <1>3 DEF TypeOK
    <2> QED BY <1>1, <1>3, <1>8, <2>1, <2>2 DEF TypeOK, history
  <1>11. \A w \in Users : InTeam(w)' => InTeam(w)
    BY <1>1, <1>8, <1>9 DEF InTeam, Untouched
  <1>12. CallsOK'
    <2> SUFFICES ASSUME NEW d \in Calls, call'[d].phase # "idle" PROVE CallOK(call[d])' BY DEF CallsOK, CallOK
    <2>1. PICK p : p = call'[d] OBVIOUS
    <2>2. CASE d = c
      <3>1. p = q BY <1>7, <2>1, <2>2
      <3>2. Shape(p) /\ Carries(p) BY <1>1, <1>2, <1>5, <3>1 DEF Shape, Carries, Holds, Answering
      <3>3. CallOK(p)'
        BY <1>1, <1>2, <1>5, <3>1, <3>2 DEF CallOK, Shape, Carries, RowThere, RowFresh, CreatorSpared, CreatorSeated,
           AnswerKnows, DropSound, Holds, Answering
      <3> QED BY <2>1, <3>3, CallLift
    <2>3. CASE d # c
      <3>1. p = call[d] /\ p.phase # "idle" BY <1>7, <2>1, <2>3
      <3>2. /\ Shape(p) /\ Carries(p) /\ RowThere(p) /\ RowFresh(p) /\ CreatorSpared(p) /\ CreatorSeated(p)
            /\ AnswerKnows(p) /\ DropSound(p) BY <3>1, InProgress
      <3>3. Holds(p) \/ Answering(p) => p.team \in Teams \ {s}
        BY <1>9, <3>1, <3>2 DEF Untouched, Asks, Holds, Answering, Carries, Shape
      <3>4. RowThere(p)' /\ RowFresh(p)' BY <1>1, <3>2 DEF RowThere, RowFresh, Holds
      <3>5. CreatorSpared(p)' BY <1>8, <3>2, <3>3 DEF CreatorSpared, Holds
      <3>6. CreatorSeated(p)' BY <1>1, <3>2 DEF CreatorSeated
      <3>7. AnswerKnows(p)' BY <1>1, <1>8, <3>2, <3>3 DEF AnswerKnows, Answering
      <3>8. DropSound(p)'
        <4>1. p.user \in Users BY <3>1, InProgress
        <4> QED BY <1>1, <1>11, <3>2, <4>1 DEF DropSound, history
      <3>9. Shape(p)' /\ Carries(p)' BY <3>2 DEF Shape, Carries, Holds, Answering
      <3>10. CallOK(p)' BY <3>4, <3>5, <3>6, <3>7, <3>8, <3>9 DEF CallOK
      <3> QED BY <2>1, <3>10, CallLift
    <2> QED BY <2>2, <2>3
  <1>13. \A t \in Teams : Untouched(t) => Untouched(t)' BY <1>1, <1>5, <1>7 DEF Untouched, Asks
  <1>14. \A d \in Calls, t \in Teams : Owns(call[d], t)' => Owns(call[d], t) \/ (t = s /\ d = c)
    BY <1>5, <1>7 DEF Owns
  <1>15. TeamsOwned' BY <1>1, <1>8, <1>9, <1>13 DEF IInv, TeamsOwned, Owned
  <1>16. NobodyKnows' BY <1>8, <1>13, <1>14 DEF IInv, NobodyKnows
  <1>17. MakersAlone' BY <1>8, <1>9, <1>13, <1>14 DEF IInv, MakersAlone
  <1>18. \A d \in Calls, i \in Invites : Answers(call[d], i)' => Answers(call[d], i)
    BY <1>5, <1>7 DEF Answers, Answering
  <1>19. AnswersApart' /\ AnsweredOnce' BY <1>1, <1>18, AnswersStay DEF history
  <1>20. (RolesFinite /\ RolesBounded)' BY <1>1, <1>5, <1>6, RolesStay
  <1>21. SeatsFollowTeams'
    <2>1. \A w \in Users : Seating(w) => Seating(w)' BY <1>1, <1>7 DEF Seating
    <2> QED BY <1>1, <1>11, <2>1 DEF IInv, SeatsFollowTeams, history
  <1> QED BY <1>10, <1>12, <1>15, <1>16, <1>17, <1>19, <1>20, <1>21 DEF IInv

(* The request that follows from a write of the rows, when its own team    *)
(* stays as it is for it.                                                  *)
LEMMA PlainCall ==
  ASSUME NEW p, Shape(p), Carries(p), ~Holds(p), ~Answering(p), p.phase \notin {"team", "own", "find", "drop"}
  PROVE  CallOK(p)'
  BY DEF CallOK, Shape, Carries, RowThere, RowFresh, CreatorSpared, CreatorSeated, AnswerKnows, DropSound, Holds, Answering

(* updateTeam saves a team that is gone as an orphan.                      *)
LEMMA SaveTeamStep ==
  ASSUME IInv, NEW c \in Calls, SaveTeam(c)
  PROVE  IInv'
  <1>1. /\ call[c].phase = "rewrite" /\ Done(c)
        /\ UNCHANGED <<workspace, member, custom, roles, invite, seats, history>>
    BY DEF SaveTeam
  <1>2. call[c] \in CallRecord /\ Shape(call[c]) /\ Carries(call[c]) /\ call[c].team \in Teams
    BY <1>1, InProgress DEF Carries, Shape
  <1>3. TypeOK BY DEF IInv
  <1>4. PICK s \in Teams : s = call[c].team BY <1>2
  <1>5. CASE Exists(s)
    <2>1. team' = team BY <1>4, <1>5 DEF SaveTeam
    <2> HIDE DEF IInv
    <2> QED BY <1>1, <2>1, PlainEnd
  <1>6. CASE ~Exists(s)
    <2>1. team' = [team EXCEPT ![s] = "orphan"] BY <1>4, <1>6 DEF SaveTeam
    <2>2. team'[s] = "orphan" /\ \A t \in Teams \ {s} : team'[t] = team[t] BY <1>3, <2>1 DEF TypeOK
    <2>3. ~Untouched(s) BY <1>1, <1>4 DEF Untouched, Asks
    <2>4. team[s] = "deleted" BY <1>3, <1>6, <2>3, Types DEF Exists, IInv, NobodyKnows
    <2>5. Idle.phase = "idle" /\ call'[c] = Idle /\ \A d \in Calls \ {c} : call'[d] = call[d]
      BY <1>1, <1>3 DEF Idle, Done, TypeOK
    <2>6. TypeOK'
      <3>1. team' \in [Teams -> {"none", "live", "deleted", "orphan"}] BY <1>3, <2>1 DEF TypeOK
      <3>2. call' \in [Calls -> {Idle} \cup CallRecord] BY <1>1, <1>3 DEF TypeOK, Done
      <3> QED BY <1>1, <1>3, <2>2, <2>4, <3>1, <3>2 DEF TypeOK, history
    <2>7. \A t \in Teams : (team'[t] = "live" <=> team[t] = "live") /\ (team'[t] = "none" => team[t] = "none")
      BY <2>2, <2>4
    <2>8. \A w \in Users : InTeam(w)' <=> InTeam(w) BY <1>1, <2>7 DEF InTeam
    <2>9. CallsOK'
      <3> SUFFICES ASSUME NEW d \in Calls, call'[d].phase # "idle" PROVE CallOK(call[d])' BY DEF CallsOK, CallOK
      <3>1. PICK p : p = call'[d] OBVIOUS
      <3>2. p = call[d] /\ p.phase # "idle" BY <2>5, <3>1
      <3>3. /\ Shape(p) /\ Carries(p) /\ RowThere(p) /\ RowFresh(p) /\ CreatorSpared(p) /\ CreatorSeated(p)
            /\ AnswerKnows(p) /\ DropSound(p) /\ p.user \in Users BY <3>2, InProgress
      <3>4. Holds(p) \/ Answering(p) => p.team \in Teams BY <3>3 DEF Holds, Answering, Carries, Shape
      <3>5. RowThere(p)' /\ RowFresh(p)' /\ CreatorSeated(p)' BY <1>1, <3>3 DEF RowThere, RowFresh, CreatorSeated, Holds
      <3>6. CreatorSpared(p)' BY <2>7, <3>3, <3>4 DEF CreatorSpared, Holds
      <3>7. AnswerKnows(p)' BY <1>1, <2>7, <3>3, <3>4 DEF AnswerKnows, Answering
      <3>8. DropSound(p)' BY <1>1, <2>8, <3>3 DEF DropSound, history
      <3>9. Shape(p)' /\ Carries(p)' BY <3>3 DEF Shape, Carries, Holds, Answering
      <3>10. CallOK(p)' BY <3>5, <3>6, <3>7, <3>8, <3>9 DEF CallOK
      <3> QED BY <3>1, <3>10, CallLift
    <2>10. \A d \in Calls : Follows(call'[d], call[d]) BY <2>5 DEF Follows, Alike
    <2>11. \A d \in Calls : call[d].phase \in {"seat", "sit"} => Alike(call'[d], call[d]) BY <1>1, <2>5 DEF Alike
    <2>12. /\ \A d \in Calls, t \in Teams : Asks(call[d], t)' => Asks(call[d], t)
           /\ \A d \in Calls, t \in Teams : Owns(call[d], t)' => Owns(call[d], t)
           /\ \A d \in Calls, i \in Invites : Answers(call[d], i)' => Answers(call[d], i)
           /\ \A w \in Users : Seating(w) => Seating(w)'
           /\ (RolesFinite /\ RolesBounded)'
      BY <1>1, <2>10, <2>11, FollowSound
    <2>13. \A t \in Teams : Untouched(t) => Untouched(t)' BY <1>1, <2>12 DEF Untouched
    <2>14. TeamsOwned' BY <1>1, <2>7, <2>13 DEF IInv, TeamsOwned, Owned
    <2>15. NobodyKnows' BY <2>7, <2>12, <2>13 DEF IInv, NobodyKnows
    <2>16. MakersAlone' BY <2>7, <2>12, <2>13 DEF IInv, MakersAlone
    <2>17. AnswersApart' /\ AnsweredOnce' BY <1>1, <2>12, AnswersStay DEF history
    <2>18. SeatsFollowTeams' BY <1>1, <2>8, <2>12 DEF IInv, SeatsFollowTeams, history
    <2> QED BY <2>6, <2>9, <2>12, <2>14, <2>15, <2>16, <2>17, <2>18 DEF IInv
  <1> QED BY <1>5, <1>6

(* createTeam: the creator becomes the owner of its team.                  *)
LEMMA OwnStep ==
  ASSUME IInv, NEW c \in Calls, Own(c)
  PROVE  IInv'
  <1>1. /\ call[c].phase = "own" /\ Done(c)
        /\ UNCHANGED <<workspace, team, custom, roles, invite, seats, history>>
    BY DEF Own
  <1>2. call[c] \in CallRecord /\ Carries(call[c]) /\ CreatorSeated(call[c]) BY <1>1, InProgress
  <1>3. TypeOK BY DEF IInv
  <1>4. PICK s \in Teams : s = call[c].team BY <1>1, <1>2 DEF Carries
  <1>5. team[s] = "live" /\ Untouched(s) /\ \A d \in Calls : Owns(call[d], s) => d = c
    BY <1>1, <1>4 DEF IInv, MakersAlone, Owns
  <1>6. member' = [member EXCEPT ![s][Creator] = "OWNER"] BY <1>4 DEF Own
  <1>7. member' \in [Teams -> [Users -> TeamRole \cup {None}]] BY <1>3, <1>6 DEF TypeOK, TeamRole
  <1>8. /\ member'[s][Creator] = "OWNER"
        /\ \A t \in Teams, u \in Users : t # s \/ u # Creator => member'[t][u] = member[t][u]
    BY <1>3, <1>6, CreatorAssumption DEF TypeOK
  <1>9. Idle.phase = "idle" /\ call'[c] = Idle /\ \A d \in Calls \ {c} : call'[d] = call[d]
    BY <1>1, <1>3 DEF Idle, Done, TypeOK
  <1>10. custom[s][Creator] = None BY <1>3, <1>5, CreatorAssumption DEF TypeOK, Untouched
  <1>11. None # "OWNER" BY NoneAssumption DEF TeamRole
  <1>12. TypeOK'
    <2>1. call' \in [Calls -> {Idle} \cup CallRecord] BY <1>1, <1>3 DEF TypeOK, Done
    <2>2. \A t \in Teams, u \in Users : custom[t][u] # None => member'[t][u] # None BY <1>3, <1>8, <1>10 DEF TypeOK
    <2>3. \A t \in Teams : team[t] \in {"none", "deleted"} => \A u \in Users : member'[t][u] = None
      BY <1>3, <1>5, <1>8 DEF TypeOK
    <2> QED BY <1>1, <1>3, <1>7, <2>1, <2>2, <2>3 DEF TypeOK, history
  <1>13. \A w \in Users : w # Creator /\ InTeam(w)' => InTeam(w) BY <1>1, <1>8 DEF InTeam
  <1>14. Creator \in seats BY <1>1, <1>2 DEF CreatorSeated
  <1>15. CallsOK'
    <2> SUFFICES ASSUME NEW d \in Calls, call'[d].phase # "idle" PROVE CallOK(call[d])' BY DEF CallsOK, CallOK
    <2>1. PICK p : p = call'[d] OBVIOUS
    <2>2. p = call[d] /\ p.phase # "idle" BY <1>9, <2>1
    <2>3. /\ Shape(p) /\ Carries(p) /\ RowThere(p) /\ RowFresh(p) /\ CreatorSpared(p) /\ CreatorSeated(p)
          /\ AnswerKnows(p) /\ DropSound(p) /\ p.user \in Users BY <2>2, InProgress
    <2>4. Holds(p) => p.team \in Teams \ {s}
      BY <1>5, <2>2, <2>3 DEF Untouched, Asks, Holds, Carries, Shape
    <2>5. RowThere(p)' BY <1>8, <2>3, <2>4 DEF RowThere, Holds
    <2>6. RowFresh(p)' BY <1>8, <2>3, <2>4 DEF RowFresh, Holds
    <2>7. CreatorSpared(p)' /\ CreatorSeated(p)' BY <1>1, <2>3 DEF CreatorSpared, CreatorSeated, Holds
    <2>8. AnswerKnows(p)' BY <1>1, <2>3 DEF AnswerKnows, Answering
    <2>9. DropSound(p)' BY <1>1, <1>13, <2>3 DEF DropSound, history
    <2>10. Shape(p)' /\ Carries(p)' BY <2>3 DEF Shape, Carries, Holds, Answering
    <2>11. CallOK(p)' BY <2>5, <2>6, <2>7, <2>8, <2>9, <2>10 DEF CallOK
    <2> QED BY <2>1, <2>11, CallLift
  <1>16. \A d \in Calls : Follows(call'[d], call[d]) BY <1>9 DEF Follows, Alike
  <1>17. \A d \in Calls : call[d].phase \in {"seat", "sit"} => Alike(call'[d], call[d]) BY <1>1, <1>9 DEF Alike
  <1>18. /\ \A d \in Calls, t \in Teams : Asks(call[d], t)' => Asks(call[d], t)
         /\ \A d \in Calls, t \in Teams : Owns(call[d], t)' => Owns(call[d], t)
         /\ \A d \in Calls, i \in Invites : Answers(call[d], i)' => Answers(call[d], i)
         /\ \A w \in Users : Seating(w) => Seating(w)'
         /\ (RolesFinite /\ RolesBounded)'
    BY <1>1, <1>16, <1>17, FollowSound
  <1>19. \A t \in Teams \ {s} : Untouched(t) => Untouched(t)' BY <1>1, <1>8, <1>18 DEF Untouched
  <1>20. \A d \in Calls : ~Owns(call[d], s)' BY <1>5, <1>9 DEF Owns
  <1>21. TeamsOwned'
    <2>1. Owned(s)' BY <1>1, <1>8, <1>10 DEF Owned
    <2>2. \A t \in Teams \ {s} : Owned(t) => Owned(t)' BY <1>1, <1>8, CreatorAssumption DEF Owned
    <2> QED BY <1>1, <1>19, <2>1, <2>2 DEF IInv, TeamsOwned
  <1>22. NobodyKnows' BY <1>1, <1>5, <1>18, <1>19 DEF IInv, NobodyKnows
  <1>23. MakersAlone' BY <1>1, <1>18, <1>19, <1>20 DEF IInv, MakersAlone
  <1>24. AnswersApart' /\ AnsweredOnce' BY <1>1, <1>18, AnswersStay DEF history
  <1>25. SeatsFollowTeams' BY <1>1, <1>13, <1>14, <1>18 DEF IInv, SeatsFollowTeams, history
  <1> QED BY <1>12, <1>15, <1>18, <1>21, <1>22, <1>23, <1>24, <1>25 DEF IInv

(* The requests that hold the row of somebody, told what became of it.     *)
LEMMA ToldIs ==
  ASSUME TypeOK, NEW c \in Calls, NEW q \in {Idle} \cup CallRecord, NEW t, NEW u, NEW fate \in {"stale", "gone"},
         call' = Told(c, q, t, u, fate)
  PROVE  /\ call' \in [Calls -> {Idle} \cup CallRecord]
         /\ call'[c] = q
         /\ \A d \in Calls \ {c} :
              /\ Alike(call'[d], call[d])
              /\ call'[d].row = call[d].row \/ Holds(call[d])
              /\ call'[d].row # "gone" => call'[d] = call[d] \/ call[d].row # "gone"
              /\ Holds(call[d]) /\ call[d].team = t /\ call[d].user = u => call'[d].row = "gone" \/ call'[d].row = fate
              /\ ~(Holds(call[d]) /\ call[d].team = t /\ call[d].user = u) => call'[d] = call[d]
  <1>1. call'[c] = q BY DEF Told
  <1>2. ASSUME NEW d \in Calls \ {c}
        PROVE  /\ call'[d] \in {Idle} \cup CallRecord
               /\ Alike(call'[d], call[d])
               /\ call'[d].row = call[d].row \/ Holds(call[d])
               /\ call'[d].row # "gone" => call'[d] = call[d] \/ call[d].row # "gone"
               /\ Holds(call[d]) /\ call[d].team = t /\ call[d].user = u => call'[d].row = "gone" \/ call'[d].row = fate
               /\ ~(Holds(call[d]) /\ call[d].team = t /\ call[d].user = u) => call'[d] = call[d]
    <2>1. CASE Holds(call[d]) /\ call[d].team = t /\ call[d].user = u /\ call[d].row # "gone"
      <3>1. PICK k : k = call[d] OBVIOUS
      <3>2. k \in CallRecord BY <2>1, <3>1, CallTypes DEF Holds
      <3>3. PICK p : p = [k EXCEPT !.row = fate] OBVIOUS
      <3>4. call'[d] = p BY <2>1, <3>1, <3>3 DEF Told, Holds
      <3>5. p.row = fate /\ Alike(p, k) BY <3>2, <3>3 DEF CallRecord, Alike
      <3>6. p \in CallRecord BY <3>2, <3>3 DEF CallRecord
      <3> QED BY <2>1, <3>1, <3>4, <3>5, <3>6
    <2>2. CASE ~(Holds(call[d]) /\ call[d].team = t /\ call[d].user = u /\ call[d].row # "gone")
      <3>1. call'[d] = call[d] BY <2>2 DEF Told, Holds
      <3>2. call[d] \in {Idle} \cup CallRecord BY DEF TypeOK
      <3> QED BY <2>2, <3>1, <3>2 DEF Alike
    <2> QED BY <2>1, <2>2
  <1>3. call' = [d \in Calls |-> call'[d]] BY DEF Told
  <1>4. \A d \in Calls : call'[d] \in {Idle} \cup CallRecord BY <1>1, <1>2
  <1> QED BY <1>1, <1>2, <1>3, <1>4

(* Store: a role and a custom role are written to a row that is there, and *)
(* whoever else holds it has it stale.                                     *)
LEMMA StoreStep ==
  ASSUME IInv, NEW c \in Calls, Store(c)
  PROVE  IInv'
  <1>1. /\ call[c].phase = "save" /\ call[c].op \in {"role", "rename", "assign"}
        /\ UNCHANGED <<workspace, team, roles, invite, seats, history>>
    BY DEF Store
  <1>2. /\ call[c] \in CallRecord /\ Carries(call[c]) /\ RowThere(call[c]) /\ CreatorSpared(call[c])
        /\ call[c].user \in Users
    BY <1>1, InProgress
  <1>3. TypeOK BY DEF IInv
  <1>4. PICK s \in Teams, u \in Users : s = call[c].team /\ u = call[c].user BY <1>1, <1>2 DEF Carries
  <1>5. CASE call[c].row = "gone" \/ call[c].custom \notin roles[s] \cup {None}
    <2>1. Done(c) /\ UNCHANGED <<member, custom>> BY <1>4, <1>5 DEF Store
    <2> HIDE DEF IInv
    <2> QED BY <1>1, <2>1, PlainEnd
  <1>6. CASE ~(call[c].row = "gone" \/ call[c].custom \notin roles[s] \cup {None})
    <2>1. PICK r \in TeamRole, x \in CustomRoles \cup {None} : r = call[c].role /\ x = call[c].custom
      BY <1>1, <1>2 DEF Carries, Holds, CallRecord
    <2>2. /\ member' = [member EXCEPT ![s][u] = r]
          /\ custom' = custom \/ custom' = [custom EXCEPT ![s][u] = x]
          /\ call[c].op = "rename" => custom' = custom
          /\ call' = Told(c, Idle, s, u, "stale")
      BY <1>4, <1>6, <2>1 DEF Store
    <2>3. /\ member' \in [Teams -> [Users -> TeamRole \cup {None}]]
          /\ custom' \in [Teams -> [Users -> CustomRoles \cup {None}]]
      <3>1. member \in [Teams -> [Users -> TeamRole \cup {None}]] BY <1>3 DEF TypeOK
      <3>2. custom \in [Teams -> [Users -> CustomRoles \cup {None}]] BY <1>3 DEF TypeOK
      <3>3. member' \in [Teams -> [Users -> TeamRole \cup {None}]] BY <2>2, <3>1
      <3>4. custom' \in [Teams -> [Users -> CustomRoles \cup {None}]] BY <2>2, <3>2
      <3> QED BY <3>3, <3>4
    <2>4. /\ member'[s][u] = r
          /\ \A t \in Teams, w \in Users : t # s \/ w # u => member'[t][w] = member[t][w]
      BY <1>3, <2>2 DEF TypeOK
    <2>5. /\ custom'[s][u] = custom[s][u] \/ custom'[s][u] = x
          /\ \A t \in Teams, w \in Users : t # s \/ w # u => custom'[t][w] = custom[t][w]
      BY <1>3, <2>2 DEF TypeOK
    <2>6. member[s][u] # None /\ r # None BY <1>1, <1>2, <1>4, <1>6, NoneAssumption DEF RowThere, Holds
    <2>7. \A t \in Teams, w \in Users : member'[t][w] = None <=> member[t][w] = None BY <2>4, <2>6
    <2>8. Idle.phase = "idle" BY DEF Idle
    <2>9. /\ call' \in [Calls -> {Idle} \cup CallRecord]
          /\ call'[c] = Idle
          /\ \A d \in Calls \ {c} :
               /\ Alike(call'[d], call[d])
               /\ call'[d].row # "gone" => call'[d] = call[d] \/ call[d].row # "gone"
               /\ Holds(call[d]) /\ call[d].team = s /\ call[d].user = u => call'[d].row = "gone" \/ call'[d].row = "stale"
               /\ ~(Holds(call[d]) /\ call[d].team = s /\ call[d].user = u) => call'[d] = call[d]
      BY <1>3, <2>2, ToldIs
    <2>10. TypeOK'
      <3>1. x \in roles[s] \cup {None} BY <1>6, <2>1
      <3>0. \A t \in Teams, w \in Users : custom[t][w] # None => custom[t][w] \in roles[t] /\ member[t][w] # None
        BY <1>3 DEF TypeOK
      <3>2. \A t \in Teams, w \in Users : custom'[t][w] # None => custom'[t][w] \in roles[t] /\ member'[t][w] # None
        BY <2>5, <2>6, <2>7, <3>0, <3>1
      <3>3. \A t \in Teams : team[t] \in {"none", "deleted"} => \A w \in Users : member'[t][w] = None
        BY <1>3, <2>7 DEF TypeOK
      <3> QED BY <1>1, <1>3, <2>3, <2>9, <3>2, <3>3 DEF TypeOK, history
    <2>11. \A w \in Users : InTeam(w)' <=> InTeam(w) BY <1>1, <2>7 DEF InTeam
    <2>12. CallsOK'
      <3> SUFFICES ASSUME NEW d \in Calls, call'[d].phase # "idle" PROVE CallOK(call[d])' BY DEF CallsOK, CallOK
      <3>1. PICK p : p = call'[d] OBVIOUS
      <3>2. d # c /\ Alike(p, call[d]) /\ call[d].phase # "idle" /\ call[d] \in CallRecord
        BY <2>8, <2>9, <3>1, InProgress DEF Alike
      <3>3. /\ RowThere(call[d]) /\ RowFresh(call[d]) /\ CreatorSpared(call[d]) /\ CreatorSeated(call[d])
            /\ AnswerKnows(call[d]) /\ DropSound(call[d])
        BY <3>2, InProgress
      <3>4. Shape(p) /\ Carries(p) /\ p.user \in Users BY <3>2, AlikeSound
      <3>5. Holds(p) => p.team \in Teams BY <3>4 DEF Holds, Carries, Shape
      <3>6. RowThere(p)'
        <4>1. p.row # "gone" => call[d].row # "gone" BY <2>9, <3>1, <3>2
        <4> QED BY <2>7, <3>2, <3>3, <3>4, <3>5, <4>1 DEF RowThere, Holds, Alike
      <3>7. RowFresh(p)'
        <4> SUFFICES ASSUME Holds(p), p.op \in {"rename", "assign"}, p.row = "fresh"
                     PROVE  member'[p.team][p.user] = p.role
          BY DEF RowFresh, Holds
        <4>1. Holds(call[d]) /\ call[d].team = p.team /\ call[d].user = p.user BY <3>2 DEF Alike, Holds
        <4>2. ~(p.team = s /\ p.user = u) BY <2>9, <3>1, <3>2, <4>1
        <4>3. p = call[d] BY <2>9, <3>1, <3>2, <4>1, <4>2
        <4> QED BY <2>4, <3>3, <3>4, <3>5, <4>2, <4>3 DEF RowFresh
      <3>8. CreatorSpared(p)' /\ CreatorSeated(p)' BY <1>1, <3>2, <3>3 DEF CreatorSpared, CreatorSeated, Holds, Alike
      <3>9. AnswerKnows(p)' BY <1>1, <3>2, <3>3 DEF AnswerKnows, Answering, Alike
      <3>10. DropSound(p)' BY <1>1, <2>11, <3>2, <3>3, <3>4 DEF DropSound, Alike, history
      <3>11. Shape(p)' /\ Carries(p)' BY <3>4 DEF Shape, Carries, Holds, Answering
      <3>12. CallOK(p)' BY <3>6, <3>7, <3>8, <3>9, <3>10, <3>11 DEF CallOK
      <3> QED BY <3>1, <3>12, CallLift
    <2>13. \A d \in Calls : Follows(call'[d], call[d]) BY <2>8, <2>9 DEF Follows
    <2>14. \A d \in Calls : call[d].phase \in {"seat", "sit"} => Alike(call'[d], call[d]) BY <1>1, <2>9
    <2>15. /\ \A d \in Calls, t \in Teams : Asks(call[d], t)' => Asks(call[d], t)
           /\ \A d \in Calls, t \in Teams : Owns(call[d], t)' => Owns(call[d], t)
           /\ \A d \in Calls, i \in Invites : Answers(call[d], i)' => Answers(call[d], i)
           /\ \A w \in Users : Seating(w) => Seating(w)'
           /\ (RolesFinite /\ RolesBounded)'
      BY <1>1, <2>13, <2>14, FollowSound
    <2>16. \A t \in Teams : Untouched(t) => Untouched(t)' BY <1>1, <2>7, <2>15 DEF Untouched
    <2>17. \A t \in Teams : team[t] = "live" /\ Owned(t) => Owned(t)'
      <3>1. s # None /\ (u = Creator /\ team[s] = "live" => call[c].op = "rename" /\ r = "OWNER")
        BY <1>1, <1>2, <1>4, <2>1, NoneAssumption DEF CreatorSpared, Holds
      <3> QED BY <1>1, <2>2, <2>4, <2>5, <3>1, CreatorAssumption DEF Owned
    <2>18. TeamsOwned' BY <1>1, <2>16, <2>17 DEF IInv, TeamsOwned
    <2>19. NobodyKnows' /\ MakersAlone' BY <1>1, <2>15, <2>16 DEF IInv, NobodyKnows, MakersAlone
    <2>20. AnswersApart' /\ AnsweredOnce' BY <1>1, <2>15, AnswersStay DEF history
    <2>21. SeatsFollowTeams' BY <1>1, <2>11, <2>15 DEF IInv, SeatsFollowTeams, history
    <2> QED BY <2>10, <2>12, <2>15, <2>18, <2>19, <2>20, <2>21 DEF IInv
  <1> QED BY <1>5, <1>6

(* removeMember: who holds the row has it gone.                            *)
LEMMA RemoveStep ==
  ASSUME IInv, NEW c \in Calls, Remove(c)
  PROVE  IInv'
  <1>1. /\ call[c].phase = "save" /\ call[c].op = "remove"
        /\ UNCHANGED <<workspace, team, roles, invite, seats, history>>
    BY DEF Remove, At
  <1>2. /\ call[c] \in CallRecord /\ Carries(call[c]) /\ RowThere(call[c]) /\ CreatorSpared(call[c])
        /\ call[c].user \in Users
    BY <1>1, InProgress
  <1>3. TypeOK BY DEF IInv
  <1>4. PICK s \in Teams, u \in Users : s = call[c].team /\ u = call[c].user BY <1>1, <1>2 DEF Carries
  <1>5. PICK q : q = IF call[c].home THEN Call("remove", "count", s, u) ELSE Idle OBVIOUS
  <1>6. /\ q \in {Idle} \cup CallRecord
        /\ q.phase = "idle" \/ (q.phase = "count" /\ q.op = "remove" /\ q.team = s /\ q.user = u)
    <2>1. Call("remove", "count", s, u) \in CallRecord BY CallTyped DEF Steps
    <2>2. Idle.phase = "idle" BY DEF Idle
    <2>3. /\ Call("remove", "count", s, u).phase = "count" /\ Call("remove", "count", s, u).op = "remove"
          /\ Call("remove", "count", s, u).team = s /\ Call("remove", "count", s, u).user = u
      BY DEF Call
    <2> QED BY <1>5, <2>1, <2>2, <2>3
  <1>7. \A t \in Teams : Asks(q, t) => Asks(call[c], t) BY <1>1, <1>4, <1>6 DEF Asks
  <1>8. CallOK(q)'
    <2>1. q.phase = "idle" => CallOK(q)' BY DEF CallOK
    <2>2. q.phase # "idle" => Shape(q) /\ Carries(q) BY <1>6 DEF Shape, Carries, Holds, Answering
    <2>3. ~Holds(q) /\ ~Answering(q) /\ q.phase \notin {"team", "own", "find", "drop"} BY <1>6 DEF Holds, Answering
    <2>4. q.phase # "idle" => CallOK(q)' BY <2>2, <2>3, PlainCall
    <2> QED BY <2>1, <2>4
  <1>9. CASE call[c].row = "gone"
    <2>1. call' = [call EXCEPT ![c] = q] /\ UNCHANGED <<member, custom>> BY <1>4, <1>5, <1>9 DEF Remove
    <2>2. q.phase # "insert" /\ q.phase \notin {"own", "mark", "join"} BY <1>6
    <2>3. TypeOK' BY <1>1, <1>3, <1>6, <2>1 DEF TypeOK, history
    <2>4. (RolesFinite /\ RolesBounded)' BY <1>1, <2>1, <2>2, RolesStay
    <2> HIDE DEF IInv, TypeOK, CallOK
    <2> QED BY <1>1, <1>6, <1>7, <1>8, <2>1, <2>2, <2>3, <2>4, CallChange DEF history
  <1>10. CASE call[c].row # "gone"
    <2>2. /\ member' = [member EXCEPT ![s][u] = None]
          /\ custom' = [custom EXCEPT ![s][u] = None]
          /\ call' = Told(c, q, s, u, "gone")
      BY <1>4, <1>5, <1>10 DEF Remove
    <2>3. /\ member' \in [Teams -> [Users -> TeamRole \cup {None}]]
          /\ custom' \in [Teams -> [Users -> CustomRoles \cup {None}]]
      BY <1>3, <2>2 DEF TypeOK
    <2>4. /\ member'[s][u] = None /\ custom'[s][u] = None
          /\ \A t \in Teams, w \in Users : t # s \/ w # u =>
               member'[t][w] = member[t][w] /\ custom'[t][w] = custom[t][w]
      BY <1>3, <2>2 DEF TypeOK
    <2>9. /\ call' \in [Calls -> {Idle} \cup CallRecord]
          /\ call'[c] = q
          /\ \A d \in Calls \ {c} :
               /\ Alike(call'[d], call[d])
               /\ call'[d].row # "gone" => call'[d] = call[d] \/ call[d].row # "gone"
               /\ Holds(call[d]) /\ call[d].team = s /\ call[d].user = u => call'[d].row = "gone"
               /\ ~(Holds(call[d]) /\ call[d].team = s /\ call[d].user = u) => call'[d] = call[d]
      BY <1>3, <1>6, <2>2, ToldIs
    <2>10. TypeOK'
      <3>1. \A t \in Teams, w \in Users : custom[t][w] # None => custom[t][w] \in roles[t] /\ member[t][w] # None
        BY <1>3 DEF TypeOK
      <3>2. \A t \in Teams, w \in Users : custom'[t][w] # None => custom'[t][w] \in roles[t] /\ member'[t][w] # None
        BY <2>4, <3>1
      <3>3. \A t \in Teams : team[t] \in {"none", "deleted"} => \A w \in Users : member'[t][w] = None
        BY <1>3, <2>4 DEF TypeOK
      <3> QED BY <1>1, <1>3, <2>3, <2>9, <3>2, <3>3 DEF TypeOK, history
    <2>11. \A w \in Users : InTeam(w)' => InTeam(w) BY <1>1, <2>4 DEF InTeam
    <2>12. CallsOK'
      <3> SUFFICES ASSUME NEW d \in Calls, call'[d].phase # "idle" PROVE CallOK(call[d])' BY DEF CallsOK, CallOK
      <3>1. PICK p : p = call'[d] OBVIOUS
      <3>2. CASE d = c
        <4>1. p = q BY <2>9, <3>1, <3>2
        <4>2. CallOK(p)' BY <1>8, <4>1 DEF CallOK, Shape, Carries, RowThere, RowFresh, CreatorSpared, CreatorSeated,
                AnswerKnows, DropSound, Holds, Answering
        <4> QED BY <3>1, <4>2, CallLift
      <3>3. CASE d # c
        <4>1. Alike(p, call[d]) /\ call[d].phase # "idle" /\ call[d] \in CallRecord
          BY <2>9, <3>1, <3>3, InProgress DEF Alike
        <4>2. /\ RowThere(call[d]) /\ RowFresh(call[d]) /\ CreatorSpared(call[d]) /\ CreatorSeated(call[d])
              /\ AnswerKnows(call[d]) /\ DropSound(call[d])
          BY <4>1, InProgress
        <4>3. Shape(p) /\ Carries(p) /\ p.user \in Users BY <4>1, AlikeSound
        <4>4. Holds(p) => p.team \in Teams BY <4>3 DEF Holds, Carries, Shape
        <4>5. Holds(p) /\ p.row # "gone" => p = call[d] /\ ~(p.team = s /\ p.user = u)
          BY <2>9, <3>1, <3>3, <4>1 DEF Alike, Holds
        <4>6. RowThere(p)' BY <2>4, <4>2, <4>3, <4>4, <4>5 DEF RowThere, Holds
        <4>7. RowFresh(p)' BY <2>4, <4>2, <4>3, <4>4, <4>5 DEF RowFresh, Holds
        <4>8. CreatorSpared(p)' /\ CreatorSeated(p)' BY <1>1, <4>1, <4>2 DEF CreatorSpared, CreatorSeated, Holds, Alike
        <4>9. AnswerKnows(p)' BY <1>1, <4>1, <4>2 DEF AnswerKnows, Answering, Alike
        <4>10. DropSound(p)' BY <1>1, <2>11, <4>1, <4>2, <4>3 DEF DropSound, Alike, history
        <4>11. Shape(p)' /\ Carries(p)' BY <4>3 DEF Shape, Carries, Holds, Answering
        <4>12. CallOK(p)' BY <4>6, <4>7, <4>8, <4>9, <4>10, <4>11 DEF CallOK
        <4> QED BY <3>1, <4>12, CallLift
      <3> QED BY <3>2, <3>3
    <2>13. \A d \in Calls : Follows(call'[d], call[d]) BY <1>1, <1>4, <1>6, <2>9 DEF Follows
    <2>14. \A d \in Calls : call[d].phase \in {"seat", "sit"} => Alike(call'[d], call[d]) BY <1>1, <2>9
    <2>15. /\ \A d \in Calls, t \in Teams : Asks(call[d], t)' => Asks(call[d], t)
           /\ \A d \in Calls, t \in Teams : Owns(call[d], t)' => Owns(call[d], t)
           /\ \A d \in Calls, i \in Invites : Answers(call[d], i)' => Answers(call[d], i)
           /\ \A w \in Users : Seating(w) => Seating(w)'
           /\ (RolesFinite /\ RolesBounded)'
      BY <1>1, <2>13, <2>14, FollowSound
    <2>16. \A t \in Teams : Untouched(t) => Untouched(t)' BY <1>1, <2>4, <2>15 DEF Untouched
    <2>17. \A t \in Teams : team[t] = "live" /\ Owned(t) => Owned(t)'
      <3>1. ~(u = Creator /\ team[s] = "live") BY <1>1, <1>2, <1>4 DEF CreatorSpared, Holds
      <3> QED BY <1>1, <2>4, <3>1, CreatorAssumption DEF Owned
    <2>18. TeamsOwned' BY <1>1, <2>16, <2>17 DEF IInv, TeamsOwned
    <2>19. NobodyKnows' /\ MakersAlone' BY <1>1, <2>15, <2>16 DEF IInv, NobodyKnows, MakersAlone
    <2>20. AnswersApart' /\ AnsweredOnce' BY <1>1, <2>15, AnswersStay DEF history
    <2>21. SeatsFollowTeams' BY <1>1, <2>11, <2>15 DEF IInv, SeatsFollowTeams, history
    <2> QED BY <2>10, <2>12, <2>15, <2>18, <2>19, <2>20, <2>21 DEF IInv
  <1> QED BY <1>9, <1>10

(* deleteTeam: the rows of the team go, and who holds one has it gone.     *)
LEMMA DeleteTeamStep ==
  ASSUME IInv, NEW s \in Teams, DeleteTeam(s)
  PROVE  IInv'
  <1>1. HasOwner(s) /\ UNCHANGED <<workspace, seats, history>> BY DEF DeleteTeam
  <1>2. TypeOK BY DEF IInv
  <1>3. /\ team' = [team EXCEPT ![s] = "deleted"] /\ member' = [member EXCEPT ![s] = [u \in Users |-> None]]
        /\ custom' = [custom EXCEPT ![s] = [u \in Users |-> None]] /\ roles' = [roles EXCEPT ![s] = {}]
    BY DEF DeleteTeam
  <1>4. /\ team' \in [Teams -> {"none", "live", "deleted", "orphan"}]
        /\ member' \in [Teams -> [Users -> TeamRole \cup {None}]]
        /\ custom' \in [Teams -> [Users -> CustomRoles \cup {None}]]
        /\ roles' \in [Teams -> SUBSET CustomRoles]
    <2>1. team' \in [Teams -> {"none", "live", "deleted", "orphan"}] BY <1>2, <1>3 DEF TypeOK
    <2>2. member \in [Teams -> [Users -> TeamRole \cup {None}]] BY <1>2 DEF TypeOK
    <2>3. custom \in [Teams -> [Users -> CustomRoles \cup {None}]] BY <1>2 DEF TypeOK
    <2>4. member' \in [Teams -> [Users -> TeamRole \cup {None}]] BY <1>3, <2>2
    <2>5. custom' \in [Teams -> [Users -> CustomRoles \cup {None}]] BY <1>3, <2>3
    <2>6. roles' \in [Teams -> SUBSET CustomRoles] BY <1>2, <1>3 DEF TypeOK
    <2> QED BY <2>1, <2>4, <2>5, <2>6
  <1>5. /\ team'[s] = "deleted" /\ roles'[s] = {}
        /\ \A u \in Users : member'[s][u] = None /\ custom'[s][u] = None
        /\ \A t \in Teams \ {s} :
             team'[t] = team[t] /\ roles'[t] = roles[t] /\ member'[t] = member[t] /\ custom'[t] = custom[t]
    BY <1>2, <1>3 DEF TypeOK
  <1>6. ~Untouched(s)
    <2>1. "OWNER" # None BY NoneAssumption DEF TeamRole
    <2> QED BY <1>1, <2>1 DEF HasOwner, Untouched
  <1>7. /\ invite' \in [Invites -> {NoInvite} \cup InviteRecord]
        /\ \A i \in Invites :
             /\ invite'[i].status = "none" <=> invite[i].status = "none"
             /\ invite'[i].status = "PENDING" => invite[i].status = "PENDING"
             /\ invite[i].status # "none" => invite'[i].team = invite[i].team
    <2>1. ASSUME NEW i \in Invites
          PROVE  /\ invite'[i] \in {NoInvite} \cup InviteRecord
                 /\ invite'[i].status = "none" <=> invite[i].status = "none"
                 /\ invite'[i].status = "PENDING" => invite[i].status = "PENDING"
                 /\ invite[i].status # "none" => invite'[i].team = invite[i].team
      <3>1. invite[i] \in {NoInvite} \cup InviteRecord BY <1>2 DEF TypeOK
      <3>2. NoInvite.status = "none" BY DEF NoInvite
      <3>3. CASE invite[i].status # "none" /\ invite[i].team = s
        <4>1. PICK k \in InviteRecord : k = invite[i] BY <3>1, <3>2, <3>3
        <4>2. invite'[i] = [k EXCEPT !.status = "deleted"] BY <3>3, <4>1 DEF DeleteTeam
        <4>3. PICK j : j = [k EXCEPT !.status = "deleted"] OBVIOUS
        <4>4. j \in InviteRecord /\ j.status = "deleted" /\ j.team = k.team BY <4>3 DEF InviteRecord
        <4> QED BY <3>3, <4>1, <4>2, <4>3, <4>4
      <3>4. CASE ~(invite[i].status # "none" /\ invite[i].team = s)
        <4>1. invite'[i] = invite[i] BY <3>4 DEF DeleteTeam
        <4> QED BY <3>1, <4>1
      <3> QED BY <3>3, <3>4
    <2>2. invite' = [i \in Invites |-> invite'[i]] BY DEF DeleteTeam
    <2> QED BY <2>1, <2>2
  <1>8. /\ call' \in [Calls -> {Idle} \cup CallRecord]
        /\ \A d \in Calls :
             /\ Alike(call'[d], call[d])
             /\ Holds(call[d]) /\ call[d].team = s => call'[d].row = "gone"
             /\ ~(Holds(call[d]) /\ call[d].team = s) => call'[d] = call[d]
    <2>1. ASSUME NEW d \in Calls
          PROVE  /\ call'[d] \in {Idle} \cup CallRecord
                 /\ Alike(call'[d], call[d])
                 /\ Holds(call[d]) /\ call[d].team = s => call'[d].row = "gone"
                 /\ ~(Holds(call[d]) /\ call[d].team = s) => call'[d] = call[d]
      <3>1. CASE Holds(call[d]) /\ call[d].team = s
        <4>1. PICK k : k = call[d] OBVIOUS
        <4>2. k \in CallRecord BY <1>2, <3>1, <4>1, CallTypes DEF Holds
        <4>3. PICK p : p = [k EXCEPT !.row = "gone"] OBVIOUS
        <4>4. call'[d] = p BY <3>1, <4>1, <4>3 DEF DeleteTeam, Holds
        <4>5. p.row = "gone" /\ Alike(p, k) BY <4>2, <4>3 DEF CallRecord, Alike
        <4>6. p \in CallRecord BY <4>2, <4>3 DEF CallRecord
        <4> QED BY <3>1, <4>1, <4>4, <4>5, <4>6
      <3>2. CASE ~(Holds(call[d]) /\ call[d].team = s)
        <4>1. call'[d] = call[d] BY <3>2 DEF DeleteTeam, Holds
        <4>2. call[d] \in {Idle} \cup CallRecord BY <1>2 DEF TypeOK
        <4> QED BY <3>2, <4>1, <4>2 DEF Alike
      <3> QED BY <3>1, <3>2
    <2>2. call' = [d \in Calls |-> call'[d]] BY DEF DeleteTeam
    <2> QED BY <2>1, <2>2
  <1>9. TypeOK'
    <2>1. \A t \in Teams, u \in Users : custom[t][u] # None => custom[t][u] \in roles[t] /\ member[t][u] # None
      BY <1>2 DEF TypeOK
    <2>2. \A t \in Teams, u \in Users : custom'[t][u] # None => custom'[t][u] \in roles'[t] /\ member'[t][u] # None
      BY <1>5, <2>1
    <2>3. \A t \in Teams : team[t] \in {"none", "deleted"} => roles[t] = {} /\ \A u \in Users : member[t][u] = None
      BY <1>2 DEF TypeOK
    <2>4. \A t \in Teams : team'[t] \in {"none", "deleted"} => roles'[t] = {} /\ \A u \in Users : member'[t][u] = None
      BY <1>5, <2>3
    <2> QED BY <1>1, <1>2, <1>4, <1>7, <1>8, <2>2, <2>4 DEF TypeOK, history
  <1>10. \A w \in Users : InTeam(w)' => InTeam(w) BY <1>5 DEF InTeam
  <1>11. \A t \in Teams : (team'[t] = "live" => team[t] = "live" /\ t # s) /\ (team'[t] = "none" => team[t] = "none" /\ t # s)
    BY <1>5
  <1>12. CallsOK'
    <2> SUFFICES ASSUME NEW d \in Calls, call'[d].phase # "idle" PROVE CallOK(call[d])' BY DEF CallsOK, CallOK
    <2>1. PICK p : p = call'[d] OBVIOUS
    <2>2. Alike(p, call[d]) /\ call[d].phase # "idle" BY <1>8, <2>1 DEF Alike
    <2>3. /\ RowThere(call[d]) /\ RowFresh(call[d]) /\ CreatorSpared(call[d]) /\ CreatorSeated(call[d])
          /\ AnswerKnows(call[d]) /\ DropSound(call[d])
      BY <2>2, InProgress
    <2>4. Shape(p) /\ Carries(p) /\ p.user \in Users BY <2>2, AlikeSound
    <2>5. Holds(p) \/ Answering(p) => p.team \in Teams BY <2>4 DEF Holds, Answering, Carries, Shape
    <2>6. Holds(p) /\ p.row # "gone" => p = call[d] /\ p.team # s
      BY <1>8, <2>1, <2>2 DEF Alike, Holds
    <2>7. RowThere(p)' /\ RowFresh(p)' BY <1>5, <2>3, <2>5, <2>6 DEF RowThere, RowFresh, Holds
    <2>8. CreatorSpared(p)' BY <1>11, <2>2, <2>3, <2>5 DEF CreatorSpared, Holds, Alike
    <2>9. CreatorSeated(p)' BY <1>1, <2>2, <2>3 DEF CreatorSeated, Alike
    <2>10. AnswerKnows(p)'
      <3>1. Answering(p) => p.invite \in Invites BY <2>4 DEF Carries
      <3> QED BY <1>7, <1>11, <2>2, <2>3, <2>5, <3>1 DEF AnswerKnows, Answering, Alike
    <2>11. DropSound(p)' BY <1>1, <1>10, <2>2, <2>3, <2>4 DEF DropSound, Alike, history
    <2>12. Shape(p)' /\ Carries(p)' BY <2>4 DEF Shape, Carries, Holds, Answering
    <2>13. CallOK(p)' BY <2>7, <2>8, <2>9, <2>10, <2>11, <2>12 DEF CallOK
    <2> QED BY <2>1, <2>13, CallLift
  <1>13. \A d \in Calls : Follows(call'[d], call[d]) BY <1>8 DEF Follows
  <1>14. /\ \A d \in Calls, t \in Teams : Asks(call[d], t)' => Asks(call[d], t)
         /\ \A d \in Calls, t \in Teams : Owns(call[d], t)' => Owns(call[d], t)
         /\ \A d \in Calls, i \in Invites : Answers(call[d], i)' => Answers(call[d], i)
         /\ \A w \in Users : Seating(w) => Seating(w)'
         /\ (\A t \in Teams : roles'[t] \subseteq roles[t]) => (RolesFinite /\ RolesBounded)'
    BY <1>8, <1>13, FollowSound
  <1>15. (RolesFinite /\ RolesBounded)' BY <1>5, <1>14
  <1>16. \A t \in Teams \ {s} : Untouched(t) => Untouched(t)' BY <1>5, <1>7, <1>14 DEF Untouched
  <1>17. TeamsOwned' BY <1>5, <1>11, <1>16 DEF IInv, TeamsOwned, Owned
  <1>18. NobodyKnows' BY <1>11, <1>14, <1>16 DEF IInv, NobodyKnows
  <1>19. MakersAlone' BY <1>5, <1>6, <1>14, <1>16 DEF IInv, MakersAlone
  <1>20. AnswersApart' /\ AnsweredOnce' BY <1>1, <1>7, <1>14, AnswersStay DEF history
  <1>21. SeatsFollowTeams' BY <1>1, <1>10, <1>14 DEF IInv, SeatsFollowTeams, history
  <1> QED BY <1>9, <1>12, <1>15, <1>17, <1>18, <1>19, <1>20, <1>21 DEF IInv

-----------------------------------------------------------------------------
(***************************************************************************)
(* Invites.                                                                *)
(***************************************************************************)
(* One more answer, by a request that ends with it.                        *)
LEMMA NotedSound ==
  ASSUME IInv, NEW c \in Calls, NEW i \in Invites, Answers(call[c], i), answered' = Noted(i),
         \A d \in Calls, j \in Invites : Answers(call[d], j)' => Answers(call[d], j) /\ d # c,
         \A j \in Invites : invite[j].status \notin {"none", "PENDING"} => invite'[j].status \notin {"none", "PENDING"},
         invite'[i].status \notin {"none", "PENDING"}
  PROVE  /\ answered' \in [Invites -> {"no", "once", "again", "contested"}]
         /\ AnswersApart' /\ AnsweredOnce'
  <1>1. answered \in [Invites -> {"no", "once", "again", "contested"}] BY DEF IInv, TypeOK
  <1>2. answered[i] \in {"no", "contested"} BY <1>1 DEF IInv, AnswersApart, AnsweredOnce
  <1>3. /\ answered'[i] = IF answered[i] = "no" THEN "once" ELSE "contested"
        /\ \A j \in Invites \ {i} : answered'[j] = answered[j]
    BY <1>1, <1>2 DEF Noted
  <1>4. answered' = [j \in Invites |-> answered'[j]] BY <1>1 DEF Noted
  <1>5. \A j \in Invites : answered'[j] \in {"no", "once", "again", "contested"} BY <1>1, <1>3
  <1>6. AnsweredOnce' BY <1>3 DEF AnsweredOnce, IInv
  <1>7. ASSUME NEW j \in Invites
        PROVE  /\ answered'[j] # "contested" =>
                    \A d, e \in Calls : Answers(call[d], j)' /\ Answers(call[e], j)' => d = e
               /\ answered'[j] = "once" =>
                    /\ invite'[j].status \notin {"none", "PENDING"}
                    /\ \A d \in Calls : ~Answers(call[d], j)'
    <2>1. CASE j = i
      <3>1. answered[i] = "no" => \A d \in Calls : ~Answers(call[d], i)' BY DEF IInv, AnswersApart
      <3> QED BY <1>2, <1>3, <2>1, <3>1
    <2>2. CASE j # i BY <1>3, <2>2 DEF IInv, AnswersApart
    <2> QED BY <2>1, <2>2
  <1>8. AnswersApart' BY <1>7 DEF AnswersApart
  <1> QED BY <1>4, <1>5, <1>6, <1>8

(* The user joins, and is excused when about to lose the seat.             *)
LEMMA JoinStep ==
  ASSUME IInv, NEW c \in Calls, Join(c)
  PROVE  IInv'
  <1>1. call[c].phase = "join" /\ UNCHANGED <<workspace, team, custom, roles, invite, seats>> BY DEF Join
  <1>2. /\ call[c] \in CallRecord /\ Shape(call[c]) /\ Carries(call[c]) /\ AnswerKnows(call[c]) /\ call[c].user \in Users
    BY <1>1, InProgress
  <1>3. TypeOK BY DEF IInv
  <1>4. PICK s \in Teams, u \in Users, i \in Invites, r \in TeamRole :
          s = call[c].team /\ u = call[c].user /\ i = call[c].invite /\ r = call[c].role
    BY <1>1, <1>2 DEF Carries, Shape, Answering
  <1>5. CASE member[s][u] # None \/ ~Exists(s)
    <2>1. Done(c) /\ UNCHANGED <<member, answered, excused>> BY <1>4, <1>5 DEF Join, Target
    <2> HIDE DEF IInv
    <2> QED BY <1>1, <2>1, PlainEnd DEF history
  <1>6. CASE ~(member[s][u] # None \/ ~Exists(s))
    <2>1. /\ member' = [member EXCEPT ![s][u] = r] /\ answered' = Noted(i)
          /\ excused' = IF \E d \in Calls : call[d].phase \in {"find", "drop"} /\ call[d].user = u
                        THEN excused \cup {u} ELSE excused
      BY <1>4, <1>6 DEF Join, Target
    <2>2. PICK q : q = IF call[c].home THEN Call("accept", "seat", s, u) ELSE Idle OBVIOUS
    <2>3. call' = [call EXCEPT ![c] = q] BY <1>4, <1>6, <2>2, <1>3 DEF Join, Target, TypeOK
    <2>4. /\ q \in {Idle} \cup CallRecord
          /\ q.phase = "idle" \/ (q.phase = "seat" /\ q.op = "accept" /\ q.team = s /\ q.user = u)
          /\ call[c].home => q.phase = "seat"
      <3>1. Call("accept", "seat", s, u) \in CallRecord BY CallTyped DEF Steps
      <3>2. Idle.phase = "idle" BY DEF Idle
      <3>3. /\ Call("accept", "seat", s, u).phase = "seat" /\ Call("accept", "seat", s, u).op = "accept"
            /\ Call("accept", "seat", s, u).team = s /\ Call("accept", "seat", s, u).user = u
        BY DEF Call
      <3> QED BY <2>2, <3>1, <3>2, <3>3
    <2>5. call'[c] = q /\ \A d \in Calls \ {c} : call'[d] = call[d] BY <1>3, <2>3 DEF TypeOK
    <2>6. /\ member'[s][u] = r /\ member[s][u] = None
          /\ \A t \in Teams, w \in Users : t # s \/ w # u => member'[t][w] = member[t][w]
      BY <1>3, <1>6, <2>1 DEF TypeOK
    <2>7. r # None BY NoneAssumption
    <2>8. excused \subseteq excused' /\ excused' \subseteq Users BY <1>3, <2>1 DEF TypeOK
    <2>9. /\ \A d \in Calls, t \in Teams : Asks(call[d], t)' => Asks(call[d], t)
          /\ \A d \in Calls, t \in Teams : Owns(call[d], t)' => Owns(call[d], t)
          /\ \A d \in Calls, j \in Invites : Answers(call[d], j)' => Answers(call[d], j) /\ d # c
          /\ \A w \in Users : Seating(w) => Seating(w)'
      <3>1. Asks(call[c], s) BY <1>1, <1>4 DEF Asks
      <3>2. \A d \in Calls, t \in Teams : Asks(call[d], t)' => Asks(call[d], t) BY <2>4, <2>5, <3>1 DEF Asks
      <3>3. \A d \in Calls, t \in Teams : Owns(call[d], t)' => Owns(call[d], t) BY <2>4, <2>5 DEF Owns
      <3>4. \A d \in Calls, j \in Invites : Answers(call[d], j)' => Answers(call[d], j) /\ d # c
        BY <2>4, <2>5 DEF Answers, Answering
      <3>5. \A w \in Users : Seating(w) => Seating(w)' BY <1>1, <2>5 DEF Seating
      <3> QED BY <3>2, <3>3, <3>4, <3>5
    <2>10. /\ answered' \in [Invites -> {"no", "once", "again", "contested"}] /\ AnswersApart' /\ AnsweredOnce'
      <3>1. Answers(call[c], i) BY <1>1, <1>4 DEF Answers, Answering
      <3>2. invite[i].status \notin {"none", "PENDING"} BY <1>1, <1>2, <1>4 DEF AnswerKnows, Answering
      <3> HIDE DEF IInv
      <3> QED BY <1>1, <2>1, <2>9, <3>1, <3>2, NotedSound
    <2>11. (RolesFinite /\ RolesBounded)' BY <1>1, <2>3, <2>4, RolesStay
    <2>12. Exists(s) /\ team[s] \in {"live", "orphan"} BY <1>6 DEF Exists
    <2>13. TypeOK'
      <3>1. member \in [Teams -> [Users -> TeamRole \cup {None}]] BY <1>3 DEF TypeOK
      <3>2. member' \in [Teams -> [Users -> TeamRole \cup {None}]] BY <2>1, <3>1
      <3>3. \A t \in Teams, w \in Users : custom[t][w] # None => custom[t][w] \in roles[t] /\ member[t][w] # None
        BY <1>3 DEF TypeOK
      <3>4. \A t \in Teams, w \in Users : custom[t][w] # None => custom[t][w] \in roles[t] /\ member'[t][w] # None
        BY <2>6, <3>3
      <3>5. \A t \in Teams : team[t] \in {"none", "deleted"} => \A w \in Users : member[t][w] = None BY <1>3 DEF TypeOK
      <3>6. \A t \in Teams : team[t] \in {"none", "deleted"} => \A w \in Users : member'[t][w] = None
        BY <2>6, <2>12, <3>5
      <3>7. call' \in [Calls -> {Idle} \cup CallRecord] BY <1>3, <2>3, <2>4 DEF TypeOK
      <3> QED BY <1>1, <1>3, <2>8, <2>10, <3>2, <3>4, <3>6, <3>7 DEF TypeOK
    <2>14. \A w \in Users : w # u /\ InTeam(w)' => InTeam(w) BY <1>1, <2>6 DEF InTeam
    <2>15. CallsOK'
      <3> SUFFICES ASSUME NEW d \in Calls, call'[d].phase # "idle" PROVE CallOK(call[d])' BY DEF CallsOK, CallOK
      <3>1. PICK p : p = call'[d] OBVIOUS
      <3>2. CASE d = c
        <4>1. p = q /\ q.phase = "seat" BY <2>4, <2>5, <3>1, <3>2
        <4>2. Shape(p) /\ Carries(p) BY <2>4, <4>1 DEF Shape, Carries, Holds, Answering
        <4>3. ~Holds(p) /\ ~Answering(p) /\ p.phase \notin {"team", "own", "find", "drop"}
          BY <4>1 DEF Holds, Answering
        <4>4. CallOK(p)' BY <4>2, <4>3, PlainCall
        <4> QED BY <3>1, <4>4, CallLift
      <3>3. CASE d # c
        <4>1. p = call[d] /\ p.phase # "idle" BY <2>5, <3>1, <3>3
        <4>2. /\ Shape(p) /\ Carries(p) /\ RowThere(p) /\ RowFresh(p) /\ CreatorSpared(p) /\ CreatorSeated(p)
              /\ AnswerKnows(p) /\ DropSound(p) /\ p.user \in Users BY <4>1, InProgress
        <4>3. Holds(p) => p.team \in Teams BY <4>2 DEF Holds, Carries, Shape
        <4>4. RowThere(p)' BY <2>6, <2>7, <4>2, <4>3 DEF RowThere, Holds
        <4>5. RowFresh(p)' BY <2>6, <4>2, <4>3 DEF RowThere, RowFresh, Holds
        <4>6. CreatorSpared(p)' /\ CreatorSeated(p)' BY <1>1, <4>2 DEF CreatorSpared, CreatorSeated, Holds
        <4>7. AnswerKnows(p)' BY <1>1, <4>2 DEF AnswerKnows, Answering
        <4>8. DropSound(p)' BY <2>1, <2>8, <2>14, <4>1, <4>2 DEF DropSound
        <4>9. Shape(p)' /\ Carries(p)' BY <4>2 DEF Shape, Carries, Holds, Answering
        <4>10. CallOK(p)' BY <4>4, <4>5, <4>6, <4>7, <4>8, <4>9 DEF CallOK
        <4> QED BY <3>1, <4>10, CallLift
      <3> QED BY <3>2, <3>3
    <2>16. ~Untouched(s) BY <1>1, <1>4 DEF Untouched, Asks
    <2>17. \A t \in Teams \ {s} : Untouched(t) => Untouched(t)' BY <1>1, <2>6, <2>9 DEF Untouched
    <2>18. TeamsOwned'
      <3>1. \A t \in Teams : Owned(t) => Owned(t)'
        <4>1. "OWNER" # None BY NoneAssumption DEF TeamRole
        <4> QED BY <1>1, <2>6, <4>1, CreatorAssumption DEF Owned
      <3> QED BY <1>1, <2>16, <2>17, <3>1 DEF IInv, TeamsOwned
    <2>19. NobodyKnows' BY <1>1, <2>9, <2>12, <2>17 DEF IInv, NobodyKnows
    <2>20. MakersAlone' BY <1>1, <2>9, <2>16, <2>17 DEF IInv, MakersAlone
    <2>21. SeatsFollowTeams'
      <3>1. team[s] = "live" => call[c].home BY <1>1, <1>2, <1>4 DEF AnswerKnows, Answering
      <3>2. team[s] = "live" => Seating(u)' BY <2>4, <2>5, <3>1 DEF Seating
      <3>3. InTeam(u)' => InTeam(u) \/ team[s] = "live" BY <1>1, <2>6 DEF InTeam
      <3>4. \A w \in Users \ excused' : InTeam(w)' => InTeam(w) \/ Seating(w)' BY <2>14, <3>2, <3>3
      <3> QED BY <1>1, <2>8, <2>9, <3>4 DEF IInv, SeatsFollowTeams
    <2> QED BY <2>10, <2>11, <2>13, <2>15, <2>18, <2>19, <2>20, <2>21 DEF IInv
  <1> QED BY <1>5, <1>6

(* What a change of the invites leaves, when the rows and the seats stay.  *)
LEMMA InviteChange ==
  ASSUME IInv, NEW c \in Calls, NEW q \in {Idle} \cup CallRecord,
         call' = [call EXCEPT ![c] = q],
         UNCHANGED <<workspace, team, member, custom, roles, seats, excused>>,
         q.phase \notin {"own", "insert"}, call[c].phase \notin {"seat", "sit"},
         CallOK(q)',
         \A t \in Teams : Asks(q, t) => Asks(call[c], t) \/ ~Untouched(t),
         invite' \in [Invites -> {NoInvite} \cup InviteRecord],
         answered' \in [Invites -> {"no", "once", "again", "contested"}],
         AnswersApart', AnsweredOnce',
         \A d \in Calls \ {c} : Answering(call[d]) => AnswerKnows(call[d])',
         \A t \in Teams, i \in Invites : Untouched(t) /\ invite'[i].status # "none" => invite'[i].team # t
  PROVE  IInv'
  <1>1. TypeOK BY DEF IInv
  <1>2. call'[c] = q /\ \A d \in Calls \ {c} : call'[d] = call[d] BY <1>1 DEF TypeOK
  <1>3. TypeOK'
    <2>1. call' \in [Calls -> {Idle} \cup CallRecord] BY <1>1 DEF TypeOK
    <2> QED BY <1>1, <2>1 DEF TypeOK
  <1>4. CallsOK'
    <2> SUFFICES ASSUME NEW d \in Calls, call'[d].phase # "idle" PROVE CallOK(call[d])' BY DEF CallsOK, CallOK
    <2>1. PICK p : p = call'[d] OBVIOUS
    <2>2. CASE d = c
      <3>1. p = q BY <1>2, <2>1, <2>2
      <3>2. CallOK(p)' BY <3>1 DEF CallOK, Shape, Carries, RowThere, RowFresh, CreatorSpared, CreatorSeated,
              AnswerKnows, DropSound, Holds, Answering, InTeam
      <3> QED BY <2>1, <3>2, CallLift
    <2>3. CASE d # c
      <3>1. p = call[d] /\ p.phase # "idle" BY <1>2, <2>1, <2>3
      <3>2. /\ Shape(p) /\ Carries(p) /\ RowThere(p) /\ RowFresh(p) /\ CreatorSpared(p) /\ CreatorSeated(p)
            /\ DropSound(p) BY <3>1, InProgress
      <3>3. AnswerKnows(p)'
        <4>1. call'[d] = call[d] BY <1>2, <2>3
        <4> QED BY <2>3, <3>1, <4>1 DEF AnswerKnows, Answering
      <3>4. RowThere(p)' /\ RowFresh(p)' /\ CreatorSpared(p)' /\ CreatorSeated(p)' /\ DropSound(p)'
        BY <3>2 DEF RowThere, RowFresh, CreatorSpared, CreatorSeated, DropSound, Holds, InTeam
      <3>5. Shape(p)' /\ Carries(p)' BY <3>2 DEF Shape, Carries, Holds, Answering
      <3>6. CallOK(p)' BY <3>3, <3>4, <3>5 DEF CallOK
      <3> QED BY <2>1, <3>6, CallLift
    <2> QED BY <2>2, <2>3
  <1>5. \A t \in Teams : Untouched(t) => Untouched(t)' BY <1>2 DEF Untouched, Asks
  <1>6. \A d \in Calls, t \in Teams : Owns(call[d], t)' => Owns(call[d], t) BY <1>2 DEF Owns
  <1>7. TeamsOwned' BY <1>5 DEF IInv, TeamsOwned, Owned
  <1>8. NobodyKnows' /\ MakersAlone' BY <1>5, <1>6 DEF IInv, NobodyKnows, MakersAlone
  <1>9. (RolesFinite /\ RolesBounded)' BY RolesStay
  <1>10. SeatsFollowTeams'
    <2>1. \A w \in Users : Seating(w) => Seating(w)' BY <1>2 DEF Seating
    <2> QED BY <2>1 DEF IInv, SeatsFollowTeams, InTeam
  <1> QED BY <1>3, <1>4, <1>7, <1>8, <1>9, <1>10 DEF IInv

LEMMA PostStep ==
  ASSUME IInv, NEW c \in Calls, NEW i \in Invites, NEW r \in Invited, Post(c, i, r)
  PROVE  IInv'
  <1>1. /\ call[c].phase = "post" /\ invite[i].status = "none" /\ Done(c)
        /\ UNCHANGED <<workspace, team, member, custom, roles, seats, history>>
    BY DEF Post
  <1>2. call[c].user \in Users /\ call[c].team \in Teams BY <1>1, InProgress DEF Carries, Shape
  <1>3. TypeOK BY DEF IInv
  <1>4. PICK s \in Teams, u \in Users : s = call[c].team /\ u = call[c].user BY <1>2
  <1>5. CASE invite' = invite
    <2> HIDE DEF IInv
    <2> QED BY <1>1, <1>5, PlainEnd
  <1>6. CASE invite' # invite
    <2>1. PICK k : k = [status |-> "PENDING", team |-> s, user |-> u, role |-> r] OBVIOUS
    <2>2. k \in InviteRecord /\ k.status = "PENDING" /\ k.team = s BY <2>1, InvitedAssumption DEF InviteRecord
    <2>3. invite' = [invite EXCEPT ![i] = k] BY <1>4, <1>6, <2>1 DEF Post
    <2>4. invite' \in [Invites -> {NoInvite} \cup InviteRecord] BY <1>3, <2>2, <2>3 DEF TypeOK
    <2>5. invite'[i] = k /\ \A j \in Invites \ {i} : invite'[j] = invite[j] BY <1>3, <2>3 DEF TypeOK
    <2>6. Idle.phase = "idle" BY DEF Idle
    <2>7. call' = [call EXCEPT ![c] = Idle] BY <1>1 DEF Done
    <2>8. call'[c] = Idle /\ \A d \in Calls \ {c} : call'[d] = call[d] BY <1>3, <2>7 DEF TypeOK
    <2>9. CallOK(Idle)' /\ \A t \in Teams : ~Asks(Idle, t) BY <2>6 DEF CallOK, Asks
    <2>10. \A d \in Calls, j \in Invites : Answers(call[d], j)' => Answers(call[d], j)
      BY <2>6, <2>8 DEF Answers, Answering
    <2>11. answered[i] # "once" BY <1>1 DEF IInv, AnswersApart
    <2>12. AnswersApart' /\ AnsweredOnce'
      BY <1>1, <2>5, <2>10, <2>11 DEF IInv, AnswersApart, AnsweredOnce, history
    <2>13. \A d \in Calls \ {c} : Answering(call[d]) => AnswerKnows(call[d])'
      <3> SUFFICES ASSUME NEW d \in Calls \ {c}, Answering(call[d]) PROVE AnswerKnows(call[d])' OBVIOUS
      <3>1. AnswerKnows(call[d]) /\ Carries(call[d]) BY InProgress DEF Answering
      <3>2. call[d].invite \in Invites \ {i} BY <1>1, <3>1 DEF AnswerKnows, Carries
      <3> QED BY <1>1, <2>5, <2>8, <3>1, <3>2 DEF AnswerKnows, Answering
    <2>14. ~Untouched(s) BY <1>1, <1>4 DEF Untouched, Asks
    <2>15. \A t \in Teams, j \in Invites : Untouched(t) /\ invite'[j].status # "none" => invite'[j].team # t
      BY <2>2, <2>5, <2>14 DEF Untouched
    <2>16. answered' \in [Invites -> {"no", "once", "again", "contested"}] BY <1>1, <1>3 DEF TypeOK, history
    <2>17. Idle.phase \notin {"own", "insert"} /\ call[c].phase \notin {"seat", "sit"} BY <1>1, <2>6
    <2> HIDE DEF IInv, CallOK, Idle
    <2> QED BY <1>1, <2>4, <2>7, <2>9, <2>12, <2>13, <2>15, <2>16, <2>17, InviteChange DEF history
  <1> QED BY <1>5, <1>6

(* An invite that somebody else is answering becomes contested.            *)
LEMMA AnswerStep ==
  ASSUME IInv, NEW c \in Calls, NEW i \in Invites, NEW op \in {"accept", "reject"}, Answer(c, i, op)
  PROVE  IInv'
  <1>1. /\ call[c].phase = "idle" /\ invite[i].status = "PENDING"
        /\ UNCHANGED <<workspace, team, member, custom, roles, invite, seats, excused>>
    BY DEF Answer
  <1>2. TypeOK BY DEF IInv
  <1>3. invite[i] \in InviteRecord
    <2>1. NoInvite.status = "none" BY DEF NoInvite
    <2> QED BY <1>1, <1>2, <2>1 DEF TypeOK
  <1>4. PICK s \in Teams, u \in Users, r \in TeamRole : s = invite[i].team /\ u = invite[i].user /\ r = invite[i].role
    BY <1>3 DEF InviteRecord
  <1>5. PICK h \in BOOLEAN : /\ team[s] = "live" => h
                             /\ call' = [call EXCEPT ![c] = [Call(op, "mark", s, u) EXCEPT
                                          !.invite = i, !.role = r, !.home = h]]
    BY <1>4 DEF Answer
  <1>6. PICK q : q = [Call(op, "mark", s, u) EXCEPT !.invite = i, !.role = r, !.home = h] OBVIOUS
  <1>7. PICK k : k = Call(op, "mark", s, u) OBVIOUS
  <1>8. k \in CallRecord /\ k.op = op /\ k.phase = "mark" /\ k.team = s /\ k.user = u
    BY <1>7 DEF Call, CallRecord
  <1>9. /\ q \in CallRecord
        /\ q.op = op /\ q.phase = "mark" /\ q.team = s /\ q.user = u /\ q.invite = i /\ q.role = r /\ q.home = h
    <2>1. q = [k EXCEPT !.invite = i, !.role = r, !.home = h] BY <1>6, <1>7
    <2>2. q \in CallRecord BY <1>8, <2>1 DEF CallRecord
    <2>3. q.op = op /\ q.phase = "mark" /\ q.team = s /\ q.user = u /\ q.invite = i /\ q.role = r /\ q.home = h
      BY <1>8, <2>1 DEF CallRecord
    <2> QED BY <2>2, <2>3
  <1>10. call' = [call EXCEPT ![c] = q] BY <1>5, <1>6
  <1>11. call'[c] = q /\ \A d \in Calls \ {c} : call'[d] = call[d] BY <1>2, <1>10 DEF TypeOK
  <1>12. ~Untouched(s) BY <1>1, <1>4 DEF Untouched
  <1>13. \A t \in Teams : Asks(q, t) => ~Untouched(t) BY <1>9, <1>12 DEF Asks
  <1>14. Shape(q) /\ Carries(q) BY <1>9 DEF Shape, Carries, Holds, Answering
  <1>15. AnswerKnows(q) BY <1>1, <1>5, <1>9 DEF AnswerKnows
  <1>16. CallOK(q)
    BY <1>9, <1>14, <1>15 DEF CallOK, RowThere, RowFresh, CreatorSpared, CreatorSeated, DropSound, Holds
  <1>17. CallOK(q)' BY <1>1, <1>16, CallStaysOK
  <1>18. \A d \in Calls \ {c}, j \in Invites : Answers(call[d], j)' <=> Answers(call[d], j)
    BY <1>11 DEF Answers, Answering
  <1>19. \A j \in Invites : Answers(call[c], j)' <=> j = i BY <1>9, <1>11 DEF Answers, Answering
  <1>20. /\ answered' \in [Invites -> {"no", "once", "again", "contested"}]
         /\ \A j \in Invites : answered'[j] = answered[j] \/ answered'[j] = "contested"
         /\ answered'[i] = "contested" \/ \A d \in Calls : ~Answers(call[d], i)
    BY <1>2 DEF Answer, TypeOK, Answers, Answering
  <1>21. answered[i] # "once" BY <1>1 DEF IInv, AnswersApart
  <1>22. AnsweredOnce' BY <1>20 DEF IInv, AnsweredOnce
  <1>23. AnswersApart'
    <2> SUFFICES ASSUME NEW j \in Invites
                 PROVE  /\ answered'[j] # "contested" =>
                             \A d, e \in Calls : Answers(call[d], j)' /\ Answers(call[e], j)' => d = e
                        /\ answered'[j] = "once" =>
                             /\ invite'[j].status \notin {"none", "PENDING"}
                             /\ \A d \in Calls : ~Answers(call[d], j)'
      BY DEF AnswersApart
    <2>1. CASE j = i BY <1>18, <1>20, <1>21, <2>1
    <2>2. CASE j # i
      <3>1. /\ answered[j] # "contested" =>
                 \A d, e \in Calls : Answers(call[d], j) /\ Answers(call[e], j) => d = e
            /\ answered[j] = "once" =>
                 /\ invite[j].status \notin {"none", "PENDING"}
                 /\ \A d \in Calls : ~Answers(call[d], j)
        BY DEF IInv, AnswersApart
      <3> QED BY <1>1, <1>18, <1>19, <1>20, <2>2, <3>1
    <2> QED BY <2>1, <2>2
  <1>24. \A d \in Calls \ {c} : Answering(call[d]) => AnswerKnows(call[d])'
    <2> SUFFICES ASSUME NEW d \in Calls \ {c}, Answering(call[d]) PROVE AnswerKnows(call[d])' OBVIOUS
    <2>1. AnswerKnows(call[d]) BY InProgress DEF Answering
    <2> QED BY <1>1, <1>11, <2>1 DEF AnswerKnows, Answering
  <1>25. \A t \in Teams, j \in Invites : Untouched(t) /\ invite'[j].status # "none" => invite'[j].team # t
    BY <1>1 DEF Untouched
  <1>26. invite' \in [Invites -> {NoInvite} \cup InviteRecord] BY <1>1, <1>2 DEF TypeOK
  <1>27. q.phase \notin {"own", "insert"} /\ call[c].phase \notin {"seat", "sit"} BY <1>1, <1>9
  <1> HIDE DEF IInv, CallOK, Idle
  <1> QED BY <1>1, <1>9, <1>10, <1>13, <1>17, <1>20, <1>22, <1>23, <1>24, <1>25, <1>26, <1>27, InviteChange

(* The invite is marked, and one that is accepted goes on to join.         *)
LEMMA MarkStep ==
  ASSUME IInv, NEW c \in Calls, Mark(c)
  PROVE  IInv'
  <1>1. call[c].phase = "mark" /\ UNCHANGED <<workspace, team, member, custom, roles, seats, excused>> BY DEF Mark
  <1>2. /\ call[c] \in CallRecord /\ Shape(call[c]) /\ Carries(call[c]) /\ AnswerKnows(call[c])
    BY <1>1, InProgress
  <1>3. TypeOK BY DEF IInv
  <1>4. PICK i \in Invites : i = call[c].invite BY <1>1, <1>2 DEF Carries, Answering
  <1>5. CASE Done(c) /\ UNCHANGED <<invite, answered>>
    <2> HIDE DEF IInv
    <2> QED BY <1>1, <1>5, PlainEnd DEF history
  <1>6. ASSUME NEW q \in {Idle} \cup CallRecord, call' = [call EXCEPT ![c] = q],
               NEW a \in {"ACCEPTED", "REJECTED"}, invite' = [invite EXCEPT ![i].status = a],
               \/ q.phase = "idle" /\ answered' = Noted(i)
               \/ q = Moved(c, "join") /\ call[c].op = "accept" /\ answered' = answered
        PROVE  IInv'
    <2>1. invite[i] \in InviteRecord
      <3>1. NoInvite.status = "none" BY DEF NoInvite
      <3>2. invite[i].status # "none" BY <1>1, <1>2, <1>4 DEF AnswerKnows, Answering
      <3> QED BY <1>3, <3>1, <3>2 DEF TypeOK
    <2>2. PICK k : k = [invite[i] EXCEPT !.status = a] OBVIOUS
    <2>3. k \in InviteRecord /\ k.status = a /\ k.team = invite[i].team BY <2>1, <2>2 DEF InviteRecord
    <2>4. invite' = [invite EXCEPT ![i] = k] BY <1>3, <1>6, <2>2 DEF TypeOK
    <2>5. invite' \in [Invites -> {NoInvite} \cup InviteRecord] BY <1>3, <2>3, <2>4 DEF TypeOK
    <2>6. invite'[i] = k /\ \A j \in Invites \ {i} : invite'[j] = invite[j] BY <1>3, <2>4 DEF TypeOK
    <2>7. invite[i].status # "none" BY <1>1, <1>2, <1>4 DEF AnswerKnows, Answering
    <2>8. \A t \in Teams, j \in Invites : Untouched(t) /\ invite'[j].status # "none" => invite'[j].team # t
      BY <2>3, <2>6, <2>7 DEF Untouched
    <2>9. \A j \in Invites : invite'[j].status = "none" => invite[j].status = "none" BY <1>6, <2>3, <2>6
    <2>10. \A j \in Invites : invite'[j].status = "PENDING" => invite[j].status = "PENDING" BY <1>6, <2>3, <2>6
    <2>11. call'[c] = q /\ \A d \in Calls \ {c} : call'[d] = call[d] BY <1>3, <1>6 DEF TypeOK
    <2>12. Answers(call[c], i) BY <1>1, <1>4 DEF Answers, Answering
    <2>13. \A d \in Calls \ {c} : Answering(call[d]) => AnswerKnows(call[d])'
      <3> SUFFICES ASSUME NEW d \in Calls \ {c}, Answering(call[d]) PROVE AnswerKnows(call[d])' OBVIOUS
      <3>1. AnswerKnows(call[d]) /\ Carries(call[d]) BY InProgress DEF Answering
      <3>2. call[d].invite \in Invites BY <3>1 DEF Carries
      <3> QED BY <1>1, <2>9, <2>10, <2>11, <3>1, <3>2 DEF AnswerKnows, Answering
    <2>14. /\ CallOK(q)' /\ q.phase \notin {"own", "insert"}
           /\ \A t \in Teams : Asks(q, t) => Asks(call[c], t)
           /\ answered' \in [Invites -> {"no", "once", "again", "contested"}]
           /\ AnswersApart' /\ AnsweredOnce'
      <3>1. CASE q.phase = "idle" /\ answered' = Noted(i)
        <4>1. CallOK(q)' /\ \A t \in Teams : ~Asks(q, t) BY <3>1 DEF CallOK, Asks
        <4>2. \A d \in Calls, j \in Invites : Answers(call[d], j)' => Answers(call[d], j) /\ d # c
          BY <3>1, <2>11 DEF Answers, Answering
        <4>3. invite'[i].status \notin {"none", "PENDING"} BY <1>6, <2>3, <2>6
        <4>4. answered' \in [Invites -> {"no", "once", "again", "contested"}] /\ AnswersApart' /\ AnsweredOnce'
          <5> HIDE DEF IInv
          <5> QED BY <2>9, <2>10, <2>12, <3>1, <4>2, <4>3, NotedSound
        <4> QED BY <3>1, <4>1, <4>4
      <3>2. CASE q = Moved(c, "join") /\ call[c].op = "accept" /\ answered' = answered
        <4>1. /\ q.phase = "join" /\ q.op = "accept" /\ q.team = call[c].team /\ q.user = call[c].user
              /\ q.role = call[c].role /\ q.invite = i /\ q.home = call[c].home
          BY <1>1, <1>3, <1>4, <3>2, MovedIs
        <4>2. Shape(q) /\ Carries(q) BY <1>1, <1>2, <1>4, <4>1 DEF Shape, Carries, Holds, Answering
        <4>3. AnswerKnows(q)' BY <1>1, <1>2, <1>6, <2>3, <2>6, <4>1 DEF AnswerKnows, Answering
        <4>4. CallOK(q)'
          BY <4>1, <4>2, <4>3 DEF CallOK, Shape, Carries, RowThere, RowFresh, CreatorSpared, CreatorSeated, DropSound, Holds, Answering
        <4>5. \A d \in Calls, j \in Invites : Answers(call[d], j)' => Answers(call[d], j)
          BY <1>1, <1>4, <2>11, <4>1 DEF Answers, Answering
        <4>6. AnswersApart' /\ AnsweredOnce' BY <2>9, <2>10, <3>2, <4>5, AnswersStay
        <4>7. \A t \in Teams : Asks(q, t) => Asks(call[c], t) BY <1>1, <4>1 DEF Asks
        <4> QED BY <1>3, <3>2, <4>1, <4>4, <4>6, <4>7 DEF TypeOK
      <3> QED BY <1>6, <3>1, <3>2
    <2>15. call[c].phase \notin {"seat", "sit"} BY <1>1
    <2> HIDE DEF IInv, CallOK, Idle
    <2> QED BY <1>1, <1>6, <2>5, <2>8, <2>13, <2>14, <2>15, InviteChange
  <1>7. CASE ~(Done(c) /\ UNCHANGED <<invite, answered>>)
    <2>1. Answered(c) \in {"ACCEPTED", "REJECTED"} BY DEF Answered
    <2>2. invite' = [invite EXCEPT ![i].status = Answered(c)] BY <1>4, <1>7 DEF Mark
    <2>3. CASE call[c].op = "accept"
      <3>1. Goto(c, "join") /\ answered' = answered BY <1>7, <2>3 DEF Mark
      <3>2. call' = [call EXCEPT ![c] = Moved(c, "join")] BY <1>3, <3>1, GotoIsMoved
      <3>3. Moved(c, "join") \in CallRecord BY <1>1, <1>3, MovedIs
      <3> QED BY <1>6, <2>1, <2>2, <2>3, <3>1, <3>2, <3>3
    <2>4. CASE call[c].op # "accept"
      <3>1. call' = [call EXCEPT ![c] = Idle] /\ answered' = Noted(i) BY <1>4, <1>7, <2>4 DEF Mark, Done
      <3>2. Idle.phase = "idle" BY DEF Idle
      <3> QED BY <1>6, <2>1, <2>2, <3>1, <3>2
    <2> QED BY <2>3, <2>4
  <1> QED BY <1>5, <1>7

-----------------------------------------------------------------------------
(***************************************************************************)
(* The theorems.                                                           *)
(***************************************************************************)
LEMMA InitInv ==
  ASSUME Init
  PROVE  IInv
  <1>1. \A c \in Calls : call[c] = Idle BY DEF Init
  <1>2. Idle.phase = "idle" /\ NoInvite.status = "none" BY DEF Idle, NoInvite
  <1>3. \A c \in Calls : call[c].phase = "idle" BY <1>1, <1>2
  <1>4. TypeOK
    <2>1. member \in [Teams -> [Users -> TeamRole \cup {None}]] BY DEF Init
    <2>2. custom \in [Teams -> [Users -> CustomRoles \cup {None}]] BY DEF Init
    <2> QED BY <2>1, <2>2 DEF Init, TypeOK
  <1>5. CallsOK BY <1>3 DEF CallsOK, CallOK
  <1>6. \A t \in Teams : Untouched(t) BY <1>2, <1>3 DEF Init, Untouched, Asks
  <1>7. \A t \in Teams, c \in Calls : ~Owns(call[c], t) BY <1>3 DEF Owns
  <1>8. TeamsOwned /\ NobodyKnows /\ MakersAlone BY <1>6, <1>7 DEF TeamsOwned, NobodyKnows, MakersAlone
  <1>9. AnswersApart /\ AnsweredOnce
    <2>1. \A c \in Calls, i \in Invites : ~Answers(call[c], i) BY <1>3 DEF Answers, Answering
    <2>2. \A i \in Invites : answered[i] = "no" BY DEF Init
    <2> QED BY <2>1, <2>2 DEF AnswersApart, AnsweredOnce
  <1>10. RolesFinite /\ RolesBounded
    <2>1. \A t \in Teams : roles[t] = {} BY DEF Init
    <2>2. \A t \in Teams : Inserting(t) = {} BY <1>3 DEF Inserting
    <2>3. IsFiniteSet({}) /\ Cardinality({}) = 0 BY FS_EmptySet
    <2>4. Cardinality(Calls) \in Nat BY CallsAssumption, FS_CardinalityType
    <2>5. ASSUME NEW t \in Teams
          PROVE  /\ IsFiniteSet(roles[t])
                 /\ Cardinality(roles[t]) + Cardinality(Inserting(t)) < MaxRoles + Cardinality(Calls)
      <3>1. roles[t] = {} /\ Inserting(t) = {} BY <2>1, <2>2
      <3>2. Cardinality(roles[t]) = 0 /\ Cardinality(Inserting(t)) = 0 BY <2>3, <3>1
      <3> QED BY <2>3, <2>4, <3>1, <3>2, LimitAssumption
    <2> QED BY <2>5 DEF RolesFinite, RolesBounded
  <1>11. SeatsFollowTeams
    <2>1. \A u \in Users : ~InTeam(u) BY DEF Init, InTeam
    <2> QED BY <2>1 DEF SeatsFollowTeams
  <1> QED BY <1>4, <1>5, <1>8, <1>9, <1>10, <1>11 DEF IInv

(* What the requests about teams and invites begin.                        *)
LEMMA AskTeamSteps ==
  ASSUME IInv, NEW c \in Calls, AskTeam(c)
  PROVE  IInv'
  <1>1. CASE BeginCreate(c) BY <1>1, WorkspaceSteps
  <1>2. ASSUME NEW t \in Teams, NEW a \in Users, BeginUpdate(c, t, a) PROVE IInv' BY <1>2, TeamBegins
  <1>3. ASSUME NEW t \in Teams, NEW a \in Users, NEW u \in Users, BeginManage(c, t, a, u, "invite") PROVE IInv'
    BY <1>3, ManageBegins
  <1>4. ASSUME NEW i \in Invites, NEW op \in {"accept", "reject"}, Answer(c, i, op) PROVE IInv' BY <1>4, AnswerStep
  <1> QED BY <1>1, <1>2, <1>3, <1>4 DEF AskTeam

LEMMA AskMemberSteps ==
  ASSUME IInv, NEW c \in Calls, AskMember(c)
  PROVE  IInv'
  <1>1. ASSUME NEW t \in Teams, NEW a \in Users, NEW u \in Users, BeginRename(c, t, a, u) PROVE IInv'
    BY <1>1, RenameBegins
  <1>2. ASSUME NEW t \in Teams, NEW a \in Users, NEW u \in Users, NEW op \in {"role", "assign", "remove"},
               BeginManage(c, t, a, u, op)
        PROVE  IInv'
    BY <1>2, ManageBegins
  <1>3. ASSUME NEW t \in Teams, NEW a \in Users, BeginAddRole(c, t, a) PROVE IInv' BY <1>3, TeamBegins
  <1>4. ASSUME NEW t \in Teams, NEW a \in Users, NEW x \in CustomRoles, BeginDropRole(c, t, a, x) PROVE IInv'
    BY <1>4, DropRoleBegins
  <1> QED BY <1>1, <1>2, <1>3, <1>4 DEF AskMember

LEMMA StutterInv ==
  ASSUME IInv, UNCHANGED vars
  PROVE  IInv'
  <1>1. UNCHANGED <<workspace, team, member, custom, roles, invite, seats, call, answered, excused>> BY DEF vars, history
  <1>2. TypeOK' BY <1>1 DEF IInv, TypeOK
  <1>3. CallsOK' BY <1>1 DEF IInv, CallsOK, CallOK, Shape, Carries, RowThere, RowFresh, CreatorSpared, CreatorSeated,
                    AnswerKnows, DropSound, Holds, Answering, InTeam
  <1>4. TeamsOwned' /\ NobodyKnows' /\ MakersAlone'
    BY <1>1 DEF IInv, TeamsOwned, NobodyKnows, MakersAlone, Owned, Owns, Untouched, Asks
  <1>5. AnswersApart' /\ AnsweredOnce' BY <1>1 DEF IInv, AnswersApart, AnsweredOnce, Answers, Answering
  <1>6. RolesFinite' /\ RolesBounded' BY <1>1 DEF IInv, RolesFinite, RolesBounded, Inserting
  <1>7. SeatsFollowTeams' BY <1>1 DEF IInv, SeatsFollowTeams, InTeam, Seating
  <1> QED BY <1>2, <1>3, <1>4, <1>5, <1>6, <1>7 DEF IInv

LEMMA NextInv ==
  ASSUME IInv, [Next]_vars
  PROVE  IInv'
  <1>1. CASE UNCHANGED vars BY <1>1, StutterInv
  <1>2. ASSUME NEW t \in Teams, DeleteTeam(t) PROVE IInv' BY <1>2, DeleteTeamStep
  <1>3. ASSUME NEW c \in Calls,
               \/ AskTeam(c) \/ AskMember(c)
               \/ CreateWorkspace(c)
               \/ \E op \in {"list", "mine"} : ListWorkspaces(c, op)
               \/ FindWorkspace(c) \/ CheckSeat(c) \/ Sit(c)
               \/ \E t \in Teams : CreateTeam(c, t)
               \/ Own(c) \/ LoadTeam(c) \/ SaveTeam(c)
        PROVE  IInv'
    <2>1. CASE AskTeam(c) BY <2>1, AskTeamSteps
    <2>2. CASE AskMember(c) BY <2>2, AskMemberSteps
    <2>3. CASE CreateWorkspace(c) \/ \E op \in {"list", "mine"} : ListWorkspaces(c, op) BY <2>3, WorkspaceSteps
    <2>4. CASE FindWorkspace(c) BY <2>4, FindWorkspaceStep
    <2>5. CASE CheckSeat(c) BY <2>5, CheckSeatStep
    <2>6. CASE Sit(c) BY <2>6, SitStep
    <2>7. ASSUME NEW t \in Teams, CreateTeam(c, t) PROVE IInv' BY <2>7, CreateTeamStep
    <2>8. CASE Own(c) BY <2>8, OwnStep
    <2>9. CASE LoadTeam(c) BY <2>9, PlainSteps
    <2>10. CASE SaveTeam(c) BY <2>10, SaveTeamStep
    <2> QED BY <1>3, <2>1, <2>2, <2>3, <2>4, <2>5, <2>6, <2>7, <2>8, <2>9, <2>10
  <1>4. ASSUME NEW c \in Calls,
               \/ \E r \in TeamRole : LoadForRole(c, r)
               \/ LoadForRename(c) \/ LoadForRemove(c) \/ Store(c) \/ Remove(c)
               \/ \E x \in CustomRoles \cup {None} : LoadForAssign(c, x)
               \/ CheckPolicy(c)
               \/ Count(c) \/ Find(c) \/ Drop(c)
        PROVE  IInv'
    <2>1. ASSUME NEW r \in TeamRole, LoadForRole(c, r) PROVE IInv' BY <2>1, LoadForRoleStep
    <2>2. CASE LoadForRename(c) BY <2>2, LoadForRenameStep
    <2>3. CASE LoadForRemove(c) \/ CheckPolicy(c) BY <2>3, HoldGoes
    <2>4. CASE Store(c) BY <2>4, StoreStep
    <2>5. CASE Remove(c) BY <2>5, RemoveStep
    <2>6. ASSUME NEW x \in CustomRoles \cup {None}, LoadForAssign(c, x) PROVE IInv' BY <2>6, LoadForAssignStep
    <2>7. CASE Count(c) \/ Find(c) BY <2>7, CountFindSteps
    <2>8. CASE Drop(c) BY <2>8, DropStep
    <2> QED BY <1>4, <2>1, <2>2, <2>3, <2>4, <2>5, <2>6, <2>7, <2>8
  <1>5. ASSUME NEW c \in Calls,
               \/ CheckMember(c) \/ CheckPending(c)
               \/ \E i \in Invites, r \in Invited : Post(c, i, r)
               \/ Mark(c) \/ Join(c)
               \/ CountRoles(c) \/ FindRole(c) \/ Unassign(c) \/ DropRole(c)
               \/ \E x \in CustomRoles : InsertRole(c, x)
               \/ Fail(c)
        PROVE  IInv'
    <2>1. CASE CheckMember(c) \/ CheckPending(c) \/ FindRole(c) BY <2>1, PlainSteps
    <2>2. ASSUME NEW i \in Invites, NEW r \in Invited, Post(c, i, r) PROVE IInv' BY <2>2, PostStep
    <2>3. CASE Mark(c) BY <2>3, MarkStep
    <2>4. CASE Join(c) BY <2>4, JoinStep
    <2>5. CASE CountRoles(c) BY <2>5, CountRolesStep
    <2>6. CASE Unassign(c) \/ DropRole(c) BY <2>6, UnroleSteps
    <2>7. ASSUME NEW x \in CustomRoles, InsertRole(c, x) PROVE IInv' BY <2>7, InsertRoleStep
    <2>8. CASE Fail(c) BY <2>8, FailStep
    <2> QED BY <1>5, <2>1, <2>2, <2>3, <2>4, <2>5, <2>6, <2>7, <2>8
  <1> HIDE DEF IInv
  <1> QED BY <1>1, <1>2, <1>3, <1>4, <1>5 DEF Next

(* The inductive invariant: TeamService and WorkspaceService.              *)
THEOREM Invariance == Spec => []IInv
  <1> HIDE DEF IInv
  <1>1. Init => IInv BY InitInv
  <1>2. IInv /\ [Next]_vars => IInv' BY NextInv
  <1> QED BY <1>1, <1>2, PTL DEF Spec

(* createCustomRole, acceptInvite and rejectInvite: the rows fit together, *)
(* a team has no more custom roles than the limit and the insertions that  *)
(* counted together, and an invite is answered once.                       *)
THEOREM RowsFit == Spec => []Consistent
  <1>1. IInv => Consistent BY DEF IInv, Consistent
  <1> HIDE DEF IInv
  <1> QED BY <1>1, Invariance, PTL

(* updateMemberRole, removeMember and assignCustomRole: a team of the      *)
(* workspace that has members keeps its creator as an owner, whatever      *)
(* saves of loaded rows cross.                                             *)
THEOREM SomebodyManages == Spec => []OwnerStays
  <1>1. IInv => OwnerStays BY DEF IInv, TeamsOwned, Owned, Untouched, OwnerStays
  <1> HIDE DEF IInv
  <1> QED BY <1>1, Invariance, PTL

(* acceptInvite and removeMember: who is in a team has a seat in the       *)
(* workspace or is about to get one.                                       *)
THEOREM MembersHaveSeats == Spec => []SeatsFollowTeams
  <1>1. IInv => SeatsFollowTeams BY DEF IInv
  <1> HIDE DEF IInv
  <1> QED BY <1>1, Invariance, PTL

(* Only the save of a row that was loaded before can change a role.        *)
LEMMA WhoChangesRoles ==
  ASSUME IInv, Next, NEW t \in Teams, NEW u \in Users,
         member[t][u] # None, member'[t][u] # None, member'[t][u] # member[t][u]
  PROVE  \E c \in Calls : Store(c) /\ (call[c].op = "role" \/ call[c].row = "stale")
  <1>1. TypeOK BY DEF IInv
  <1>2. member \in [Teams -> [Users -> TeamRole \cup {None}]] BY <1>1 DEF TypeOK
  <1>3. ASSUME NEW s \in Teams, DeleteTeam(s) PROVE FALSE BY <1>2, <1>3 DEF DeleteTeam
  <1>4. ASSUME NEW c \in Calls, Own(c) PROVE FALSE
    <2>1. call[c].team \in Teams /\ Owns(call[c], call[c].team)
      BY <1>4, InProgress DEF Own, Owns, Carries
    <2>2. \A w \in Users : member[call[c].team][w] = None BY <2>1 DEF IInv, MakersAlone, Untouched
    <2> QED BY <1>2, <1>4, <2>1, <2>2 DEF Own
  <1>5. ASSUME NEW c \in Calls, Join(c) PROVE FALSE
    <2>1. call[c].team \in Teams /\ call[c].user \in Users
      BY <1>5, InProgress DEF Join, Carries, Shape
    <2>2. CASE Target(c) # None \/ ~Exists(call[c].team) BY <1>5, <2>2 DEF Join
    <2>3. CASE ~(Target(c) # None \/ ~Exists(call[c].team))
      <3>1. member[call[c].team][call[c].user] = None BY <2>3 DEF Target
      <3> QED BY <1>2, <1>5, <2>1, <2>3, <3>1 DEF Join
    <2> QED BY <2>2, <2>3
  <1>6. ASSUME NEW c \in Calls, Remove(c) PROVE FALSE
    <2>1. call[c].team \in Teams /\ call[c].user \in Users
      BY <1>6, InProgress DEF Remove, At, Carries, Shape
    <2> QED BY <1>2, <1>6, <2>1 DEF Remove
  <1>7. ASSUME NEW c \in Calls, Store(c) PROVE call[c].op = "role" \/ call[c].row = "stale"
    <2> SUFFICES ASSUME call[c].op # "role", call[c].row # "stale" PROVE FALSE OBVIOUS
    <2>1. /\ call[c] \in CallRecord /\ call[c].team \in Teams /\ call[c].user \in Users /\ RowFresh(call[c])
          /\ call[c].phase = "save" /\ call[c].op \in {"rename", "assign"}
      BY <1>7, InProgress DEF Store, Carries, Shape
    <2>2. call[c].row # "gone" BY <1>7 DEF Store
    <2>3. call[c].row = "fresh" BY <2>1, <2>2 DEF CallRecord
    <2>4. member[call[c].team][call[c].user] = call[c].role BY <2>1, <2>3 DEF RowFresh, Holds
    <2>5. member' = [member EXCEPT ![call[c].team][call[c].user] = call[c].role] BY <1>7 DEF Store
    <2> QED BY <1>2, <2>1, <2>4, <2>5
  <1>8. (\E c \in Calls : Own(c) \/ Join(c) \/ Remove(c) \/ Store(c)) \/ (\E s \in Teams : DeleteTeam(s))
    <2> SUFFICES ASSUME NEW c \in Calls, member' # member,
                        \/ AskTeam(c) \/ AskMember(c)
                        \/ CreateWorkspace(c)
                        \/ \E op \in {"list", "mine"} : ListWorkspaces(c, op)
                        \/ FindWorkspace(c) \/ CheckSeat(c) \/ Sit(c)
                        \/ \E s \in Teams : CreateTeam(c, s)
                        \/ LoadTeam(c) \/ SaveTeam(c)
                        \/ \E r \in TeamRole : LoadForRole(c, r)
                        \/ LoadForRename(c) \/ LoadForRemove(c)
                        \/ \E x \in CustomRoles \cup {None} : LoadForAssign(c, x)
                        \/ CheckPolicy(c)
                        \/ Count(c) \/ Find(c) \/ Drop(c)
                        \/ CheckMember(c) \/ CheckPending(c)
                        \/ \E i \in Invites, r \in Invited : Post(c, i, r)
                        \/ Mark(c)
                        \/ CountRoles(c) \/ FindRole(c) \/ Unassign(c) \/ DropRole(c)
                        \/ \E x \in CustomRoles : InsertRole(c, x)
                        \/ Fail(c)
                 PROVE  FALSE
      BY DEF Next
    <2> QED
      BY DEF AskTeam, AskMember, BeginCreate, BeginUpdate, BeginManage, Answer, BeginRename, BeginAddRole,
         BeginDropRole, CreateWorkspace, ListWorkspaces, FindWorkspace, CheckSeat, Sit, CreateTeam, LoadTeam, SaveTeam,
         LoadForRole, LoadForRename, LoadForRemove, LoadForAssign, CheckPolicy, Count, Find, Drop, CheckMember,
         CheckPending, Post, Mark, CountRoles, FindRole, Unassign, DropRole, InsertRole, Fail
  <1> QED BY <1>3, <1>4, <1>5, <1>6, <1>7, <1>8

(* updateMemberRole and the other saves of members: a role changes when    *)
(* somebody changes it or when a stale row is saved.                       *)
THEOREM RolesChangeWhenAsked == Spec => RoleChangesAsked
  <1>1. ASSUME IInv, [Next]_vars, NEW t \in Teams, NEW u \in Users,
               None \notin {member[t][u], member'[t][u]}, member'[t][u] # member[t][u]
        PROVE  \E c \in Calls : Store(c) /\ (call[c].op = "role" \/ call[c].row = "stale")
    <2>1. Next BY <1>1 DEF vars
    <2> HIDE DEF IInv, Next
    <2> QED BY <1>1, <2>1, WhoChangesRoles
  <1>2. IInv /\ [Next]_vars =>
          [\A t \in Teams, u \in Users :
             None \notin {member[t][u], member'[t][u]} /\ member'[t][u] # member[t][u] =>
               \E c \in Calls : Store(c) /\ (call[c].op = "role" \/ call[c].row = "stale")]_vars
    <2> HIDE DEF IInv, Next, Store, vars
    <2> QED BY <1>1
  <1> HIDE DEF IInv, Next
  <1> QED BY <1>2, Invariance, PTL DEF Spec, RoleChangesAsked
==============================================================================
