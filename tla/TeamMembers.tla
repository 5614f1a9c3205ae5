---------------------------- MODULE TeamMembers ----------------------------
(***************************************************************************)
(* TeamService (src/src/modules/team) and WorkspaceService: the default    *)
(* workspace of a user, its teams, their members, invites and custom       *)
(* roles, and the seats in the workspace that follow from them.            *)
(*                                                                         *)
(* Every query is awaited and nothing runs in a transaction.  save writes  *)
(* all columns of the entity a call has loaded: when another call has      *)
(* written the row since, it puts the old role back, and when the row is   *)
(* gone it inserts a row without a team, which no query of a team finds.   *)
(* The database keeps (team, user), (workspace, user) and the pending      *)
(* invite of a user unique, and its foreign keys refuse rows of a deleted  *)
(* team.                                                                   *)
(*                                                                         *)
(* What a custom role permits is not kept: a member who holds one may or   *)
(* may not pass a check, so updateCustomRole changes nothing here.  A GUEST *)
(* is a MEMBER.  Names, icons, avatars and notifications are left out.     *)
(***************************************************************************)
EXTENDS Integers, FiniteSets

CONSTANTS Teams, Users, Creator, Invites, CustomRoles, Calls, None,
          MaxRoles,  \* custom roles of a team: 5
          Invited    \* the roles people are invited for

TeamRole == {"OWNER", "MANAGER", "MEMBER"}

ASSUME CreatorAssumption == Creator \in Users
ASSUME NoneAssumption == None \notin TeamRole \cup Users \cup Teams \cup CustomRoles \cup Invites
ASSUME InvitedAssumption == Invited \subseteq TeamRole
ASSUME LimitAssumption == MaxRoles \in Nat \ {0}
ASSUME CallsAssumption == IsFiniteSet(Calls)

VARIABLES
  workspace, \* the state of the workspace of Creator
  team,      \* the state of each team; an orphan is outside the workspace
  member,    \* the role in the row of a user in a team
  custom,    \* the custom role of that row
  roles,     \* the custom roles of a team
  invite,    \* the rows of the invites
  seats,     \* the members of the workspace
  call,      \* the requests in progress
  answered,  \* history: how often each invite was answered, and by how many at once
  excused    \* history: users who joined while they were being removed, or
             \* whose acceptance failed after they had joined

history == <<answered, excused>>
vars == <<workspace, team, member, custom, roles, invite, seats, call, history>>

Idle == [phase |-> "idle"]

\* A request for the row of u in t (for the roles of t: any user; None before
\* there is a team).  home: the team was loaded with its workspace; row says
\* what happened to the loaded row.
Call(op, phase, t, u) ==
  [op |-> op, phase |-> phase, team |-> t, user |-> u, manager |-> FALSE, home |-> TRUE,
   role |-> None, custom |-> None, invite |-> None, row |-> "fresh"]

CallRecord ==
  [op : {"register", "list", "mine", "create", "update", "role", "rename", "assign", "remove",
         "invite", "accept", "reject", "addRole", "dropRole"},
   phase : {"fallback", "seat", "sit", "team", "own", "load", "rewrite", "target", "policy",
            "save", "pending", "post", "mark", "join", "count", "find", "drop", "limit", "insert", "unassign", "unrole"},
   team : Teams \cup {None}, user : Users, manager : BOOLEAN,
   home : BOOLEAN, role : TeamRole \cup {None},
   custom : CustomRoles \cup {None}, invite : Invites \cup {None},
   row : {"fresh", "stale", "gone"}]

NoInvite == [status |-> "none"]

InviteRecord ==
  [status : {"PENDING", "ACCEPTED", "REJECTED", "deleted"}, team : Teams,
   user : Users, role : TeamRole]

(* Rows are of their types; only a team that exists has rows.              *)
TypeOK ==
  /\ workspace \in {"none", "live"}
  /\ team \in [Teams -> {"none", "live", "deleted", "orphan"}]
  /\ member \in [Teams -> [Users -> TeamRole \cup {None}]]
  /\ custom \in [Teams -> [Users -> CustomRoles \cup {None}]]
  /\ roles \in [Teams -> SUBSET CustomRoles]
  /\ \A t \in Teams : team[t] \in {"none", "deleted"} =>
       roles[t] = {} /\ \A u \in Users : member[t][u] = None
  /\ \A t \in Teams, u \in Users :
       custom[t][u] # None => custom[t][u] \in roles[t] /\ member[t][u] # None
  /\ invite \in [Invites -> {NoInvite} \cup InviteRecord]
  /\ seats \subseteq Users
  /\ call \in [Calls -> {Idle} \cup CallRecord]
  /\ answered \in [Invites -> {"no", "once", "again", "contested"}]
  /\ excused \subseteq Users

Init ==
  /\ workspace = "none"
  /\ team = [t \in Teams |-> "none"]
  /\ member = [t \in Teams |-> [u \in Users |-> None]]
  /\ custom = [t \in Teams |-> [u \in Users |-> None]]
  /\ roles = [t \in Teams |-> {}]
  /\ invite = [i \in Invites |-> NoInvite]
  /\ seats = {}
  /\ call = [c \in Calls |-> Idle]
  /\ answered = [i \in Invites |-> "no"]
  /\ excused = {}

At(c, op, phase) == call[c].phase = phase /\ call[c].op = op

Goto(c, phase) == call' = [call EXCEPT ![c].phase = phase]

Done(c) == call' = [call EXCEPT ![c] = Idle]

\* The role in the row the request c is for.
Target(c) == member[call[c].team][call[c].user]

\* The foreign keys find the team.
Exists(t) == team[t] \in {"live", "orphan"}

\* hasTeamPermission, for any custom role.
Permitted(t, u) ==
  /\ member[t][u] # None
  /\ member[t][u] \in {"OWNER", "MANAGER"} \/ custom[t][u] # None

\* The calls that hold the row of u in t, told what became of it by c, which becomes q.
Told(c, q, t, u, fate) ==
  [d \in Calls |->
     IF d = c THEN q
     ELSE IF /\ call[d].phase \in {"policy", "save"} /\ call[d].team = t /\ call[d].user = u
             /\ call[d].row # "gone"
          THEN [call[d] EXCEPT !.row = fate] ELSE call[d]]
-----------------------------------------------------------------------------
(***************************************************************************)
(* The workspace.  Its creator gets a seat when it is created; when that   *)
(* failed, whatever the creator asks for next repairs it.                  *)
(***************************************************************************)
\* createDefaultWorkspace saves the workspace, then the seat.
CreateWorkspace(c) ==
  /\ call[c].phase = "idle" /\ workspace = "none"
  /\ workspace' = "live"
  /\ call' = [call EXCEPT ![c] = Call("register", "sit", None, Creator)]
  /\ UNCHANGED <<team, member, custom, roles, invite, seats, history>>

\* getMyWorkspaces (list) and getMyWorkspace (mine), of a creator in no workspace.
ListWorkspaces(c, op) ==
  /\ call[c].phase = "idle" /\ Creator \notin seats
  /\ call' = [call EXCEPT ![c] = Call(op, "fallback", None, Creator)]
  /\ UNCHANGED <<workspace, team, member, custom, roles, invite, seats, history>>

\* mine lists first and looks for itself when the list was empty.
FindWorkspace(c) ==
  /\ call[c].phase = "fallback"
  /\ IF workspace = "live" THEN Goto(c, "seat")
     ELSE IF call[c].op = "mine" THEN call' = [call EXCEPT ![c].op = "list"] ELSE Done(c)
  /\ UNCHANGED <<workspace, team, member, custom, roles, invite, seats, history>>

\* What a request that needs the seat of its user does when it is there.
Seated(c) == IF call[c].op = "create" THEN Goto(c, "team") ELSE Done(c)

\* Also the seat of a user whose invite was accepted.
CheckSeat(c) ==
  /\ call[c].phase = "seat"
  /\ IF call[c].user \in seats THEN Seated(c) ELSE Goto(c, "sit")
  /\ UNCHANGED <<workspace, team, member, custom, roles, invite, seats, history>>

\* The unique row (workspace, user) may refuse it.
Sit(c) ==
  /\ call[c].phase = "sit"
  /\ seats' = seats \cup {call[c].user}
  /\ IF call[c].user \in seats THEN Done(c) ELSE Seated(c)
  /\ UNCHANGED <<workspace, team, member, custom, roles, invite, history>>
-----------------------------------------------------------------------------
(***************************************************************************)
(* Teams.                                                                  *)
(***************************************************************************)
\* createTeam: only the creator owns the workspace.
BeginCreate(c) ==
  /\ call[c].phase = "idle" /\ workspace = "live"
  /\ call' = [call EXCEPT ![c] = Call("create", "seat", None, Creator)]
  /\ UNCHANGED <<workspace, team, member, custom, roles, invite, seats, history>>

CreateTeam(c, t) ==
  /\ call[c].phase = "team" /\ team[t] = "none"
  /\ team' = [team EXCEPT ![t] = "live"]
  /\ call' = [call EXCEPT ![c].phase = "own", ![c].team = t]
  /\ UNCHANGED <<workspace, member, custom, roles, invite, seats, history>>

Own(c) ==
  /\ call[c].phase = "own"
  /\ member' = [member EXCEPT ![call[c].team][Creator] = "OWNER"]
  /\ Done(c)
  /\ UNCHANGED <<workspace, team, custom, roles, invite, seats, history>>

\* updateTeam.  save inserts a row that is gone again: the team is then in no
\* workspace and has no members, whoever was one.
BeginUpdate(c, t, a) ==
  /\ call[c].phase = "idle" /\ Permitted(t, a)
  /\ call' = [call EXCEPT ![c] = Call("update", "load", t, Creator)]
  /\ UNCHANGED <<workspace, team, member, custom, roles, invite, seats, history>>

LoadTeam(c) ==
  /\ call[c].phase = "load"
  /\ IF Exists(call[c].team) THEN Goto(c, "rewrite") ELSE Done(c)
  /\ UNCHANGED <<workspace, team, member, custom, roles, invite, seats, history>>

SaveTeam(c) ==
  /\ call[c].phase = "rewrite"
  /\ team' = IF Exists(call[c].team) THEN team ELSE [team EXCEPT ![call[c].team] = "orphan"]
  /\ Done(c)
  /\ UNCHANGED <<workspace, member, custom, roles, invite, seats, history>>

\* TeamOwnerGuard.
HasOwner(t) == \E u \in Users : member[t][u] = "OWNER"

\* deleteTeam: the rows of the team go with it.
DeleteTeam(t) ==
  /\ HasOwner(t)
  /\ team' = [team EXCEPT ![t] = "deleted"]
  /\ member' = [member EXCEPT ![t] = [u \in Users |-> None]]
  /\ custom' = [custom EXCEPT ![t] = [u \in Users |-> None]]
  /\ roles' = [roles EXCEPT ![t] = {}]
  /\ invite' = [i \in Invites |->
       IF invite[i].status # "none" /\ invite[i].team = t
       THEN [invite[i] EXCEPT !.status = "deleted"] ELSE invite[i]]
  /\ call' = [d \in Calls |->
       IF call[d].phase \in {"policy", "save"} /\ call[d].team = t
       THEN [call[d] EXCEPT !.row = "gone"] ELSE call[d]]
  /\ UNCHANGED <<workspace, seats, history>>
-----------------------------------------------------------------------------
(***************************************************************************)
(* Members.  An operator whose name ends in _Wrong is a plausible slip in  *)
(* the definition after it, used by mutants only.                          *)
(***************************************************************************)
\* The actor a is read first; a may not change its own role or remove itself.
BeginManage(c, t, a, u, op) ==
  /\ call[c].phase = "idle" /\ a # u /\ Permitted(t, a)
  /\ call' = [call EXCEPT ![c] = [Call(op, "target", t, u) EXCEPT
       !.manager = op \in {"role", "remove"} /\ member[t][a] = "MANAGER",
       !.home = team[t] = "live"]]
  /\ UNCHANGED <<workspace, team, member, custom, roles, invite, seats, history>>

\* updateMemberNickname and updateMemberAvatar.
BeginRename(c, t, a, u) ==
  /\ call[c].phase = "idle" /\ member[t][a] # None
  /\ a = u \/ Permitted(t, a)
  /\ call' = [call EXCEPT ![c] = Call("rename", "target", t, u)]
  /\ UNCHANGED <<workspace, team, member, custom, roles, invite, seats, history>>

Untouchable_Wrong(c) == Target(c) = None \/ (call[c].manager /\ Target(c) = "OWNER")

\* Nobody's role may be changed or taken who is not there or an owner.
Untouchable(c) == Target(c) \in {None, "OWNER"}

LoadForRole(c, r) ==
  /\ At(c, "role", "target")
  /\ IF \/ Untouchable(c) \/ r = "OWNER"
        \/ call[c].manager /\ "MANAGER" \in {Target(c), r}
     THEN Done(c)
     ELSE call' = [call EXCEPT ![c].phase = "save", ![c].role = r]
  /\ UNCHANGED <<workspace, team, member, custom, roles, invite, seats, history>>

Loaded_Wrong(c) == "MEMBER"

\* The role column, which comes with the row.
Loaded(c) == Target(c)

LoadForRename(c) ==
  /\ At(c, "rename", "target")
  /\ IF Target(c) = None THEN Done(c)
     ELSE call' = [call EXCEPT ![c].phase = "save", ![c].role = Loaded(c)]
  /\ UNCHANGED <<workspace, team, member, custom, roles, invite, seats, history>>

\* assignCustomRole; x is None to take the custom role away.
LoadForAssign(c, x) ==
  /\ At(c, "assign", "target")
  /\ IF Untouchable(c) THEN Done(c)
     ELSE call' = [call EXCEPT ![c].phase = IF x = None THEN "save" ELSE "policy",
                               ![c].role = Loaded(c), ![c].custom = x]
  /\ UNCHANGED <<workspace, team, member, custom, roles, invite, seats, history>>

CheckPolicy(c) ==
  /\ call[c].phase = "policy"
  /\ IF call[c].custom \in roles[call[c].team] THEN Goto(c, "save") ELSE Done(c)
  /\ UNCHANGED <<workspace, team, member, custom, roles, invite, seats, history>>

\* save of a changed member; a custom role that is gone fails it.
Store(c) ==
  /\ call[c].phase = "save" /\ call[c].op \in {"role", "rename", "assign"}
  /\ LET t == call[c].team
         u == call[c].user
     IN IF call[c].row = "gone" \/ call[c].custom \notin roles[t] \cup {None}
        THEN Done(c) /\ UNCHANGED <<member, custom>>
        ELSE /\ member' = [member EXCEPT ![t][u] = call[c].role]
             /\ custom' = IF call[c].op = "rename" THEN custom
                          ELSE [custom EXCEPT ![t][u] = call[c].custom]
             /\ call' = Told(c, Idle, t, u, "stale")
  /\ UNCHANGED <<workspace, team, roles, invite, seats, history>>

LoadForRemove(c) ==
  /\ At(c, "remove", "target")
  /\ IF Untouchable(c) \/ (call[c].manager /\ Target(c) = "MANAGER") THEN Done(c) ELSE Goto(c, "save")
  /\ UNCHANGED <<workspace, team, member, custom, roles, invite, seats, history>>

Remove(c) ==
  /\ At(c, "remove", "save")
  /\ LET t == call[c].team
         u == call[c].user
         next == IF call[c].home THEN Call("remove", "count", t, u) ELSE Idle
     IN IF call[c].row = "gone" THEN call' = [call EXCEPT ![c] = next] /\ UNCHANGED <<member, custom>>
        ELSE /\ member' = [member EXCEPT ![t][u] = None]
             /\ custom' = [custom EXCEPT ![t][u] = None]
             /\ call' = Told(c, next, t, u, "gone")
  /\ UNCHANGED <<workspace, team, roles, invite, seats, history>>

LastTeam_Wrong(u) == TRUE

LastTeam(u) == \A t \in Teams : team[t] = "live" => member[t][u] = None

\* Who is in no team any more loses the seat in the workspace ...
Count(c) ==
  /\ call[c].phase = "count"
  /\ IF LastTeam(call[c].user) THEN Goto(c, "find") ELSE Done(c)
  /\ UNCHANGED <<workspace, team, member, custom, roles, invite, seats, history>>

\* ... which the creator, its owner, does not.
Find(c) ==
  /\ call[c].phase = "find"
  /\ IF call[c].user \in seats \ {Creator}
     THEN call' = [call EXCEPT ![c].phase = "drop", ![c].row = "fresh"] ELSE Done(c)
  /\ UNCHANGED <<workspace, team, member, custom, roles, invite, seats, history>>

\* The row that was found is removed, not one that replaced it.
Drop(c) ==
  /\ call[c].phase = "drop"
  /\ LET u == call[c].user IN
     /\ seats' = IF call[c].row = "gone" THEN seats ELSE seats \ {u}
     /\ call' = [d \in Calls |->
          IF d = c THEN Idle
          ELSE IF call[d].phase = "drop" /\ call[d].user = u
               THEN [call[d] EXCEPT !.row = "gone"] ELSE call[d]]
  /\ UNCHANGED <<workspace, team, member, custom, roles, invite, history>>
-----------------------------------------------------------------------------
(***************************************************************************)
(* Invites.                                                                *)
(***************************************************************************)
Pending(t, u) == \E i \in Invites :
  invite[i].status = "PENDING" /\ invite[i].team = t /\ invite[i].user = u

CheckMember(c) ==
  /\ At(c, "invite", "target")
  /\ IF Target(c) # None THEN Done(c) ELSE Goto(c, "pending")
  /\ UNCHANGED <<workspace, team, member, custom, roles, invite, seats, history>>

CheckPending(c) ==
  /\ call[c].phase = "pending"
  /\ IF Pending(call[c].team, call[c].user) THEN Done(c) ELSE Goto(c, "post")
  /\ UNCHANGED <<workspace, team, member, custom, roles, invite, seats, history>>

Post(c, i, r) ==
  /\ call[c].phase = "post" /\ invite[i].status = "none"
  /\ LET t == call[c].team
         u == call[c].user
     IN invite' = IF Pending(t, u) \/ ~Exists(t) THEN invite
                  ELSE [invite EXCEPT ![i] = [status |-> "PENDING", team |-> t, user |-> u, role |-> r]]
  /\ Done(c)
  /\ UNCHANGED <<workspace, team, member, custom, roles, seats, history>>

\* acceptInvite and rejectInvite load the pending invite.
Answer(c, i, op) ==
  /\ call[c].phase = "idle" /\ invite[i].status = "PENDING"
  /\ call' = [call EXCEPT ![c] =
       [Call(op, "mark", invite[i].team, invite[i].user) EXCEPT
          !.invite = i, !.role = invite[i].role, !.home = team[invite[i].team] = "live"]]
  /\ answered' = IF \E d \in Calls : call[d].phase \in {"mark", "join"} /\ call[d].invite = i
                 THEN [answered EXCEPT ![i] = "contested"] ELSE answered
  /\ UNCHANGED <<workspace, team, member, custom, roles, invite, seats, excused>>

\* The history of invites, with one more answer to i.
Noted(i) ==
  [answered EXCEPT ![i] = CASE @ = "no" -> "once" [] @ = "contested" -> @ [] OTHER -> "again"]

Answered(c) == IF call[c].op = "accept" THEN "ACCEPTED" ELSE "REJECTED"

\* An accepted invite whose team was deleted can be saved when the team is back.
Mark(c) ==
  /\ call[c].phase = "mark"
  /\ LET i == call[c].invite IN
     IF invite[i].status = "deleted" /\ ~(call[c].op = "accept" /\ Exists(call[c].team))
     THEN Done(c) /\ UNCHANGED <<invite, answered>>
     ELSE /\ invite' = [invite EXCEPT ![i].status = Answered(c)]
          /\ IF call[c].op = "accept"
             THEN Goto(c, "join") /\ UNCHANGED answered
             ELSE Done(c) /\ answered' = Noted(i)
  /\ UNCHANGED <<workspace, team, member, custom, roles, seats, excused>>

\* The unique row (team, user) and the foreign key may refuse it.
Join(c) ==
  /\ call[c].phase = "join"
  /\ LET u == call[c].user IN
     IF Target(c) # None \/ ~Exists(call[c].team)
     THEN Done(c) /\ UNCHANGED <<member, answered, excused>>
     ELSE /\ member' = [member EXCEPT ![call[c].team][u] = call[c].role]
          /\ answered' = Noted(call[c].invite)
          /\ excused' = IF \E d \in Calls : call[d].phase \in {"find", "drop"} /\ call[d].user = u
                        THEN excused \cup {u} ELSE excused
          /\ call' = [call EXCEPT ![c] =
               IF @.home THEN Call("accept", "seat", @.team, u) ELSE Idle]
  /\ UNCHANGED <<workspace, team, custom, roles, invite, seats>>
-----------------------------------------------------------------------------
(***************************************************************************)
(* Custom roles.                                                           *)
(***************************************************************************)
BeginAddRole(c, t, a) ==
  /\ call[c].phase = "idle" /\ Permitted(t, a)
  /\ call' = [call EXCEPT ![c] = Call("addRole", "limit", t, Creator)]
  /\ UNCHANGED <<workspace, team, member, custom, roles, invite, seats, history>>

Full_Wrong(t) == Cardinality(roles[t]) > MaxRoles

Full(t) == Cardinality(roles[t]) >= MaxRoles

CountRoles(c) ==
  /\ call[c].phase = "limit"
  /\ IF Full(call[c].team) THEN Done(c) ELSE Goto(c, "insert")
  /\ UNCHANGED <<workspace, team, member, custom, roles, invite, seats, history>>

\* A row or a call has the custom role x.
Known(x) ==
  \/ \E t \in Teams : x \in roles[t]
  \/ \E d \in Calls : call[d].phase # "idle" /\ call[d].custom = x

\* The id is a new one.
InsertRole(c, x) ==
  /\ call[c].phase = "insert" /\ ~Known(x)
  /\ roles' = IF ~Exists(call[c].team) THEN roles
              ELSE [roles EXCEPT ![call[c].team] = @ \cup {x}]
  /\ Done(c)
  /\ UNCHANGED <<workspace, team, member, custom, invite, seats, history>>

\* deleteCustomRole: the actor is read, then the role.
BeginDropRole(c, t, a, x) ==
  /\ call[c].phase = "idle" /\ Permitted(t, a)
  /\ call' = [call EXCEPT ![c] = [Call("dropRole", "target", t, Creator) EXCEPT !.custom = x]]
  /\ UNCHANGED <<workspace, team, member, custom, roles, invite, seats, history>>

FindRole(c) ==
  /\ At(c, "dropRole", "target")
  /\ IF call[c].custom \in roles[call[c].team] THEN Goto(c, "unassign") ELSE Done(c)
  /\ UNCHANGED <<workspace, team, member, custom, roles, invite, seats, history>>

\* The custom roles of the members of t, without x.
Without(t, x) == [custom EXCEPT ![t] = [u \in Users |-> IF @[u] = x THEN None ELSE @[u]]]

Unassign(c) ==
  /\ call[c].phase = "unassign"
  /\ custom' = Without(call[c].team, call[c].custom)
  /\ Goto(c, "unrole")
  /\ UNCHANGED <<workspace, team, member, roles, invite, seats, history>>

\* The foreign key takes it from who was given it in between.
DropRole(c) ==
  /\ call[c].phase = "unrole"
  /\ roles' = [roles EXCEPT ![call[c].team] = @ \ {call[c].custom}]
  /\ custom' = Without(call[c].team, call[c].custom)
  /\ Done(c)
  /\ UNCHANGED <<workspace, team, member, invite, seats, history>>
-----------------------------------------------------------------------------
\* The database fails the call where it stands.
Fail(c) ==
  /\ call[c].phase # "idle"
  /\ Done(c)
  /\ excused' = IF call[c].phase \in {"seat", "sit"} /\ call[c].op = "accept"
                THEN excused \cup {call[c].user} ELSE excused
  /\ UNCHANGED <<workspace, team, member, custom, roles, invite, seats, answered>>

\* TeamManageGuard: the role first, then any permission of the custom role.
Manages(t, a) == member[t][a] \in {"OWNER", "MANAGER"} \/ custom[t][a] # None

\* TeamController: the endpoints of a team and of its invites.
AskTeam(c) ==
  \/ BeginCreate(c)
  \/ \E t \in Teams, a \in Users :
       /\ Manages(t, a)
       /\ \/ BeginUpdate(c, t, a)
          \/ \E u \in Users : BeginManage(c, t, a, u, "invite")
  \/ \E i \in Invites, op \in {"accept", "reject"} : Answer(c, i, op)

\* TeamController: the endpoints of the members and of the custom roles.
AskMember(c) ==
  \E t \in Teams, a \in Users :
    \/ \E u \in Users : BeginRename(c, t, a, u)
    \/ /\ Manages(t, a)
       /\ \/ \E u \in Users, op \in {"role", "assign", "remove"} : BeginManage(c, t, a, u, op)
          \/ BeginAddRole(c, t, a)
          \/ \E x \in CustomRoles : BeginDropRole(c, t, a, x)

Next ==
  \/ \E c \in Calls :
       \/ AskTeam(c) \/ AskMember(c)
       \/ CreateWorkspace(c)
       \/ \E op \in {"list", "mine"} : ListWorkspaces(c, op)
       \/ FindWorkspace(c) \/ CheckSeat(c) \/ Sit(c)
       \/ \E t \in Teams : CreateTeam(c, t)
       \/ Own(c) \/ LoadTeam(c) \/ SaveTeam(c)
       \/ \E r \in TeamRole : LoadForRole(c, r)
       \/ LoadForRename(c) \/ LoadForRemove(c) \/ Store(c) \/ Remove(c)
       \/ \E x \in CustomRoles \cup {None} : LoadForAssign(c, x)
       \/ CheckPolicy(c)
       \/ Count(c) \/ Find(c) \/ Drop(c)
       \/ CheckMember(c) \/ CheckPending(c)
       \/ \E i \in Invites, r \in Invited : Post(c, i, r)
       \/ Mark(c) \/ Join(c)
       \/ CountRoles(c) \/ FindRole(c) \/ Unassign(c) \/ DropRole(c)
       \/ \E x \in CustomRoles : InsertRole(c, x)
       \/ Fail(c)
  \/ \E t \in Teams : DeleteTeam(t)

Spec == Init /\ [][Next]_vars
-----------------------------------------------------------------------------
(***************************************************************************)
(* Properties.                                                             *)
(***************************************************************************)
(* A team of the workspace that has members has its creator, as an owner   *)
(* whom no custom role binds: somebody can always manage it.               *)
OwnerStays ==
  \A t \in Teams : team[t] = "live" /\ (\E u \in Users : member[t][u] # None) =>
    member[t][Creator] = "OWNER" /\ custom[t][Creator] = None

\* Calls that have counted the roles of t and not yet inserted theirs.
Inserting(t) == {c \in Calls : call[c].phase = "insert" /\ call[c].team = t}

(* A team has no more custom roles than the limit and one for each call    *)
(* that may count while another is about to insert.                        *)
RolesBounded ==
  \A t \in Teams : Cardinality(roles[t]) + Cardinality(Inserting(t)) < MaxRoles + Cardinality(Calls)

InTeam(u) == \E t \in Teams : team[t] = "live" /\ member[t][u] # None

Seating(u) == \E c \in Calls :
  call[c].phase \in {"seat", "sit"} /\ call[c].op = "accept" /\ call[c].user = u

(* Who is in a team, the creator of the workspace too even when its first  *)
(* seat was not saved, has a seat in the workspace, or is about to get one, *)
(* unless a removal counted the teams before the user joined, or the       *)
(* acceptance failed half way.                                             *)
SeatsFollowTeams ==
  \A u \in Users \ excused :
    InTeam(u) => u \in seats \/ Seating(u)

(* The role of a member changes when somebody changes it, or when a call   *)
(* saves a row that another has written since it was loaded.               *)
RoleChangesAsked ==
  [][\A t \in Teams, u \in Users :
       None \notin {member[t][u], member'[t][u]} /\ member'[t][u] # member[t][u] =>
         \E c \in Calls : Store(c) /\ (call[c].op = "role" \/ call[c].row = "stale")]_vars

(* An invite is answered once, by joining or declining, unless two answers *)
(* were under way together.                                                *)
AnsweredOnce == \A i \in Invites : answered[i] # "again"

(* createCustomRole, acceptInvite and rejectInvite: the rows fit together, *)
(* the roles of a team stay within the limit and an invite is used once.   *)
Consistent == TypeOK /\ RolesBounded /\ AnsweredOnce
=============================================================================
