---------------------------- MODULE ProjectMembers ----------------------------
(***************************************************************************)
(* ProjectService (src/src/modules/projects) over Calendars: a project is  *)
(* made with everything it starts with, members come, change roles and     *)
(* go, the project is deleted, all without a transaction.                  *)
(*                                                                         *)
(* project_member has a unique key on project and user, channel_member has *)
(* none.  The guards of the controller and the team permission each        *)
(* operation asks for together let in the members of the project who may   *)
(* manage it in the team.  Left out: name, icon and status of a project,   *)
(* its documents (Documents) and first issue (IssueTree), of which the     *)
(* calendar is made here.                                                  *)
(***************************************************************************)
EXTENDS Calendars

CONSTANTS
  Team,         \* the team members
  TeamManagers, \* those with the project permissions
  Boards        \* the states a run may start from

ASSUME TeamAssumption == TeamManagers \subseteq Team /\ Team \subseteq Users

(* A state a run may start from: what the properties ask of one in which   *)
(* nobody is at work.                                                      *)
Board ==
  [project : BOOLEAN, role : [Users -> Roles \cup {None}],
   calendar : [CalendarIds -> {None} \cup Calendar], attendees : [CalendarIds -> SUBSET Users],
   category : [CategoryIds -> {None} \cup Category], event : [EventIds -> {None} \cup Event]]

Empty(b) ==
  /\ \A u \in Users : b.role[u] = None
  /\ \A c \in CalendarIds : b.calendar[c] = None
  /\ \A k \in CategoryIds : b.category[k] = None
  /\ \A e \in EventIds : b.event[e] = None

On(b, type) == {c \in CalendarIds : b.calendar[c] # None /\ b.calendar[c].active /\ b.calendar[c].type = type}

ASSUME BoardsAssumption ==
  \A b \in Boards :
    /\ b \in Board /\ (~b.project => Empty(b))
    /\ Cardinality(On(b, "TEAM")) <= TeamLimit
    /\ \A c \in CalendarIds :
         IF b.calendar[c] = None THEN b.attendees[c] = {}
         ELSE \E k \in CategoryIds : b.category[k] = [calendar |-> c, default |-> TRUE, active |-> TRUE]
    /\ \A k \in CategoryIds : b.category[k] # None /\ b.category[k].default => b.category[k].active
    /\ \A c, d \in On(b, "PERSONAL") :
         b.role[b.calendar[c].owner] # None /\ (b.calendar[c].owner = b.calendar[d].owner => c = d)
    /\ \A e \in EventIds : b.event[e] # None => b.role[b.event[e].by] # None

VARIABLES
  channel,    \* channel_member of the default channel
  hasChannel, \* whether the default channel is there
  favorites   \* project_favorite: unique by project and user

projectVars == <<channel, hasChannel, favorites>>
vars == <<calendarVars, projectVars>>

ProjectTypeOK == TypeOK /\ channel \subseteq Users /\ hasChannel \in BOOLEAN /\ favorites \subseteq Users

Init ==
  /\ \E b \in Boards :
       /\ project = b.project /\ hasChannel = b.project
       /\ role = b.role /\ channel = {u \in Users : b.role[u] # None}
       /\ calendar = b.calendar /\ attendees = b.attendees /\ category = b.category /\ event = b.event
       /\ folders = IF b.project THEN 1 ELSE 0
  /\ request = [r \in Requests |-> Idle] /\ starts = 0
  /\ favorites = {} /\ crossed = {} /\ bare = {} /\ uncounted = {}

\* ProjectAccessGuard, ProjectManageGuard and hasTeamPermission
MayManage(u) == project /\ Member(u) /\ u \in TeamManagers

Begin(r, q) == Starts(r, q) /\ UNCHANGED projectVars

-----------------------------------------------------------------------------
(* createProject, and cloneProject, which creates from the row of another  *)
(* project and selects nobody.                                             *)

NewProject(r, u, selected) ==
  /\ ~project /\ starts = 0 /\ u \in TeamManagers
  /\ Begin(r, [Request("createProject", "project", u, Users) EXCEPT !.todo = selected \cap Team])

CreateProject(r) == \E u \in Users, selected \in SUBSET Users : NewProject(r, u, selected)

CloneProject(r) == \E u \in Users : NewProject(r, u, {})

SaveNewProject(r) ==
  /\ At(r, "project")
  /\ project' = TRUE
  /\ To(r, "owner")
  /\ UNCHANGED <<role, tables, starts, history, projectVars>>

SeatOwner(r) ==
  /\ Writes(r, "owner")
  /\ role' = [role EXCEPT ![request[r].by] = "OWNER"]
  /\ To(r, "seats")
  /\ UNCHANGED <<project, tables, starts, history, projectVars>>

\* One after the other; a user who has a row is passed over.
Unseated(q) == {u \in q.todo : ~Member(u)}

SeatSelected(r) ==
  /\ Writes(r, "seats")
  /\ LET left == Unseated(request[r])
     IN IF left = {} THEN To(r, "channel") /\ UNCHANGED role
        ELSE role' = [role EXCEPT ![OneOf(left)] = "MEMBER"] /\ UNCHANGED request
  /\ UNCHANGED <<project, tables, starts, history, projectVars>>

NewChannel(r) ==
  /\ Writes(r, "channel")
  /\ hasChannel' = TRUE
  /\ To(r, "joins")
  /\ UNCHANGED <<project, role, tables, starts, history, channel, favorites>>

Unjoined(q) == ({q.by} \cup q.todo) \ channel

JoinSelected(r) ==
  /\ Writes(r, "joins")
  /\ LET left == Unjoined(request[r])
     IN IF left = {} THEN To(r, "base") /\ UNCHANGED channel
        ELSE channel' = channel \cup {OneOf(left)} /\ UNCHANGED request
  /\ UNCHANGED <<project, role, tables, starts, history, hasChannel, favorites>>

\* Folder, TEAM calendar, its owner's row, its categories, of which one is kept here.
\* Nothing counts: somebody may have made TEAM calendars since the owner got a seat.
NewBaseCalendar(r) ==
  /\ Writes(r, "base") /\ Fresh(calendar) # {}
  /\ LET c == NewId(calendar)
     IN /\ calendar' = [calendar EXCEPT ![c] = [type |-> "TEAM", owner |-> request[r].by, active |-> TRUE]]
        /\ Goes(r, [request[r] EXCEPT !.pc = "baseMember", !.id = c])
        /\ bare' = bare \cup {c}
        /\ uncounted' = IF TeamCalendars = {} /\ \A s \in Requests : ~TeamCreation(request[s])
                        THEN uncounted ELSE uncounted \cup {c}
  /\ folders' = folders + 1
  /\ UNCHANGED <<project, role, attendees, category, event, starts, crossed, projectVars>>

SeatBaseOwner(r) ==
  /\ Fills(r, "baseMember")
  /\ attendees' = [attendees EXCEPT ![request[r].id] = @ \cup {request[r].by}]
  /\ To(r, "baseCategory")
  /\ UNCHANGED <<project, role, calendar, category, event, folders, starts, history, projectVars>>

NewBaseCategory(r) ==
  /\ Fills(r, "baseCategory") /\ Fresh(category) # {}
  /\ category' = NewIn(category, NewDefaultCategory(request[r].id))
  /\ bare' = bare \ {request[r].id}
  /\ Goes(r, [request[r] EXCEPT !.pc = "firstEvent", !.row = NewId(category)])
  /\ UNCHANGED <<project, role, calendar, attendees, event, folders, starts, crossed, uncounted, projectVars>>

\* createEvent checks that the creator is still a member and the category there, then the
\* personal calendars follow.
FirstEvent(r) ==
  /\ Fills(r, "firstEvent") /\ Fresh(event) # {}
  /\ LET q == request[r]
     IN IF Access(q.by, q.id) /\ q.row \in CategoriesOf(q.id)
        THEN /\ event' = NewIn(event, [calendar |-> q.id, category |-> q.row, by |-> q.by])
             /\ Goes(r, [q EXCEPT !.pc = "personal", !.who = q.by, !.id = None, !.row = None])
             /\ UNCHANGED crossed
        ELSE Goes(r, Idle) /\ crossed' = crossed \cup q.about /\ UNCHANGED event
  /\ UNCHANGED <<project, role, calendar, attendees, category, folders, starts, bare, uncounted, projectVars>>

-----------------------------------------------------------------------------
(* Members *)

\* The channels are loaded with the project: todo tells whether there is a default one to join.
AddProjectMember(r) ==
  \E a \in Users, u \in Team, rl \in Roles :
    /\ MayManage(a) /\ ~Member(u)
    /\ Begin(r, [Request("addMember", "seat", a, {u}) EXCEPT
                  !.who = u, !.row = rl, !.todo = IF hasChannel THEN {u} ELSE {}])

\* The unique key refuses a second row, and ends the request.
SeatMember(r) ==
  /\ Writes(r, "seat") /\ ~Member(request[r].who)
  /\ role' = [role EXCEPT ![request[r].who] = request[r].row]
  /\ To(r, IF request[r].todo # {} THEN "join" ELSE "personal")
  /\ UNCHANGED <<project, tables, starts, history, projectVars>>

JoinChannel(r) ==
  /\ Writes(r, "join") /\ hasChannel
  /\ channel' = channel \cup {request[r].who}
  /\ Goes(r, [request[r] EXCEPT !.pc = "personal", !.todo = {}])
  /\ UNCHANGED <<project, role, tables, starts, history, hasChannel, favorites>>

UpdateMemberRole(r) ==
  \E a, u \in Users, rl \in Roles :
    /\ MayManage(a) /\ Member(u)
    /\ Begin(r, [Request("updateRole", "saveRole", a, {u}) EXCEPT !.who = u, !.row = rl])

\* The loaded row is saved: a member removed meanwhile is one again.
SaveRole(r) ==
  /\ Writes(r, "saveRole")
  /\ role' = [role EXCEPT ![request[r].who] = request[r].row]
  /\ Goes(r, Idle)
  /\ UNCHANGED <<project, tables, starts, history, projectVars>>

RemoveMember(r) ==
  \E a, u \in Users :
    /\ MayManage(a) /\ Member(u)
    /\ Begin(r, [Request("removeMember", "findPersonals", a, {u}) EXCEPT !.who = u])

\* The active personal calendars are loaded, then saved one after the other as they were then.
FindPersonals(r) ==
  /\ At(r, "findPersonals")
  /\ Goes(r, [request[r] EXCEPT !.pc = "deactivate", !.row = Personal(request[r].who)])
  /\ UNCHANGED <<project, role, tables, starts, history, projectVars>>

\* Mutant: they stay active
DeactivatePersonal_Wrong(r) ==
  /\ Writes(r, "deactivate")
  /\ To(r, "purge")
  /\ UNCHANGED <<project, role, tables, starts, history, projectVars>>

DeactivatePersonal(r) ==
  /\ At(r, "deactivate")
  /\ LET q == request[r]
     IN IF q.row = {} THEN To(r, "purge") /\ UNCHANGED <<calendar, bare>>
        ELSE /\ project
             /\ \E c \in q.row :
                  /\ calendar' = [calendar EXCEPT ![c] = [type |-> "PERSONAL", owner |-> q.who, active |-> FALSE]]
                  /\ bare' = IF calendar[c] = None THEN bare \cup {c} ELSE bare
                  /\ Goes(r, [q EXCEPT !.row = @ \ {c}])
  /\ UNCHANGED <<project, role, attendees, category, event, folders, starts, crossed, uncounted, projectVars>>

PurgeEvents(r) ==
  /\ At(r, "purge")
  /\ event' = [e \in EventIds |-> IF event[e] # None /\ event[e].by = request[r].who THEN None ELSE event[e]]
  /\ To(r, "unseat")
  /\ UNCHANGED <<project, role, calendar, attendees, category, folders, starts, history, projectVars>>

\* The row goes; the membership of the channel and of other calendars stays.
Unseat(r) ==
  /\ At(r, "unseat")
  /\ role' = [role EXCEPT ![request[r].who] = None]
  /\ Goes(r, Idle)
  /\ UNCHANGED <<project, tables, starts, history, projectVars>>

-----------------------------------------------------------------------------
(* The project itself *)

UpdateProject(r) == \E a \in Users : MayManage(a) /\ Begin(r, Request("updateProject", "saveProject", a, {}))

\* A project deleted meanwhile is inserted again, without anything in it.
SaveProject(r) ==
  /\ At(r, "saveProject")
  /\ project' = TRUE
  /\ Goes(r, Idle)
  /\ UNCHANGED <<role, tables, starts, history, projectVars>>

DeleteProject(r) == \E a \in Users : MayManage(a) /\ Begin(r, Request("deleteProject", "unjoin", a, Users))

DeleteChannelMembers(r) ==
  /\ At(r, "unjoin")
  /\ channel' = {}
  /\ To(r, "drop")
  /\ UNCHANGED <<project, role, tables, starts, history, hasChannel, favorites>>

\* Foreign keys take every row of the project with it; a channel member come since stops it.
DropProject(r) ==
  /\ At(r, "drop") /\ channel = {}
  /\ project' = FALSE /\ hasChannel' = FALSE /\ favorites' = {}
  /\ role' = [u \in Users |-> None]
  /\ calendar' = [c \in CalendarIds |-> None] /\ attendees' = [c \in CalendarIds |-> {}]
  /\ category' = [k \in CategoryIds |-> None] /\ event' = [e \in EventIds |-> None]
  /\ folders' = 0
  /\ bare' = {} /\ uncounted' = {}
  /\ Goes(r, Idle)
  /\ UNCHANGED <<starts, crossed, channel>>

AddFavorite(r) ==
  \E u \in Users : project /\ Member(u) /\ u \notin favorites /\ Begin(r, Request("favorite", "favorite", u, {}))

InsertFavorite(r) ==
  /\ Writes(r, "favorite") /\ request[r].by \notin favorites
  /\ favorites' = favorites \cup {request[r].by}
  /\ Goes(r, Idle)
  /\ UNCHANGED <<project, role, tables, starts, history, channel, hasChannel>>

RemoveFavorite(r) ==
  \E u \in favorites :
    /\ Member(u) /\ Free(r)
    /\ starts' = starts + 1
    /\ favorites' = favorites \ {u}
    /\ UNCHANGED <<project, role, tables, request, history, channel, hasChannel>>

-----------------------------------------------------------------------------
Ask(r) ==
  \/ CreateProject(r) \/ CloneProject(r) \/ AddProjectMember(r) \/ UpdateMemberRole(r) \/ RemoveMember(r)
  \/ UpdateProject(r) \/ DeleteProject(r) \/ AddFavorite(r) \/ RemoveFavorite(r)
  \/ AskCalendar(r) /\ project /\ UNCHANGED projectVars

Handle(r) ==
  \/ SaveNewProject(r) \/ SeatOwner(r) \/ SeatSelected(r) \/ NewChannel(r) \/ JoinSelected(r)
  \/ NewBaseCalendar(r) \/ SeatBaseOwner(r) \/ NewBaseCategory(r) \/ FirstEvent(r)
  \/ SeatMember(r) \/ JoinChannel(r) \/ SaveRole(r)
  \/ FindPersonals(r) \/ DeactivatePersonal(r) \/ PurgeEvents(r) \/ Unseat(r)
  \/ SaveProject(r) \/ DeleteChannelMembers(r) \/ DropProject(r) \/ InsertFavorite(r)
  \/ HandleCalendar(r) /\ UNCHANGED projectVars

Next == \E r \in Requests : (Free(r) /\ Ask(r)) \/ Handle(r)

Spec == Init /\ [][Next]_vars

-----------------------------------------------------------------------------
(* Properties *)

Quiet == Busy = {}

(* addProjectMember, removeMember, createProject: once every request has   *)
(* ended, a member of the project is in its default channel (a project     *)
(* that was deleted and saved again has none) and has one personal         *)
(* calendar at most, and a user who is no member has none active and no    *)
(* event, but of issues; except for users two requests were about at once  *)
(* (making or deleting the project is about them all) or one that failed   *)
(* half way. (That a member may have none is updateCalendar's doing, until *)
(* getCalendars makes another.)                                            *)
MembershipFollows ==
  Quiet =>
    \A u \in Users \ crossed :
      /\ Member(u) => (hasChannel => u \in channel) /\ Cardinality(Personal(u)) <= 1
      /\ ~Member(u) => Personal(u) = {} /\ \A e \in EventIds : event[e] # None => event[e].by # u

(* createProject, deleteProject and createCalendar: the rows fit together  *)
(* and the TEAM calendars stay within the limit.                           *)
Consistent == ProjectTypeOK /\ TeamCalendarsBounded
=============================================================================
