------------------------------ MODULE Calendars ------------------------------
(***************************************************************************)
(* CalendarService (src/src/modules/calendar): the calendars of a project, *)
(* their members, categories and events, await by await.                   *)
(*                                                                         *)
(* A request checks who asks, reads what it needs and writes an await      *)
(* later.  A whole loaded row is saved: columns that changed meanwhile are *)
(* written back, a row that is gone is inserted again.  Calendars,         *)
(* categories and folders are never deleted but marked inactive.  No       *)
(* unique key stops a second personal calendar.                            *)
(*                                                                         *)
(* There is one project; ProjectMembers adds who is in it.  Names, colours *)
(* and times are left out, of the folders all but their number, and the    *)
(* events of issues (IssueTree), though not the calendar and category they *)
(* are put in.  Rows without a calendar, which ensureDefaultCalendar would *)
(* adopt, are never written.                                               *)
(***************************************************************************)
EXTENDS Integers, FiniteSets

CONSTANTS
  Users,
  CalendarIds, CategoryIds, EventIds,
  Requests,      \* requests the server can have in progress at once
  TeamLimit,     \* TEAM calendars a project may have (5 in the code)
  MaxStarts,     \* bound: requests of a run
  None

ASSUME FiniteAssumption == IsFiniteSet(Users) /\ IsFiniteSet(CalendarIds)
ASSUME BoundAssumption == TeamLimit \in Nat \ {0} /\ MaxStarts \in Nat

VARIABLES
  project,   \* whether the row of the project is there
  role,      \* project_member: the role of each user, None for no row
  calendar,  \* the calendar rows
  attendees, \* calendar_member: who is listed for each calendar
  category, event,
  folders,   \* active folders
  request,   \* the requests in progress
  starts,    \* requests begun so far
  crossed,   \* history: users two requests were about at once, or one that failed
  bare,      \* history: calendars that were not given a default category
  uncounted  \* history: TEAM calendars no count stood in the way of

tables == <<calendar, attendees, category, event, folders>>
history == <<crossed, bare, uncounted>>
calendarVars == <<project, role, tables, request, starts, history>>

Roles == {"OWNER", "MANAGER", "MEMBER"}
Types == {"TEAM", "PRIVATE", "PERSONAL"}

Calendar == [type : Types, owner : Users, active : BOOLEAN]
Category == [calendar : CalendarIds, default : BOOLEAN, active : BOOLEAN]
Event == [calendar : CalendarIds, category : CategoryIds, by : Users]

ASSUME NoneAssumption ==
  None \notin Users \cup CalendarIds \cup CategoryIds \cup EventIds \cup Roles \cup Calendar \cup Category \cup Event

Idle == [pc |-> "idle"]

\* A request of user by; about are the users whose membership or personal calendar it reads or
\* changes, who the one it is at, todo those still to come; id names a row, row is what will be
\* saved there, or the rows found, ids are the members asked for (None: not mentioned); alone tells
\* that no other TEAM calendar was being created when this one counted them.
Request(op, pc, by, about) ==
  [op |-> op, pc |-> pc, by |-> by, about |-> about, who |-> by, todo |-> {}, id |-> None, row |-> None,
   ids |-> {}, alone |-> TRUE]

TypeOK ==
  /\ project \in BOOLEAN
  /\ role \in [Users -> Roles \cup {None}]
  /\ calendar \in [CalendarIds -> {None} \cup Calendar]
  /\ attendees \in [CalendarIds -> SUBSET Users]
  /\ category \in [CategoryIds -> {None} \cup Category]
  /\ event \in [EventIds -> {None} \cup Event]
  /\ folders \in Nat /\ starts \in 0..MaxStarts
  /\ \A c \in CalendarIds : calendar[c] = None => attendees[c] = {}
  /\ \A r \in Requests : request[r] # Idle => request[r].by \in Users /\ request[r].about \subseteq Users
  /\ crossed \subseteq Users /\ bare \subseteq CalendarIds /\ uncounted \subseteq CalendarIds

-----------------------------------------------------------------------------
(* Who may do what *)

Member(u) == role[u] # None
Manager(u) == role[u] \in {"OWNER", "MANAGER"}

Active == {c \in CalendarIds : calendar[c] # None /\ calendar[c].active}
Personal(u) == {c \in Active : calendar[c].type = "PERSONAL" /\ calendar[c].owner = u}
TeamCalendars == {c \in Active : calendar[c].type = "TEAM"}
CategoriesOf(c) == {k \in CategoryIds : category[k] # None /\ category[k].calendar = c /\ category[k].active}

\* checkCalendarAccess
Access(u, c) ==
  c \in Active /\ Member(u) /\ (calendar[c].type = "TEAM" \/ calendar[c].owner = u \/ u \in attendees[c])

\* canManageCalendar
CanManage(u, c) == c \in Active /\ Member(u) /\ (calendar[c].owner = u \/ Manager(u))

-----------------------------------------------------------------------------
(* How a request begins, goes on and ends *)

Busy == {r \in Requests : request[r] # Idle}
At(r, pc) == request[r] # Idle /\ request[r].pc = pc
Goes(r, q) == request' = [request EXCEPT ![r] = q]
To(r, pc) == Goes(r, [request[r] EXCEPT !.pc = pc])

Free(r) == request[r] = Idle /\ starts < MaxStarts

Starts(r, q) ==
  /\ Free(r)
  /\ starts' = starts + 1
  /\ Goes(r, q)
  /\ crossed' = crossed \cup UNION {request[s].about \cap q.about : s \in Busy}
  /\ UNCHANGED <<project, role, tables, bare, uncounted>>

\* A row of the project can only be written while the project is there, one of a calendar while that is.
Writes(r, pc) == At(r, pc) /\ project
Fills(r, pc) == Writes(r, pc) /\ calendar[request[r].id] # None

OneOf(S) == CHOOSE x \in S : TRUE

\* A new row gets a UUID that no row has, nor any request in hand. (That one is left is a bound.)
Fresh(table) == {x \in DOMAIN table : table[x] = None /\ \A r \in Busy : request[r].id # x}
NewId(table) == OneOf(Fresh(table))
NewIn(table, row) == [table EXCEPT ![NewId(table)] = row]

\* The awaits between a calendar and its default category.
Making == {"ownMember", "extras", "newCategory"}

\* A query fails, or the project is gone: the request ends and what it wrote stays.
Fail(r) ==
  /\ request[r] # Idle
  /\ Goes(r, Idle)
  /\ crossed' = crossed \cup request[r].about
  /\ bare' = IF request[r].pc \in Making THEN bare \cup {request[r].id} ELSE bare
  /\ UNCHANGED <<project, role, tables, starts, uncounted>>

-----------------------------------------------------------------------------
(* getCalendars, ensurePersonalCalendar and ensureDefaultCalendar *)

GetCalendars(r) == \E u \in Users : Member(u) /\ Starts(r, Request("getCalendars", "personal", u, {u}))

\* What follows the personal calendar of request[r].who.
Ensured(q) ==
  CASE q.op = "getCalendars" -> [q EXCEPT !.pc = "default"]
    [] q.todo # {} -> LET u == OneOf(q.todo) IN [q EXCEPT !.pc = "personal", !.who = u, !.todo = @ \ {u}]
    [] q.op = "createProject" /\ q.todo = {} -> [q EXCEPT !.pc = "issueCalendar", !.who = q.by]
    [] OTHER -> Idle

FindPersonal(r) ==
  /\ At(r, "personal")
  /\ Goes(r, IF Personal(request[r].who) # {} THEN Ensured(request[r]) ELSE [request[r] EXCEPT !.pc = "newPersonal"])
  /\ UNCHANGED <<project, role, tables, starts, history>>

\* A calendar, then its owner's row, then its category.
SaveNewCalendar(r, c, type, owner) ==
  /\ calendar' = [calendar EXCEPT ![c] = [type |-> type, owner |-> owner, active |-> TRUE]]
  /\ Goes(r, [request[r] EXCEPT !.pc = "ownMember", !.id = c, !.row = type, !.who = owner])

NewPersonal(r) ==
  /\ Writes(r, "newPersonal") /\ Fresh(calendar) # {}
  /\ SaveNewCalendar(r, NewId(calendar), "PERSONAL", request[r].who)
  /\ UNCHANGED <<project, role, attendees, category, event, folders, starts, history>>

\* When no calendar is active a TEAM calendar is made, without a category.
EnsureDefault(r) ==
  /\ At(r, "default")
  /\ IF Active # {} THEN Goes(r, Idle) ELSE To(r, "newDefault")
  /\ UNCHANGED <<project, role, tables, starts, history>>

NewDefaultCalendar(r) ==
  /\ Writes(r, "newDefault") /\ Fresh(calendar) # {}
  /\ LET c == NewId(calendar)
     IN /\ SaveNewCalendar(r, c, "TEAM", request[r].by)
        /\ bare' = bare \cup {c} /\ uncounted' = uncounted \cup {c}
  /\ folders' = IF folders = 0 THEN 1 ELSE folders
  /\ UNCHANGED <<project, role, attendees, category, event, starts, crossed>>

OwnMember(r) ==
  /\ Fills(r, "ownMember")
  /\ LET q == request[r]
     IN /\ attendees' = [attendees EXCEPT ![q.id] = @ \cup {q.who}]
        /\ CASE q.op = "getCalendars" /\ q.row = "TEAM" -> Goes(r, Idle)
             [] q.op = "createCalendar" /\ q.ids # {} -> To(r, "extras")
             [] OTHER -> To(r, "newCategory")
  /\ UNCHANGED <<project, role, calendar, category, event, folders, starts, history>>

NewDefaultCategory(c) == [calendar |-> c, default |-> TRUE, active |-> TRUE]

NewCategory(r) ==
  /\ Fills(r, "newCategory") /\ Fresh(category) # {}
  /\ category' = NewIn(category, NewDefaultCategory(request[r].id))
  /\ Goes(r, IF request[r].op = "createCalendar" THEN Idle ELSE Ensured(request[r]))
  /\ UNCHANGED <<project, role, calendar, attendees, event, folders, starts, history>>

-----------------------------------------------------------------------------
(* createEventFromIssue, called when an issue gets its dates: the          *)
(* calendar and the category of the issue board are found by their names,  *)
(* which anybody may have given or changed, or made.                       *)

\* The issue is the board's of its creator u, who may have left the project since.
IssueDated(r) == \E u \in Users : Starts(r, Request("issue", "issueCalendar", u, {}))

FindIssueCalendar(r) ==
  /\ At(r, "issueCalendar")
  /\ \/ \E c \in Active : Goes(r, [request[r] EXCEPT !.pc = "issueCategory", !.id = c])
     \/ To(r, "newIssueCalendar")
  /\ UNCHANGED <<project, role, tables, starts, history>>

\* One more TEAM calendar, which nothing counts and which gets no default category.
NewIssueCalendar(r) ==
  /\ Writes(r, "newIssueCalendar") /\ Fresh(calendar) # {}
  /\ LET c == NewId(calendar)
     IN /\ calendar' = [calendar EXCEPT ![c] = [type |-> "TEAM", owner |-> request[r].who, active |-> TRUE]]
        /\ Goes(r, [request[r] EXCEPT !.pc = "issueMember", !.id = c])
        /\ bare' = bare \cup {c} /\ uncounted' = uncounted \cup {c}
  /\ folders' = IF folders = 0 THEN 1 ELSE folders
  /\ UNCHANGED <<project, role, attendees, category, event, starts, crossed>>

SeatIssueOwner(r) ==
  /\ Fills(r, "issueMember")
  /\ attendees' = [attendees EXCEPT ![request[r].id] = @ \cup {request[r].who}]
  /\ To(r, "issueCategory")
  /\ UNCHANGED <<project, role, calendar, category, event, folders, starts, history>>

FindIssueCategory(r) ==
  /\ At(r, "issueCategory")
  /\ \/ CategoriesOf(request[r].id) # {} /\ Goes(r, Idle)
     \/ To(r, "newIssueCategory")
  /\ UNCHANGED <<project, role, tables, starts, history>>

NewIssueCategory(r) ==
  /\ Fills(r, "newIssueCategory") /\ Fresh(category) # {}
  /\ category' = NewIn(category, [calendar |-> request[r].id, default |-> FALSE, active |-> TRUE])
  /\ Goes(r, Idle)
  /\ UNCHANGED <<project, role, calendar, attendees, event, folders, starts, history>>

-----------------------------------------------------------------------------
(* Calendars *)

TeamCreation(q) == q # Idle /\ q.op = "createCalendar" /\ q.row = "TEAM"

\* Mutant: the limit itself is let through
CreateCalendar_Wrong(r) ==
  \E u \in Users, type \in {"TEAM", "PRIVATE"}, ids \in SUBSET Users :
    /\ Manager(u)
    /\ type = "TEAM" => Cardinality(TeamCalendars) <= TeamLimit /\ ids = {}
    /\ Starts(r, [Request("createCalendar", "newCalendar", u, {}) EXCEPT
                    !.row = type, !.ids = ids, !.alone = \A s \in Requests : ~TeamCreation(request[s])])

CreateCalendar(r) ==
  \E u \in Users, type \in {"TEAM", "PRIVATE"}, ids \in SUBSET Users :
    /\ Manager(u)
    /\ type = "TEAM" => Cardinality(TeamCalendars) < TeamLimit /\ ids = {}
    /\ Starts(r, [Request("createCalendar", "newCalendar", u, {}) EXCEPT
                    !.row = type, !.ids = ids, !.alone = \A s \in Requests : ~TeamCreation(request[s])])

NewCalendar(r) ==
  /\ Writes(r, "newCalendar") /\ Fresh(calendar) # {}
  /\ LET q == request[r]
         c == NewId(calendar)
     IN /\ SaveNewCalendar(r, c, q.row, q.by)
        /\ uncounted' = IF q.row = "TEAM" /\ ~q.alone THEN uncounted \cup {c} ELSE uncounted
  /\ folders' = IF folders = 0 THEN 1 ELSE folders
  /\ UNCHANGED <<project, role, attendees, category, event, starts, crossed, bare>>

\* validateMemberIds
ValidMembers(ids) == \A u \in ids : Member(u)

\* One who is no member of the project ends the request, whose calendar stays.
AddExtras(r) ==
  /\ Fills(r, "extras")
  /\ LET q == request[r]
         valid == ValidMembers(q.ids)
     IN /\ attendees' = IF valid THEN [attendees EXCEPT ![q.id] = @ \cup q.ids] ELSE attendees
        /\ bare' = IF valid THEN bare ELSE bare \cup {q.id}
        /\ IF valid THEN To(r, "newCategory") ELSE Goes(r, Idle)
  /\ UNCHANGED <<project, role, calendar, category, event, folders, starts, crossed, uncounted>>

Holder(c) == IF calendar[c].type = "PERSONAL" THEN {calendar[c].owner} ELSE {}

\* The type changes for managers only, and never to PERSONAL; nothing counts TEAM calendars here.
UpdateCalendar(r) ==
  \E u \in Users, c \in CalendarIds, ids \in (SUBSET Users) \cup {None} :
    /\ CanManage(u, c)
    /\ \E type \in {calendar[c].type} \cup (IF Manager(u) THEN {"TEAM", "PRIVATE"} ELSE {}) :
         /\ type # "PRIVATE" => ids = None
         /\ Starts(r, [Request("updateCalendar", "saveCalendar", u, Holder(c)) EXCEPT
                         !.id = c, !.row = [calendar[c] EXCEPT !.type = type], !.ids = ids])

DeleteCalendar(r) ==
  \E u \in Users, c \in CalendarIds :
    /\ CanManage(u, c) /\ calendar[c].type # "PERSONAL"
    /\ Starts(r, [Request("deleteCalendar", "saveCalendar", u, {}) EXCEPT
                    !.id = c, !.row = [calendar[c] EXCEPT !.active = FALSE]])

\* A calendar that went with its project is inserted again, without its categories.
SaveCalendar(r) ==
  /\ Writes(r, "saveCalendar")
  /\ LET q == request[r]
         isTeam == q.row.active /\ q.row.type = "TEAM"
     IN /\ calendar' = [calendar EXCEPT ![q.id] = q.row]
        /\ uncounted' = IF isTeam /\ q.id \notin TeamCalendars THEN uncounted \cup {q.id} ELSE uncounted
        /\ bare' = IF calendar[q.id] = None THEN bare \cup {q.id} ELSE bare
        /\ IF q.op = "updateCalendar" /\ q.row.type = "PRIVATE" /\ q.ids # None THEN To(r, "members") ELSE Goes(r, Idle)
  /\ UNCHANGED <<project, role, attendees, category, event, folders, starts, crossed>>

\* The list becomes the members asked for; of the others only the one who asks stays.
ReplaceMembers(r) ==
  /\ Fills(r, "members")
  /\ LET q == request[r]
     IN attendees' = IF ValidMembers(q.ids)
                     THEN [attendees EXCEPT ![q.id] = (@ \cap ({q.by} \cup q.ids)) \cup (q.ids \ {q.by})]
                     ELSE attendees
  /\ Goes(r, Idle)
  /\ UNCHANGED <<project, role, calendar, category, event, folders, starts, history>>

-----------------------------------------------------------------------------
(* Folders: anybody in the project makes one, the oldest stays. *)

CreateFolder(r) == \E u \in Users : Member(u) /\ Starts(r, Request("createFolder", "newFolder", u, {}))

NewFolder(r) ==
  /\ Writes(r, "newFolder")
  /\ folders' = folders + 1
  /\ Goes(r, Idle)
  /\ UNCHANGED <<project, role, calendar, attendees, category, event, starts, history>>

\* canManageFolder asks for a manager or the one who made the folder, which is not kept here.
DeleteFolder(r) == \E u \in Users : Member(u) /\ folders > 1 /\ Starts(r, Request("deleteFolder", "dropFolder", u, {}))

DropFolder(r) ==
  /\ Writes(r, "dropFolder")
  /\ folders' = IF folders > 1 THEN folders - 1 ELSE folders
  /\ Goes(r, Idle)
  /\ UNCHANGED <<project, role, calendar, attendees, category, event, starts, history>>

-----------------------------------------------------------------------------
(* Events and categories *)

CreateEvent(r) ==
  \E u \in Users, k \in CategoryIds :
    /\ category[k] # None /\ category[k].active /\ Access(u, category[k].calendar)
    /\ Starts(r, [Request("createEvent", "newEvent", u, {u}) EXCEPT
                    !.row = [calendar |-> category[k].calendar, category |-> k, by |-> u]])

\* Foreign keys: the row is refused when its category or calendar is gone.
Holds(row) == calendar[row.calendar] # None /\ category[row.category] # None

NewEvent(r) ==
  /\ Writes(r, "newEvent") /\ Holds(request[r].row) /\ Fresh(event) # {}
  /\ event' = NewIn(event, request[r].row)
  /\ Goes(r, Idle)
  /\ UNCHANGED <<project, role, calendar, attendees, category, folders, starts, history>>

\* A category brings its calendar with it, a calendar alone leaves the category where it was.
UpdateEvent(r) ==
  \E u \in Users, e \in EventIds, c \in CalendarIds :
    /\ event[e] # None /\ Access(u, c)
    /\ \E row \in {[event[e] EXCEPT !.calendar = c]}
                   \cup (IF c # event[e].calendar THEN {}
                         ELSE {[event[e] EXCEPT !.category = k, !.calendar = category[k].calendar] :
                                 k \in {j \in CategoryIds : category[j] # None /\ category[j].active}}) :
         Starts(r, [Request("updateEvent", "saveEvent", u, {u, event[e].by}) EXCEPT !.id = e, !.row = row])

DeleteEvent(r) ==
  \E u \in Users, e \in EventIds :
    /\ event[e] # None /\ Access(u, event[e].calendar)
    /\ Starts(r, [Request("deleteEvent", "saveEvent", u, {}) EXCEPT !.id = e])

SaveEvent(r) ==
  /\ Writes(r, "saveEvent") /\ (request[r].row # None => Holds(request[r].row))
  /\ event' = [event EXCEPT ![request[r].id] = request[r].row]
  /\ Goes(r, Idle)
  /\ UNCHANGED <<project, role, calendar, attendees, category, folders, starts, history>>

\* getCategories makes a default category for a calendar without any.
GetCategories(r) ==
  \E u \in Users, c \in CalendarIds :
    /\ Access(u, c) /\ CategoriesOf(c) = {}
    /\ Starts(r, [Request("createCategory", "addCategory", u, {}) EXCEPT !.row = NewDefaultCategory(c)])

CreateCategory(r) ==
  \E u \in Users, c \in CalendarIds :
    /\ CanManage(u, c)
    /\ Starts(r, [Request("createCategory", "addCategory", u, {}) EXCEPT
                    !.row = [calendar |-> c, default |-> FALSE, active |-> TRUE]])

AddCategory(r) ==
  /\ Writes(r, "addCategory") /\ calendar[request[r].row.calendar] # None /\ Fresh(category) # {}
  /\ category' = NewIn(category, request[r].row)
  /\ bare' = IF request[r].row.default THEN bare \ {request[r].row.calendar} ELSE bare
  /\ Goes(r, Idle)
  /\ UNCHANGED <<project, role, calendar, attendees, event, folders, starts, crossed, uncounted>>

\* Both save the category as it was loaded, an inactive one included; the default one stays.
UpdateCategory(r) ==
  \E u \in Users, k \in CategoryIds :
    /\ category[k] # None /\ CanManage(u, category[k].calendar)
    /\ Starts(r, [Request("updateCategory", "saveCategory", u, {}) EXCEPT !.id = k, !.row = category[k]])

\* Mutant: the default category goes like any other
DeleteCategory_Wrong(r) ==
  \E u \in Users, k \in CategoryIds :
    /\ category[k] # None /\ CanManage(u, category[k].calendar)
    /\ Starts(r, [Request("deleteCategory", "saveCategory", u, {}) EXCEPT
                    !.id = k, !.row = [category[k] EXCEPT !.active = FALSE]])

DeleteCategory(r) ==
  \E u \in Users, k \in CategoryIds :
    /\ category[k] # None /\ ~category[k].default /\ CanManage(u, category[k].calendar)
    /\ Starts(r, [Request("deleteCategory", "saveCategory", u, {}) EXCEPT
                    !.id = k, !.row = [category[k] EXCEPT !.active = FALSE]])

SaveCategory(r) ==
  /\ Writes(r, "saveCategory") /\ calendar[request[r].row.calendar] # None
  /\ category' = [category EXCEPT ![request[r].id] = request[r].row]
  /\ Goes(r, Idle)
  /\ UNCHANGED <<project, role, calendar, attendees, event, folders, starts, history>>

-----------------------------------------------------------------------------
AskCalendar(r) ==
  \/ GetCalendars(r) \/ IssueDated(r) \/ CreateCalendar(r) \/ UpdateCalendar(r) \/ DeleteCalendar(r)
  \/ CreateFolder(r) \/ DeleteFolder(r)
  \/ CreateEvent(r) \/ UpdateEvent(r) \/ DeleteEvent(r)
  \/ GetCategories(r) \/ CreateCategory(r) \/ UpdateCategory(r) \/ DeleteCategory(r)

HandleCalendar(r) ==
  \/ FindPersonal(r) \/ NewPersonal(r) \/ EnsureDefault(r) \/ NewDefaultCalendar(r)
  \/ FindIssueCalendar(r) \/ NewIssueCalendar(r) \/ SeatIssueOwner(r) \/ FindIssueCategory(r) \/ NewIssueCategory(r)
  \/ OwnMember(r) \/ NewCategory(r) \/ NewCalendar(r) \/ AddExtras(r) \/ SaveCalendar(r) \/ ReplaceMembers(r)
  \/ NewFolder(r) \/ DropFolder(r)
  \/ NewEvent(r) \/ SaveEvent(r) \/ AddCategory(r) \/ SaveCategory(r)
  \/ Fail(r)

-----------------------------------------------------------------------------
(* Properties *)

(* createCalendar counts the TEAM calendars before it inserts one: those   *)
(* that were counted never exceed the limit.  Not counted are the ones     *)
(* created while another creation was at work, those updateCalendar turns  *)
(* into TEAM calendars or brings back to life, the default one and the one *)
(* of the issue board.                                                     *)
TeamCalendarsBounded == Cardinality(TeamCalendars \ uncounted) <= TeamLimit

Kept(c) == \E k \in CategoriesOf(c) : category[k].default
Promised(c) == \E r \in Busy : request[r].pc \in Making /\ request[r].id = c

(* A calendar that was given a default category, when createCalendar,      *)
(* createProject or ensurePersonalCalendar made it or later when           *)
(* getCategories found none, has one to put events in whatever requests    *)
(* cross, saves of categories loaded long before included: deleteCategory  *)
(* refuses it, and there is none only for the moment a request is about to *)
(* make it.  Calendars are not given one by ensureDefaultCalendar, by      *)
(* createEventFromIssue, by a creation that fails half way, nor when they  *)
(* are saved again after they were gone.                                   *)
CategoriesStay == \A c \in Active \ bare : Kept(c) \/ Promised(c)
=============================================================================
