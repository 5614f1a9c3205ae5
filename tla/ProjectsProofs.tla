---------------------------- MODULE ProjectsProofs ----------------------------
(***************************************************************************)
(* Proofs about ProjectMembers and Calendars.                              *)
(*                                                                         *)
(* ProjectsInv says of each request, by the await it is at, what is still  *)
(* as it found it: what the user it is about has, unless another request   *)
(* was about the same user; that the calendar it is making will have its   *)
(* category; that the TEAM calendar it counted for has room.               *)
(***************************************************************************)
EXTENDS ProjectMembers, FiniteSetTheorems, TLAPS

CalendarSteps ==
  {"personal", "newPersonal", "default", "newDefault", "ownMember", "newCategory", "newCalendar", "extras",
   "saveCalendar", "members", "newFolder", "dropFolder", "newEvent", "saveEvent", "addCategory", "saveCategory"}
IssueSteps == {"issueCalendar", "newIssueCalendar", "issueMember", "issueCategory", "newIssueCategory"}
CreateSteps == {"project", "owner", "seats", "channel", "joins", "base", "baseMember", "baseCategory", "firstEvent"}
MemberSteps == {"seat", "join", "saveRole", "findPersonals", "deactivate", "purge", "unseat"}
ProjectSteps == {"saveProject", "unjoin", "drop", "favorite"}
Steps == CalendarSteps \cup IssueSteps \cup CreateSteps \cup MemberSteps \cup ProjectSteps

Ops ==
  {"getCalendars", "createCalendar", "updateCalendar", "deleteCalendar", "createFolder", "deleteFolder",
   "createEvent", "updateEvent", "deleteEvent", "createCategory", "updateCategory", "deleteCategory",
   "createProject", "addMember", "updateRole", "removeMember", "updateProject", "deleteProject", "favorite",
   "issue"}

Ids == CalendarIds \cup CategoryIds \cup EventIds \cup {None}

InRow == {None} \cup Types \cup Roles \cup Calendar \cup Category \cup Event \cup CategoryIds \cup SUBSET CalendarIds

Record ==
  [op : Ops, pc : Steps, by : Users, about : SUBSET Users, who : Users, todo : SUBSET Users, id : Ids,
   row : InRow, ids : (SUBSET Users) \cup {None}, alone : BOOLEAN]

\* About exactly the user it is at.
OfOne(q) == q.about = {q.who}

(* What the requests of each step have in common.                          *)
Fits(q) ==
  /\ q.pc \in {"personal", "newPersonal"} => q.op \in {"getCalendars", "addMember", "createProject"}
  /\ q.op = "getCalendars" => q.pc \in {"personal", "newPersonal", "default", "newDefault", "ownMember", "newCategory"}
  /\ q.op \in {"getCalendars", "addMember", "updateRole", "removeMember"} => OfOne(q)
  /\ q.op = "getCalendars" => q.who = q.by /\ q.todo = {}
  /\ q.op = "addMember" => q.todo \subseteq {q.who}
  /\ q.op = "createProject" => q.about = Users
  /\ q.op = "createCalendar" => q.about = {} /\ q.row \in {"TEAM", "PRIVATE"} /\ q.ids \in SUBSET Users
  /\ q.pc \in {"default", "newDefault"} => q.op = "getCalendars"
  /\ q.pc \in {"ownMember", "newCategory"} =>
         q.op \in {"getCalendars", "addMember", "createProject", "createCalendar"} /\ q.id \in CalendarIds
  /\ q.pc \in {"personal", "newPersonal", "ownMember", "newCategory"} /\ q.op = "addMember" => q.todo = {}
  /\ q.pc \in {"newCalendar", "extras"} => q.op = "createCalendar"
  /\ q.pc = "extras" => q.id \in CalendarIds
  /\ q.pc = "saveCalendar" => q.op \in {"updateCalendar", "deleteCalendar"} /\ q.id \in CalendarIds /\ q.row \in Calendar
  /\ q.pc = "saveCalendar" /\ q.row.type = "PERSONAL" => q.row.owner \in q.about
  /\ q.pc = "members" => q.id \in CalendarIds /\ q.ids \in SUBSET Users
  /\ q.pc = "newEvent" => q.row \in Event /\ q.row.by \in q.about
  /\ q.pc = "saveEvent" => q.id \in EventIds /\ (q.row # None => q.row \in Event /\ q.row.by \in q.about)
  /\ q.pc \in {"addCategory", "saveCategory"} => q.row \in Category /\ (q.row.default => q.row.active)
  /\ q.pc = "saveCategory" => q.id \in CategoryIds
  /\ q.pc \in CreateSteps => q.op = "createProject"
  /\ q.pc \in {"baseMember", "baseCategory", "firstEvent"} => q.id \in CalendarIds
  /\ q.pc = "firstEvent" => q.row \in CategoryIds
  /\ q.pc \in {"seat", "join"} => q.op = "addMember"
  /\ q.pc = "saveRole" => q.op = "updateRole"
  /\ q.pc \in {"findPersonals", "deactivate", "purge", "unseat"} => q.op = "removeMember"
  /\ q.pc = "deactivate" => q.row \in SUBSET CalendarIds
  /\ q.pc \in IssueSteps => q.op \in {"issue", "createProject"}
  /\ q.op = "issue" => q.pc \in IssueSteps /\ q.about = {}
  /\ q.pc \in {"issueMember", "issueCategory", "newIssueCategory"} => q.id \in CalendarIds
  /\ q.pc \in {"seat", "saveRole"} => q.row \in Roles
  /\ q.pc \in {"unjoin", "drop"} => q.about = Users
  /\ q.pc \in {"newFolder", "dropFolder", "addCategory", "saveCategory", "saveProject", "favorite"} => q.about = {}

Rows == {q \in Record : Fits(q)}

RequestsOK ==
  /\ request \in [Requests -> {Idle} \cup Rows]
  /\ starts = 0 => \A r \in Requests : request[r] = Idle

(* Without the project there are no rows of it.                            *)
RowsOK ==
  /\ ProjectTypeOK
  /\ ~project =>
       /\ \A u \in Users : role[u] = None
       /\ \A c \in CalendarIds : calendar[c] = None
       /\ \A k \in CategoryIds : category[k] = None
       /\ \A e \in EventIds : event[e] = None

-----------------------------------------------------------------------------
(* The limit: one creation at a time counts on room for its calendar.      *)

Alone(q) == TeamCreation(q) /\ q.alone
LimitOK ==
  /\ TeamCalendarsBounded
  /\ \A r, s \in Requests : Alone(request[r]) /\ Alone(request[s]) => r = s
  /\ \A r \in Requests : Alone(request[r]) /\ request[r].pc = "newCalendar"
       => Cardinality(TeamCalendars \ uncounted) < TeamLimit

-----------------------------------------------------------------------------
(* The categories of a calendar and the request that is making them.       *)

Overwrites(r, s) ==
  request[r].pc = "saveCategory" /\ request[s].pc = "saveCategory" /\ request[r].id = request[s].id
SameKind(row, old) == row.calendar = old.calendar /\ row.default = old.default

\* What a request at saveCategory, and one about to end after ownMember, rely on.
Saves(q) == q.pc = "saveCategory" /\ category[q.id] # None => SameKind(q.row, category[q.id])
Leaves(q) ==
  q.pc = "ownMember" /\ q.op = "getCalendars" /\ q.row = "TEAM" /\ calendar[q.id] # None => q.id \in bare \/ Kept(q.id)

CategoriesOK ==
  /\ \A c \in CalendarIds : calendar[c] # None /\ c \notin bare => Kept(c) \/ Promised(c)
  /\ \A k \in CategoryIds : category[k] # None /\ category[k].default => category[k].active
  /\ \A r \in Busy : Saves(request[r]) /\ Leaves(request[r])
  /\ \A r, s \in Busy : Overwrites(r, s) => SameKind(request[r].row, request[s].row)

-----------------------------------------------------------------------------
(* What a user has while no request, or just one, is about the user.       *)

Joined(u) == hasChannel => u \in channel
OnePersonal(u) == \A c, d \in Personal(u) : c = d
NoPersonal(u) == Personal(u) = {}
NoEvents(u) == \A e \in EventIds : event[e] # None => event[e].by # u
Nothing(u) == NoPersonal(u) /\ NoEvents(u)
Settled(u) ==
  /\ Member(u) => Joined(u) /\ OnePersonal(u)
  /\ ~Member(u) => Nothing(u)
Seated(u, q) == Member(u) <=> u \in {q.by} \cup q.todo

Stage(q, u) ==
  /\ q.pc \in {"personal", "newPersonal", "ownMember", "newCategory"}
       => Settled(u) /\ (u \in {q.who} \cup (IF q.op = "createProject" THEN q.todo ELSE {}) => Member(u))
  /\ q.pc = "newPersonal" /\ u = q.who => NoPersonal(u)
  /\ q.pc \in {"default", "newDefault"} => Settled(u) /\ Member(u)
  /\ q.pc \in {"members"} \cup IssueSteps => Settled(u)
  /\ q.pc = "seat" => ~Member(u) /\ Nothing(u) /\ (q.todo = {} => ~hasChannel)
  /\ q.pc = "join" => Member(u) /\ OnePersonal(u)
  /\ q.pc \in {"saveRole", "findPersonals", "newEvent", "saveEvent"} => Member(u) /\ Settled(u)
  /\ q.pc = "deactivate" => Member(u) /\ Settled(u) /\ Personal(u) \subseteq q.row
  /\ q.pc = "purge" => NoPersonal(u)
  /\ q.pc = "unseat" => Nothing(u)
  /\ q.pc = "saveCalendar" => Member(u) /\ Settled(u) /\ Personal(u) \subseteq {q.id}
  /\ q.pc \in {"project", "owner"} => ~Member(u) /\ Nothing(u)
  /\ q.pc = "seats" => Nothing(u) /\ (u = q.by => Member(u)) /\ (Member(u) => u \in {q.by} \cup q.todo)
  /\ q.pc \in {"channel", "joins"} => Nothing(u) /\ Seated(u, q)
  /\ q.pc \in {"base", "baseMember", "baseCategory", "firstEvent"}
       => Nothing(u) /\ Seated(u, q) /\ (Member(u) => Joined(u))

UserOK(u) ==
  /\ \A r, s \in Busy : u \in request[r].about /\ u \in request[s].about => r = s
  /\ (\A r \in Busy : u \notin request[r].about) => Settled(u)
  /\ \A r \in Busy : u \in request[r].about => Stage(request[r], u)

MembershipOK == \A u \in Users \ crossed : UserOK(u)

ProjectsInv == RequestsOK /\ RowsOK /\ LimitOK /\ CategoriesOK /\ MembershipOK

-----------------------------------------------------------------------------
(***************************************************************************)
(* How a request goes on.                                                  *)
(***************************************************************************)
LEMMA NotIdle == \A q \in Record : q # Idle
BY DEF Record, Idle, Steps, CalendarSteps, IssueSteps, CreateSteps, MemberSteps, ProjectSteps

LEMMA BusyRows ==
  ASSUME RequestsOK, NEW r \in Requests, request[r] # Idle
  PROVE  request[r] \in Rows /\ request[r] \in Record /\ r \in Busy
BY DEF RequestsOK, Rows, Busy

LEMMA Literal ==
  \A q \in Record :
    q = [op |-> q.op, pc |-> q.pc, by |-> q.by, about |-> q.about, who |-> q.who, todo |-> q.todo,
         id |-> q.id, row |-> q.row, ids |-> q.ids, alone |-> q.alone]
BY DEF Record

LEMMA Fields ==
  \A q \in Record :
    /\ q.op \in Ops /\ q.pc \in Steps /\ q.by \in Users /\ q.about \in SUBSET Users /\ q.who \in Users
    /\ q.todo \in SUBSET Users /\ q.id \in Ids /\ q.row \in InRow /\ q.ids \in (SUBSET Users) \cup {None}
    /\ q.alone \in BOOLEAN
BY DEF Record

(* q at another step, and with other fields.                               *)
With(q, pc, who, todo, id, row) ==
  [op |-> q.op, pc |-> pc, by |-> q.by, about |-> q.about, who |-> who, todo |-> todo,
   id |-> id, row |-> row, ids |-> q.ids, alone |-> q.alone]

(* w is the request q, at the step pc.                                     *)
SameRequest(w, q) ==
  w \in Record /\ w # Idle /\ w.op = q.op /\ w.by = q.by /\ w.about = q.about /\ w.ids = q.ids /\ w.alone = q.alone

Now(w, q, pc, who, todo, id, row) ==
  SameRequest(w, q) /\ w.pc = pc /\ w.who = who /\ w.todo = todo /\ w.id = id /\ w.row = row

LEMMA WithNow ==
  \A q \in Record, pc \in Steps, who \in Users, todo \in SUBSET Users, id \in Ids, row \in InRow : \A w :
    w = With(q, pc, who, todo, id, row) => Now(w, q, pc, who, todo, id, row)
  <1>1. ASSUME NEW q \in Record, NEW pc \in Steps, NEW who \in Users, NEW todo \in SUBSET Users, NEW id \in Ids,
               NEW row \in InRow, NEW w, w = With(q, pc, who, todo, id, row)
        PROVE  Now(w, q, pc, who, todo, id, row)
    <2>1. w \in Record BY <1>1, Fields DEF With, Record
    <2> QED BY <1>1, <2>1, NotIdle DEF With, SameRequest, Now
  <1> QED BY <1>1

(* What the handlers write into a request.                                 *)
LEMMA Old ==
  ASSUME NEW q \in Record
  PROVE  \E who \in Users, todo \in SUBSET Users, id \in Ids, row \in InRow :
           q.who = who /\ q.todo = todo /\ q.id = id /\ q.row = row
BY Fields

LEMMA NoneTyped == None \in Ids /\ None \in InRow
BY DEF Ids, InRow

Moved(w, q, pc) == w = [q EXCEPT !.pc = pc]
LEMMA ToNow ==
  \A q \in Record, pc \in Steps : \A w :
    Moved(w, q, pc) => Now(w, q, pc, q.who, q.todo, q.id, q.row)
  <1>1. ASSUME NEW q \in Record, NEW pc \in Steps, NEW w,
               Moved(w, q, pc)
        PROVE  Now(w, q, pc, q.who, q.todo, q.id, q.row)
    <2>1. PICK who0 \in Users, todo0 \in SUBSET Users, id0 \in Ids, row0 \in InRow :
            q.who = who0 /\ q.todo = todo0 /\ q.id = id0 /\ q.row = row0
      BY Old
    <2>2. q = [op |-> q.op, pc |-> q.pc, by |-> q.by, about |-> q.about, who |-> q.who, todo |-> q.todo,
                id |-> q.id, row |-> q.row, ids |-> q.ids, alone |-> q.alone]
      BY Literal
    <2>3. w = With(q, pc, who0, todo0, id0, row0) BY <1>1, <2>1, <2>2 DEF With, Moved
    <2> QED BY <2>1, <2>3, WithNow
  <1> QED BY <1>1

Advanced(w, q, pc, u) == w = [q EXCEPT !.pc = pc, !.who = u, !.todo = @ \ {u}]
LEMMA NextNow ==
  \A q \in Record, pc \in Steps, u \in Users : \A w :
    Advanced(w, q, pc, u) => Now(w, q, pc, u, q.todo \ {u}, q.id, q.row)
  <1>1. ASSUME NEW q \in Record, NEW pc \in Steps, NEW u \in Users, NEW w,
               Advanced(w, q, pc, u)
        PROVE  Now(w, q, pc, u, q.todo \ {u}, q.id, q.row)
    <2>1. PICK who0 \in Users, todo0 \in SUBSET Users, id0 \in Ids, row0 \in InRow :
            q.who = who0 /\ q.todo = todo0 /\ q.id = id0 /\ q.row = row0
      BY Old
    <2>2. PICK todo1 \in SUBSET Users : todo1 = todo0 \ {u} OBVIOUS
    <2>3. q = [op |-> q.op, pc |-> q.pc, by |-> q.by, about |-> q.about, who |-> q.who, todo |-> q.todo,
                id |-> q.id, row |-> q.row, ids |-> q.ids, alone |-> q.alone]
      BY Literal
    <2>4. w = With(q, pc, u, todo1, id0, row0) BY <1>1, <2>1, <2>2, <2>3 DEF With, Advanced
    <2> QED BY <2>1, <2>2, <2>4, WithNow
  <1> QED BY <1>1

Made(w, q, pc, c, type, owner) == w = [q EXCEPT !.pc = pc, !.id = c, !.row = type, !.who = owner]
LEMMA MadeNow ==
  \A q \in Record, pc \in Steps, c \in Ids, type \in InRow, owner \in Users : \A w :
    Made(w, q, pc, c, type, owner) => Now(w, q, pc, owner, q.todo, c, type)
  <1>1. ASSUME NEW q \in Record, NEW pc \in Steps, NEW c \in Ids, NEW type \in InRow, NEW owner \in Users, NEW w,
               Made(w, q, pc, c, type, owner)
        PROVE  Now(w, q, pc, owner, q.todo, c, type)
    <2>1. PICK who0 \in Users, todo0 \in SUBSET Users, id0 \in Ids, row0 \in InRow :
            q.who = who0 /\ q.todo = todo0 /\ q.id = id0 /\ q.row = row0
      BY Old
    <2>2. q = [op |-> q.op, pc |-> q.pc, by |-> q.by, about |-> q.about, who |-> q.who, todo |-> q.todo,
                id |-> q.id, row |-> q.row, ids |-> q.ids, alone |-> q.alone]
      BY Literal
    <2>3. w = With(q, pc, owner, todo0, c, type) BY <1>1, <2>1, <2>2 DEF With, Made
    <2> QED BY <2>1, <2>3, WithNow
  <1> QED BY <1>1

WithId(w, q, pc, c) == w = [q EXCEPT !.pc = pc, !.id = c]
LEMMA IdNow ==
  \A q \in Record, pc \in Steps, c \in Ids : \A w :
    WithId(w, q, pc, c) => Now(w, q, pc, q.who, q.todo, c, q.row)
  <1>1. ASSUME NEW q \in Record, NEW pc \in Steps, NEW c \in Ids, NEW w,
               WithId(w, q, pc, c)
        PROVE  Now(w, q, pc, q.who, q.todo, c, q.row)
    <2>1. PICK who0 \in Users, todo0 \in SUBSET Users, id0 \in Ids, row0 \in InRow :
            q.who = who0 /\ q.todo = todo0 /\ q.id = id0 /\ q.row = row0
      BY Old
    <2>2. q = [op |-> q.op, pc |-> q.pc, by |-> q.by, about |-> q.about, who |-> q.who, todo |-> q.todo,
                id |-> q.id, row |-> q.row, ids |-> q.ids, alone |-> q.alone]
      BY Literal
    <2>3. w = With(q, pc, who0, todo0, c, row0) BY <1>1, <2>1, <2>2 DEF With, WithId
    <2> QED BY <2>1, <2>3, WithNow
  <1> QED BY <1>1

WithRow(w, q, pc, row) == w = [q EXCEPT !.pc = pc, !.row = row]
LEMMA RowNow ==
  \A q \in Record, pc \in Steps, row \in InRow : \A w :
    WithRow(w, q, pc, row) => Now(w, q, pc, q.who, q.todo, q.id, row)
  <1>1. ASSUME NEW q \in Record, NEW pc \in Steps, NEW row \in InRow, NEW w,
               WithRow(w, q, pc, row)
        PROVE  Now(w, q, pc, q.who, q.todo, q.id, row)
    <2>1. PICK who0 \in Users, todo0 \in SUBSET Users, id0 \in Ids, row0 \in InRow :
            q.who = who0 /\ q.todo = todo0 /\ q.id = id0 /\ q.row = row0
      BY Old
    <2>2. q = [op |-> q.op, pc |-> q.pc, by |-> q.by, about |-> q.about, who |-> q.who, todo |-> q.todo,
                id |-> q.id, row |-> q.row, ids |-> q.ids, alone |-> q.alone]
      BY Literal
    <2>3. w = With(q, pc, who0, todo0, id0, row) BY <1>1, <2>1, <2>2 DEF With, WithRow
    <2> QED BY <2>1, <2>3, WithNow
  <1> QED BY <1>1

Turned(w, q, pc, u) == w = [q EXCEPT !.pc = pc, !.who = u]
LEMMA TurnedNow ==
  \A q \in Record, pc \in Steps, u \in Users : \A w :
    Turned(w, q, pc, u) => Now(w, q, pc, u, q.todo, q.id, q.row)
  <1>1. ASSUME NEW q \in Record, NEW pc \in Steps, NEW u \in Users, NEW w,
               Turned(w, q, pc, u)
        PROVE  Now(w, q, pc, u, q.todo, q.id, q.row)
    <2>1. PICK who0 \in Users, todo0 \in SUBSET Users, id0 \in Ids, row0 \in InRow :
            q.who = who0 /\ q.todo = todo0 /\ q.id = id0 /\ q.row = row0
      BY Old
    <2>2. q = [op |-> q.op, pc |-> q.pc, by |-> q.by, about |-> q.about, who |-> q.who, todo |-> q.todo,
                id |-> q.id, row |-> q.row, ids |-> q.ids, alone |-> q.alone]
      BY Literal
    <2>3. w = With(q, pc, u, todo0, id0, row0) BY <1>1, <2>1, <2>2 DEF With, Turned
    <2> QED BY <2>1, <2>3, WithNow
  <1> QED BY <1>1

Reduced(w, q, row) == w = [q EXCEPT !.row = row]
LEMMA ReducedNow ==
  \A q \in Record, row \in InRow : \A w :
    Reduced(w, q, row) => Now(w, q, q.pc, q.who, q.todo, q.id, row)
  <1>1. ASSUME NEW q \in Record, NEW row \in InRow, NEW w, Reduced(w, q, row)
        PROVE  Now(w, q, q.pc, q.who, q.todo, q.id, row)
    <2>1. PICK who0 \in Users, todo0 \in SUBSET Users, id0 \in Ids, row0 \in InRow :
            q.who = who0 /\ q.todo = todo0 /\ q.id = id0 /\ q.row = row0
      BY Old
    <2>2. PICK pc0 \in Steps : q.pc = pc0 BY Fields
    <2>3. q = [op |-> q.op, pc |-> q.pc, by |-> q.by, about |-> q.about, who |-> q.who, todo |-> q.todo,
                id |-> q.id, row |-> q.row, ids |-> q.ids, alone |-> q.alone]
      BY Literal
    <2>4. w = With(q, pc0, who0, todo0, id0, row) BY <1>1, <2>1, <2>2, <2>3 DEF With, Reduced
    <2> QED BY <2>1, <2>2, <2>4, WithNow
  <1> QED BY <1>1

Restarted(w, q, pc, u) == w = [q EXCEPT !.pc = pc, !.who = u, !.id = None, !.row = None]
LEMMA RestartedNow ==
  \A q \in Record, pc \in Steps, u \in Users : \A w :
    Restarted(w, q, pc, u) => Now(w, q, pc, u, q.todo, None, None)
  <1>1. ASSUME NEW q \in Record, NEW pc \in Steps, NEW u \in Users, NEW w,
               Restarted(w, q, pc, u)
        PROVE  Now(w, q, pc, u, q.todo, None, None)
    <2>1. PICK who0 \in Users, todo0 \in SUBSET Users, id0 \in Ids, row0 \in InRow :
            q.who = who0 /\ q.todo = todo0 /\ q.id = id0 /\ q.row = row0
      BY Old
    <2>2. q = [op |-> q.op, pc |-> q.pc, by |-> q.by, about |-> q.about, who |-> q.who, todo |-> q.todo,
                id |-> q.id, row |-> q.row, ids |-> q.ids, alone |-> q.alone]
      BY Literal
    <2>3. w = With(q, pc, u, todo0, None, None) BY <1>1, <2>1, <2>2 DEF With, Restarted
    <2> QED BY <2>1, <2>3, WithNow, NoneTyped
  <1> QED BY <1>1

Cleared(w, q, pc) == w = [q EXCEPT !.pc = pc, !.todo = {}]
LEMMA ClearedNow ==
  \A q \in Record, pc \in Steps : \A w :
    Cleared(w, q, pc) => Now(w, q, pc, q.who, {}, q.id, q.row)
  <1>1. ASSUME NEW q \in Record, NEW pc \in Steps, NEW w,
               Cleared(w, q, pc)
        PROVE  Now(w, q, pc, q.who, {}, q.id, q.row)
    <2>1. PICK who0 \in Users, todo0 \in SUBSET Users, id0 \in Ids, row0 \in InRow :
            q.who = who0 /\ q.todo = todo0 /\ q.id = id0 /\ q.row = row0
      BY Old
    <2>2. PICK todo1 \in SUBSET Users : todo1 = {} OBVIOUS
    <2>3. q = [op |-> q.op, pc |-> q.pc, by |-> q.by, about |-> q.about, who |-> q.who, todo |-> q.todo,
                id |-> q.id, row |-> q.row, ids |-> q.ids, alone |-> q.alone]
      BY Literal
    <2>4. w = With(q, pc, who0, todo1, id0, row0) BY <1>1, <2>1, <2>2, <2>3 DEF With, Cleared
    <2> QED BY <2>1, <2>2, <2>4, WithNow
  <1> QED BY <1>1

-----------------------------------------------------------------------------
(* Request r goes on to w, or ends; one that goes on is the same request.  *)
Onward(r, w) ==
  /\ request[r] # Idle /\ request' = [request EXCEPT ![r] = w]
  /\ w # Idle => w \in Rows /\ SameRequest(w, request[r])
  /\ starts' = starts /\ crossed \subseteq crossed'

\* w is q at the step pc and otherwise as it was.
Same(w, q, pc) == Now(w, q, pc, q.who, q.todo, q.id, q.row)

LEMMA Ends ==
  ASSUME NEW r \in Requests, request[r] # Idle, Goes(r, Idle), starts' = starts, crossed \subseteq crossed'
  PROVE  Onward(r, Idle)
BY DEF Onward, Goes

LEMMA GoesOn ==
  ASSUME NEW r \in Requests, request[r] # Idle, NEW w \in Rows, SameRequest(w, request[r]), Goes(r, w),
         starts' = starts, crossed \subseteq crossed'
  PROVE  Onward(r, w) /\ w # Idle
BY DEF Onward, Goes, SameRequest

LEMMA MovesTo ==
  ASSUME NEW q \in Record, NEW pc \in Steps, NEW r \in Requests, q = request[r], To(r, pc)
  PROVE  \E w : Goes(r, w) /\ Same(w, q, pc)
  <1>1. PICK w : Moved(w, q, pc) BY DEF Moved
  <1>2. Same(w, q, pc) BY <1>1, ToNow DEF Same
  <1>3. Goes(r, w) BY <1>1 DEF To, Goes, Moved
  <1> QED BY <1>2, <1>3

LEMMA SaveNewProjectStep ==
  ASSUME RequestsOK, NEW r \in Requests, SaveNewProject(r)
  PROVE  \E w : Onward(r, w) /\ Same(w, request[r], "owner")
  <1>1. PICK q, pc : q = request[r] /\ pc = "owner" OBVIOUS
  <1>2. q \in Rows /\ q \in Record /\ q # Idle /\ q.pc = "project" /\ pc \in Steps
    BY <1>1, BusyRows DEF SaveNewProject, Fills, Writes, At, Steps, CalendarSteps, CreateSteps, IssueSteps, MemberSteps, ProjectSteps
  <1>3. To(r, pc) /\ starts' = starts /\ crossed \subseteq crossed' BY <1>1 DEF SaveNewProject, history
  <1>4. PICK w : Goes(r, w) /\ Same(w, q, pc) BY <1>1, <1>2, <1>3, MovesTo
  <1>5. w \in Rows BY <1>1, <1>2, <1>4 DEF Rows, Fits, OfOne, Same, Now, SameRequest, CreateSteps, IssueSteps
  <1> QED BY <1>1, <1>2, <1>3, <1>4, <1>5, GoesOn DEF Same, Now

LEMMA SeatOwnerStep ==
  ASSUME RequestsOK, NEW r \in Requests, SeatOwner(r)
  PROVE  \E w : Onward(r, w) /\ Same(w, request[r], "seats")
  <1>1. PICK q, pc : q = request[r] /\ pc = "seats" OBVIOUS
  <1>2. q \in Rows /\ q \in Record /\ q # Idle /\ q.pc = "owner" /\ pc \in Steps
    BY <1>1, BusyRows DEF SeatOwner, Fills, Writes, At, Steps, CalendarSteps, CreateSteps, IssueSteps, MemberSteps, ProjectSteps
  <1>3. To(r, pc) /\ starts' = starts /\ crossed \subseteq crossed' BY <1>1 DEF SeatOwner, history
  <1>4. PICK w : Goes(r, w) /\ Same(w, q, pc) BY <1>1, <1>2, <1>3, MovesTo
  <1>5. w \in Rows BY <1>1, <1>2, <1>4 DEF Rows, Fits, OfOne, Same, Now, SameRequest, CreateSteps, IssueSteps
  <1> QED BY <1>1, <1>2, <1>3, <1>4, <1>5, GoesOn DEF Same, Now

LEMMA NewChannelStep ==
  ASSUME RequestsOK, NEW r \in Requests, NewChannel(r)
  PROVE  \E w : Onward(r, w) /\ Same(w, request[r], "joins")
  <1>1. PICK q, pc : q = request[r] /\ pc = "joins" OBVIOUS
  <1>2. q \in Rows /\ q \in Record /\ q # Idle /\ q.pc = "channel" /\ pc \in Steps
    BY <1>1, BusyRows DEF NewChannel, Fills, Writes, At, Steps, CalendarSteps, CreateSteps, IssueSteps, MemberSteps, ProjectSteps
  <1>3. To(r, pc) /\ starts' = starts /\ crossed \subseteq crossed' BY <1>1 DEF NewChannel, history
  <1>4. PICK w : Goes(r, w) /\ Same(w, q, pc) BY <1>1, <1>2, <1>3, MovesTo
  <1>5. w \in Rows BY <1>1, <1>2, <1>4 DEF Rows, Fits, OfOne, Same, Now, SameRequest, CreateSteps, IssueSteps
  <1> QED BY <1>1, <1>2, <1>3, <1>4, <1>5, GoesOn DEF Same, Now

LEMMA SeatBaseOwnerStep ==
  ASSUME RequestsOK, NEW r \in Requests, SeatBaseOwner(r)
  PROVE  \E w : Onward(r, w) /\ Same(w, request[r], "baseCategory")
  <1>1. PICK q, pc : q = request[r] /\ pc = "baseCategory" OBVIOUS
  <1>2. q \in Rows /\ q \in Record /\ q # Idle /\ q.pc = "baseMember" /\ pc \in Steps
    BY <1>1, BusyRows DEF SeatBaseOwner, Fills, Writes, At, Steps, CalendarSteps, CreateSteps, IssueSteps, MemberSteps, ProjectSteps
  <1>3. To(r, pc) /\ starts' = starts /\ crossed \subseteq crossed' BY <1>1 DEF SeatBaseOwner, history
  <1>4. PICK w : Goes(r, w) /\ Same(w, q, pc) BY <1>1, <1>2, <1>3, MovesTo
  <1>5. w \in Rows BY <1>1, <1>2, <1>4 DEF Rows, Fits, OfOne, Same, Now, SameRequest, CreateSteps, IssueSteps
  <1> QED BY <1>1, <1>2, <1>3, <1>4, <1>5, GoesOn DEF Same, Now

LEMMA SeatIssueOwnerStep ==
  ASSUME RequestsOK, NEW r \in Requests, SeatIssueOwner(r)
  PROVE  \E w : Onward(r, w) /\ Same(w, request[r], "issueCategory")
  <1>1. PICK q, pc : q = request[r] /\ pc = "issueCategory" OBVIOUS
  <1>2. q \in Rows /\ q \in Record /\ q # Idle /\ q.pc = "issueMember" /\ pc \in Steps
    BY <1>1, BusyRows DEF SeatIssueOwner, Fills, Writes, At, Steps, IssueSteps
  <1>3. To(r, pc) /\ starts' = starts /\ crossed \subseteq crossed' BY <1>1 DEF SeatIssueOwner, history
  <1>4. PICK w : Goes(r, w) /\ Same(w, q, pc) BY <1>1, <1>2, <1>3, MovesTo
  <1>5. w \in Rows BY <1>1, <1>2, <1>4 DEF Rows, Fits, OfOne, Same, Now, SameRequest, CreateSteps, IssueSteps
  <1> QED BY <1>1, <1>2, <1>3, <1>4, <1>5, GoesOn DEF Same, Now

LEMMA FindIssueCalendarStep ==
  ASSUME RequestsOK, NEW r \in Requests, FindIssueCalendar(r)
  PROVE  \/ \E c \in Active : \E w :
              /\ Onward(r, w) /\ Now(w, request[r], "issueCategory", request[r].who, request[r].todo, c, request[r].row)
         \/ \E w : Onward(r, w) /\ Same(w, request[r], "newIssueCalendar")
  <1>1. PICK q, pc, pn : q = request[r] /\ pc = "issueCategory" /\ pn = "newIssueCalendar" OBVIOUS
  <1>2. q \in Rows /\ q \in Record /\ q # Idle /\ q.pc = "issueCalendar" /\ pc \in Steps /\ pn \in Steps
    BY <1>1, BusyRows DEF FindIssueCalendar, At, Steps, IssueSteps
  <1>3. starts' = starts /\ crossed \subseteq crossed' BY DEF FindIssueCalendar, history
  <1>4. ASSUME NEW c \in Active, Goes(r, [request[r] EXCEPT !.pc = "issueCategory", !.id = c])
        PROVE  \E w : Onward(r, w) /\ Now(w, request[r], "issueCategory", request[r].who, request[r].todo, c, request[r].row)
    <2>1. c \in CalendarIds /\ c \in Ids BY DEF Active, Ids
    <2>2. PICK w : WithId(w, q, pc, c) BY DEF WithId
    <2>3. Now(w, q, pc, q.who, q.todo, c, q.row) BY <1>2, <2>1, <2>2, IdNow
    <2>4. Goes(r, w) BY <1>1, <1>4, <2>2 DEF WithId
    <2>5. w \in Rows BY <1>1, <1>2, <2>1, <2>3 DEF Rows, Fits, OfOne, Now, SameRequest, CreateSteps, IssueSteps
    <2>6. Onward(r, w) BY <1>1, <1>2, <1>3, <2>3, <2>4, <2>5, GoesOn DEF Now
    <2> QED BY <1>1, <2>3, <2>6
  <1>5. CASE To(r, pn)
    <2>1. PICK w : Goes(r, w) /\ Same(w, q, pn) BY <1>1, <1>2, <1>5, MovesTo
    <2>2. w \in Rows BY <1>1, <1>2, <2>1 DEF Rows, Fits, OfOne, Same, Now, SameRequest, CreateSteps, IssueSteps
    <2> QED BY <1>1, <1>2, <1>3, <2>1, <2>2, GoesOn DEF Same, Now
  <1> QED BY <1>1, <1>4, <1>5 DEF FindIssueCalendar

LEMMA FindIssueCategoryStep ==
  ASSUME RequestsOK, NEW r \in Requests, FindIssueCategory(r)
  PROVE  \/ Onward(r, Idle)
         \/ \E w : Onward(r, w) /\ Same(w, request[r], "newIssueCategory")
  <1>1. PICK q, pc : q = request[r] /\ pc = "newIssueCategory" OBVIOUS
  <1>2. q \in Rows /\ q \in Record /\ q # Idle /\ q.pc = "issueCategory" /\ pc \in Steps
    BY <1>1, BusyRows DEF FindIssueCategory, At, Steps, IssueSteps
  <1>3. starts' = starts /\ crossed \subseteq crossed' BY DEF FindIssueCategory, history
  <1>4. CASE Goes(r, Idle) BY <1>1, <1>2, <1>3, <1>4, Ends
  <1>5. CASE To(r, pc)
    <2>1. PICK w : Goes(r, w) /\ Same(w, q, pc) BY <1>1, <1>2, <1>5, MovesTo
    <2>2. w \in Rows BY <1>1, <1>2, <2>1 DEF Rows, Fits, OfOne, Same, Now, SameRequest, CreateSteps, IssueSteps
    <2> QED BY <1>1, <1>2, <1>3, <2>1, <2>2, GoesOn DEF Same, Now
  <1> QED BY <1>1, <1>4, <1>5 DEF FindIssueCategory

LEMMA NewIssueCategoryStep == ASSUME RequestsOK, NEW r \in Requests, NewIssueCategory(r) PROVE Onward(r, Idle)
  <1>1. request[r] # Idle /\ Goes(r, Idle) /\ starts' = starts /\ crossed \subseteq crossed'
    BY DEF NewIssueCategory, Fills, Writes, At, history
  <1> QED BY <1>1, Ends

LEMMA FindPersonalsStep ==
  ASSUME RequestsOK, NEW r \in Requests, FindPersonals(r)
  PROVE  \E w : /\ Onward(r, w)
                /\ Now(w, request[r], "deactivate", request[r].who, request[r].todo, request[r].id, Personal(request[r].who))
  <1>1. PICK q, pc, row : q = request[r] /\ pc = "deactivate" /\ row = Personal(request[r].who) OBVIOUS
  <1>2. q \in Rows /\ q \in Record /\ q # Idle /\ q.pc = "findPersonals" /\ pc \in Steps
    BY <1>1, BusyRows DEF FindPersonals, At, Steps, MemberSteps
  <1>3. row \in SUBSET CalendarIds BY <1>1 DEF Personal, Active
  <1>4. row \in InRow BY <1>3 DEF InRow
  <1>5. PICK w : WithRow(w, q, pc, row) BY DEF WithRow
  <1>6. Now(w, q, pc, q.who, q.todo, q.id, row) BY <1>2, <1>4, <1>5, RowNow
  <1>7. Goes(r, w) BY <1>1, <1>5 DEF FindPersonals, WithRow
  <1>8. w \in Rows BY <1>1, <1>2, <1>3, <1>6 DEF Rows, Fits, OfOne, Now, SameRequest, CreateSteps, IssueSteps
  <1>9. starts' = starts /\ crossed \subseteq crossed' BY DEF FindPersonals, history
  <1>10. Onward(r, w) BY <1>1, <1>2, <1>6, <1>7, <1>8, <1>9, GoesOn DEF Now
  <1> QED BY <1>1, <1>6, <1>10

(* One personal calendar after the other is saved inactive.                *)
LEMMA DeactivatePersonalStep ==
  ASSUME RequestsOK, NEW r \in Requests, DeactivatePersonal(r)
  PROVE  \/ /\ request[r].row = {} /\ UNCHANGED <<calendar, bare>>
            /\ \E w : Onward(r, w) /\ Same(w, request[r], "purge")
         \/ /\ project
            /\ \E c \in CalendarIds : \E w :
                 /\ c \in request[r].row /\ request[r].row \in SUBSET CalendarIds /\ request[r].who \in Users
                 /\ calendar' = [calendar EXCEPT ![c] = [type |-> "PERSONAL", owner |-> request[r].who, active |-> FALSE]]
                 /\ bare' = IF calendar[c] = None THEN bare \cup {c} ELSE bare
                 /\ Onward(r, w)
                 /\ Now(w, request[r], "deactivate", request[r].who, request[r].todo, request[r].id, request[r].row \ {c})
  <1>1. PICK q, pc : q = request[r] /\ pc = "purge" OBVIOUS
  <1>2. q \in Rows /\ q \in Record /\ q # Idle /\ q.pc = "deactivate" /\ pc \in Steps
    BY <1>1, BusyRows DEF DeactivatePersonal, At, Steps, MemberSteps
  <1>3. starts' = starts /\ crossed \subseteq crossed' BY <1>1 DEF DeactivatePersonal
  <1>4. q.row \in SUBSET CalendarIds /\ q.who \in Users BY <1>2, Fields DEF Rows, Fits
  <1>5. CASE q.row = {}
    <2>1. To(r, pc) /\ UNCHANGED <<calendar, bare>> BY <1>1, <1>5 DEF DeactivatePersonal
    <2>2. PICK w : Goes(r, w) /\ Same(w, q, pc) BY <1>1, <1>2, <2>1, MovesTo
    <2>3. w \in Rows BY <1>1, <1>2, <2>2 DEF Rows, Fits, OfOne, Same, Now, SameRequest, CreateSteps, IssueSteps
    <2>4. Onward(r, w) /\ Same(w, q, pc) BY <1>1, <1>2, <1>3, <2>2, <2>3, GoesOn DEF Same, Now
    <2> QED BY <1>1, <1>5, <2>1, <2>4
  <1>6. CASE q.row # {}
    <2>1. PICK c \in q.row :
            /\ calendar' = [calendar EXCEPT ![c] = [type |-> "PERSONAL", owner |-> q.who, active |-> FALSE]]
            /\ bare' = IF calendar[c] = None THEN bare \cup {c} ELSE bare
            /\ Goes(r, [q EXCEPT !.row = @ \ {c}])
      BY <1>1, <1>6 DEF DeactivatePersonal
    <2>2. PICK row : row = q.row \ {c} OBVIOUS
    <2>3. c \in CalendarIds /\ row \in SUBSET CalendarIds /\ row \in InRow BY <1>4, <2>1, <2>2 DEF InRow
    <2>4. PICK w : Reduced(w, q, row) BY DEF Reduced
    <2>5. Now(w, q, q.pc, q.who, q.todo, q.id, row) BY <1>2, <2>3, <2>4, ReducedNow
    <2>6. Goes(r, w) BY <2>1, <2>2, <2>4 DEF Reduced
    <2>7. w \in Rows BY <1>1, <1>2, <2>3, <2>5 DEF Rows, Fits, OfOne, Now, SameRequest, CreateSteps, IssueSteps
    <2>8. Onward(r, w) BY <1>1, <1>2, <1>3, <2>5, <2>6, <2>7, GoesOn DEF Now
    <2>9. project BY <1>1, <1>6 DEF DeactivatePersonal
    <2> QED BY <1>1, <1>2, <1>4, <2>1, <2>2, <2>3, <2>5, <2>8, <2>9
  <1> QED BY <1>5, <1>6

LEMMA PurgeEventsStep ==
  ASSUME RequestsOK, NEW r \in Requests, PurgeEvents(r)
  PROVE  \E w : Onward(r, w) /\ Same(w, request[r], "unseat")
  <1>1. PICK q, pc : q = request[r] /\ pc = "unseat" OBVIOUS
  <1>2. q \in Rows /\ q \in Record /\ q # Idle /\ q.pc = "purge" /\ pc \in Steps
    BY <1>1, BusyRows DEF PurgeEvents, Fills, Writes, At, Steps, CalendarSteps, CreateSteps, IssueSteps, MemberSteps, ProjectSteps
  <1>3. To(r, pc) /\ starts' = starts /\ crossed \subseteq crossed' BY <1>1 DEF PurgeEvents, history
  <1>4. PICK w : Goes(r, w) /\ Same(w, q, pc) BY <1>1, <1>2, <1>3, MovesTo
  <1>5. w \in Rows BY <1>1, <1>2, <1>4 DEF Rows, Fits, OfOne, Same, Now, SameRequest, CreateSteps, IssueSteps
  <1> QED BY <1>1, <1>2, <1>3, <1>4, <1>5, GoesOn DEF Same, Now

LEMMA DeleteChannelMembersStep ==
  ASSUME RequestsOK, NEW r \in Requests, DeleteChannelMembers(r)
  PROVE  \E w : Onward(r, w) /\ Same(w, request[r], "drop")
  <1>1. PICK q, pc : q = request[r] /\ pc = "drop" OBVIOUS
  <1>2. q \in Rows /\ q \in Record /\ q # Idle /\ q.pc = "unjoin" /\ pc \in Steps
    BY <1>1, BusyRows DEF DeleteChannelMembers, Fills, Writes, At, Steps, CalendarSteps, CreateSteps, IssueSteps, MemberSteps, ProjectSteps
  <1>3. To(r, pc) /\ starts' = starts /\ crossed \subseteq crossed' BY <1>1 DEF DeleteChannelMembers, history
  <1>4. PICK w : Goes(r, w) /\ Same(w, q, pc) BY <1>1, <1>2, <1>3, MovesTo
  <1>5. w \in Rows BY <1>1, <1>2, <1>4 DEF Rows, Fits, OfOne, Same, Now, SameRequest, CreateSteps, IssueSteps
  <1> QED BY <1>1, <1>2, <1>3, <1>4, <1>5, GoesOn DEF Same, Now

LEMMA ReplaceMembersStep == ASSUME RequestsOK, NEW r \in Requests, ReplaceMembers(r) PROVE Onward(r, Idle)
  <1>1. request[r] # Idle /\ Goes(r, Idle) /\ starts' = starts /\ crossed \subseteq crossed'
    BY DEF ReplaceMembers, Fills, Writes, At, history
  <1> QED BY <1>1, Ends

LEMMA NewFolderStep == ASSUME RequestsOK, NEW r \in Requests, NewFolder(r) PROVE Onward(r, Idle)
  <1>1. request[r] # Idle /\ Goes(r, Idle) /\ starts' = starts /\ crossed \subseteq crossed'
    BY DEF NewFolder, Fills, Writes, At, history
  <1> QED BY <1>1, Ends

LEMMA DropFolderStep == ASSUME RequestsOK, NEW r \in Requests, DropFolder(r) PROVE Onward(r, Idle)
  <1>1. request[r] # Idle /\ Goes(r, Idle) /\ starts' = starts /\ crossed \subseteq crossed'
    BY DEF DropFolder, Fills, Writes, At, history
  <1> QED BY <1>1, Ends

LEMMA NewEventStep == ASSUME RequestsOK, NEW r \in Requests, NewEvent(r) PROVE Onward(r, Idle)
  <1>1. request[r] # Idle /\ Goes(r, Idle) /\ starts' = starts /\ crossed \subseteq crossed'
    BY DEF NewEvent, Fills, Writes, At, history
  <1> QED BY <1>1, Ends

LEMMA SaveEventStep == ASSUME RequestsOK, NEW r \in Requests, SaveEvent(r) PROVE Onward(r, Idle)
  <1>1. request[r] # Idle /\ Goes(r, Idle) /\ starts' = starts /\ crossed \subseteq crossed'
    BY DEF SaveEvent, Fills, Writes, At, history
  <1> QED BY <1>1, Ends

LEMMA AddCategoryStep == ASSUME RequestsOK, NEW r \in Requests, AddCategory(r) PROVE Onward(r, Idle)
  <1>1. request[r] # Idle /\ Goes(r, Idle) /\ starts' = starts /\ crossed \subseteq crossed'
    BY DEF AddCategory, Fills, Writes, At, history
  <1> QED BY <1>1, Ends

LEMMA SaveCategoryStep == ASSUME RequestsOK, NEW r \in Requests, SaveCategory(r) PROVE Onward(r, Idle)
  <1>1. request[r] # Idle /\ Goes(r, Idle) /\ starts' = starts /\ crossed \subseteq crossed'
    BY DEF SaveCategory, Fills, Writes, At, history
  <1> QED BY <1>1, Ends

LEMMA FailStep == ASSUME RequestsOK, NEW r \in Requests, Fail(r) PROVE Onward(r, Idle)
  <1>1. request[r] # Idle /\ Goes(r, Idle) /\ starts' = starts /\ crossed \subseteq crossed'
    BY DEF Fail, Fills, Writes, At, history
  <1> QED BY <1>1, Ends

LEMMA SaveRoleStep == ASSUME RequestsOK, NEW r \in Requests, SaveRole(r) PROVE Onward(r, Idle)
  <1>1. request[r] # Idle /\ Goes(r, Idle) /\ starts' = starts /\ crossed \subseteq crossed'
    BY DEF SaveRole, Fills, Writes, At, history
  <1> QED BY <1>1, Ends

LEMMA UnseatStep == ASSUME RequestsOK, NEW r \in Requests, Unseat(r) PROVE Onward(r, Idle)
  <1>1. request[r] # Idle /\ Goes(r, Idle) /\ starts' = starts /\ crossed \subseteq crossed'
    BY DEF Unseat, Fills, Writes, At, history
  <1> QED BY <1>1, Ends

LEMMA SaveProjectStep == ASSUME RequestsOK, NEW r \in Requests, SaveProject(r) PROVE Onward(r, Idle)
  <1>1. request[r] # Idle /\ Goes(r, Idle) /\ starts' = starts /\ crossed \subseteq crossed'
    BY DEF SaveProject, Fills, Writes, At, history
  <1> QED BY <1>1, Ends

LEMMA DropProjectStep == ASSUME RequestsOK, NEW r \in Requests, DropProject(r) PROVE Onward(r, Idle)
  <1>1. request[r] # Idle /\ Goes(r, Idle) /\ starts' = starts /\ crossed \subseteq crossed'
    BY DEF DropProject, Fills, Writes, At, history
  <1> QED BY <1>1, Ends

LEMMA InsertFavoriteStep == ASSUME RequestsOK, NEW r \in Requests, InsertFavorite(r) PROVE Onward(r, Idle)
  <1>1. request[r] # Idle /\ Goes(r, Idle) /\ starts' = starts /\ crossed \subseteq crossed'
    BY DEF InsertFavorite, Fills, Writes, At, history
  <1> QED BY <1>1, Ends

LEMMA SeatSelectedStep ==
  ASSUME RequestsOK, NEW r \in Requests, SeatSelected(r)
  PROVE  \/ \E w : Onward(r, w) /\ Same(w, request[r], "channel") /\ UNCHANGED role /\ \A u \in request[r].todo : Member(u)
         \/ Onward(r, request[r]) /\ UNCHANGED request
  <1>1. PICK q, pc : q = request[r] /\ pc = "channel" OBVIOUS
  <1>2. q \in Rows /\ q \in Record /\ q # Idle /\ q.pc = "seats" /\ pc \in Steps
    BY <1>1, BusyRows DEF SeatSelected, Fills, Writes, At, Steps, CalendarSteps, CreateSteps, IssueSteps, MemberSteps, ProjectSteps
  <1>3. starts' = starts /\ crossed \subseteq crossed' BY DEF SeatSelected, history
  <1>4. CASE To(r, pc) /\ UNCHANGED role /\ \A u \in request[r].todo : Member(u)
    <2>1. PICK w : Goes(r, w) /\ Same(w, q, pc) BY <1>1, <1>2, <1>4, MovesTo
    <2>2. w \in Rows BY <1>1, <1>2, <2>1 DEF Rows, Fits, OfOne, Same, Now, SameRequest, CreateSteps, IssueSteps
    <2> QED BY <1>1, <1>2, <1>3, <1>4, <2>1, <2>2, GoesOn DEF Same, Now
  <1>5. CASE UNCHANGED request
    <2>1. request' = [request EXCEPT ![r] = q] BY <1>1, <1>5 DEF RequestsOK
    <2> QED BY <1>1, <1>2, <1>3, <1>5, <2>1 DEF Onward, SameRequest
  <1> QED BY <1>1, <1>4, <1>5 DEF SeatSelected, Unseated

LEMMA JoinSelectedStep ==
  ASSUME RequestsOK, NEW r \in Requests, JoinSelected(r)
  PROVE  \/ \E w : Onward(r, w) /\ Same(w, request[r], "base") /\ UNCHANGED channel /\ {request[r].by} \cup request[r].todo \subseteq channel
         \/ Onward(r, request[r]) /\ UNCHANGED request
  <1>1. PICK q, pc : q = request[r] /\ pc = "base" OBVIOUS
  <1>2. q \in Rows /\ q \in Record /\ q # Idle /\ q.pc = "joins" /\ pc \in Steps
    BY <1>1, BusyRows DEF JoinSelected, Fills, Writes, At, Steps, CalendarSteps, CreateSteps, IssueSteps, MemberSteps, ProjectSteps
  <1>3. starts' = starts /\ crossed \subseteq crossed' BY DEF JoinSelected, history
  <1>4. CASE To(r, pc) /\ UNCHANGED channel /\ {request[r].by} \cup request[r].todo \subseteq channel
    <2>1. PICK w : Goes(r, w) /\ Same(w, q, pc) BY <1>1, <1>2, <1>4, MovesTo
    <2>2. w \in Rows BY <1>1, <1>2, <2>1 DEF Rows, Fits, OfOne, Same, Now, SameRequest, CreateSteps, IssueSteps
    <2> QED BY <1>1, <1>2, <1>3, <1>4, <2>1, <2>2, GoesOn DEF Same, Now
  <1>5. CASE UNCHANGED request
    <2>1. request' = [request EXCEPT ![r] = q] BY <1>1, <1>5 DEF RequestsOK
    <2> QED BY <1>1, <1>2, <1>3, <1>5, <2>1 DEF Onward, SameRequest
  <1> QED BY <1>1, <1>4, <1>5 DEF JoinSelected, Unjoined

LEMMA EnsureDefaultStep ==
  ASSUME RequestsOK, NEW r \in Requests, EnsureDefault(r)
  PROVE  \/ Onward(r, Idle)
         \/ \E w : Onward(r, w) /\ Same(w, request[r], "newDefault")
  <1>1. PICK q : q = request[r] OBVIOUS
  <1>2. q \in Rows /\ q \in Record /\ q # Idle /\ q.pc = "default" BY <1>1, BusyRows DEF EnsureDefault, Fills, Writes, At
  <1>3. starts' = starts /\ crossed \subseteq crossed' BY DEF EnsureDefault, history
  <1>4. CASE Goes(r, Idle) BY <1>1, <1>2, <1>3, <1>4, Ends
  <1>5. CASE To(r, "newDefault")
    <2>1. PICK pc : pc = "newDefault" OBVIOUS
    <2>2. pc \in Steps /\ q.ids \in (SUBSET Users) \cup {None} BY <1>2, <2>1, Fields DEF Steps, CalendarSteps, CreateSteps, IssueSteps, MemberSteps, ProjectSteps
    <2>3. PICK w : Goes(r, w) /\ Same(w, q, pc) BY <1>1, <1>2, <1>5, <2>1, <2>2, MovesTo
    <2>4. w \in Rows BY <1>1, <1>2, <1>5, <2>1, <2>2, <2>3 DEF Rows, Fits, OfOne, Same, Now, SameRequest, CreateSteps, IssueSteps
    <2> QED BY <1>1, <1>2, <1>3, <1>5, <2>1, <2>3, <2>4, GoesOn DEF Same, Now
  <1> QED BY <1>1, <1>4, <1>5 DEF EnsureDefault

LEMMA AddExtrasStep ==
  ASSUME RequestsOK, NEW r \in Requests, AddExtras(r)
  PROVE  \/ Onward(r, Idle) /\ bare' = bare \cup {request[r].id}
         \/ \E w : Onward(r, w) /\ Same(w, request[r], "newCategory") /\ bare' = bare
  <1>1. PICK q : q = request[r] OBVIOUS
  <1>2. q \in Rows /\ q \in Record /\ q # Idle /\ q.pc = "extras" BY <1>1, BusyRows DEF AddExtras, Fills, Writes, At
  <1>3. starts' = starts /\ crossed \subseteq crossed' BY DEF AddExtras, history
  <1>4. CASE Goes(r, Idle) /\ bare' = bare \cup {request[r].id} BY <1>1, <1>2, <1>3, <1>4, Ends
  <1>5. CASE To(r, "newCategory") /\ bare' = bare
    <2>1. PICK pc : pc = "newCategory" OBVIOUS
    <2>2. pc \in Steps /\ q.ids \in (SUBSET Users) \cup {None} BY <1>2, <2>1, Fields DEF Steps, CalendarSteps, CreateSteps, IssueSteps, MemberSteps, ProjectSteps
    <2>3. PICK w : Goes(r, w) /\ Same(w, q, pc) BY <1>1, <1>2, <1>5, <2>1, <2>2, MovesTo
    <2>4. w \in Rows BY <1>1, <1>2, <1>5, <2>1, <2>2, <2>3 DEF Rows, Fits, OfOne, Same, Now, SameRequest, CreateSteps, IssueSteps
    <2> QED BY <1>1, <1>2, <1>3, <1>5, <2>1, <2>3, <2>4, GoesOn DEF Same, Now
  <1> QED BY <1>1, <1>4, <1>5 DEF AddExtras

LEMMA SaveCalendarStep ==
  ASSUME RequestsOK, NEW r \in Requests, SaveCalendar(r)
  PROVE  \/ Onward(r, Idle)
         \/ \E w : Onward(r, w) /\ Same(w, request[r], "members")
  <1>1. PICK q, pc : q = request[r] /\ pc = "members" OBVIOUS
  <1>2. q \in Rows /\ q \in Record /\ q # Idle /\ q.pc = "saveCalendar" /\ pc \in Steps
    BY <1>1, BusyRows DEF SaveCalendar, Fills, Writes, At, Steps, CalendarSteps
  <1>3. starts' = starts /\ crossed \subseteq crossed' BY DEF SaveCalendar, history
  <1>4. CASE Goes(r, Idle) BY <1>1, <1>2, <1>3, <1>4, Ends
  <1>5. CASE To(r, pc) /\ q.op = "updateCalendar" /\ q.ids # None
    <2>1. PICK w : Goes(r, w) /\ Same(w, q, pc) BY <1>1, <1>2, <1>5, MovesTo
    <2>2. q.ids \in (SUBSET Users) \cup {None} BY <1>2, Fields
    <2>3. q.ids \in SUBSET Users BY <1>5, <2>2
    <2>4. q.id \in CalendarIds BY <1>2 DEF Rows, Fits
    <2>5. w \in Record /\ w.op = "updateCalendar" /\ w.pc = "members" /\ w.ids \in SUBSET Users /\ w.id \in CalendarIds
      BY <1>1, <1>5, <2>1, <2>3, <2>4 DEF Same, Now, SameRequest
    <2>6. w \in Rows BY <2>5 DEF Rows, Fits, CreateSteps, IssueSteps
    <2> QED BY <1>1, <1>2, <1>3, <2>1, <2>6, GoesOn DEF Same, Now
  <1> QED BY <1>1, <1>4, <1>5 DEF SaveCalendar

LEMMA OwnMemberStep ==
  ASSUME RequestsOK, NEW r \in Requests, OwnMember(r)
  PROVE  \/ Onward(r, Idle) /\ request[r].op = "getCalendars" /\ request[r].row = "TEAM"
         \/ \E w : Onward(r, w) /\ Same(w, request[r], "extras") /\ request[r].op = "createCalendar"
         \/ \E w : Onward(r, w) /\ Same(w, request[r], "newCategory")
  <1>1. PICK q : q = request[r] OBVIOUS
  <1>2. q \in Rows /\ q \in Record /\ q # Idle /\ q.pc = "ownMember" BY <1>1, BusyRows DEF OwnMember, Fills, Writes, At
  <1>3. starts' = starts /\ crossed \subseteq crossed' BY DEF OwnMember, history
  <1>4. CASE Goes(r, Idle) /\ request[r].op = "getCalendars" /\ request[r].row = "TEAM" BY <1>1, <1>2, <1>3, <1>4, Ends
  <1>5. CASE To(r, "extras") /\ request[r].op = "createCalendar"
    <2>1. PICK pc : pc = "extras" OBVIOUS
    <2>2. pc \in Steps /\ q.ids \in (SUBSET Users) \cup {None} BY <1>2, <2>1, Fields DEF Steps, CalendarSteps, CreateSteps, IssueSteps, MemberSteps, ProjectSteps
    <2>3. PICK w : Goes(r, w) /\ Same(w, q, pc) BY <1>1, <1>2, <1>5, <2>1, <2>2, MovesTo
    <2>4. w \in Rows BY <1>1, <1>2, <1>5, <2>1, <2>2, <2>3 DEF Rows, Fits, OfOne, Same, Now, SameRequest, CreateSteps, IssueSteps
    <2> QED BY <1>1, <1>2, <1>3, <1>5, <2>1, <2>3, <2>4, GoesOn DEF Same, Now
  <1>6. CASE To(r, "newCategory")
    <2>1. PICK pc : pc = "newCategory" OBVIOUS
    <2>2. pc \in Steps /\ q.ids \in (SUBSET Users) \cup {None} BY <1>2, <2>1, Fields DEF Steps, CalendarSteps, CreateSteps, IssueSteps, MemberSteps, ProjectSteps
    <2>3. PICK w : Goes(r, w) /\ Same(w, q, pc) BY <1>1, <1>2, <1>6, <2>1, <2>2, MovesTo
    <2>4. w \in Rows BY <1>1, <1>2, <1>6, <2>1, <2>2, <2>3 DEF Rows, Fits, OfOne, Same, Now, SameRequest, CreateSteps, IssueSteps
    <2> QED BY <1>1, <1>2, <1>3, <1>6, <2>1, <2>3, <2>4, GoesOn DEF Same, Now
  <1> QED BY <1>1, <1>4, <1>5, <1>6 DEF OwnMember

(* A new row is none that anybody has in hand.                             *)
LEMMA FreshId ==
  ASSUME NEW table, Fresh(table) # {}
  PROVE  /\ NewId(table) \in DOMAIN table /\ table[NewId(table)] = None
         /\ \A r \in Busy : request[r].id # NewId(table)
BY DEF NewId, Fresh, OneOf

LEMMA SeatMemberStep ==
  ASSUME RequestsOK, NEW r \in Requests, SeatMember(r)
  PROVE  \/ \E w : Onward(r, w) /\ Same(w, request[r], "join")
         \/ \E w : Onward(r, w) /\ Same(w, request[r], "personal") /\ request[r].todo = {}
  <1>1. PICK q : q = request[r] OBVIOUS
  <1>2. q \in Rows /\ q \in Record /\ q # Idle /\ q.pc = "seat" BY <1>1, BusyRows DEF SeatMember, Writes, At
  <1>3. starts' = starts /\ crossed \subseteq crossed' BY DEF SeatMember, history
  <1>4. CASE To(r, "join")
    <2>1. PICK pc : pc = "join" OBVIOUS
    <2>2. pc \in Steps BY <2>1 DEF Steps, CalendarSteps, CreateSteps, IssueSteps, MemberSteps, ProjectSteps
    <2>3. PICK w : Goes(r, w) /\ Same(w, q, pc) BY <1>1, <1>2, <1>4, <2>1, <2>2, MovesTo
    <2>4. w \in Rows BY <1>1, <1>2, <2>1, <2>3 DEF Rows, Fits, OfOne, Same, Now, SameRequest, CreateSteps, IssueSteps
    <2> QED BY <1>1, <1>2, <1>3, <2>1, <2>3, <2>4, GoesOn DEF Same, Now
  <1>5. CASE To(r, "personal") /\ q.todo = {}
    <2>1. PICK pc : pc = "personal" OBVIOUS
    <2>2. pc \in Steps BY <2>1 DEF Steps, CalendarSteps, CreateSteps, IssueSteps, MemberSteps, ProjectSteps
    <2>3. PICK w : Goes(r, w) /\ Same(w, q, pc) BY <1>1, <1>2, <1>5, <2>1, <2>2, MovesTo
    <2>4. w \in Rows BY <1>1, <1>2, <1>5, <2>1, <2>3 DEF Rows, Fits, OfOne, Same, Now, SameRequest, CreateSteps, IssueSteps
    <2> QED BY <1>1, <1>2, <1>3, <1>5, <2>1, <2>3, <2>4, GoesOn DEF Same, Now
  <1> QED BY <1>1, <1>4, <1>5 DEF SeatMember

LEMMA JoinChannelStep ==
  ASSUME RequestsOK, NEW r \in Requests, JoinChannel(r)
  PROVE  \E w : Onward(r, w) /\ Now(w, request[r], "personal", request[r].who, {}, request[r].id, request[r].row)
  <1>1. PICK q, pc : q = request[r] /\ pc = "personal" OBVIOUS
  <1>2. q \in Rows /\ q \in Record /\ q # Idle /\ q.pc = "join" /\ pc \in Steps
    BY <1>1, BusyRows DEF JoinChannel, Writes, At, Steps, CalendarSteps
  <1>3. starts' = starts /\ crossed \subseteq crossed' BY DEF JoinChannel, history
  <1>4. PICK w : Cleared(w, q, pc) BY DEF Cleared
  <1>5. Now(w, q, pc, q.who, {}, q.id, q.row) BY <1>2, <1>4, ClearedNow
  <1>6. Goes(r, w) BY <1>1, <1>4 DEF JoinChannel, Cleared
  <1>7. w \in Rows BY <1>1, <1>2, <1>5 DEF Rows, Fits, OfOne, Now, SameRequest, CreateSteps, IssueSteps
  <1> QED BY <1>1, <1>2, <1>3, <1>5, <1>6, <1>7, GoesOn DEF Now

(* What follows a personal calendar.                                       *)
Follows(w, q) ==
  \/ w = Idle
  \/ Same(w, q, "default") /\ q.op = "getCalendars"
  \/ q.op = "createProject" /\ \E u \in q.todo : Now(w, q, "personal", u, q.todo \ {u}, q.id, q.row)
  \/ q.op = "createProject" /\ Now(w, q, "issueCalendar", q.by, q.todo, q.id, q.row)

LEMMA EnsuredFollows ==
  \A q \in Rows : q.pc \in {"personal", "newCategory"} /\ q.op # "createCalendar"
    => Follows(Ensured(q), q) /\ (Ensured(q) # Idle => Ensured(q) \in Rows)
  <1>1. ASSUME NEW q \in Rows, q.pc \in {"personal", "newCategory"}, q.op # "createCalendar"
        PROVE  Follows(Ensured(q), q) /\ (Ensured(q) # Idle => Ensured(q) \in Rows)
    <2>1. q \in Record /\ q.todo \in SUBSET Users BY Fields DEF Rows
    <2>2. CASE q.op = "getCalendars"
      <3>1. PICK pc : pc = "default" OBVIOUS
      <3>2. pc \in Steps BY <3>1 DEF Steps, CalendarSteps
      <3>3. PICK w : Moved(w, q, pc) BY DEF Moved
      <3>4. Same(w, q, pc) BY <2>1, <3>2, <3>3, ToNow DEF Same
      <3>5. q.todo = {} BY <2>2 DEF Rows, Fits
      <3>6. Ensured(q) = w BY <2>2, <3>1, <3>3, <3>5 DEF Ensured, Moved
      <3>7. w \in Rows BY <2>1, <2>2, <3>1, <3>4 DEF Rows, Fits, OfOne, Same, Now, SameRequest, CreateSteps, IssueSteps
      <3> QED BY <2>2, <3>1, <3>4, <3>6, <3>7 DEF Follows
    <2>3. CASE q.op # "getCalendars" /\ q.todo # {}
      <3>1. q.op = "createProject" BY <1>1, <2>3 DEF Rows, Fits
      <3>2. PICK u \in Users : u = OneOf(q.todo) /\ u \in q.todo BY <2>1, <2>3 DEF OneOf
      <3>3. PICK pc : pc = "personal" OBVIOUS
      <3>4. pc \in Steps BY <3>3 DEF Steps, CalendarSteps
      <3>5. PICK w : Advanced(w, q, pc, u) BY DEF Advanced
      <3>6. Now(w, q, pc, u, q.todo \ {u}, q.id, q.row) BY <2>1, <3>4, <3>5, NextNow
      <3>7. Ensured(q) = w BY <2>3, <3>2, <3>3, <3>5, Zenon DEF Ensured, Advanced
      <3>8. w \in Rows BY <2>1, <3>1, <3>3, <3>6 DEF Rows, Fits, OfOne, Now, SameRequest, CreateSteps, IssueSteps
      <3> QED BY <3>1, <3>2, <3>3, <3>6, <3>7, <3>8 DEF Follows
    <2>4. CASE q.op \notin {"getCalendars", "createProject"} /\ q.todo = {}
      <3>1. Ensured(q) = Idle BY <2>4 DEF Ensured
      <3> QED BY <3>1 DEF Follows
    <2>5. CASE q.op = "createProject" /\ q.todo = {}
      <3>1. PICK pc, u : pc = "issueCalendar" /\ u = q.by OBVIOUS
      <3>2. pc \in Steps /\ u \in Users BY <2>1, <3>1, Fields DEF Steps, IssueSteps
      <3>3. PICK w : Turned(w, q, pc, u) BY DEF Turned
      <3>4. Now(w, q, pc, u, q.todo, q.id, q.row) BY <2>1, <3>2, <3>3, TurnedNow
      <3>5. Ensured(q) = w BY <2>5, <3>1, <3>3 DEF Ensured, Turned
      <3>6. w \in Rows BY <2>1, <2>5, <3>1, <3>4 DEF Rows, Fits, OfOne, Now, SameRequest, CreateSteps, IssueSteps
      <3> QED BY <2>5, <3>1, <3>4, <3>5, <3>6 DEF Follows
    <2> QED BY <2>2, <2>3, <2>4, <2>5
  <1> QED BY <1>1

LEMMA FollowsOn ==
  ASSUME RequestsOK, NEW r \in Requests, request[r] # Idle, request[r].pc \in {"personal", "newCategory"},
         request[r].op # "createCalendar", Goes(r, Ensured(request[r])), starts' = starts, crossed \subseteq crossed'
  PROVE  \E w : Onward(r, w) /\ Follows(w, request[r])
  <1>1. PICK q, w : q = request[r] /\ w = Ensured(q) OBVIOUS
  <1>2. q \in Rows BY <1>1, BusyRows
  <1>3. Follows(w, q) /\ (w # Idle => w \in Rows) BY <1>1, <1>2, EnsuredFollows
  <1>4. w # Idle => SameRequest(w, q) BY <1>3 DEF Follows, Same, Now
  <1> QED BY <1>1, <1>3, <1>4 DEF Onward, Goes

LEMMA FindPersonalStep ==
  ASSUME RequestsOK, NEW r \in Requests, FindPersonal(r)
  PROVE  \/ \E w : Onward(r, w) /\ Follows(w, request[r])
         \/ \E w : Onward(r, w) /\ Same(w, request[r], "newPersonal") /\ Personal(request[r].who) = {}
  <1>1. PICK q, pc : q = request[r] /\ pc = "newPersonal" OBVIOUS
  <1>2. q \in Rows /\ q \in Record /\ q # Idle /\ q.pc = "personal" /\ pc \in Steps
    BY <1>1, BusyRows DEF FindPersonal, At, Steps, CalendarSteps
  <1>3. starts' = starts /\ crossed \subseteq crossed' BY DEF FindPersonal, history
  <1>4. CASE Goes(r, Ensured(request[r]))
    <2>1. q.op # "createCalendar" BY <1>2 DEF Rows, Fits
    <2> QED BY <1>1, <1>2, <1>3, <1>4, <2>1, FollowsOn
  <1>5. CASE To(r, pc) /\ Personal(q.who) = {}
    <2>1. PICK w : Goes(r, w) /\ Same(w, q, pc) BY <1>1, <1>2, <1>5, MovesTo
    <2>2. w \in Rows BY <1>1, <1>2, <2>1 DEF Rows, Fits, OfOne, Same, Now, SameRequest, CreateSteps, IssueSteps
    <2> QED BY <1>1, <1>2, <1>3, <1>5, <2>1, <2>2, GoesOn DEF Same, Now
  <1> QED BY <1>1, <1>4, <1>5 DEF FindPersonal, To

LEMMA NewCategoryStep ==
  ASSUME RequestsOK, NEW r \in Requests, NewCategory(r)
  PROVE  \/ request[r].op = "createCalendar" /\ Onward(r, Idle)
         \/ request[r].op # "createCalendar" /\ \E w : Onward(r, w) /\ Follows(w, request[r])
  <1>1. request[r] # Idle /\ request[r].pc = "newCategory" /\ starts' = starts /\ crossed \subseteq crossed'
    BY DEF NewCategory, Fills, Writes, At, history
  <1>2. CASE request[r].op = "createCalendar"
    <2>1. Goes(r, Idle) BY <1>2 DEF NewCategory
    <2> QED BY <1>1, <1>2, <2>1, Ends
  <1>3. CASE request[r].op # "createCalendar"
    <2>1. Goes(r, Ensured(request[r])) BY <1>3 DEF NewCategory
    <2> QED BY <1>1, <1>3, <2>1, FollowsOn
  <1> QED BY <1>2, <1>3

(* A calendar is made for owner.                                           *)
Creates(r, w, c, type, owner) ==
  /\ Onward(r, w) /\ Now(w, request[r], "ownMember", owner, request[r].todo, c, type)
  /\ c \in CalendarIds /\ calendar[c] = None /\ \A s \in Busy : request[s].id # c
  /\ calendar' = [calendar EXCEPT ![c] = [type |-> type, owner |-> owner, active |-> TRUE]]
  /\ type \in Types /\ owner \in Users

LEMMA SaveNewCalendarStep ==
  ASSUME RowsOK, RequestsOK, NEW r \in Requests, request[r] # Idle, Fresh(calendar) # {}, NEW type \in Types, NEW owner \in Users,
         request[r].pc \in {"newPersonal", "newDefault", "newCalendar"},
         request[r].op = "createCalendar" => type = request[r].row,
         request[r].op \in {"getCalendars", "addMember"} => owner = request[r].who,
         SaveNewCalendar(r, NewId(calendar), type, owner), starts' = starts, crossed \subseteq crossed'
  PROVE  \E w : Creates(r, w, NewId(calendar), type, owner)
  <1>1. PICK q, pc, c, row : q = request[r] /\ pc = "ownMember" /\ c = NewId(calendar) /\ row = type OBVIOUS
  <1>2. q \in Rows /\ q \in Record /\ pc \in Steps BY <1>1, BusyRows DEF Steps, CalendarSteps
  <1>3. c \in CalendarIds /\ calendar[c] = None /\ \A s \in Busy : request[s].id # c
    BY <1>1, FreshId DEF RowsOK, ProjectTypeOK, TypeOK
  <1>4. c \in Ids /\ row \in InRow BY <1>1, <1>3 DEF Ids, InRow
  <1>5. PICK w : Made(w, q, pc, c, row, owner) BY DEF Made
  <1>6. Now(w, q, pc, owner, q.todo, c, row) BY <1>2, <1>4, <1>5, MadeNow
  <1>7. Goes(r, w) BY <1>1, <1>5 DEF SaveNewCalendar, Made
  <1>8. w \in Rows
    <2>1. q.pc \in {"newPersonal", "newDefault", "newCalendar"} /\ q.op \in {"getCalendars", "addMember", "createProject", "createCalendar"}
      BY <1>1, <1>2 DEF Rows, Fits
    <2> QED BY <1>1, <1>2, <1>3, <1>6, <2>1 DEF Rows, Fits, OfOne, Now, SameRequest, CreateSteps, IssueSteps
  <1>9. Onward(r, w) BY <1>1, <1>6, <1>7, <1>8, GoesOn DEF Now
  <1>10. calendar' = [calendar EXCEPT ![c] = [type |-> type, owner |-> owner, active |-> TRUE]]
    BY <1>1 DEF SaveNewCalendar
  <1> QED BY <1>1, <1>3, <1>6, <1>9, <1>10 DEF Creates

LEMMA NewPersonalStep ==
  ASSUME RowsOK, RequestsOK, NEW r \in Requests, NewPersonal(r)
  PROVE  \E w : Creates(r, w, NewId(calendar), "PERSONAL", request[r].who)
  <1>1. PICK type, owner : type = "PERSONAL" /\ owner = request[r].who OBVIOUS
  <1>2. request[r] # Idle /\ request[r].pc = "newPersonal" /\ starts' = starts /\ crossed \subseteq crossed'
    BY DEF NewPersonal, Writes, At, history
  <1>3. request[r] \in Rows /\ owner \in Users BY <1>1, <1>2, BusyRows, Fields
  <1>4. request[r].op # "createCalendar" BY <1>2, <1>3 DEF Rows, Fits
  <1>5. type \in Types BY <1>1 DEF Types
  <1>6. SaveNewCalendar(r, NewId(calendar), type, owner) /\ Fresh(calendar) # {} BY <1>1 DEF NewPersonal
  <1>7. \E w : Creates(r, w, NewId(calendar), type, owner) BY <1>1, <1>2, <1>3, <1>4, <1>5, <1>6, SaveNewCalendarStep
  <1> QED BY <1>1, <1>7

LEMMA NewDefaultCalendarStep ==
  ASSUME RowsOK, RequestsOK, NEW r \in Requests, NewDefaultCalendar(r)
  PROVE  \E w : /\ Creates(r, w, NewId(calendar), "TEAM", request[r].by) /\ request[r].op = "getCalendars"
                /\ bare' = bare \cup {NewId(calendar)} /\ uncounted' = uncounted \cup {NewId(calendar)}
  <1>1. PICK type, owner : type = "TEAM" /\ owner = request[r].by OBVIOUS
  <1>2. request[r] # Idle /\ request[r].pc = "newDefault" /\ starts' = starts /\ crossed \subseteq crossed'
    BY DEF NewDefaultCalendar, Writes, At
  <1>3. request[r] \in Rows /\ owner \in Users BY <1>1, <1>2, BusyRows, Fields
  <1>4. request[r].op = "getCalendars" /\ owner = request[r].who BY <1>1, <1>2, <1>3 DEF Rows, Fits
  <1>5. type \in Types BY <1>1 DEF Types
  <1>6. SaveNewCalendar(r, NewId(calendar), type, owner) /\ Fresh(calendar) # {} BY <1>1 DEF NewDefaultCalendar
  <1>7. \E w : Creates(r, w, NewId(calendar), type, owner) BY <1>1, <1>2, <1>3, <1>4, <1>5, <1>6, SaveNewCalendarStep
  <1> QED BY <1>1, <1>4, <1>7 DEF NewDefaultCalendar

LEMMA NewCalendarStep ==
  ASSUME RowsOK, RequestsOK, NEW r \in Requests, NewCalendar(r)
  PROVE  \E w : /\ Creates(r, w, NewId(calendar), request[r].row, request[r].by) /\ request[r].op = "createCalendar"
                /\ request[r].row \in {"TEAM", "PRIVATE"}
  <1>1. PICK type, owner : type = request[r].row /\ owner = request[r].by OBVIOUS
  <1>2. request[r] # Idle /\ request[r].pc = "newCalendar" /\ starts' = starts /\ crossed \subseteq crossed'
    BY DEF NewCalendar, Writes, At
  <1>3. request[r] \in Rows /\ owner \in Users BY <1>1, <1>2, BusyRows, Fields
  <1>4. request[r].op = "createCalendar" /\ type \in {"TEAM", "PRIVATE"} BY <1>1, <1>2, <1>3 DEF Rows, Fits
  <1>5. type \in Types BY <1>4 DEF Types
  <1>6. SaveNewCalendar(r, NewId(calendar), type, owner) /\ Fresh(calendar) # {} BY <1>1 DEF NewCalendar
  <1>7. \E w : Creates(r, w, NewId(calendar), type, owner) BY <1>1, <1>2, <1>3, <1>4, <1>5, <1>6, SaveNewCalendarStep
  <1> QED BY <1>1, <1>4, <1>7

LEMMA NewBaseCalendarStep ==
  ASSUME RowsOK, RequestsOK, NEW r \in Requests, NewBaseCalendar(r)
  PROVE  \E c \in CalendarIds : \E w :
           /\ Onward(r, w) /\ Now(w, request[r], "baseMember", request[r].who, request[r].todo, c, request[r].row)
           /\ calendar[c] = None /\ \A s \in Busy : request[s].id # c
           /\ calendar' = [calendar EXCEPT ![c] = [type |-> "TEAM", owner |-> request[r].by, active |-> TRUE]]
           /\ request[r].by \in Users /\ bare' = bare \cup {c}
           /\ uncounted' = IF TeamCalendars = {} /\ \A s \in Requests : ~TeamCreation(request[s])
                           THEN uncounted ELSE uncounted \cup {c}
  <1>1. PICK q, pc, c : q = request[r] /\ pc = "baseMember" /\ c = NewId(calendar) OBVIOUS
  <1>2. q \in Rows /\ q \in Record /\ q # Idle /\ q.pc = "base" /\ pc \in Steps
    BY <1>1, BusyRows DEF NewBaseCalendar, Writes, At, Steps, CreateSteps, IssueSteps
  <1>3. c \in CalendarIds /\ calendar[c] = None /\ \A s \in Busy : request[s].id # c
    BY <1>1, FreshId DEF RowsOK, ProjectTypeOK, TypeOK, NewBaseCalendar
  <1>4. c \in Ids /\ q.by \in Users BY <1>2, <1>3, Fields DEF Ids
  <1>5. PICK w : WithId(w, q, pc, c) BY DEF WithId
  <1>6. Now(w, q, pc, q.who, q.todo, c, q.row) BY <1>2, <1>4, <1>5, IdNow
  <1>7. Goes(r, w) BY <1>1, <1>5 DEF NewBaseCalendar, WithId
  <1>8. w \in Rows BY <1>1, <1>2, <1>3, <1>6 DEF Rows, Fits, OfOne, Now, SameRequest, CreateSteps, IssueSteps
  <1>9. Onward(r, w) BY <1>1, <1>2, <1>6, <1>7, <1>8, GoesOn DEF Now, NewBaseCalendar
  <1>10. /\ calendar' = [calendar EXCEPT ![c] = [type |-> "TEAM", owner |-> q.by, active |-> TRUE]]
         /\ bare' = bare \cup {c}
         /\ uncounted' = IF TeamCalendars = {} /\ \A s \in Requests : ~TeamCreation(request[s])
                         THEN uncounted ELSE uncounted \cup {c}
    BY <1>1 DEF NewBaseCalendar
  <1> QED BY <1>1, <1>3, <1>4, <1>6, <1>9, <1>10

LEMMA NewIssueCalendarStep ==
  ASSUME RowsOK, RequestsOK, NEW r \in Requests, NewIssueCalendar(r)
  PROVE  \E c \in CalendarIds : \E w :
           /\ Onward(r, w) /\ Now(w, request[r], "issueMember", request[r].who, request[r].todo, c, request[r].row)
           /\ calendar[c] = None /\ \A s \in Busy : request[s].id # c
           /\ calendar' = [calendar EXCEPT ![c] = [type |-> "TEAM", owner |-> request[r].who, active |-> TRUE]]
           /\ request[r].who \in Users /\ bare' = bare \cup {c} /\ uncounted' = uncounted \cup {c}
  <1>1. PICK q, pc, c : q = request[r] /\ pc = "issueMember" /\ c = NewId(calendar) OBVIOUS
  <1>2. q \in Rows /\ q \in Record /\ q # Idle /\ q.pc = "newIssueCalendar" /\ pc \in Steps
    BY <1>1, BusyRows DEF NewIssueCalendar, Writes, At, Steps, IssueSteps
  <1>3. c \in CalendarIds /\ calendar[c] = None /\ \A s \in Busy : request[s].id # c
    BY <1>1, FreshId DEF RowsOK, ProjectTypeOK, TypeOK, NewIssueCalendar
  <1>4. c \in Ids /\ q.who \in Users BY <1>2, <1>3, Fields DEF Ids
  <1>5. PICK w : WithId(w, q, pc, c) BY DEF WithId
  <1>6. Now(w, q, pc, q.who, q.todo, c, q.row) BY <1>2, <1>4, <1>5, IdNow
  <1>7. Goes(r, w) BY <1>1, <1>5 DEF NewIssueCalendar, WithId
  <1>8. w \in Rows BY <1>1, <1>2, <1>3, <1>6 DEF Rows, Fits, OfOne, Now, SameRequest, CreateSteps, IssueSteps
  <1>9. Onward(r, w) BY <1>1, <1>2, <1>6, <1>7, <1>8, GoesOn DEF Now, NewIssueCalendar
  <1>10. /\ calendar' = [calendar EXCEPT ![c] = [type |-> "TEAM", owner |-> q.who, active |-> TRUE]]
         /\ bare' = bare \cup {c} /\ uncounted' = uncounted \cup {c}
    BY <1>1 DEF NewIssueCalendar
  <1> QED BY <1>1, <1>3, <1>4, <1>6, <1>9, <1>10

LEMMA NewBaseCategoryStep ==
  ASSUME RowsOK, RequestsOK, NEW r \in Requests, NewBaseCategory(r)
  PROVE  \E k \in CategoryIds : \E w :
           /\ Onward(r, w) /\ Now(w, request[r], "firstEvent", request[r].who, request[r].todo, request[r].id, k)
           /\ category[k] = None /\ \A s \in Busy : request[s].id # k
           /\ category' = [category EXCEPT ![k] = NewDefaultCategory(request[r].id)]
           /\ request[r].id \in CalendarIds /\ bare' = bare \ {request[r].id}
  <1>1. PICK q, pc, k : q = request[r] /\ pc = "firstEvent" /\ k = NewId(category) OBVIOUS
  <1>2. q \in Rows /\ q \in Record /\ q # Idle /\ q.pc = "baseCategory" /\ pc \in Steps
    BY <1>1, BusyRows DEF NewBaseCategory, Fills, Writes, At, Steps, CreateSteps, IssueSteps
  <1>3. k \in CategoryIds /\ category[k] = None /\ \A s \in Busy : request[s].id # k
    BY <1>1, FreshId DEF RowsOK, ProjectTypeOK, TypeOK, NewBaseCategory
  <1>4. k \in InRow /\ q.id \in CalendarIds BY <1>2, <1>3 DEF InRow, Rows, Fits
  <1>5. PICK w : WithRow(w, q, pc, k) BY DEF WithRow
  <1>6. Now(w, q, pc, q.who, q.todo, q.id, k) BY <1>2, <1>4, <1>5, RowNow
  <1>7. Goes(r, w) BY <1>1, <1>5 DEF NewBaseCategory, WithRow
  <1>8. w \in Rows BY <1>1, <1>2, <1>3, <1>6 DEF Rows, Fits, OfOne, Now, SameRequest, CreateSteps, IssueSteps
  <1>9. Onward(r, w) BY <1>1, <1>2, <1>6, <1>7, <1>8, GoesOn DEF Now, NewBaseCategory
  <1>10. category' = [category EXCEPT ![k] = NewDefaultCategory(q.id)] /\ bare' = bare \ {q.id}
    BY <1>1 DEF NewBaseCategory, NewIn
  <1> QED BY <1>1, <1>3, <1>4, <1>6, <1>9, <1>10

(* The first event is its maker's, a member's.                             *)
LEMMA FirstEventStep ==
  ASSUME RowsOK, RequestsOK, NEW r \in Requests, FirstEvent(r)
  PROVE  \/ Onward(r, Idle) /\ crossed' = crossed \cup request[r].about /\ UNCHANGED event
         \/ \E w : /\ Onward(r, w) /\ Now(w, request[r], "personal", request[r].by, request[r].todo, None, None)
                   /\ Member(request[r].by)
                   /\ \E e \in EventIds : event' =
                        [event EXCEPT ![e] = [calendar |-> request[r].id, category |-> request[r].row, by |-> request[r].by]]
  <1>1. PICK q, pc : q = request[r] /\ pc = "personal" OBVIOUS
  <1>2. q \in Rows /\ q \in Record /\ q # Idle /\ q.pc = "firstEvent" /\ pc \in Steps
    BY <1>1, BusyRows DEF FirstEvent, Fills, Writes, At, Steps, CalendarSteps
  <1>3. starts' = starts /\ crossed \subseteq crossed' BY DEF FirstEvent
  <1>4. CASE Goes(r, Idle) /\ crossed' = crossed \cup q.about /\ UNCHANGED event BY <1>1, <1>2, <1>3, <1>4, Ends
  <1>5. CASE /\ event' = NewIn(event, [calendar |-> q.id, category |-> q.row, by |-> q.by]) /\ Member(q.by)
             /\ Goes(r, [q EXCEPT !.pc = "personal", !.who = q.by, !.id = None, !.row = None])
    <2>1. PICK u \in Users : u = q.by BY <1>2, Fields
    <2>2. PICK w : Restarted(w, q, pc, u) BY DEF Restarted
    <2>3. Now(w, q, pc, u, q.todo, None, None) BY <1>2, <2>1, <2>2, RestartedNow
    <2>4. Goes(r, w) BY <1>1, <1>5, <2>1, <2>2 DEF Restarted
    <2>5. w \in Rows BY <1>1, <1>2, <2>1, <2>3 DEF Rows, Fits, OfOne, Now, SameRequest, CreateSteps, IssueSteps
    <2>6. Onward(r, w) BY <1>1, <1>2, <1>3, <2>3, <2>4, <2>5, GoesOn DEF Now
    <2>7. NewId(event) \in EventIds BY FreshId DEF RowsOK, ProjectTypeOK, TypeOK, FirstEvent
    <2> QED BY <1>1, <1>5, <2>1, <2>3, <2>6, <2>7 DEF NewIn
  <1> QED BY <1>1, <1>4, <1>5 DEF FirstEvent, Access

-----------------------------------------------------------------------------
(***************************************************************************)
(* How a request begins.                                                   *)
(***************************************************************************)
Asked(w, op, pc, by, about, who, todo, id, row, ids, alone) ==
  /\ w \in Record /\ w # Idle
  /\ w.op = op /\ w.pc = pc /\ w.by = by /\ w.about = about
  /\ w.who = who /\ w.todo = todo /\ w.id = id /\ w.row = row /\ w.ids = ids /\ w.alone = alone

LEMMA LiteralAsked ==
  ASSUME NEW op \in Ops, NEW pc \in Steps, NEW by \in Users, NEW about \in SUBSET Users, NEW who \in Users,
         NEW todo \in SUBSET Users, NEW id \in Ids, NEW row \in InRow, NEW ids \in (SUBSET Users) \cup {None},
         NEW alone \in BOOLEAN, NEW w,
         w = [op |-> op, pc |-> pc, by |-> by, about |-> about, who |-> who, todo |-> todo,
              id |-> id, row |-> row, ids |-> ids, alone |-> alone]
  PROVE  Asked(w, op, pc, by, about, who, todo, id, row, ids, alone)
  <1>1. w \in Record BY DEF Record
  <1> QED BY <1>1, NotIdle DEF Asked

BegunPlain(w, op, pc, by, about) == w = Request(op, pc, by, about)
LEMMA AskedPlain ==
  ASSUME NEW op \in Ops, NEW pc \in Steps, NEW by \in Users, NEW about \in SUBSET Users,
         NEW w, BegunPlain(w, op, pc, by, about)
  PROVE  Asked(w, op, pc, by, about, by, {}, None, None, {}, TRUE)
  <1>1. PICK todo0, id0, row0, ids0, alone0 : todo0 = {} /\ id0 = None /\ row0 = None /\ ids0 = {} /\ alone0 = TRUE
    OBVIOUS
  <1>2. todo0 \in SUBSET Users /\ id0 \in Ids /\ row0 \in InRow /\ ids0 \in (SUBSET Users) \cup {None} /\ alone0 \in BOOLEAN
    BY <1>1, NoneTyped
  <1>3. w = [op |-> op, pc |-> pc, by |-> by, about |-> about, who |-> by, todo |-> todo0,
             id |-> id0, row |-> row0, ids |-> ids0, alone |-> alone0]
    BY <1>1 DEF Request, BegunPlain
  <1>4. Asked(w, op, pc, by, about, by, todo0, id0, row0, ids0, alone0) BY <1>2, <1>3, LiteralAsked
  <1> QED BY <1>1, <1>4

BegunRow(w, op, pc, by, about, row) == w = [Request(op, pc, by, about) EXCEPT !.row = row]
LEMMA AskedRow ==
  ASSUME NEW op \in Ops, NEW pc \in Steps, NEW by \in Users, NEW about \in SUBSET Users, NEW row \in InRow,
         NEW w, BegunRow(w, op, pc, by, about, row)
  PROVE  Asked(w, op, pc, by, about, by, {}, None, row, {}, TRUE)
  <1>1. PICK todo0, id0, ids0, alone0 : todo0 = {} /\ id0 = None /\ ids0 = {} /\ alone0 = TRUE
    OBVIOUS
  <1>2. todo0 \in SUBSET Users /\ id0 \in Ids /\ ids0 \in (SUBSET Users) \cup {None} /\ alone0 \in BOOLEAN
    BY <1>1, NoneTyped
  <1>3. PICK q : q = Request(op, pc, by, about) OBVIOUS
  <1>4. q = [op |-> op, pc |-> pc, by |-> by, about |-> about, who |-> by, todo |-> {},
             id |-> None, row |-> None, ids |-> {}, alone |-> TRUE]
    BY <1>3 DEF Request
  <1>5. w = [q EXCEPT !.row = row] BY <1>3 DEF BegunRow
  <1>6. w = [op |-> op, pc |-> pc, by |-> by, about |-> about, who |-> by, todo |-> todo0,
             id |-> id0, row |-> row, ids |-> ids0, alone |-> alone0]
    BY <1>1, <1>4, <1>5
  <1>7. Asked(w, op, pc, by, about, by, todo0, id0, row, ids0, alone0) BY <1>2, <1>6, LiteralAsked
  <1> QED BY <1>1, <1>7

BegunId(w, op, pc, by, about, id) == w = [Request(op, pc, by, about) EXCEPT !.id = id]
LEMMA AskedId ==
  ASSUME NEW op \in Ops, NEW pc \in Steps, NEW by \in Users, NEW about \in SUBSET Users, NEW id \in Ids,
         NEW w, BegunId(w, op, pc, by, about, id)
  PROVE  Asked(w, op, pc, by, about, by, {}, id, None, {}, TRUE)
  <1>1. PICK todo0, row0, ids0, alone0 : todo0 = {} /\ row0 = None /\ ids0 = {} /\ alone0 = TRUE
    OBVIOUS
  <1>2. todo0 \in SUBSET Users /\ row0 \in InRow /\ ids0 \in (SUBSET Users) \cup {None} /\ alone0 \in BOOLEAN
    BY <1>1, NoneTyped
  <1>3. PICK q : q = Request(op, pc, by, about) OBVIOUS
  <1>4. q = [op |-> op, pc |-> pc, by |-> by, about |-> about, who |-> by, todo |-> {},
             id |-> None, row |-> None, ids |-> {}, alone |-> TRUE]
    BY <1>3 DEF Request
  <1>5. w = [q EXCEPT !.id = id] BY <1>3 DEF BegunId
  <1>6. w = [op |-> op, pc |-> pc, by |-> by, about |-> about, who |-> by, todo |-> todo0,
             id |-> id, row |-> row0, ids |-> ids0, alone |-> alone0]
    BY <1>1, <1>4, <1>5
  <1>7. Asked(w, op, pc, by, about, by, todo0, id, row0, ids0, alone0) BY <1>2, <1>6, LiteralAsked
  <1> QED BY <1>1, <1>7

BegunIdRow(w, op, pc, by, about, id, row) == w = [Request(op, pc, by, about) EXCEPT !.id = id, !.row = row]
LEMMA AskedIdRow ==
  ASSUME NEW op \in Ops, NEW pc \in Steps, NEW by \in Users, NEW about \in SUBSET Users, NEW id \in Ids, NEW row \in InRow,
         NEW w, BegunIdRow(w, op, pc, by, about, id, row)
  PROVE  Asked(w, op, pc, by, about, by, {}, id, row, {}, TRUE)
  <1>1. PICK todo0, ids0, alone0 : todo0 = {} /\ ids0 = {} /\ alone0 = TRUE
    OBVIOUS
  <1>2. todo0 \in SUBSET Users /\ ids0 \in (SUBSET Users) \cup {None} /\ alone0 \in BOOLEAN
    BY <1>1, NoneTyped
  <1>3. PICK q : q = Request(op, pc, by, about) OBVIOUS
  <1>4. q = [op |-> op, pc |-> pc, by |-> by, about |-> about, who |-> by, todo |-> {},
             id |-> None, row |-> None, ids |-> {}, alone |-> TRUE]
    BY <1>3 DEF Request
  <1>5. w = [q EXCEPT !.id = id, !.row = row] BY <1>3 DEF BegunIdRow
  <1>6. w = [op |-> op, pc |-> pc, by |-> by, about |-> about, who |-> by, todo |-> todo0,
             id |-> id, row |-> row, ids |-> ids0, alone |-> alone0]
    BY <1>1, <1>4, <1>5
  <1>7. Asked(w, op, pc, by, about, by, todo0, id, row, ids0, alone0) BY <1>2, <1>6, LiteralAsked
  <1> QED BY <1>1, <1>7

BegunIdRowIds(w, op, pc, by, about, id, row, ids) == w = [Request(op, pc, by, about) EXCEPT !.id = id, !.row = row, !.ids = ids]
LEMMA AskedIdRowIds ==
  ASSUME NEW op \in Ops, NEW pc \in Steps, NEW by \in Users, NEW about \in SUBSET Users, NEW id \in Ids, NEW row \in InRow, NEW ids \in (SUBSET Users) \cup {None},
         NEW w, BegunIdRowIds(w, op, pc, by, about, id, row, ids)
  PROVE  Asked(w, op, pc, by, about, by, {}, id, row, ids, TRUE)
  <1>1. PICK todo0, alone0 : todo0 = {} /\ alone0 = TRUE
    OBVIOUS
  <1>2. todo0 \in SUBSET Users /\ alone0 \in BOOLEAN
    BY <1>1, NoneTyped
  <1>3. PICK q : q = Request(op, pc, by, about) OBVIOUS
  <1>4. q = [op |-> op, pc |-> pc, by |-> by, about |-> about, who |-> by, todo |-> {},
             id |-> None, row |-> None, ids |-> {}, alone |-> TRUE]
    BY <1>3 DEF Request
  <1>5. w = [q EXCEPT !.id = id, !.row = row, !.ids = ids] BY <1>3 DEF BegunIdRowIds
  <1>6. w = [op |-> op, pc |-> pc, by |-> by, about |-> about, who |-> by, todo |-> todo0,
             id |-> id, row |-> row, ids |-> ids, alone |-> alone0]
    BY <1>1, <1>4, <1>5
  <1>7. Asked(w, op, pc, by, about, by, todo0, id, row, ids, alone0) BY <1>2, <1>6, LiteralAsked
  <1> QED BY <1>1, <1>7

BegunRowIdsAlone(w, op, pc, by, about, row, ids, alone) == w = [Request(op, pc, by, about) EXCEPT !.row = row, !.ids = ids, !.alone = alone]
LEMMA AskedRowIdsAlone ==
  ASSUME NEW op \in Ops, NEW pc \in Steps, NEW by \in Users, NEW about \in SUBSET Users, NEW row \in InRow, NEW ids \in (SUBSET Users) \cup {None}, NEW alone \in BOOLEAN,
         NEW w, BegunRowIdsAlone(w, op, pc, by, about, row, ids, alone)
  PROVE  Asked(w, op, pc, by, about, by, {}, None, row, ids, alone)
  <1>1. PICK todo0, id0 : todo0 = {} /\ id0 = None
    OBVIOUS
  <1>2. todo0 \in SUBSET Users /\ id0 \in Ids
    BY <1>1, NoneTyped
  <1>3. PICK q : q = Request(op, pc, by, about) OBVIOUS
  <1>4. q = [op |-> op, pc |-> pc, by |-> by, about |-> about, who |-> by, todo |-> {},
             id |-> None, row |-> None, ids |-> {}, alone |-> TRUE]
    BY <1>3 DEF Request
  <1>5. w = [q EXCEPT !.row = row, !.ids = ids, !.alone = alone] BY <1>3 DEF BegunRowIdsAlone
  <1>6. w = [op |-> op, pc |-> pc, by |-> by, about |-> about, who |-> by, todo |-> todo0,
             id |-> id0, row |-> row, ids |-> ids, alone |-> alone]
    BY <1>1, <1>4, <1>5
  <1>7. Asked(w, op, pc, by, about, by, todo0, id0, row, ids, alone) BY <1>2, <1>6, LiteralAsked
  <1> QED BY <1>1, <1>7

BegunTodo(w, op, pc, by, about, todo) == w = [Request(op, pc, by, about) EXCEPT !.todo = todo]
LEMMA AskedTodo ==
  ASSUME NEW op \in Ops, NEW pc \in Steps, NEW by \in Users, NEW about \in SUBSET Users, NEW todo \in SUBSET Users,
         NEW w, BegunTodo(w, op, pc, by, about, todo)
  PROVE  Asked(w, op, pc, by, about, by, todo, None, None, {}, TRUE)
  <1>1. PICK id0, row0, ids0, alone0 : id0 = None /\ row0 = None /\ ids0 = {} /\ alone0 = TRUE
    OBVIOUS
  <1>2. id0 \in Ids /\ row0 \in InRow /\ ids0 \in (SUBSET Users) \cup {None} /\ alone0 \in BOOLEAN
    BY <1>1, NoneTyped
  <1>3. PICK q : q = Request(op, pc, by, about) OBVIOUS
  <1>4. q = [op |-> op, pc |-> pc, by |-> by, about |-> about, who |-> by, todo |-> {},
             id |-> None, row |-> None, ids |-> {}, alone |-> TRUE]
    BY <1>3 DEF Request
  <1>5. w = [q EXCEPT !.todo = todo] BY <1>3 DEF BegunTodo
  <1>6. w = [op |-> op, pc |-> pc, by |-> by, about |-> about, who |-> by, todo |-> todo,
             id |-> id0, row |-> row0, ids |-> ids0, alone |-> alone0]
    BY <1>1, <1>4, <1>5
  <1>7. Asked(w, op, pc, by, about, by, todo, id0, row0, ids0, alone0) BY <1>2, <1>6, LiteralAsked
  <1> QED BY <1>1, <1>7

BegunWho(w, op, pc, by, about, who) == w = [Request(op, pc, by, about) EXCEPT !.who = who]
LEMMA AskedWho ==
  ASSUME NEW op \in Ops, NEW pc \in Steps, NEW by \in Users, NEW about \in SUBSET Users, NEW who \in Users,
         NEW w, BegunWho(w, op, pc, by, about, who)
  PROVE  Asked(w, op, pc, by, about, who, {}, None, None, {}, TRUE)
  <1>1. PICK todo0, id0, row0, ids0, alone0 : todo0 = {} /\ id0 = None /\ row0 = None /\ ids0 = {} /\ alone0 = TRUE
    OBVIOUS
  <1>2. todo0 \in SUBSET Users /\ id0 \in Ids /\ row0 \in InRow /\ ids0 \in (SUBSET Users) \cup {None} /\ alone0 \in BOOLEAN
    BY <1>1, NoneTyped
  <1>3. PICK q : q = Request(op, pc, by, about) OBVIOUS
  <1>4. q = [op |-> op, pc |-> pc, by |-> by, about |-> about, who |-> by, todo |-> {},
             id |-> None, row |-> None, ids |-> {}, alone |-> TRUE]
    BY <1>3 DEF Request
  <1>5. w = [q EXCEPT !.who = who] BY <1>3 DEF BegunWho
  <1>6. w = [op |-> op, pc |-> pc, by |-> by, about |-> about, who |-> who, todo |-> todo0,
             id |-> id0, row |-> row0, ids |-> ids0, alone |-> alone0]
    BY <1>1, <1>4, <1>5
  <1>7. Asked(w, op, pc, by, about, who, todo0, id0, row0, ids0, alone0) BY <1>2, <1>6, LiteralAsked
  <1> QED BY <1>1, <1>7

BegunWhoRow(w, op, pc, by, about, who, row) == w = [Request(op, pc, by, about) EXCEPT !.who = who, !.row = row]
LEMMA AskedWhoRow ==
  ASSUME NEW op \in Ops, NEW pc \in Steps, NEW by \in Users, NEW about \in SUBSET Users, NEW who \in Users, NEW row \in InRow,
         NEW w, BegunWhoRow(w, op, pc, by, about, who, row)
  PROVE  Asked(w, op, pc, by, about, who, {}, None, row, {}, TRUE)
  <1>1. PICK todo0, id0, ids0, alone0 : todo0 = {} /\ id0 = None /\ ids0 = {} /\ alone0 = TRUE
    OBVIOUS
  <1>2. todo0 \in SUBSET Users /\ id0 \in Ids /\ ids0 \in (SUBSET Users) \cup {None} /\ alone0 \in BOOLEAN
    BY <1>1, NoneTyped
  <1>3. PICK q : q = Request(op, pc, by, about) OBVIOUS
  <1>4. q = [op |-> op, pc |-> pc, by |-> by, about |-> about, who |-> by, todo |-> {},
             id |-> None, row |-> None, ids |-> {}, alone |-> TRUE]
    BY <1>3 DEF Request
  <1>5. w = [q EXCEPT !.who = who, !.row = row] BY <1>3 DEF BegunWhoRow
  <1>6. w = [op |-> op, pc |-> pc, by |-> by, about |-> about, who |-> who, todo |-> todo0,
             id |-> id0, row |-> row, ids |-> ids0, alone |-> alone0]
    BY <1>1, <1>4, <1>5
  <1>7. Asked(w, op, pc, by, about, who, todo0, id0, row, ids0, alone0) BY <1>2, <1>6, LiteralAsked
  <1> QED BY <1>1, <1>7

BegunWhoRowTodo(w, op, pc, by, about, who, row, todo) == w = [Request(op, pc, by, about) EXCEPT !.who = who, !.row = row, !.todo = todo]
LEMMA AskedWhoRowTodo ==
  ASSUME NEW op \in Ops, NEW pc \in Steps, NEW by \in Users, NEW about \in SUBSET Users, NEW who \in Users, NEW row \in InRow, NEW todo \in SUBSET Users,
         NEW w, BegunWhoRowTodo(w, op, pc, by, about, who, row, todo)
  PROVE  Asked(w, op, pc, by, about, who, todo, None, row, {}, TRUE)
  <1>1. PICK id0, ids0, alone0 : id0 = None /\ ids0 = {} /\ alone0 = TRUE
    OBVIOUS
  <1>2. id0 \in Ids /\ ids0 \in (SUBSET Users) \cup {None} /\ alone0 \in BOOLEAN
    BY <1>1, NoneTyped
  <1>3. PICK q : q = Request(op, pc, by, about) OBVIOUS
  <1>4. q = [op |-> op, pc |-> pc, by |-> by, about |-> about, who |-> by, todo |-> {},
             id |-> None, row |-> None, ids |-> {}, alone |-> TRUE]
    BY <1>3 DEF Request
  <1>5. w = [q EXCEPT !.who = who, !.row = row, !.todo = todo] BY <1>3 DEF BegunWhoRowTodo
  <1>6. w = [op |-> op, pc |-> pc, by |-> by, about |-> about, who |-> who, todo |-> todo,
             id |-> id0, row |-> row, ids |-> ids0, alone |-> alone0]
    BY <1>1, <1>4, <1>5
  <1>7. Asked(w, op, pc, by, about, who, todo, id0, row, ids0, alone0) BY <1>2, <1>6, LiteralAsked
  <1> QED BY <1>1, <1>7

(* A new request: what it reads when it begins, and that the users it is   *)
(* about then have what its first step asks for.                           *)
Begins(r, q) ==
  /\ q \in Rows /\ q # Idle /\ Starts(r, q) /\ q.pc \notin Making
  /\ q.pc = "newCalendar" /\ q.row = "TEAM" => Cardinality(TeamCalendars) < TeamLimit
  /\ Alone(q) => \A s \in Requests : ~TeamCreation(request[s])
  /\ q.pc = "saveCategory" => category[q.id] # None /\ SameKind(q.row, category[q.id])
  /\ \A u \in q.about : Settled(u) => Stage(q, u)

LEMMA NamesTyped ==
  /\ \A u \in Users : {u} \in SUBSET Users
  /\ {} \in SUBSET Users
OBVIOUS

LEMMA GetCalendarsBegins ==
  ASSUME NEW r \in Requests, GetCalendars(r)
  PROVE  \E q : Begins(r, q)
  <1>1. PICK u, op, pc, about :
          /\ u \in Users
          /\ Member(u) /\ Starts(r, Request(op, pc, u, about))
          /\ op = "getCalendars" /\ pc = "personal" /\ about = {u}
    BY DEF GetCalendars
  <1>2. /\ u \in Users
        /\ op \in Ops /\ pc \in Steps /\ about \in SUBSET Users
    BY <1>1 DEF Ops, Steps, CalendarSteps
  <1>3. PICK q : BegunPlain(q, op, pc, u, about) BY DEF BegunPlain
  <1>4. Asked(q, op, pc, u, about, u, {}, None, None, {}, TRUE) BY <1>2, <1>3, AskedPlain
  <1>5. Starts(r, q) BY <1>1, <1>3 DEF BegunPlain
  <1>6. q \in Rows BY <1>1, <1>4 DEF Asked, Rows, Fits, OfOne, CreateSteps, IssueSteps
  <1>7. \A x \in q.about : Settled(x) => Stage(q, x) BY <1>1, <1>4 DEF Asked, Stage, IssueSteps
  <1> QED BY <1>1, <1>4, <1>5, <1>6, <1>7 DEF Asked, Begins, Making, Alone, TeamCreation

LEMMA CreateCalendarBegins ==
  ASSUME NEW r \in Requests, CreateCalendar(r)
  PROVE  \E q : Begins(r, q)
  <1>1. PICK u, type, ids, alone, op, pc, about :
          /\ u \in Users /\ type \in {"TEAM", "PRIVATE"} /\ ids \in SUBSET Users /\ alone \in BOOLEAN
          /\ type = "TEAM" => Cardinality(TeamCalendars) < TeamLimit
          /\ Starts(r, [Request(op, pc, u, about) EXCEPT !.row = type, !.ids = ids, !.alone = alone])
          /\ op = "createCalendar" /\ pc = "newCalendar" /\ about = {}
          /\ alone <=> \A s \in Requests : ~TeamCreation(request[s])
    BY DEF CreateCalendar
  <1>2. /\ u \in Users /\ type \in {"TEAM", "PRIVATE"} /\ ids \in SUBSET Users /\ alone \in BOOLEAN
        /\ op \in Ops /\ pc \in Steps /\ about \in SUBSET Users /\ type \in InRow /\ ids \in (SUBSET Users) \cup {None}
    BY <1>1 DEF Ops, Steps, CalendarSteps, InRow, Types
  <1>3. PICK q : BegunRowIdsAlone(q, op, pc, u, about, type, ids, alone) BY DEF BegunRowIdsAlone
  <1>4. Asked(q, op, pc, u, about, u, {}, None, type, ids, alone) BY <1>2, <1>3, AskedRowIdsAlone
  <1>5. Starts(r, q) BY <1>1, <1>3 DEF BegunRowIdsAlone
  <1>6. q \in Rows BY <1>1, <1>4 DEF Asked, Rows, Fits, OfOne, CreateSteps, IssueSteps
  <1>7. \A x \in q.about : Settled(x) => Stage(q, x) BY <1>1, <1>4 DEF Asked
  <1> QED BY <1>1, <1>4, <1>5, <1>6, <1>7 DEF Asked, Begins, Making, Alone

LEMMA UpdateCalendarBegins ==
  ASSUME RowsOK, NEW r \in Requests, UpdateCalendar(r)
  PROVE  \E q : Begins(r, q)
  <1>1. PICK u, c, ids, type, row, op, pc, about :
          /\ u \in Users /\ c \in CalendarIds /\ ids \in (SUBSET Users) \cup {None} /\ type \in Types
          /\ CanManage(u, c)
          /\ Starts(r, [Request(op, pc, u, about) EXCEPT !.id = c, !.row = row, !.ids = ids])
          /\ type \in {calendar[c].type, "TEAM", "PRIVATE"} /\ row = [calendar[c] EXCEPT !.type = type]
          /\ op = "updateCalendar" /\ pc = "saveCalendar" /\ about = Holder(c)
    <2>1. PICK u \in Users, c \in CalendarIds, ids \in (SUBSET Users) \cup {None} :
            /\ CanManage(u, c)
            /\ \E type \in {calendar[c].type} \cup (IF Manager(u) THEN {"TEAM", "PRIVATE"} ELSE {}) :
                 /\ type # "PRIVATE" => ids = None
                 /\ Starts(r, [Request("updateCalendar", "saveCalendar", u, Holder(c)) EXCEPT
                                 !.id = c, !.row = [calendar[c] EXCEPT !.type = type], !.ids = ids])
      BY DEF UpdateCalendar
    <2>2. calendar[c] \in Calendar BY <2>1 DEF CanManage, Active, RowsOK, ProjectTypeOK, TypeOK
    <2>3. {calendar[c].type} \cup (IF Manager(u) THEN {"TEAM", "PRIVATE"} ELSE {}) \subseteq Types
      BY <2>2 DEF Calendar, Types
    <2>4. PICK type \in {calendar[c].type} \cup (IF Manager(u) THEN {"TEAM", "PRIVATE"} ELSE {}) :
            Starts(r, [Request("updateCalendar", "saveCalendar", u, Holder(c)) EXCEPT
                                 !.id = c, !.row = [calendar[c] EXCEPT !.type = type], !.ids = ids])
      BY <2>1
    <2> QED BY <2>1, <2>3, <2>4
  <1>2. calendar[c] \in Calendar /\ c \in Active BY <1>1 DEF CanManage, Active, RowsOK, ProjectTypeOK, TypeOK
  <1>3. row \in Calendar /\ row.owner = calendar[c].owner /\ row.type = type BY <1>1, <1>2 DEF Calendar
  <1>4. about \in SUBSET Users BY <1>1, <1>2 DEF Holder, Calendar
  <1>5. /\ u \in Users /\ c \in CalendarIds /\ ids \in (SUBSET Users) \cup {None} /\ type \in Types
        /\ op \in Ops /\ pc \in Steps /\ row \in InRow /\ c \in Ids
    BY <1>1, <1>3 DEF Ops, Steps, CalendarSteps, InRow, Ids
  <1>6. PICK q : BegunIdRowIds(q, op, pc, u, about, c, row, ids) BY DEF BegunIdRowIds
  <1>7. Asked(q, op, pc, u, about, u, {}, c, row, ids, TRUE) BY <1>4, <1>5, <1>6, AskedIdRowIds
  <1>8. Starts(r, q) BY <1>1, <1>6 DEF BegunIdRowIds
  <1>9. row.type = "PERSONAL" => row.owner \in about BY <1>1, <1>3 DEF Holder
  <1>10. q \in Rows BY <1>1, <1>3, <1>7, <1>9 DEF Asked, Rows, Fits, OfOne, CreateSteps, IssueSteps
  <1>11. ASSUME NEW x \in q.about, Settled(x)
         PROVE  Stage(q, x)
    <2>1. calendar[c].type = "PERSONAL" /\ calendar[c].owner = x BY <1>1, <1>7, <1>11 DEF Holder, Asked
    <2>2. c \in Personal(x) BY <1>2, <2>1 DEF Personal
    <2>3. Member(x) /\ Personal(x) \subseteq {c} BY <1>11, <2>2 DEF Settled, Nothing, NoPersonal, OnePersonal
    <2> QED BY <1>1, <1>7, <1>11, <2>3 DEF Asked, Stage, IssueSteps
  <1> QED BY <1>1, <1>7, <1>8, <1>10, <1>11 DEF Asked, Begins, Making, Alone, TeamCreation

LEMMA DeleteCalendarBegins ==
  ASSUME RowsOK, NEW r \in Requests, DeleteCalendar(r)
  PROVE  \E q : Begins(r, q)
  <1>1. PICK u, c, row, op, pc, about :
          /\ u \in Users /\ c \in CalendarIds
          /\ CanManage(u, c) /\ calendar[c].type # "PERSONAL"
          /\ Starts(r, [Request(op, pc, u, about) EXCEPT !.id = c, !.row = row])
          /\ row = [calendar[c] EXCEPT !.active = FALSE]
          /\ op = "deleteCalendar" /\ pc = "saveCalendar" /\ about = {}
    BY DEF DeleteCalendar
  <1>2. calendar[c] \in Calendar BY <1>1 DEF CanManage, Active, RowsOK, ProjectTypeOK, TypeOK
  <1>3. row \in Calendar /\ row.type # "PERSONAL" BY <1>1, <1>2 DEF Calendar
  <1>4. /\ u \in Users /\ c \in CalendarIds
        /\ op \in Ops /\ pc \in Steps /\ row \in InRow /\ c \in Ids /\ about \in SUBSET Users
    BY <1>1, <1>3 DEF Ops, Steps, CalendarSteps, InRow, Ids
  <1>5. PICK q : BegunIdRow(q, op, pc, u, about, c, row) BY DEF BegunIdRow
  <1>6. Asked(q, op, pc, u, about, u, {}, c, row, {}, TRUE) BY <1>4, <1>5, AskedIdRow
  <1>7. Starts(r, q) BY <1>1, <1>5 DEF BegunIdRow
  <1>8. q \in Rows BY <1>1, <1>3, <1>6 DEF Asked, Rows, Fits, OfOne, CreateSteps, IssueSteps
  <1>9. \A x \in q.about : Settled(x) => Stage(q, x) BY <1>1, <1>6 DEF Asked
  <1> QED BY <1>1, <1>6, <1>7, <1>8, <1>9 DEF Asked, Begins, Making, Alone, TeamCreation

LEMMA IssueDatedBegins ==
  ASSUME NEW r \in Requests, IssueDated(r)
  PROVE  \E q : Begins(r, q)
  <1>1. PICK u, op, pc, about :
          /\ u \in Users
          /\ Starts(r, Request(op, pc, u, about))
          /\ op = "issue" /\ pc = "issueCalendar" /\ about = {}
    BY DEF IssueDated
  <1>2. /\ u \in Users
        /\ op \in Ops /\ pc \in Steps /\ about \in SUBSET Users
    BY <1>1 DEF Ops, Steps, IssueSteps
  <1>3. PICK q : BegunPlain(q, op, pc, u, about) BY DEF BegunPlain
  <1>4. Asked(q, op, pc, u, about, u, {}, None, None, {}, TRUE) BY <1>2, <1>3, AskedPlain
  <1>5. Starts(r, q) BY <1>1, <1>3 DEF BegunPlain
  <1>6. q \in Rows BY <1>1, <1>4 DEF Asked, Rows, Fits, OfOne, CreateSteps, IssueSteps
  <1>7. \A x \in q.about : Settled(x) => Stage(q, x) BY <1>1, <1>4 DEF Asked, Stage, IssueSteps
  <1> QED BY <1>1, <1>4, <1>5, <1>6, <1>7 DEF Asked, Begins, Making, Alone, TeamCreation

LEMMA CreateFolderBegins ==
  ASSUME NEW r \in Requests, CreateFolder(r)
  PROVE  \E q : Begins(r, q)
  <1>1. PICK u, op, pc, about :
          /\ u \in Users
          /\ Starts(r, Request(op, pc, u, about))
          /\ op = "createFolder" /\ pc = "newFolder" /\ about = {}
    BY DEF CreateFolder
  <1>2. /\ u \in Users
        /\ op \in Ops /\ pc \in Steps /\ about \in SUBSET Users
    BY <1>1 DEF Ops, Steps, CalendarSteps
  <1>3. PICK q : BegunPlain(q, op, pc, u, about) BY DEF BegunPlain
  <1>4. Asked(q, op, pc, u, about, u, {}, None, None, {}, TRUE) BY <1>2, <1>3, AskedPlain
  <1>5. Starts(r, q) BY <1>1, <1>3 DEF BegunPlain
  <1>6. q \in Rows BY <1>1, <1>4 DEF Asked, Rows, Fits, OfOne, CreateSteps, IssueSteps
  <1>7. \A x \in q.about : Settled(x) => Stage(q, x) BY <1>1, <1>4 DEF Asked, Stage, IssueSteps
  <1> QED BY <1>1, <1>4, <1>5, <1>6, <1>7 DEF Asked, Begins, Making, Alone, TeamCreation

LEMMA DeleteFolderBegins ==
  ASSUME NEW r \in Requests, DeleteFolder(r)
  PROVE  \E q : Begins(r, q)
  <1>1. PICK u, op, pc, about :
          /\ u \in Users
          /\ Starts(r, Request(op, pc, u, about))
          /\ op = "deleteFolder" /\ pc = "dropFolder" /\ about = {}
    BY DEF DeleteFolder
  <1>2. /\ u \in Users
        /\ op \in Ops /\ pc \in Steps /\ about \in SUBSET Users
    BY <1>1 DEF Ops, Steps, CalendarSteps
  <1>3. PICK q : BegunPlain(q, op, pc, u, about) BY DEF BegunPlain
  <1>4. Asked(q, op, pc, u, about, u, {}, None, None, {}, TRUE) BY <1>2, <1>3, AskedPlain
  <1>5. Starts(r, q) BY <1>1, <1>3 DEF BegunPlain
  <1>6. q \in Rows BY <1>1, <1>4 DEF Asked, Rows, Fits, OfOne, CreateSteps, IssueSteps
  <1>7. \A x \in q.about : Settled(x) => Stage(q, x) BY <1>1, <1>4 DEF Asked, Stage, IssueSteps
  <1> QED BY <1>1, <1>4, <1>5, <1>6, <1>7 DEF Asked, Begins, Making, Alone, TeamCreation

LEMMA UpdateProjectBegins ==
  ASSUME NEW r \in Requests, UpdateProject(r)
  PROVE  \E q : Begins(r, q)
  <1>1. PICK u, op, pc, about :
          /\ u \in Users
          /\ Starts(r, Request(op, pc, u, about))
          /\ op = "updateProject" /\ pc = "saveProject" /\ about = {}
    BY DEF UpdateProject, Begin, MayManage
  <1>2. /\ u \in Users
        /\ op \in Ops /\ pc \in Steps /\ about \in SUBSET Users
    BY <1>1 DEF Ops, Steps, ProjectSteps
  <1>3. PICK q : BegunPlain(q, op, pc, u, about) BY DEF BegunPlain
  <1>4. Asked(q, op, pc, u, about, u, {}, None, None, {}, TRUE) BY <1>2, <1>3, AskedPlain
  <1>5. Starts(r, q) BY <1>1, <1>3 DEF BegunPlain
  <1>6. q \in Rows BY <1>1, <1>4 DEF Asked, Rows, Fits, OfOne, CreateSteps, IssueSteps
  <1>7. \A x \in q.about : Settled(x) => Stage(q, x) BY <1>1, <1>4 DEF Asked, Stage, IssueSteps
  <1> QED BY <1>1, <1>4, <1>5, <1>6, <1>7 DEF Asked, Begins, Making, Alone, TeamCreation

LEMMA DeleteProjectBegins ==
  ASSUME NEW r \in Requests, DeleteProject(r)
  PROVE  \E q : Begins(r, q)
  <1>1. PICK u, op, pc, about :
          /\ u \in Users
          /\ Starts(r, Request(op, pc, u, about))
          /\ op = "deleteProject" /\ pc = "unjoin" /\ about = Users
    BY DEF DeleteProject, Begin, MayManage
  <1>2. /\ u \in Users
        /\ op \in Ops /\ pc \in Steps /\ about \in SUBSET Users
    BY <1>1 DEF Ops, Steps, ProjectSteps
  <1>3. PICK q : BegunPlain(q, op, pc, u, about) BY DEF BegunPlain
  <1>4. Asked(q, op, pc, u, about, u, {}, None, None, {}, TRUE) BY <1>2, <1>3, AskedPlain
  <1>5. Starts(r, q) BY <1>1, <1>3 DEF BegunPlain
  <1>6. q \in Rows BY <1>1, <1>4 DEF Asked, Rows, Fits, OfOne, CreateSteps, IssueSteps
  <1>7. \A x \in q.about : Settled(x) => Stage(q, x) BY <1>1, <1>4 DEF Asked, Stage, IssueSteps
  <1> QED BY <1>1, <1>4, <1>5, <1>6, <1>7 DEF Asked, Begins, Making, Alone, TeamCreation

LEMMA AddFavoriteBegins ==
  ASSUME NEW r \in Requests, AddFavorite(r)
  PROVE  \E q : Begins(r, q)
  <1>1. PICK u, op, pc, about :
          /\ u \in Users
          /\ Starts(r, Request(op, pc, u, about))
          /\ op = "favorite" /\ pc = "favorite" /\ about = {}
    BY DEF AddFavorite, Begin, MayManage
  <1>2. /\ u \in Users
        /\ op \in Ops /\ pc \in Steps /\ about \in SUBSET Users
    BY <1>1 DEF Ops, Steps, ProjectSteps
  <1>3. PICK q : BegunPlain(q, op, pc, u, about) BY DEF BegunPlain
  <1>4. Asked(q, op, pc, u, about, u, {}, None, None, {}, TRUE) BY <1>2, <1>3, AskedPlain
  <1>5. Starts(r, q) BY <1>1, <1>3 DEF BegunPlain
  <1>6. q \in Rows BY <1>1, <1>4 DEF Asked, Rows, Fits, OfOne, CreateSteps, IssueSteps
  <1>7. \A x \in q.about : Settled(x) => Stage(q, x) BY <1>1, <1>4 DEF Asked, Stage, IssueSteps
  <1> QED BY <1>1, <1>4, <1>5, <1>6, <1>7 DEF Asked, Begins, Making, Alone, TeamCreation

LEMMA CreateEventBegins ==
  ASSUME RowsOK, NEW r \in Requests, CreateEvent(r)
  PROVE  \E q : Begins(r, q)
  <1>1. PICK u, k, row, op, pc, about :
          /\ u \in Users /\ k \in CategoryIds
          /\ category[k] # None /\ Member(u)
          /\ Starts(r, [Request(op, pc, u, about) EXCEPT !.row = row])
          /\ row = [calendar |-> category[k].calendar, category |-> k, by |-> u]
          /\ op = "createEvent" /\ pc = "newEvent" /\ about = {u}
    BY DEF CreateEvent, Access
  <1>2. category[k] \in Category BY <1>1 DEF RowsOK, ProjectTypeOK, TypeOK
  <1>3. row \in Event /\ row.by = u BY <1>1, <1>2 DEF Category, Event
  <1>4. /\ u \in Users /\ k \in CategoryIds
        /\ op \in Ops /\ pc \in Steps /\ row \in InRow /\ about \in SUBSET Users
    BY <1>1, <1>3 DEF Ops, Steps, CalendarSteps, InRow
  <1>5. PICK q : BegunRow(q, op, pc, u, about, row) BY DEF BegunRow
  <1>6. Asked(q, op, pc, u, about, u, {}, None, row, {}, TRUE) BY <1>4, <1>5, AskedRow
  <1>7. Starts(r, q) BY <1>1, <1>5 DEF BegunRow
  <1>8. q \in Rows BY <1>1, <1>3, <1>6 DEF Asked, Rows, Fits, OfOne, CreateSteps, IssueSteps
  <1>9. \A x \in q.about : Settled(x) => Stage(q, x) BY <1>1, <1>6 DEF Asked, Stage, IssueSteps
  <1> QED BY <1>1, <1>6, <1>7, <1>8, <1>9 DEF Asked, Begins, Making, Alone, TeamCreation

LEMMA UpdateEventBegins ==
  ASSUME RowsOK, NEW r \in Requests, UpdateEvent(r)
  PROVE  \E q : Begins(r, q)
  <1>1. PICK u \in Users, e \in EventIds, c \in CalendarIds :
          /\ event[e] # None /\ Member(u)
          /\ \E row \in {[event[e] EXCEPT !.calendar = c]}
                   \cup (IF c # event[e].calendar THEN {}
                         ELSE {[event[e] EXCEPT !.category = k, !.calendar = category[k].calendar] :
                                 k \in {j \in CategoryIds : category[j] # None /\ category[j].active}}) :
               Starts(r, [Request("updateEvent", "saveEvent", u, {u, event[e].by}) EXCEPT !.id = e, !.row = row])
    BY DEF UpdateEvent, Access
  <1>2. event[e] \in Event /\ \A k \in CategoryIds : category[k] # None => category[k] \in Category
    BY <1>1 DEF RowsOK, ProjectTypeOK, TypeOK
  <1>3. PICK row, op, pc, about :
          /\ row \in Event
          /\ Starts(r, [Request(op, pc, u, about) EXCEPT !.id = e, !.row = row])
          /\ row.by = event[e].by
          /\ op = "updateEvent" /\ pc = "saveEvent" /\ about = {u, event[e].by}
    <2>1. PICK row \in {[event[e] EXCEPT !.calendar = c]}
                   \cup (IF c # event[e].calendar THEN {}
                         ELSE {[event[e] EXCEPT !.category = k, !.calendar = category[k].calendar] :
                                 k \in {j \in CategoryIds : category[j] # None /\ category[j].active}}) :
               Starts(r, [Request("updateEvent", "saveEvent", u, {u, event[e].by}) EXCEPT !.id = e, !.row = row])
      BY <1>1
    <2>2. CASE row = [event[e] EXCEPT !.calendar = c]
      <3>1. row \in Event /\ row.by = event[e].by BY <1>2, <2>2 DEF Event
      <3> QED BY <2>1, <3>1
    <2>3. CASE \E k \in CategoryIds :
                 category[k] # None /\ row = [event[e] EXCEPT !.category = k, !.calendar = category[k].calendar]
      <3>1. PICK k \in CategoryIds :
              category[k] # None /\ row = [event[e] EXCEPT !.category = k, !.calendar = category[k].calendar]
        BY <2>3
      <3>2. category[k].calendar \in CalendarIds BY <1>2, <3>1 DEF Category
      <3>3. row \in Event /\ row.by = event[e].by BY <1>2, <3>1, <3>2 DEF Event
      <3> QED BY <2>1, <3>3
    <2> QED BY <2>1, <2>2, <2>3
  <1>4. about \in SUBSET Users BY <1>2, <1>3 DEF Event
  <1>5. op \in Ops /\ pc \in Steps /\ row \in InRow /\ e \in Ids BY <1>3 DEF Ops, Steps, CalendarSteps, InRow, Ids
  <1>6. PICK q : BegunIdRow(q, op, pc, u, about, e, row) BY DEF BegunIdRow
  <1>7. Asked(q, op, pc, u, about, u, {}, e, row, {}, TRUE) BY <1>4, <1>5, <1>6, AskedIdRow
  <1>8. Starts(r, q) BY <1>3, <1>6 DEF BegunIdRow
  <1>9. q \in Rows BY <1>3, <1>7 DEF Asked, Rows, Fits, OfOne, CreateSteps, IssueSteps
  <1>10. ASSUME NEW x \in q.about, Settled(x)
         PROVE  Stage(q, x)
    <2>1. x = u \/ x = event[e].by BY <1>3, <1>7 DEF Asked
    <2>2. Member(x) BY <1>1, <1>10, <2>1 DEF Settled, Nothing, NoEvents
    <2> QED BY <1>3, <1>7, <1>10, <2>2 DEF Asked, Stage, IssueSteps
  <1> QED BY <1>3, <1>7, <1>8, <1>9, <1>10 DEF Asked, Begins, Making, Alone, TeamCreation

LEMMA DeleteEventBegins ==
  ASSUME NEW r \in Requests, DeleteEvent(r)
  PROVE  \E q : Begins(r, q)
  <1>1. PICK u, e, op, pc, about :
          /\ u \in Users /\ e \in EventIds
          /\ Starts(r, [Request(op, pc, u, about) EXCEPT !.id = e])
          /\ op = "deleteEvent" /\ pc = "saveEvent" /\ about = {}
    BY DEF DeleteEvent
  <1>2. /\ u \in Users /\ e \in EventIds
        /\ op \in Ops /\ pc \in Steps /\ e \in Ids /\ about \in SUBSET Users
    BY <1>1 DEF Ops, Steps, CalendarSteps, Ids
  <1>3. PICK q : BegunId(q, op, pc, u, about, e) BY DEF BegunId
  <1>4. Asked(q, op, pc, u, about, u, {}, e, None, {}, TRUE) BY <1>2, <1>3, AskedId
  <1>5. Starts(r, q) BY <1>1, <1>3 DEF BegunId
  <1>6. q \in Rows BY <1>1, <1>4 DEF Asked, Rows, Fits, OfOne, CreateSteps, IssueSteps
  <1>7. \A x \in q.about : Settled(x) => Stage(q, x) BY <1>1, <1>4 DEF Asked
  <1> QED BY <1>1, <1>4, <1>5, <1>6, <1>7 DEF Asked, Begins, Making, Alone, TeamCreation

LEMMA GetCategoriesBegins ==
  ASSUME RowsOK, NEW r \in Requests, GetCategories(r)
  PROVE  \E q : Begins(r, q)
  <1>1. PICK u, c, row, op, pc, about :
          /\ u \in Users /\ c \in CalendarIds
          /\ Starts(r, [Request(op, pc, u, about) EXCEPT !.row = row])
          /\ row = [calendar |-> c, default |-> TRUE, active |-> TRUE]
          /\ op = "createCategory" /\ pc = "addCategory" /\ about = {}
    BY DEF GetCategories, NewDefaultCategory
  <1>2. row \in Category /\ row.active BY <1>1 DEF Category
  <1>3. /\ u \in Users /\ c \in CalendarIds
        /\ op \in Ops /\ pc \in Steps /\ row \in InRow /\ about \in SUBSET Users
    BY <1>1, <1>2 DEF Ops, Steps, CalendarSteps, InRow
  <1>4. PICK q : BegunRow(q, op, pc, u, about, row) BY DEF BegunRow
  <1>5. Asked(q, op, pc, u, about, u, {}, None, row, {}, TRUE) BY <1>3, <1>4, AskedRow
  <1>6. Starts(r, q) BY <1>1, <1>4 DEF BegunRow
  <1>7. q \in Rows BY <1>1, <1>2, <1>5 DEF Asked, Rows, Fits, OfOne, CreateSteps, IssueSteps
  <1>8. \A x \in q.about : Settled(x) => Stage(q, x) BY <1>1, <1>5 DEF Asked
  <1> QED BY <1>1, <1>5, <1>6, <1>7, <1>8 DEF Asked, Begins, Making, Alone, TeamCreation

LEMMA CreateCategoryBegins ==
  ASSUME RowsOK, NEW r \in Requests, CreateCategory(r)
  PROVE  \E q : Begins(r, q)
  <1>1. PICK u, c, row, op, pc, about :
          /\ u \in Users /\ c \in CalendarIds
          /\ Starts(r, [Request(op, pc, u, about) EXCEPT !.row = row])
          /\ row = [calendar |-> c, default |-> FALSE, active |-> TRUE]
          /\ op = "createCategory" /\ pc = "addCategory" /\ about = {}
    BY DEF CreateCategory
  <1>2. row \in Category /\ row.active BY <1>1 DEF Category
  <1>3. /\ u \in Users /\ c \in CalendarIds
        /\ op \in Ops /\ pc \in Steps /\ row \in InRow /\ about \in SUBSET Users
    BY <1>1, <1>2 DEF Ops, Steps, CalendarSteps, InRow
  <1>4. PICK q : BegunRow(q, op, pc, u, about, row) BY DEF BegunRow
  <1>5. Asked(q, op, pc, u, about, u, {}, None, row, {}, TRUE) BY <1>3, <1>4, AskedRow
  <1>6. Starts(r, q) BY <1>1, <1>4 DEF BegunRow
  <1>7. q \in Rows BY <1>1, <1>2, <1>5 DEF Asked, Rows, Fits, OfOne, CreateSteps, IssueSteps
  <1>8. \A x \in q.about : Settled(x) => Stage(q, x) BY <1>1, <1>5 DEF Asked
  <1> QED BY <1>1, <1>5, <1>6, <1>7, <1>8 DEF Asked, Begins, Making, Alone, TeamCreation

LEMMA UpdateCategoryBegins ==
  ASSUME RowsOK, CategoriesOK, NEW r \in Requests, UpdateCategory(r)
  PROVE  \E q : Begins(r, q)
  <1>1. PICK u, k, row, op, pc, about :
          /\ u \in Users /\ k \in CategoryIds
          /\ category[k] # None /\ Starts(r, [Request(op, pc, u, about) EXCEPT !.id = k, !.row = row])
          /\ row = category[k]
          /\ op = "updateCategory" /\ pc = "saveCategory" /\ about = {}
    BY DEF UpdateCategory
  <1>2. category[k] \in Category BY <1>1 DEF RowsOK, ProjectTypeOK, TypeOK
  <1>3. row \in Category /\ SameKind(row, category[k]) BY <1>1, <1>2 DEF Category, SameKind
  <1>4. row.default => row.active BY <1>1, <1>2, <1>3 DEF CategoriesOK, SameKind
  <1>5. /\ u \in Users /\ k \in CategoryIds
        /\ op \in Ops /\ pc \in Steps /\ row \in InRow /\ k \in Ids /\ about \in SUBSET Users
    BY <1>1, <1>3 DEF Ops, Steps, CalendarSteps, InRow, Ids
  <1>6. PICK q : BegunIdRow(q, op, pc, u, about, k, row) BY DEF BegunIdRow
  <1>7. Asked(q, op, pc, u, about, u, {}, k, row, {}, TRUE) BY <1>5, <1>6, AskedIdRow
  <1>8. Starts(r, q) BY <1>1, <1>6 DEF BegunIdRow
  <1>9. q \in Rows BY <1>1, <1>3, <1>4, <1>7 DEF Asked, Rows, Fits, OfOne, CreateSteps, IssueSteps
  <1>10. \A x \in q.about : Settled(x) => Stage(q, x) BY <1>1, <1>7 DEF Asked
  <1> QED BY <1>1, <1>3, <1>7, <1>8, <1>9, <1>10 DEF Asked, Begins, Making, Alone, TeamCreation

LEMMA DeleteCategoryBegins ==
  ASSUME RowsOK, CategoriesOK, NEW r \in Requests, DeleteCategory(r)
  PROVE  \E q : Begins(r, q)
  <1>1. PICK u, k, row, op, pc, about :
          /\ u \in Users /\ k \in CategoryIds
          /\ category[k] # None /\ Starts(r, [Request(op, pc, u, about) EXCEPT !.id = k, !.row = row])
          /\ ~category[k].default /\ row = [category[k] EXCEPT !.active = FALSE]
          /\ op = "deleteCategory" /\ pc = "saveCategory" /\ about = {}
    BY DEF DeleteCategory
  <1>2. category[k] \in Category BY <1>1 DEF RowsOK, ProjectTypeOK, TypeOK
  <1>3. row \in Category /\ SameKind(row, category[k]) BY <1>1, <1>2 DEF Category, SameKind
  <1>4. row.default => row.active BY <1>1, <1>2, <1>3 DEF CategoriesOK, SameKind
  <1>5. /\ u \in Users /\ k \in CategoryIds
        /\ op \in Ops /\ pc \in Steps /\ row \in InRow /\ k \in Ids /\ about \in SUBSET Users
    BY <1>1, <1>3 DEF Ops, Steps, CalendarSteps, InRow, Ids
  <1>6. PICK q : BegunIdRow(q, op, pc, u, about, k, row) BY DEF BegunIdRow
  <1>7. Asked(q, op, pc, u, about, u, {}, k, row, {}, TRUE) BY <1>5, <1>6, AskedIdRow
  <1>8. Starts(r, q) BY <1>1, <1>6 DEF BegunIdRow
  <1>9. q \in Rows BY <1>1, <1>3, <1>4, <1>7 DEF Asked, Rows, Fits, OfOne, CreateSteps, IssueSteps
  <1>10. \A x \in q.about : Settled(x) => Stage(q, x) BY <1>1, <1>7 DEF Asked
  <1> QED BY <1>1, <1>3, <1>7, <1>8, <1>9, <1>10 DEF Asked, Begins, Making, Alone, TeamCreation

LEMMA NewProjectBegins ==
  ASSUME RowsOK, NEW r \in Requests, NEW user \in Users, NEW selected \in SUBSET Users, NewProject(r, user, selected)
  PROVE  \E q : Begins(r, q)
  <1>1. PICK op, pc, about, todo :
          /\ ~project /\ Starts(r, [Request(op, pc, user, about) EXCEPT !.todo = todo])
          /\ op = "createProject" /\ pc = "project" /\ about = Users /\ todo = selected \cap Team
    BY DEF NewProject, Begin
  <1>2. op \in Ops /\ pc \in Steps /\ about \in SUBSET Users /\ todo \in SUBSET Users
    BY <1>1 DEF Ops, Steps, CreateSteps, IssueSteps
  <1>3. PICK q : BegunTodo(q, op, pc, user, about, todo) BY DEF BegunTodo
  <1>4. Asked(q, op, pc, user, about, user, todo, None, None, {}, TRUE) BY <1>2, <1>3, AskedTodo
  <1>5. Starts(r, q) BY <1>1, <1>3 DEF BegunTodo
  <1>6. q \in Rows BY <1>1, <1>4 DEF Asked, Rows, Fits, OfOne, CreateSteps, IssueSteps
  <1>7. ASSUME NEW x \in q.about
        PROVE  Stage(q, x)
    <2>1. x \in Users BY <1>1, <1>4, <1>7 DEF Asked
    <2>2. ~Member(x) BY <1>1, <2>1 DEF RowsOK, Member
    <2>3. Nothing(x) BY <1>1, <2>1 DEF RowsOK, Nothing, NoPersonal, NoEvents, Personal, Active
    <2> QED BY <1>1, <1>4, <2>2, <2>3 DEF Asked, Stage, IssueSteps
  <1> QED BY <1>1, <1>4, <1>5, <1>6, <1>7 DEF Asked, Begins, Making, Alone, TeamCreation

LEMMA AddProjectMemberBegins ==
  ASSUME RowsOK, NEW r \in Requests, AddProjectMember(r)
  PROVE  \E q : Begins(r, q)
  <1>1. PICK a, u, rl, op, pc, about, todo :
          /\ a \in Users /\ u \in Users /\ rl \in Roles
          /\ ~Member(u) /\ Starts(r, [Request(op, pc, a, about) EXCEPT !.who = u, !.row = rl, !.todo = todo])
          /\ op = "addMember" /\ pc = "seat" /\ about = {u} /\ todo = (IF hasChannel THEN {u} ELSE {})
    BY TeamAssumption DEF AddProjectMember, Begin
  <1>2. /\ a \in Users /\ u \in Users /\ rl \in Roles
        /\ op \in Ops /\ pc \in Steps /\ about \in SUBSET Users /\ todo \in SUBSET Users /\ rl \in InRow
    BY <1>1 DEF Ops, Steps, MemberSteps, InRow
  <1>3. PICK q : BegunWhoRowTodo(q, op, pc, a, about, u, rl, todo) BY DEF BegunWhoRowTodo
  <1>4. Asked(q, op, pc, a, about, u, todo, None, rl, {}, TRUE) BY <1>2, <1>3, AskedWhoRowTodo
  <1>5. Starts(r, q) BY <1>1, <1>3 DEF BegunWhoRowTodo
  <1>6. q \in Rows BY <1>1, <1>4 DEF Asked, Rows, Fits, OfOne, CreateSteps, IssueSteps
  <1>7. \A x \in q.about : Settled(x) => Stage(q, x) BY <1>1, <1>4 DEF Asked, Stage, IssueSteps, Settled
  <1> QED BY <1>1, <1>4, <1>5, <1>6, <1>7 DEF Asked, Begins, Making, Alone, TeamCreation

LEMMA UpdateMemberRoleBegins ==
  ASSUME NEW r \in Requests, UpdateMemberRole(r)
  PROVE  \E q : Begins(r, q)
  <1>1. PICK a, u, rl, op, pc, about :
          /\ a \in Users /\ u \in Users /\ rl \in Roles
          /\ Member(u) /\ Starts(r, [Request(op, pc, a, about) EXCEPT !.who = u, !.row = rl])
          /\ op = "updateRole" /\ pc = "saveRole" /\ about = {u}
    BY DEF UpdateMemberRole, Begin
  <1>2. /\ a \in Users /\ u \in Users /\ rl \in Roles
        /\ op \in Ops /\ pc \in Steps /\ about \in SUBSET Users /\ rl \in InRow
    BY <1>1 DEF Ops, Steps, MemberSteps, InRow
  <1>3. PICK q : BegunWhoRow(q, op, pc, a, about, u, rl) BY DEF BegunWhoRow
  <1>4. Asked(q, op, pc, a, about, u, {}, None, rl, {}, TRUE) BY <1>2, <1>3, AskedWhoRow
  <1>5. Starts(r, q) BY <1>1, <1>3 DEF BegunWhoRow
  <1>6. q \in Rows BY <1>1, <1>4 DEF Asked, Rows, Fits, OfOne, CreateSteps, IssueSteps
  <1>7. \A x \in q.about : Settled(x) => Stage(q, x) BY <1>1, <1>4 DEF Asked, Stage, IssueSteps
  <1> QED BY <1>1, <1>4, <1>5, <1>6, <1>7 DEF Asked, Begins, Making, Alone, TeamCreation

LEMMA RemoveMemberBegins ==
  ASSUME NEW r \in Requests, RemoveMember(r)
  PROVE  \E q : Begins(r, q)
  <1>1. PICK a, u, op, pc, about :
          /\ a \in Users /\ u \in Users
          /\ Member(u) /\ Starts(r, [Request(op, pc, a, about) EXCEPT !.who = u])
          /\ op = "removeMember" /\ pc = "findPersonals" /\ about = {u}
    BY DEF RemoveMember, Begin
  <1>2. /\ a \in Users /\ u \in Users
        /\ op \in Ops /\ pc \in Steps /\ about \in SUBSET Users
    BY <1>1 DEF Ops, Steps, MemberSteps
  <1>3. PICK q : BegunWho(q, op, pc, a, about, u) BY DEF BegunWho
  <1>4. Asked(q, op, pc, a, about, u, {}, None, None, {}, TRUE) BY <1>2, <1>3, AskedWho
  <1>5. Starts(r, q) BY <1>1, <1>3 DEF BegunWho
  <1>6. q \in Rows BY <1>1, <1>4 DEF Asked, Rows, Fits, OfOne, CreateSteps, IssueSteps
  <1>7. \A x \in q.about : Settled(x) => Stage(q, x) BY <1>1, <1>4 DEF Asked, Stage, IssueSteps
  <1> QED BY <1>1, <1>4, <1>5, <1>6, <1>7 DEF Asked, Begins, Making, Alone, TeamCreation

(* Every request but the one that removes a favorite is begun this way.    *)
LEMMA AskBegins ==
  ASSUME RowsOK, CategoriesOK, NEW r \in Requests, Ask(r)
  PROVE  ((\E q : Begins(r, q)) /\ UNCHANGED projectVars) \/ RemoveFavorite(r)
  <1>1. CASE CreateProject(r)
    <2>1. PICK u \in Users, selected \in SUBSET Users : NewProject(r, u, selected) BY <1>1 DEF CreateProject
    <2> QED BY <2>1, NewProjectBegins DEF NewProject, Begin
  <1>2. CASE CloneProject(r)
    <2>1. PICK u \in Users : NewProject(r, u, {}) BY <1>2 DEF CloneProject
    <2> QED BY <2>1, NewProjectBegins DEF NewProject, Begin
  <1>3. CASE AddProjectMember(r) BY <1>3, AddProjectMemberBegins DEF AddProjectMember, Begin
  <1>4. CASE UpdateMemberRole(r) BY <1>4, UpdateMemberRoleBegins DEF UpdateMemberRole, Begin
  <1>5. CASE RemoveMember(r) BY <1>5, RemoveMemberBegins DEF RemoveMember, Begin
  <1>6. CASE UpdateProject(r) BY <1>6, UpdateProjectBegins DEF UpdateProject, Begin
  <1>7. CASE DeleteProject(r) BY <1>7, DeleteProjectBegins DEF DeleteProject, Begin
  <1>8. CASE AddFavorite(r) BY <1>8, AddFavoriteBegins DEF AddFavorite, Begin
  <1>9. CASE AskCalendar(r) /\ UNCHANGED projectVars
    BY <1>9, GetCalendarsBegins, IssueDatedBegins, CreateCalendarBegins, UpdateCalendarBegins, DeleteCalendarBegins,
       CreateFolderBegins, DeleteFolderBegins, CreateEventBegins, UpdateEventBegins, DeleteEventBegins,
       GetCategoriesBegins, CreateCategoryBegins, UpdateCategoryBegins, DeleteCategoryBegins
       DEF AskCalendar
  <1> QED BY <1>1, <1>2, <1>3, <1>4, <1>5, <1>6, <1>7, <1>8, <1>9 DEF Ask

-----------------------------------------------------------------------------
(***************************************************************************)
(* Types: RequestsOK and RowsOK.                                           *)
(***************************************************************************)
(* No handler begins the creation of a TEAM calendar.                      *)
Continues(r, w) == TeamCreation(w) => TeamCreation(request[r]) /\ w.pc # "newCalendar"

LEMMA HandleOnward ==
  ASSUME RowsOK, RequestsOK, NEW r \in Requests, Handle(r)
  PROVE  \E w : Onward(r, w) /\ Continues(r, w)
  <1>1. \A w : Onward(r, w) /\ (w # Idle => w.pc # "newCalendar" /\ w.row = request[r].row) => Continues(r, w)
    BY DEF Onward, Continues, TeamCreation, SameRequest
  <1>2. \A w : Onward(r, w) /\ request[r].op # "createCalendar" => Continues(r, w)
    BY DEF Onward, Continues, TeamCreation, SameRequest
  <1>3. CASE SaveNewProject(r) \/ SeatOwner(r) \/ NewChannel(r)
    BY <1>1, <1>3, SaveNewProjectStep, SeatOwnerStep, NewChannelStep DEF Same, Now
  <1>4. CASE SeatSelected(r) \/ JoinSelected(r) \/ NewBaseCalendar(r) \/ NewBaseCategory(r) \/ FirstEvent(r)
    <2>1. request[r].op # "createCalendar"
      <3>1. request[r] \in Rows /\ request[r].pc \in CreateSteps
        BY <1>4, BusyRows DEF SeatSelected, JoinSelected, NewBaseCalendar, NewBaseCategory, FirstEvent,
           Fills, Writes, At, CreateSteps
      <3> QED BY <3>1 DEF Rows, Fits
    <2> QED BY <1>2, <1>4, <2>1, SeatSelectedStep, JoinSelectedStep, NewBaseCalendarStep, NewBaseCategoryStep, FirstEventStep
  <1>5. CASE SeatBaseOwner(r) \/ PurgeEvents(r) \/ DeleteChannelMembers(r)
    BY <1>1, <1>5, SeatBaseOwnerStep, PurgeEventsStep, DeleteChannelMembersStep DEF Same, Now
  <1>6. CASE SeatMember(r) \/ JoinChannel(r) BY <1>1, <1>6, SeatMemberStep, JoinChannelStep DEF Same, Now
  <1>7. CASE \/ SaveRole(r) \/ Unseat(r) \/ SaveProject(r) \/ DropProject(r) \/ InsertFavorite(r)
             \/ ReplaceMembers(r) \/ NewFolder(r) \/ DropFolder(r)
    BY <1>1, <1>7, SaveRoleStep, UnseatStep, SaveProjectStep, DropProjectStep, InsertFavoriteStep,
       ReplaceMembersStep, NewFolderStep, DropFolderStep
  <1>8. CASE NewEvent(r) \/ SaveEvent(r) \/ AddCategory(r) \/ SaveCategory(r) \/ Fail(r)
    BY <1>1, <1>8, NewEventStep, SaveEventStep, AddCategoryStep, SaveCategoryStep, FailStep
  <1>9. CASE FindPersonal(r) BY <1>1, <1>2, <1>9, FindPersonalStep DEF Follows, Same, Now
  <1>10. CASE NewCategory(r) BY <1>1, <1>2, <1>10, NewCategoryStep
  <1>11. CASE NewPersonal(r) \/ NewDefaultCalendar(r)
    <2>1. request[r].op # "createCalendar"
      <3>1. request[r] \in Rows /\ request[r].pc \in {"newPersonal", "newDefault"}
        BY <1>11, BusyRows DEF NewPersonal, NewDefaultCalendar, Writes, At
      <3> QED BY <3>1 DEF Rows, Fits
    <2> QED BY <1>2, <1>11, <2>1, NewPersonalStep, NewDefaultCalendarStep DEF Creates
  <1>12. CASE NewCalendar(r) BY <1>1, <1>12, NewCalendarStep DEF Creates, Now
  <1>13. CASE EnsureDefault(r) \/ OwnMember(r) \/ AddExtras(r) \/ SaveCalendar(r)
    BY <1>1, <1>13, EnsureDefaultStep, OwnMemberStep, AddExtrasStep, SaveCalendarStep DEF Same, Now
  <1>14. CASE \/ FindIssueCalendar(r) \/ NewIssueCalendar(r) \/ SeatIssueOwner(r) \/ FindIssueCategory(r)
              \/ NewIssueCategory(r) \/ FindPersonals(r) \/ DeactivatePersonal(r)
    <2>1. request[r].op # "createCalendar"
      <3>1. request[r] \in Rows /\ request[r].pc \in IssueSteps \cup {"findPersonals", "deactivate"}
        BY <1>14, BusyRows DEF FindIssueCalendar, NewIssueCalendar, SeatIssueOwner, FindIssueCategory,
           NewIssueCategory, FindPersonals, DeactivatePersonal, Fills, Writes, At, IssueSteps
      <3> QED BY <3>1 DEF Rows, Fits
    <2> QED BY <1>2, <1>14, <2>1, FindIssueCalendarStep, NewIssueCalendarStep, SeatIssueOwnerStep,
         FindIssueCategoryStep, NewIssueCategoryStep, FindPersonalsStep, DeactivatePersonalStep
  <1> QED BY <1>3, <1>4, <1>5, <1>6, <1>7, <1>8, <1>9, <1>10, <1>11, <1>12, <1>13, <1>14 DEF Handle, HandleCalendar

LEMMA RequestsKept ==
  ASSUME RequestsOK, NEW r \in Requests, NEW w, Onward(r, w) \/ Begins(r, w), starts \in Nat
  PROVE  RequestsOK'
  <1>1. request' = [request EXCEPT ![r] = w] /\ w \in {Idle} \cup Rows BY DEF Onward, Begins, Starts, Goes
  <1>2. request' \in [Requests -> {Idle} \cup Rows] BY <1>1 DEF RequestsOK
  <1>3. starts' # 0
    <2>1. CASE Onward(r, w) BY <2>1 DEF Onward, RequestsOK
    <2>2. CASE Begins(r, w) BY <2>2 DEF Begins, Starts, Free
    <2> QED BY <2>1, <2>2
  <1> QED BY <1>2, <1>3 DEF RequestsOK

(* What RowsOK says of the tables, request by request left out.            *)
Tables ==
  /\ project \in BOOLEAN
  /\ role \in [Users -> Roles \cup {None}]
  /\ calendar \in [CalendarIds -> {None} \cup Calendar]
  /\ attendees \in [CalendarIds -> SUBSET Users]
  /\ category \in [CategoryIds -> {None} \cup Category]
  /\ event \in [EventIds -> {None} \cup Event]
  /\ folders \in Nat /\ starts \in 0..MaxStarts
  /\ \A c \in CalendarIds : calendar[c] = None => attendees[c] = {}
  /\ crossed \subseteq Users /\ bare \subseteq CalendarIds /\ uncounted \subseteq CalendarIds
  /\ channel \subseteq Users /\ hasChannel \in BOOLEAN /\ favorites \subseteq Users

NoRows ==
  /\ \A u \in Users : role[u] = None
  /\ \A c \in CalendarIds : calendar[c] = None
  /\ \A k \in CategoryIds : category[k] = None
  /\ \A e \in EventIds : event[e] = None

LEMMA RowsAre == RequestsOK => (RowsOK <=> Tables /\ (~project => NoRows))
  <1>1. RequestsOK => \A r \in Requests : request[r] # Idle => request[r].by \in Users /\ request[r].about \subseteq Users
    BY BusyRows, Fields
  <1> QED BY <1>1 DEF RowsOK, ProjectTypeOK, TypeOK, Tables, NoRows

LEMMA BeginTables ==
  ASSUME Tables, ~project => NoRows, NEW r \in Requests, NEW q, Begins(r, q), UNCHANGED projectVars
  PROVE  Tables' /\ (~project => NoRows)'
  <1>1. starts' \in 0..MaxStarts BY BoundAssumption DEF Begins, Starts, Free, Tables
  <1>2. crossed' \subseteq Users
    <2>1. q.about \subseteq Users BY Fields DEF Begins, Rows
    <2> QED BY <2>1 DEF Begins, Starts, Tables
  <1> QED BY <1>1, <1>2 DEF Begins, Starts, Tables, NoRows, tables, projectVars

LEMMA SaveNewProjectTables ==
  ASSUME Tables, ~project => NoRows, RowsOK, RequestsOK, NEW r \in Requests, SaveNewProject(r)
  PROVE  Tables' /\ (~project => NoRows)'
BY DEF SaveNewProject, Writes, Fills, At, tables, history, projectVars, Tables, NoRows

LEMMA SeatOwnerTables ==
  ASSUME Tables, ~project => NoRows, RowsOK, RequestsOK, NEW r \in Requests, SeatOwner(r)
  PROVE  Tables' /\ (~project => NoRows)'
  <1>1. request[r].by \in Users /\ "OWNER" \in Roles BY BusyRows, Fields DEF SeatOwner, Writes, At, Roles
  <1> QED BY <1>1 DEF SeatOwner, Writes, Fills, At, tables, history, projectVars, Tables, NoRows

LEMMA SeatSelectedTables ==
  ASSUME Tables, ~project => NoRows, RowsOK, RequestsOK, NEW r \in Requests, SeatSelected(r)
  PROVE  Tables' /\ (~project => NoRows)'
  <1>1. SeatSelected(r) =>
          \/ role' = role
          \/ Unseated(request[r]) # {} /\ role' = [role EXCEPT ![OneOf(Unseated(request[r]))] = "MEMBER"]
    BY DEF SeatSelected
  <1>2. \A left : left # {} => OneOf(left) \in left BY DEF OneOf
  <1>3. role' = role \/ \E u \in request[r].todo : role' = [role EXCEPT ![u] = "MEMBER"]
    BY <1>1, <1>2 DEF Unseated
  <1>4. request[r].todo \in SUBSET Users /\ "MEMBER" \in Roles BY BusyRows, Fields DEF SeatSelected, Writes, At, Roles
  <1>5. role' \in [Users -> Roles \cup {None}] BY <1>3, <1>4 DEF Tables
  <1> QED BY <1>5 DEF SeatSelected, Writes, Fills, At, tables, history, projectVars, Tables, NoRows

LEMMA NewChannelTables ==
  ASSUME Tables, ~project => NoRows, RowsOK, RequestsOK, NEW r \in Requests, NewChannel(r)
  PROVE  Tables' /\ (~project => NoRows)'
BY DEF NewChannel, Writes, Fills, At, tables, history, projectVars, Tables, NoRows

LEMMA JoinSelectedTables ==
  ASSUME Tables, ~project => NoRows, RowsOK, RequestsOK, NEW r \in Requests, JoinSelected(r)
  PROVE  Tables' /\ (~project => NoRows)'
  <1>1. request[r].todo \in SUBSET Users /\ request[r].by \in Users BY BusyRows, Fields DEF JoinSelected, Writes, At
  <1>2. channel' \subseteq Users
    <2>1. JoinSelected(r) =>
            \/ channel' = channel
            \/ Unjoined(request[r]) # {} /\ channel' = channel \cup {OneOf(Unjoined(request[r]))}
      BY DEF JoinSelected
    <2>2. \A left : left # {} => OneOf(left) \in left BY DEF OneOf
    <2>3. channel' = channel \/ \E u \in {request[r].by} \cup request[r].todo : channel' = channel \cup {u}
      BY <2>1, <2>2 DEF Unjoined
    <2> QED BY <1>1, <2>3 DEF Tables
  <1> QED BY <1>2 DEF JoinSelected, Writes, Fills, At, tables, history, projectVars, Tables, NoRows

LEMMA NewBaseCalendarTables ==
  ASSUME Tables, ~project => NoRows, RowsOK, RequestsOK, NEW r \in Requests, NewBaseCalendar(r)
  PROVE  Tables' /\ (~project => NoRows)'
  <1>1. PICK c \in CalendarIds, row \in Calendar :
          /\ calendar' = [calendar EXCEPT ![c] = row]
          /\ bare' = bare \cup {c} /\ uncounted' \subseteq uncounted \cup {c}
    <2>1. PICK c \in CalendarIds :
            /\ calendar' = [calendar EXCEPT ![c] = [type |-> "TEAM", owner |-> request[r].by, active |-> TRUE]]
            /\ request[r].by \in Users /\ bare' = bare \cup {c} /\ uncounted' \subseteq uncounted \cup {c}
      BY NewBaseCalendarStep
    <2>2. [type |-> "TEAM", owner |-> request[r].by, active |-> TRUE] \in Calendar BY <2>1 DEF Calendar, Types
    <2> QED BY <2>1, <2>2
  <1>2. row # None BY <1>1, NoneAssumption
  <1>3. folders' \in Nat /\ starts' = starts /\ crossed' = crossed /\ project' = project /\ project
    BY DEF NewBaseCalendar, Writes, Fills, At, tables, history, projectVars, Tables, NoRows
  <1>4. UNCHANGED <<role, attendees, category, event, channel, hasChannel, favorites>>
    BY DEF NewBaseCalendar, Writes, Fills, At, tables, history, projectVars, Tables, NoRows
  <1>5. \A x \in CalendarIds : calendar'[x] = None => calendar[x] = None BY <1>1, <1>2 DEF Tables
  <1> QED BY <1>1, <1>3, <1>4, <1>5 DEF Tables

LEMMA SeatBaseOwnerTables ==
  ASSUME Tables, ~project => NoRows, RowsOK, RequestsOK, NEW r \in Requests, SeatBaseOwner(r)
  PROVE  Tables' /\ (~project => NoRows)'
  <1>1. request[r].by \in Users BY BusyRows, Fields DEF SeatBaseOwner, Writes, Fills, At
  <1> QED BY <1>1 DEF SeatBaseOwner, Writes, Fills, At, tables, history, projectVars, Tables, NoRows

LEMMA NewBaseCategoryTables ==
  ASSUME Tables, ~project => NoRows, RowsOK, RequestsOK, NEW r \in Requests, NewBaseCategory(r)
  PROVE  Tables' /\ (~project => NoRows)'
  <1>1. PICK k \in CategoryIds :
          /\ category' = [category EXCEPT ![k] = NewDefaultCategory(request[r].id)]
          /\ request[r].id \in CalendarIds /\ bare' \subseteq bare
    BY NewBaseCategoryStep
  <1>2. NewDefaultCategory(request[r].id) \in Category BY <1>1 DEF NewDefaultCategory, Category
  <1>3. category' \in [CategoryIds -> {None} \cup Category] BY <1>1, <1>2 DEF Tables
  <1> QED BY <1>1, <1>3 DEF NewBaseCategory, Writes, Fills, At, tables, history, projectVars, Tables, NoRows

LEMMA FirstEventTables ==
  ASSUME Tables, ~project => NoRows, RowsOK, RequestsOK, NEW r \in Requests, FirstEvent(r)
  PROVE  Tables' /\ (~project => NoRows)'
  <1>1. event' \in [EventIds -> {None} \cup Event]
    <2>1. request[r] \in Rows /\ request[r].pc = "firstEvent" /\ request[r].by \in Users
      BY BusyRows, Fields DEF FirstEvent, Fills, Writes, At
    <2>2. [calendar |-> request[r].id, category |-> request[r].row, by |-> request[r].by] \in Event
      BY <2>1 DEF Rows, Fits, Event
    <2> QED BY <2>2, FirstEventStep DEF Tables
  <1>2. crossed' \subseteq Users BY BusyRows, Fields DEF FirstEvent, Writes, Fills, At, tables, history, projectVars, Tables, NoRows
  <1> QED BY <1>1, <1>2 DEF FirstEvent, Writes, Fills, At, tables, history, projectVars, Tables, NoRows

LEMMA SeatMemberTables ==
  ASSUME Tables, ~project => NoRows, RowsOK, RequestsOK, NEW r \in Requests, SeatMember(r)
  PROVE  Tables' /\ (~project => NoRows)'
  <1>1. request[r] \in Rows /\ request[r].who \in Users /\ request[r].pc = "seat"
    BY BusyRows, Fields DEF SeatMember, Writes, At
  <1>2. request[r].row \in Roles BY <1>1 DEF Rows, Fits
  <1> QED BY <1>1, <1>2 DEF SeatMember, Writes, Fills, At, tables, history, projectVars, Tables, NoRows

LEMMA JoinChannelTables ==
  ASSUME Tables, ~project => NoRows, RowsOK, RequestsOK, NEW r \in Requests, JoinChannel(r)
  PROVE  Tables' /\ (~project => NoRows)'
  <1>1. request[r].who \in Users BY BusyRows, Fields DEF JoinChannel, Writes, At
  <1> QED BY <1>1 DEF JoinChannel, Writes, Fills, At, tables, history, projectVars, Tables, NoRows

LEMMA SaveRoleTables ==
  ASSUME Tables, ~project => NoRows, RowsOK, RequestsOK, NEW r \in Requests, SaveRole(r)
  PROVE  Tables' /\ (~project => NoRows)'
  <1>1. request[r] \in Rows /\ request[r].who \in Users /\ request[r].pc = "saveRole"
    BY BusyRows, Fields DEF SaveRole, Writes, At
  <1>2. request[r].row \in Roles BY <1>1 DEF Rows, Fits
  <1> QED BY <1>1, <1>2 DEF SaveRole, Writes, Fills, At, tables, history, projectVars, Tables, NoRows

LEMMA FindPersonalsTables ==
  ASSUME Tables, ~project => NoRows, RowsOK, RequestsOK, NEW r \in Requests, FindPersonals(r)
  PROVE  Tables' /\ (~project => NoRows)'
BY DEF FindPersonals, Writes, Fills, At, tables, history, projectVars, Tables, NoRows

LEMMA DeactivatePersonalTables ==
  ASSUME Tables, ~project => NoRows, RowsOK, RequestsOK, NEW r \in Requests, DeactivatePersonal(r)
  PROVE  Tables' /\ (~project => NoRows)'
  <1>1. /\ UNCHANGED <<project, role, attendees, category, event, folders, starts, crossed, uncounted>>
        /\ UNCHANGED <<channel, hasChannel, favorites>>
    BY DEF DeactivatePersonal, projectVars
  <1>2. CASE UNCHANGED <<calendar, bare>> BY <1>1, <1>2 DEF Tables, NoRows
  <1>3. ASSUME project,
               NEW c \in CalendarIds, request[r].who \in Users,
               calendar' = [calendar EXCEPT ![c] = [type |-> "PERSONAL", owner |-> request[r].who, active |-> FALSE]],
               bare' = IF calendar[c] = None THEN bare \cup {c} ELSE bare
        PROVE  Tables' /\ (~project => NoRows)'
    <2>1. PICK row \in Calendar : row = [type |-> "PERSONAL", owner |-> request[r].who, active |-> FALSE]
      BY <1>3 DEF Calendar, Types
    <2>2. row # None BY NoneAssumption
    <2>3. \A x \in CalendarIds : calendar'[x] = None => calendar[x] = None BY <1>3, <2>1, <2>2 DEF Tables
    <2>4. calendar' \in [CalendarIds -> {None} \cup Calendar] BY <1>3, <2>1 DEF Tables
    <2>5. bare' \subseteq CalendarIds BY <1>3 DEF Tables
    <2> QED BY <1>1, <1>3, <2>3, <2>4, <2>5 DEF Tables
  <1> QED BY <1>2, <1>3, DeactivatePersonalStep

LEMMA PurgeEventsTables ==
  ASSUME Tables, ~project => NoRows, RowsOK, RequestsOK, NEW r \in Requests, PurgeEvents(r)
  PROVE  Tables' /\ (~project => NoRows)'
BY DEF PurgeEvents, Writes, Fills, At, tables, history, projectVars, Tables, NoRows

LEMMA UnseatTables ==
  ASSUME Tables, ~project => NoRows, RowsOK, RequestsOK, NEW r \in Requests, Unseat(r)
  PROVE  Tables' /\ (~project => NoRows)'
BY DEF Unseat, Writes, Fills, At, tables, history, projectVars, Tables, NoRows

LEMMA SaveProjectTables ==
  ASSUME Tables, ~project => NoRows, RowsOK, RequestsOK, NEW r \in Requests, SaveProject(r)
  PROVE  Tables' /\ (~project => NoRows)'
BY DEF SaveProject, Writes, Fills, At, tables, history, projectVars, Tables, NoRows

LEMMA DeleteChannelMembersTables ==
  ASSUME Tables, ~project => NoRows, RowsOK, RequestsOK, NEW r \in Requests, DeleteChannelMembers(r)
  PROVE  Tables' /\ (~project => NoRows)'
BY DEF DeleteChannelMembers, Writes, Fills, At, tables, history, projectVars, Tables, NoRows

LEMMA DropProjectTables ==
  ASSUME Tables, ~project => NoRows, RowsOK, RequestsOK, NEW r \in Requests, DropProject(r)
  PROVE  Tables' /\ (~project => NoRows)'
BY DEF DropProject, Writes, Fills, At, tables, history, projectVars, Tables, NoRows

LEMMA InsertFavoriteTables ==
  ASSUME Tables, ~project => NoRows, RowsOK, RequestsOK, NEW r \in Requests, InsertFavorite(r)
  PROVE  Tables' /\ (~project => NoRows)'
  <1>1. request[r].by \in Users BY BusyRows, Fields DEF InsertFavorite, Writes, At
  <1> QED BY <1>1 DEF InsertFavorite, Writes, Fills, At, tables, history, projectVars, Tables, NoRows

LEMMA FindPersonalTables ==
  ASSUME Tables, ~project => NoRows, RowsOK, RequestsOK, NEW r \in Requests, FindPersonal(r), UNCHANGED projectVars
  PROVE  Tables' /\ (~project => NoRows)'
BY DEF FindPersonal, Writes, Fills, At, tables, history, projectVars, Tables, NoRows

LEMMA FindIssueCalendarTables ==
  ASSUME Tables, ~project => NoRows, RowsOK, RequestsOK, NEW r \in Requests, FindIssueCalendar(r), UNCHANGED projectVars
  PROVE  Tables' /\ (~project => NoRows)'
BY DEF FindIssueCalendar, Writes, Fills, At, tables, history, projectVars, Tables, NoRows

LEMMA NewIssueCalendarTables ==
  ASSUME Tables, ~project => NoRows, RowsOK, RequestsOK, NEW r \in Requests, NewIssueCalendar(r), UNCHANGED projectVars
  PROVE  Tables' /\ (~project => NoRows)'
  <1>1. PICK c \in CalendarIds, row \in Calendar :
          /\ calendar' = [calendar EXCEPT ![c] = row]
          /\ bare' = bare \cup {c} /\ uncounted' = uncounted \cup {c}
    <2>1. PICK c \in CalendarIds :
            /\ calendar' = [calendar EXCEPT ![c] = [type |-> "TEAM", owner |-> request[r].who, active |-> TRUE]]
            /\ request[r].who \in Users /\ bare' = bare \cup {c} /\ uncounted' = uncounted \cup {c}
      BY NewIssueCalendarStep
    <2>2. [type |-> "TEAM", owner |-> request[r].who, active |-> TRUE] \in Calendar BY <2>1 DEF Calendar, Types
    <2> QED BY <2>1, <2>2
  <1>2. row # None BY <1>1, NoneAssumption
  <1>3. folders' \in Nat /\ starts' = starts /\ crossed' = crossed /\ project' = project /\ project
    BY DEF NewIssueCalendar, Writes, Tables
  <1>4. UNCHANGED <<role, attendees, category, event, channel, hasChannel, favorites>>
    BY DEF NewIssueCalendar, projectVars
  <1>5. \A x \in CalendarIds : calendar'[x] = None => calendar[x] = None BY <1>1, <1>2 DEF Tables
  <1>6. bare' \subseteq CalendarIds /\ uncounted' \subseteq CalendarIds BY <1>1 DEF Tables
  <1> QED BY <1>1, <1>3, <1>4, <1>5, <1>6 DEF Tables

LEMMA SeatIssueOwnerTables ==
  ASSUME Tables, ~project => NoRows, RowsOK, RequestsOK, NEW r \in Requests, SeatIssueOwner(r), UNCHANGED projectVars
  PROVE  Tables' /\ (~project => NoRows)'
  <1>1. request[r].who \in Users BY BusyRows, Fields DEF SeatIssueOwner, Writes, Fills, At
  <1> QED BY <1>1 DEF SeatIssueOwner, Writes, Fills, At, tables, history, projectVars, Tables, NoRows

LEMMA FindIssueCategoryTables ==
  ASSUME Tables, ~project => NoRows, RowsOK, RequestsOK, NEW r \in Requests, FindIssueCategory(r), UNCHANGED projectVars
  PROVE  Tables' /\ (~project => NoRows)'
BY DEF FindIssueCategory, Writes, Fills, At, tables, history, projectVars, Tables, NoRows

LEMMA NewIssueCategoryTables ==
  ASSUME Tables, ~project => NoRows, RowsOK, RequestsOK, NEW r \in Requests, NewIssueCategory(r), UNCHANGED projectVars
  PROVE  Tables' /\ (~project => NoRows)'
  <1>1. request[r] \in Rows /\ request[r].pc = "newIssueCategory" BY BusyRows DEF NewIssueCategory, Writes, Fills, At
  <1>2. [calendar |-> request[r].id, default |-> FALSE, active |-> TRUE] \in Category BY <1>1 DEF Rows, Fits, Category
  <1>3. category' \in [CategoryIds -> {None} \cup Category] BY <1>2 DEF NewIssueCategory, NewIn, Tables
  <1> QED BY <1>3 DEF NewIssueCategory, Writes, Fills, At, tables, history, projectVars, Tables, NoRows

LEMMA NewPersonalTables ==
  ASSUME Tables, ~project => NoRows, RowsOK, RequestsOK, NEW r \in Requests, NewPersonal(r), UNCHANGED projectVars
  PROVE  Tables' /\ (~project => NoRows)'
  <1>1. PICK c \in CalendarIds, row \in Calendar : calendar' = [calendar EXCEPT ![c] = row]
    BY NewPersonalStep DEF Creates, Calendar
  <1>2. row # None BY NoneAssumption
  <1>3. \A x \in CalendarIds : calendar'[x] = None => calendar[x] = None BY <1>1, <1>2 DEF Tables
  <1>4. calendar' \in [CalendarIds -> {None} \cup Calendar] BY <1>1 DEF Tables
  <1> QED BY <1>3, <1>4 DEF NewPersonal, Writes, Fills, At, tables, history, projectVars, Tables, NoRows

LEMMA EnsureDefaultTables ==
  ASSUME Tables, ~project => NoRows, RowsOK, RequestsOK, NEW r \in Requests, EnsureDefault(r), UNCHANGED projectVars
  PROVE  Tables' /\ (~project => NoRows)'
BY DEF EnsureDefault, Writes, Fills, At, tables, history, projectVars, Tables, NoRows

LEMMA NewDefaultCalendarTables ==
  ASSUME Tables, ~project => NoRows, RowsOK, RequestsOK, NEW r \in Requests, NewDefaultCalendar(r), UNCHANGED projectVars
  PROVE  Tables' /\ (~project => NoRows)'
  <1>1. PICK c \in CalendarIds, row \in Calendar :
          calendar' = [calendar EXCEPT ![c] = row] /\ bare' = bare \cup {c} /\ uncounted' = uncounted \cup {c}
    BY NewDefaultCalendarStep DEF Creates, Calendar
  <1>2. row # None BY NoneAssumption
  <1>3. \A x \in CalendarIds : calendar'[x] = None => calendar[x] = None BY <1>1, <1>2 DEF Tables
  <1>4. calendar' \in [CalendarIds -> {None} \cup Calendar] BY <1>1 DEF Tables
  <1>5. bare' \subseteq CalendarIds /\ uncounted' \subseteq CalendarIds BY <1>1 DEF Tables
  <1>6. folders' \in Nat /\ crossed' = crossed /\ starts' = starts /\ project /\ project'
    BY DEF NewDefaultCalendar, Writes, Fills, At, tables, history, projectVars, Tables, NoRows
  <1> QED BY <1>3, <1>4, <1>5, <1>6 DEF NewDefaultCalendar, Writes, Fills, At, tables, history, projectVars, Tables, NoRows

LEMMA OwnMemberTables ==
  ASSUME Tables, ~project => NoRows, RowsOK, RequestsOK, NEW r \in Requests, OwnMember(r), UNCHANGED projectVars
  PROVE  Tables' /\ (~project => NoRows)'
  <1>1. request[r].who \in Users BY BusyRows, Fields DEF OwnMember, Writes, Fills, At
  <1>2. attendees' = [attendees EXCEPT ![request[r].id] = @ \cup {request[r].who}]
    BY DEF OwnMember
  <1>3. attendees' \in [CalendarIds -> SUBSET Users] BY <1>1, <1>2 DEF Tables
  <1>4. \A c \in CalendarIds : calendar[c] = None => attendees'[c] = attendees[c]
    BY <1>2 DEF OwnMember, Fills, Tables
  <1> QED BY <1>3, <1>4 DEF OwnMember, Writes, Fills, At, tables, history, projectVars, Tables, NoRows

LEMMA NewCategoryTables ==
  ASSUME Tables, ~project => NoRows, RowsOK, RequestsOK, NEW r \in Requests, NewCategory(r), UNCHANGED projectVars
  PROVE  Tables' /\ (~project => NoRows)'
  <1>1. request[r] \in Rows /\ request[r].pc = "newCategory" BY BusyRows DEF NewCategory, Writes, Fills, At
  <1>2. NewDefaultCategory(request[r].id) \in Category BY <1>1 DEF Rows, Fits, NewDefaultCategory, Category
  <1>3. category' \in [CategoryIds -> {None} \cup Category] BY <1>2 DEF NewCategory, NewIn, Tables
  <1> QED BY <1>3 DEF NewCategory, Writes, Fills, At, tables, history, projectVars, Tables, NoRows

LEMMA NewCalendarTables ==
  ASSUME Tables, ~project => NoRows, RowsOK, RequestsOK, NEW r \in Requests, NewCalendar(r), UNCHANGED projectVars
  PROVE  Tables' /\ (~project => NoRows)'
  <1>1. PICK c \in CalendarIds, row \in Calendar :
          calendar' = [calendar EXCEPT ![c] = row] /\ uncounted' \subseteq uncounted \cup {c}
    BY NewCalendarStep DEF Creates, Calendar, NewCalendar
  <1>2. row # None BY NoneAssumption
  <1>3. \A x \in CalendarIds : calendar'[x] = None => calendar[x] = None BY <1>1, <1>2 DEF Tables
  <1>4. calendar' \in [CalendarIds -> {None} \cup Calendar] BY <1>1 DEF Tables
  <1>5. uncounted' \subseteq CalendarIds BY <1>1 DEF Tables
  <1>6. folders' \in Nat /\ crossed' = crossed /\ starts' = starts /\ project /\ project'
    BY DEF NewCalendar, Writes, Fills, At, tables, history, projectVars, Tables, NoRows
  <1> QED BY <1>3, <1>4, <1>5, <1>6 DEF NewCalendar, Writes, Fills, At, tables, history, projectVars, Tables, NoRows

LEMMA AddExtrasTables ==
  ASSUME Tables, ~project => NoRows, RowsOK, RequestsOK, NEW r \in Requests, AddExtras(r), UNCHANGED projectVars
  PROVE  Tables' /\ (~project => NoRows)'
  <1>1. request[r] \in Rows /\ request[r].pc = "extras" /\ calendar[request[r].id] # None
    BY BusyRows DEF AddExtras, Writes, Fills, At
  <1>2. request[r].id \in CalendarIds /\ request[r].ids \in SUBSET Users BY <1>1 DEF Rows, Fits
  <1>3. attendees' = attendees \/ attendees' = [attendees EXCEPT ![request[r].id] = @ \cup request[r].ids]
    BY DEF AddExtras
  <1>4. attendees' \in [CalendarIds -> SUBSET Users] BY <1>2, <1>3 DEF Tables
  <1>5. \A c \in CalendarIds : calendar[c] = None => attendees'[c] = attendees[c] BY <1>1, <1>3 DEF Tables
  <1>6. bare' \subseteq CalendarIds BY <1>2 DEF AddExtras, Tables
  <1> QED BY <1>4, <1>5, <1>6 DEF AddExtras, Writes, Fills, At, tables, history, projectVars, Tables, NoRows

LEMMA SaveCalendarTables ==
  ASSUME Tables, ~project => NoRows, RowsOK, RequestsOK, NEW r \in Requests, SaveCalendar(r), UNCHANGED projectVars
  PROVE  Tables' /\ (~project => NoRows)'
  <1>1. request[r] \in Rows /\ request[r].pc = "saveCalendar" BY BusyRows DEF SaveCalendar, Writes, At
  <1>2. PICK c \in CalendarIds, row \in Calendar : c = request[r].id /\ row = request[r].row BY <1>1 DEF Rows, Fits
  <1>3. calendar' = [calendar EXCEPT ![c] = row] /\ uncounted' \subseteq uncounted \cup {c} /\ bare' \subseteq bare \cup {c}
    BY <1>2 DEF SaveCalendar
  <1>4. row # None BY NoneAssumption
  <1>5. \A x \in CalendarIds : calendar'[x] = None => calendar[x] = None BY <1>3, <1>4 DEF Tables
  <1>6. calendar' \in [CalendarIds -> {None} \cup Calendar] BY <1>3 DEF Tables
  <1>7. uncounted' \subseteq CalendarIds /\ bare' \subseteq CalendarIds BY <1>3 DEF Tables
  <1> QED BY <1>5, <1>6, <1>7 DEF SaveCalendar, Writes, Fills, At, tables, history, projectVars, Tables, NoRows

LEMMA ReplaceMembersTables ==
  ASSUME Tables, ~project => NoRows, RowsOK, RequestsOK, NEW r \in Requests, ReplaceMembers(r), UNCHANGED projectVars
  PROVE  Tables' /\ (~project => NoRows)'
  <1>1. request[r] \in Rows /\ request[r].pc = "members" /\ calendar[request[r].id] # None
    BY BusyRows DEF ReplaceMembers, Writes, Fills, At
  <1>2. request[r].id \in CalendarIds /\ request[r].ids \in SUBSET Users BY <1>1 DEF Rows, Fits
  <1>3. PICK list \in SUBSET Users : attendees' = attendees \/ attendees' = [attendees EXCEPT ![request[r].id] = list]
    <2>1. attendees[request[r].id] \in SUBSET Users BY <1>2 DEF Tables
    <2>2. PICK list : list = (attendees[request[r].id] \cap ({request[r].by} \cup request[r].ids)) \cup (request[r].ids \ {request[r].by})
      OBVIOUS
    <2>3. list \in SUBSET Users BY <1>2, <2>1, <2>2
    <2>4. attendees' = attendees \/ attendees' = [attendees EXCEPT ![request[r].id] = list]
      BY <2>2 DEF ReplaceMembers
    <2> QED BY <2>3, <2>4
  <1>4. attendees' \in [CalendarIds -> SUBSET Users] BY <1>2, <1>3 DEF Tables
  <1>5. \A c \in CalendarIds : calendar[c] = None => attendees'[c] = attendees[c] BY <1>1, <1>3 DEF Tables
  <1> QED BY <1>4, <1>5 DEF ReplaceMembers, Writes, Fills, At, tables, history, projectVars, Tables, NoRows

LEMMA NewFolderTables ==
  ASSUME Tables, ~project => NoRows, RowsOK, RequestsOK, NEW r \in Requests, NewFolder(r), UNCHANGED projectVars
  PROVE  Tables' /\ (~project => NoRows)'
BY DEF NewFolder, Writes, Fills, At, tables, history, projectVars, Tables, NoRows

LEMMA DropFolderTables ==
  ASSUME Tables, ~project => NoRows, RowsOK, RequestsOK, NEW r \in Requests, DropFolder(r), UNCHANGED projectVars
  PROVE  Tables' /\ (~project => NoRows)'
BY DEF DropFolder, Writes, Fills, At, tables, history, projectVars, Tables, NoRows

LEMMA NewEventTables ==
  ASSUME Tables, ~project => NoRows, RowsOK, RequestsOK, NEW r \in Requests, NewEvent(r), UNCHANGED projectVars
  PROVE  Tables' /\ (~project => NoRows)'
  <1>1. request[r] \in Rows /\ request[r].pc = "newEvent" BY BusyRows DEF NewEvent, Writes, At
  <1>2. request[r].row \in Event BY <1>1 DEF Rows, Fits
  <1>3. event' \in [EventIds -> {None} \cup Event] BY <1>2 DEF NewEvent, NewIn, Tables
  <1> QED BY <1>3 DEF NewEvent, Writes, Fills, At, tables, history, projectVars, Tables, NoRows

LEMMA SaveEventTables ==
  ASSUME Tables, ~project => NoRows, RowsOK, RequestsOK, NEW r \in Requests, SaveEvent(r), UNCHANGED projectVars
  PROVE  Tables' /\ (~project => NoRows)'
  <1>1. request[r] \in Rows /\ request[r].pc = "saveEvent" BY BusyRows DEF SaveEvent, Writes, At
  <1>2. request[r].row \in {None} \cup Event BY <1>1 DEF Rows, Fits
  <1>3. event' \in [EventIds -> {None} \cup Event] BY <1>2 DEF SaveEvent, Tables
  <1> QED BY <1>3 DEF SaveEvent, Writes, Fills, At, tables, history, projectVars, Tables, NoRows

LEMMA AddCategoryTables ==
  ASSUME Tables, ~project => NoRows, RowsOK, RequestsOK, NEW r \in Requests, AddCategory(r), UNCHANGED projectVars
  PROVE  Tables' /\ (~project => NoRows)'
  <1>1. request[r] \in Rows /\ request[r].pc = "addCategory" BY BusyRows DEF AddCategory, Writes, At
  <1>2. request[r].row \in Category BY <1>1 DEF Rows, Fits
  <1>3. category' \in [CategoryIds -> {None} \cup Category] BY <1>2 DEF AddCategory, NewIn, Tables
  <1>4. bare' \subseteq bare BY DEF AddCategory
  <1> QED BY <1>3, <1>4 DEF AddCategory, Writes, Fills, At, tables, history, projectVars, Tables, NoRows

LEMMA SaveCategoryTables ==
  ASSUME Tables, ~project => NoRows, RowsOK, RequestsOK, NEW r \in Requests, SaveCategory(r), UNCHANGED projectVars
  PROVE  Tables' /\ (~project => NoRows)'
  <1>1. request[r] \in Rows /\ request[r].pc = "saveCategory" BY BusyRows DEF SaveCategory, Writes, At
  <1>2. request[r].row \in Category BY <1>1 DEF Rows, Fits
  <1>3. category' \in [CategoryIds -> {None} \cup Category] BY <1>2 DEF SaveCategory, Tables
  <1> QED BY <1>3 DEF SaveCategory, Writes, Fills, At, tables, history, projectVars, Tables, NoRows

LEMMA FailTables ==
  ASSUME Tables, ~project => NoRows, RowsOK, RequestsOK, NEW r \in Requests, Fail(r), UNCHANGED projectVars
  PROVE  Tables' /\ (~project => NoRows)'
  <1>1. request[r] \in Rows /\ request[r].about \subseteq Users BY BusyRows, Fields DEF Fail
  <1>2. request[r].pc \in {"ownMember", "extras", "newCategory"} => request[r].id \in CalendarIds
    BY <1>1 DEF Rows, Fits
  <1> QED BY <1>1, <1>2 DEF Fail, Making, Writes, Fills, At, tables, history, projectVars, Tables, NoRows

-----------------------------------------------------------------------------
(***************************************************************************)
(* The limit: LimitOK.                                                     *)
(***************************************************************************)
Counted == TeamCalendars \ uncounted

LEMMA CountedBy ==
  ASSUME NEW S \in SUBSET CalendarIds
  PROVE  /\ IsFiniteSet(S) /\ Cardinality(S) \in Nat
         /\ \A T \in SUBSET S : Cardinality(T) <= Cardinality(S)
         /\ \A c \in CalendarIds : \A T \in SUBSET (S \cup {c}) : Cardinality(T) <= Cardinality(S) + 1
         /\ S = {} => Cardinality(S) = 0
  <1>1. IsFiniteSet(S) BY FiniteAssumption, FS_Subset
  <1>2. Cardinality(S) \in Nat BY <1>1, FS_CardinalityType
  <1>3. ASSUME NEW T \in SUBSET S
        PROVE  Cardinality(T) <= Cardinality(S)
    BY <1>1, FS_Subset
  <1>4. ASSUME NEW c \in CalendarIds, NEW T \in SUBSET (S \cup {c})
        PROVE  Cardinality(T) <= Cardinality(S) + 1
    <2>1. PICK U : U = S \cup {c} OBVIOUS
    <2>2. IsFiniteSet(U) /\ (Cardinality(U) = Cardinality(S) \/ Cardinality(U) = Cardinality(S) + 1)
      BY <1>1, <2>1, FS_AddElement
    <2>3. Cardinality(T) <= Cardinality(U) /\ Cardinality(U) \in Nat /\ Cardinality(T) \in Nat
      BY <2>1, <2>2, FS_Subset, FS_CardinalityType
    <2> QED BY <1>2, <2>2, <2>3
  <1>5. S = {} => Cardinality(S) = 0 BY FS_EmptySet
  <1> QED BY <1>1, <1>2, <1>3, <1>4, <1>5

LEMMA CountedTyped == Counted \in SUBSET CalendarIds /\ Counted' \in SUBSET CalendarIds
BY DEF Counted, TeamCalendars, Active

(* As long as no more calendars are counted the limit is kept.             *)
LEMMA LimitKept ==
  ASSUME LimitOK, RequestsOK, NEW r \in Requests, NEW w, Onward(r, w), Continues(r, w), Counted' \subseteq Counted
  PROVE  LimitOK'
  <1>1. Cardinality(Counted') <= Cardinality(Counted) /\ Cardinality(Counted) \in Nat /\ Cardinality(Counted') \in Nat
    BY CountedTyped, CountedBy
  <1>2. Cardinality(Counted) <= TeamLimit BY DEF LimitOK, TeamCalendarsBounded, Counted
  <1>3. \A s \in Requests : request'[s] = IF s = r THEN w ELSE request[s] BY DEF Onward, RequestsOK
  <1>4. Alone(w) => Alone(request[r]) /\ w.pc # "newCalendar"
    BY DEF Alone, Continues, Onward, SameRequest, TeamCreation
  <1>5. \A s \in Requests : Alone(request'[s]) => Alone(request[s])
    BY <1>3, <1>4
  <1>6. TeamCalendarsBounded' BY <1>1, <1>2, BoundAssumption DEF TeamCalendarsBounded, Counted
  <1>7. \A s, t \in Requests : Alone(request'[s]) /\ Alone(request'[t]) => s = t BY <1>5 DEF LimitOK
  <1>8. ASSUME NEW s \in Requests, Alone(request'[s]), request'[s].pc = "newCalendar"
        PROVE  Cardinality(Counted') < TeamLimit
    <2>1. s # r /\ request'[s] = request[s] BY <1>3, <1>4, <1>8
    <2>2. Cardinality(Counted) < TeamLimit BY <1>8, <2>1 DEF LimitOK, Counted
    <2> QED BY <1>1, <2>2, BoundAssumption
  <1> QED BY <1>6, <1>7, <1>8 DEF LimitOK, Counted, Alone, TeamCreation

LEMMA BeginLimit ==
  ASSUME LimitOK, RequestsOK, NEW r \in Requests, NEW q, Begins(r, q)
  PROVE  LimitOK'
  <1>1. calendar' = calendar /\ uncounted' = uncounted /\ request[r] = Idle
    BY DEF Begins, Starts, Free, tables
  <1>2. Counted' = Counted BY <1>1 DEF Counted, TeamCalendars, Active
  <1>3. \A s \in Requests : request'[s] = IF s = r THEN q ELSE request[s] BY DEF Begins, Starts, Goes, RequestsOK
  <1>4. TeamCalendarsBounded' BY <1>2 DEF LimitOK, TeamCalendarsBounded, Counted
  <1>5. \A s \in Requests : Alone(request[s]) => TeamCreation(request[s]) BY DEF Alone
  <1>6. ASSUME NEW s \in Requests, NEW t \in Requests, Alone(request'[s]), Alone(request'[t])
        PROVE  s = t
    <2>1. CASE s = r \/ t = r BY <1>3, <1>5, <1>6, <2>1 DEF Begins
    <2>2. CASE s # r /\ t # r BY <1>3, <1>6, <2>2 DEF LimitOK
    <2> QED BY <2>1, <2>2
  <1>7. ASSUME NEW s \in Requests, Alone(request'[s]), request'[s].pc = "newCalendar"
        PROVE  Cardinality(Counted') < TeamLimit
    <2>1. CASE s = r
      <3>1. Cardinality(TeamCalendars) < TeamLimit BY <1>3, <1>7, <2>1 DEF Begins, Alone, TeamCreation
      <3>2. TeamCalendars \in SUBSET CalendarIds /\ Counted \in SUBSET TeamCalendars
        BY DEF TeamCalendars, Active, Counted
      <3>3. Cardinality(Counted) <= Cardinality(TeamCalendars) /\ Cardinality(Counted) \in Nat
            /\ Cardinality(TeamCalendars) \in Nat
        BY <3>2, CountedTyped, CountedBy
      <3> QED BY <1>2, <3>1, <3>3, BoundAssumption
    <2>2. CASE s # r BY <1>2, <1>3, <1>7, <2>2 DEF LimitOK, Counted
    <2> QED BY <2>1, <2>2
  <1> QED BY <1>4, <1>6, <1>7 DEF LimitOK, Counted, Alone, TeamCreation

(* A calendar made or saved while it is not counted changes no count.      *)
LEMMA RowUncounted ==
  ASSUME Tables, NEW c \in CalendarIds, NEW row \in Calendar, calendar' = [calendar EXCEPT ![c] = row],
         uncounted \subseteq uncounted', row.active /\ row.type = "TEAM" => c \in uncounted' \/ c \in TeamCalendars
  PROVE  Counted' \subseteq Counted
  <1>1. ASSUME NEW x \in Counted'
        PROVE  x \in Counted
    <2>1. /\ x \in CalendarIds /\ calendar'[x] # None /\ calendar'[x].active /\ calendar'[x].type = "TEAM"
          /\ x \notin uncounted' /\ x \notin uncounted
      BY <1>1 DEF Counted, TeamCalendars, Active
    <2>2. CASE x = c
      <3>1. calendar'[x] = row BY <2>2 DEF Tables
      <3> QED BY <2>1, <2>2, <3>1 DEF Counted
    <2>3. CASE x # c
      <3>1. calendar'[x] = calendar[x] BY <2>3 DEF Tables
      <3> QED BY <2>1, <3>1 DEF Counted, TeamCalendars, Active
    <2> QED BY <2>2, <2>3
  <1> QED BY <1>1

LEMMA NewPersonalCount ==
  ASSUME Tables, RowsOK, RequestsOK, NEW r \in Requests, NewPersonal(r)
  PROVE  Counted' \subseteq Counted
  <1>1. PICK c, type, owner :
          /\ c \in CalendarIds /\ type \in Types /\ owner \in Users /\ type = "PERSONAL"
          /\ calendar' = [calendar EXCEPT ![c] = [type |-> type, owner |-> owner, active |-> TRUE]]
    BY NewPersonalStep DEF Creates
  <1>2. PICK row \in Calendar : row = [type |-> type, owner |-> owner, active |-> TRUE] /\ row.type = type
    <2>1. \A t \in Types, o \in Users :
            [type |-> t, owner |-> o, active |-> TRUE] \in Calendar /\ [type |-> t, owner |-> o, active |-> TRUE].type = t
      BY DEF Calendar
    <2> QED BY <1>1, <2>1
  <1>3. uncounted' = uncounted BY DEF NewPersonal, history
  <1> QED BY <1>1, <1>2, <1>3, RowUncounted

LEMMA NewDefaultCalendarCount ==
  ASSUME Tables, RowsOK, RequestsOK, NEW r \in Requests, NewDefaultCalendar(r)
  PROVE  Counted' \subseteq Counted
  <1>1. PICK c \in CalendarIds, row \in Calendar :
          calendar' = [calendar EXCEPT ![c] = row] /\ uncounted' = uncounted \cup {c}
    BY NewDefaultCalendarStep DEF Creates, Calendar
  <1> QED BY <1>1, RowUncounted

LEMMA SaveCalendarCount ==
  ASSUME Tables, RequestsOK, NEW r \in Requests, SaveCalendar(r)
  PROVE  Counted' \subseteq Counted
  <1>1. request[r] \in Rows /\ request[r].pc = "saveCalendar" BY BusyRows DEF SaveCalendar, Writes, At
  <1>2. PICK c \in CalendarIds, row \in Calendar : c = request[r].id /\ row = request[r].row BY <1>1 DEF Rows, Fits
  <1>3. calendar' = [calendar EXCEPT ![c] = row] BY <1>2 DEF SaveCalendar
  <1>4. uncounted \subseteq uncounted' /\ (row.active /\ row.type = "TEAM" => c \in uncounted' \/ c \in TeamCalendars)
    BY <1>2 DEF SaveCalendar
  <1> QED BY <1>3, <1>4, RowUncounted

LEMMA NewIssueCalendarCount ==
  ASSUME Tables, RowsOK, RequestsOK, NEW r \in Requests, NewIssueCalendar(r)
  PROVE  Counted' \subseteq Counted
  <1>1. PICK c \in CalendarIds, row \in Calendar :
          calendar' = [calendar EXCEPT ![c] = row] /\ uncounted' = uncounted \cup {c}
    <2>1. \A o \in Users : [type |-> "TEAM", owner |-> o, active |-> TRUE] \in Calendar BY DEF Calendar, Types
    <2> QED BY <2>1, NewIssueCalendarStep
  <1> QED BY <1>1, RowUncounted

LEMMA DeactivatePersonalCount ==
  ASSUME Tables, RequestsOK, NEW r \in Requests, DeactivatePersonal(r)
  PROVE  Counted' \subseteq Counted
  <1>1. uncounted' = uncounted BY DEF DeactivatePersonal
  <1>2. CASE calendar' = calendar BY <1>1, <1>2 DEF Counted, TeamCalendars, Active
  <1>3. ASSUME NEW c \in CalendarIds, request[r].who \in Users,
               calendar' = [calendar EXCEPT ![c] = [type |-> "PERSONAL", owner |-> request[r].who, active |-> FALSE]]
        PROVE  Counted' \subseteq Counted
    <2>1. PICK row \in Calendar : row = [type |-> "PERSONAL", owner |-> request[r].who, active |-> FALSE]
      BY <1>3 DEF Calendar, Types
    <2>2. ~row.active BY <2>1
    <2> QED BY <1>1, <1>3, <2>1, <2>2, RowUncounted
  <1> QED BY <1>2, <1>3, DeactivatePersonalStep

(* The one calendar a creation counted on room for.                        *)
LEMMA NewCalendarLimit ==
  ASSUME LimitOK, Tables, RowsOK, RequestsOK, NEW r \in Requests, NewCalendar(r)
  PROVE  LimitOK'
  <1>1. PICK w : Onward(r, w) /\ Continues(r, w)
    BY NewCalendarStep DEF Creates, Continues, TeamCreation, Now, SameRequest, Onward
  <1>2. PICK c \in CalendarIds, row \in Calendar :
          /\ calendar' = [calendar EXCEPT ![c] = row] /\ row.type = request[r].row
          /\ uncounted' = IF request[r].row = "TEAM" /\ ~request[r].alone THEN uncounted \cup {c} ELSE uncounted
    BY NewCalendarStep DEF Creates, Calendar, NewCalendar
  <1>3. CASE ~(row.type = "TEAM" /\ request[r].alone)
    <2>1. Counted' \subseteq Counted BY <1>2, <1>3, RowUncounted
    <2> QED BY <1>1, <2>1, LimitKept
  <1>4. CASE row.type = "TEAM" /\ request[r].alone
    <2>1. Alone(request[r]) /\ request[r].pc = "newCalendar"
      BY <1>2, <1>4, NewCalendarStep DEF Alone, TeamCreation, NewCalendar, Writes, At
    <2>2. Cardinality(Counted) < TeamLimit BY <2>1 DEF LimitOK, Counted
    <2>3. Counted' \subseteq Counted \cup {c}
      <3>1. uncounted' = uncounted BY <1>2, <1>4
      <3>2. \A x \in CalendarIds \ {c} : calendar'[x] = calendar[x] BY <1>2 DEF Tables
      <3> QED BY <3>1, <3>2 DEF Counted, TeamCalendars, Active
    <2>4. Cardinality(Counted') <= Cardinality(Counted) + 1 /\ Cardinality(Counted) \in Nat /\ Cardinality(Counted') \in Nat
      BY <2>3, CountedTyped, CountedBy
    <2>5. TeamCalendarsBounded' BY <2>2, <2>4, BoundAssumption DEF TeamCalendarsBounded, Counted
    <2>6. \A s \in Requests : request'[s] = IF s = r THEN w ELSE request[s] BY <1>1 DEF Onward, RequestsOK
    <2>7. Alone(w) => w.pc # "newCalendar" BY <1>1 DEF Alone, Continues
    <2>8. \A s \in Requests : Alone(request'[s]) => s = r
      <3>1. \A s \in Requests : Alone(request[s]) => s = r BY <2>1 DEF LimitOK
      <3> QED BY <2>6, <3>1
    <2> QED BY <2>5, <2>6, <2>7, <2>8 DEF LimitOK, Alone, TeamCreation
  <1> QED BY <1>3, <1>4

(* That of a new project is counted when it is the first.                  *)
LEMMA NewBaseCalendarLimit ==
  ASSUME LimitOK, Tables, RowsOK, RequestsOK, NEW r \in Requests, NewBaseCalendar(r)
  PROVE  LimitOK'
  <1>1. PICK w : Onward(r, w) /\ Continues(r, w) BY HandleOnward DEF Handle
  <1>2. PICK c \in CalendarIds, row \in Calendar :
          /\ calendar' = [calendar EXCEPT ![c] = row]
          /\ uncounted' = IF TeamCalendars = {} /\ \A s \in Requests : ~TeamCreation(request[s])
                          THEN uncounted ELSE uncounted \cup {c}
    BY NewBaseCalendarStep DEF Calendar, Types
  <1>3. CASE ~(TeamCalendars = {} /\ \A s \in Requests : ~TeamCreation(request[s]))
    <2>1. Counted' \subseteq Counted BY <1>2, <1>3, RowUncounted
    <2> QED BY <1>1, <2>1, LimitKept
  <1>4. CASE TeamCalendars = {} /\ \A s \in Requests : ~TeamCreation(request[s])
    <2>1. Counted' \subseteq {} \cup {c}
      <3>1. \A x \in CalendarIds \ {c} : calendar'[x] = calendar[x] BY <1>2 DEF Tables
      <3> QED BY <1>4, <3>1 DEF Counted, TeamCalendars, Active
    <2>2. Cardinality(Counted') <= 1 /\ Cardinality(Counted') \in Nat
      <3>1. PICK S \in SUBSET CalendarIds : S = {} OBVIOUS
      <3>2. Counted' \subseteq S \cup {c} BY <2>1, <3>1
      <3>3. Cardinality(Counted') <= Cardinality(S) + 1 /\ Cardinality(S) = 0 BY <3>1, <3>2, CountedBy
      <3> QED BY <3>3, CountedTyped, CountedBy
    <2>3. TeamCalendarsBounded' BY <2>2, BoundAssumption DEF TeamCalendarsBounded, Counted
    <2>4. \A s \in Requests : request'[s] = IF s = r THEN w ELSE request[s] BY <1>1 DEF Onward, RequestsOK
    <2>5. \A s \in Requests : ~TeamCreation(request'[s]) BY <1>1, <1>4, <2>4 DEF Continues
    <2> QED BY <2>3, <2>5 DEF LimitOK, Alone, TeamCreation
  <1> QED BY <1>3, <1>4

LEMMA HandleLimit ==
  ASSUME LimitOK, RowsOK, RequestsOK, NEW r \in Requests, Handle(r)
  PROVE  LimitOK'
  <1>0. Tables BY RowsAre
  <1>1. CASE NewBaseCalendar(r) BY <1>0, <1>1, NewBaseCalendarLimit
  <1>2. CASE NewCalendar(r) BY <1>0, <1>2, NewCalendarLimit
  <1>3. CASE ~NewBaseCalendar(r) /\ ~NewCalendar(r)
    <2>1. PICK w : Onward(r, w) /\ Continues(r, w) BY HandleOnward
    <2>2. CASE calendar' = calendar /\ uncounted' = uncounted
      <3>1. Counted' \subseteq Counted BY <2>2 DEF Counted, TeamCalendars, Active
      <3> QED BY <2>1, <3>1, LimitKept
    <2>3. CASE NewPersonal(r) \/ NewDefaultCalendar(r) \/ NewIssueCalendar(r) \/ SaveCalendar(r) \/ DeactivatePersonal(r)
      <3>1. Counted' \subseteq Counted
        BY <1>0, <2>3, NewPersonalCount, NewDefaultCalendarCount, NewIssueCalendarCount, SaveCalendarCount,
           DeactivatePersonalCount
      <3> QED BY <2>1, <3>1, LimitKept
    <2>4. CASE DropProject(r)
      <3>1. Counted' \subseteq Counted BY <2>4 DEF DropProject, Counted, TeamCalendars, Active
      <3> QED BY <2>1, <3>1, LimitKept
    <2>5. SaveNewProject(r) \/ SeatOwner(r) \/ SeatSelected(r) \/ NewChannel(r) \/ JoinSelected(r) \/ SeatBaseOwner(r)
            => calendar' = calendar /\ uncounted' = uncounted
      BY DEF SaveNewProject, SeatOwner, SeatSelected, NewChannel, JoinSelected, SeatBaseOwner, tables, history
    <2>6. NewBaseCategory(r) \/ FirstEvent(r) \/ SeatMember(r) \/ JoinChannel(r) \/ SaveRole(r) \/ PurgeEvents(r) \/ Unseat(r)
            => calendar' = calendar /\ uncounted' = uncounted
      BY DEF NewBaseCategory, FirstEvent, SeatMember, JoinChannel, SaveRole, PurgeEvents, Unseat, tables, history
    <2>7. SaveProject(r) \/ DeleteChannelMembers(r) \/ InsertFavorite(r) => calendar' = calendar /\ uncounted' = uncounted
      BY DEF SaveProject, DeleteChannelMembers, InsertFavorite, tables, history
    <2>8. FindPersonal(r) \/ EnsureDefault(r) \/ OwnMember(r) \/ NewCategory(r) \/ AddExtras(r) \/ ReplaceMembers(r)
            => calendar' = calendar /\ uncounted' = uncounted
      BY DEF FindPersonal, EnsureDefault, OwnMember, NewCategory, AddExtras, ReplaceMembers, tables, history
    <2>9. NewFolder(r) \/ DropFolder(r) \/ NewEvent(r) \/ SaveEvent(r) \/ AddCategory(r) \/ SaveCategory(r) \/ Fail(r)
            => calendar' = calendar /\ uncounted' = uncounted
      BY DEF NewFolder, DropFolder, NewEvent, SaveEvent, AddCategory, SaveCategory, Fail, tables, history
    <2>10. FindIssueCalendar(r) \/ SeatIssueOwner(r) \/ FindIssueCategory(r) \/ NewIssueCategory(r) \/ FindPersonals(r)
            => calendar' = calendar /\ uncounted' = uncounted
      BY DEF FindIssueCalendar, SeatIssueOwner, FindIssueCategory, NewIssueCategory, FindPersonals, tables, history
    <2> QED BY <1>3, <2>2, <2>3, <2>4, <2>5, <2>6, <2>7, <2>8, <2>9, <2>10 DEF Handle, HandleCalendar
  <1> QED BY <1>1, <1>2, <1>3 DEF Handle, HandleCalendar

-----------------------------------------------------------------------------
(***************************************************************************)
(* The categories: CategoriesOK.                                           *)
(***************************************************************************)
PromisedBy(q, c) == q # Idle /\ q.pc \in Making /\ q.id = c

LEMMA Promises == \A c : Promised(c) <=> \E s \in Requests : PromisedBy(request[s], c)
BY DEF Promised, PromisedBy, Busy

(* Categories keep their calendar and whether they are the default one.    *)
CategoriesLast ==
  /\ \A k \in CategoryIds : category[k] # None => category'[k] # None /\ SameKind(category'[k], category[k])
  /\ \A k \in CategoryIds : category'[k] # None /\ category'[k].default => category'[k].active

LEMMA KeptLasts ==
  ASSUME CategoriesLast, NEW c \in CalendarIds, Kept(c)
  PROVE  Kept(c)'
  <1>1. PICK k \in CategoryIds : category[k] # None /\ category[k].calendar = c /\ category[k].default
    BY DEF Kept, CategoriesOf
  <1>2. category'[k] # None /\ category'[k].calendar = c /\ category'[k].default /\ category'[k].active
    BY <1>1 DEF CategoriesLast, SameKind
  <1> QED BY <1>2 DEF Kept, CategoriesOf

(* What a handler may do to calendars, categories and promises.            *)
CalendarsLast(r, w) ==
  /\ w # Idle => w.pc # "saveCategory"
  /\ w # Idle /\ w.pc = "ownMember" /\ w.op = "getCalendars" /\ w.row = "TEAM" => w.id \in bare'
  /\ \A c \in CalendarIds : calendar'[c] # None /\ calendar[c] = None /\ c \notin bare' =>
       PromisedBy(w, c) /\ \A s \in Busy : request[s].id # c
  /\ \A c \in CalendarIds : calendar'[c] # None /\ PromisedBy(request[r], c) =>
       c \in bare' \/ Kept(c)' \/ PromisedBy(w, c)
  /\ \A c \in bare : c \in bare' \/ Kept(c)'

\* No other request is about to save the category of id k as another kind.
KindKnown(r) ==
  \A s \in Busy \ {r} : request[s].pc = "saveCategory" /\ category'[request[s].id] # None /\ category[request[s].id] = None
    => SameKind(request[s].row, category'[request[s].id])

LEMMA CategoriesKept ==
  ASSUME CategoriesOK, RequestsOK, Tables, NEW r \in Requests, NEW w, Onward(r, w),
         CategoriesLast, CalendarsLast(r, w), KindKnown(r)
  PROVE  CategoriesOK'
  <1>1. \A s \in Requests : request'[s] = IF s = r THEN w ELSE request[s] BY DEF Onward, RequestsOK
  <1>2. \A s \in Requests : request'[s] # Idle /\ s # r => s \in Busy /\ request'[s] = request[s] BY <1>1 DEF Busy
  <1>3. ASSUME NEW c \in CalendarIds, calendar'[c] # None, c \notin bare'
        PROVE  Kept(c)' \/ Promised(c)'
    <2>1. CASE PromisedBy(w, c)
      <3>1. PromisedBy(request'[r], c) BY <1>1, <2>1
      <3> QED BY <3>1 DEF Promised, PromisedBy, Busy
    <2>2. CASE ~PromisedBy(w, c)
      <3>1. calendar[c] # None BY <1>3, <2>2 DEF CalendarsLast
      <3>2. CASE c \in bare BY <1>3, <3>2 DEF CalendarsLast
      <3>3. CASE c \notin bare
        <4>1. CASE Kept(c) BY <4>1, KeptLasts
        <4>2. CASE Promised(c)
          <5>1. PICK s \in Requests : PromisedBy(request[s], c) BY <4>2, Promises
          <5>2. CASE s = r BY <1>3, <2>2, <5>1, <5>2 DEF CalendarsLast
          <5>3. CASE s # r
            <6>1. PromisedBy(request'[s], c) BY <1>1, <5>1, <5>3
            <6> QED BY <6>1 DEF Promised, PromisedBy, Busy
          <5> QED BY <5>2, <5>3
        <4> QED BY <1>3, <3>1, <3>3, <4>1, <4>2 DEF CategoriesOK
      <3> QED BY <3>2, <3>3
    <2> QED BY <2>1, <2>2
  <1>4. ASSUME NEW s \in Requests, NEW q, q = request'[s], q # Idle
        PROVE  Saves(q)' /\ Leaves(q)'
    <2>1. CASE s = r
      <3>1. q = w BY <1>1, <1>4, <2>1
      <3> QED BY <1>4, <3>1 DEF CalendarsLast, Saves, Leaves
    <2>2. CASE s # r
      <3>1. q = request[s] /\ s \in Busy \ {r} /\ q \in Rows BY <1>2, <1>4, <2>2, BusyRows DEF Busy
      <3>2. ASSUME q.pc = "saveCategory", category'[q.id] # None
            PROVE  SameKind(q.row, category'[q.id])
        <4>1. q.id \in CategoryIds BY <3>1, <3>2 DEF Rows, Fits
        <4>2. CASE category[q.id] = None BY <3>1, <3>2, <4>2 DEF KindKnown
        <4>3. CASE category[q.id] # None
          <5>1. SameKind(q.row, category[q.id]) BY <3>1, <3>2, <4>3 DEF CategoriesOK, Saves
          <5>2. SameKind(category'[q.id], category[q.id]) BY <4>1, <4>3 DEF CategoriesLast
          <5> QED BY <5>1, <5>2 DEF SameKind
        <4> QED BY <4>2, <4>3
      <3>3. ASSUME q.pc = "ownMember", q.op = "getCalendars", q.row = "TEAM", calendar'[q.id] # None
            PROVE  q.id \in bare' \/ Kept(q.id)'
        <4>1. q.id \in CalendarIds BY <3>1, <3>3 DEF Rows, Fits
        <4>2. CASE calendar[q.id] = None BY <3>1, <3>3, <4>1, <4>2 DEF CalendarsLast
        <4>3. CASE calendar[q.id] # None
          <5>1. q.id \in bare \/ Kept(q.id) BY <3>1, <3>3, <4>3 DEF CategoriesOK, Leaves
          <5> QED BY <4>1, <5>1, KeptLasts DEF CalendarsLast
        <4> QED BY <4>2, <4>3
      <3> QED BY <3>2, <3>3 DEF Saves, Leaves
    <2> QED BY <2>1, <2>2
  <1>5. ASSUME NEW s \in Requests, NEW t \in Requests, request'[s] # Idle, request'[t] # Idle,
               request'[s].pc = "saveCategory", request'[t].pc = "saveCategory", request'[s].id = request'[t].id
        PROVE  SameKind(request'[s].row, request'[t].row)
    <2>1. s # r /\ t # r BY <1>1, <1>5 DEF CalendarsLast
    <2> QED BY <1>2, <1>5, <2>1 DEF CategoriesOK, Overwrites
  <1>6. \A s \in Requests : request'[s] # Idle => Saves(request[s])' /\ Leaves(request[s])'
    <2>1. ASSUME NEW s \in Requests, request'[s] # Idle
          PROVE  Saves(request[s])' /\ Leaves(request[s])'
      <3>1. PICK q : q = request'[s] OBVIOUS
      <3>2. Saves(q)' /\ Leaves(q)' BY <1>4, <2>1, <3>1
      <3> QED BY <3>1, <3>2 DEF Saves, Leaves, Kept, CategoriesOf
    <2> QED BY <2>1
  <1> QED BY <1>3, <1>5, <1>6 DEF CategoriesOK, CategoriesLast, Busy, Overwrites

LEMMA BeginCategories ==
  ASSUME CategoriesOK, RequestsOK, NEW r \in Requests, NEW q, Begins(r, q)
  PROVE  CategoriesOK'
  <1>1. calendar' = calendar /\ category' = category /\ bare' = bare /\ request[r] = Idle
    BY DEF Begins, Starts, Free, tables
  <1>2. \A s \in Requests : request'[s] = IF s = r THEN q ELSE request[s] BY DEF Begins, Starts, Goes, RequestsOK
  <1>3. \A s \in Requests : request'[s] # Idle /\ s # r => s \in Busy /\ request'[s] = request[s] BY <1>2 DEF Busy
  <1>4. \A c \in CalendarIds : Kept(c) => Kept(c)' BY <1>1 DEF Kept, CategoriesOf
  <1>5. ASSUME NEW c \in CalendarIds, Promised(c)
        PROVE  Promised(c)'
    <2>1. PICK s \in Requests : PromisedBy(request[s], c) BY <1>5, Promises
    <2>2. PromisedBy(request'[s], c) BY <1>1, <1>2, <2>1 DEF PromisedBy
    <2> QED BY <2>2 DEF Promised, PromisedBy, Busy
  <1>6. \A c \in CalendarIds : calendar'[c] # None /\ c \notin bare' => Kept(c)' \/ Promised(c)'
    BY <1>1, <1>4, <1>5 DEF CategoriesOK
  <1>7. ASSUME NEW s \in Requests, request'[s] # Idle
        PROVE  Saves(request[s])' /\ Leaves(request[s])'
    <2>1. PICK t : t = request'[s] OBVIOUS
    <2>2. Saves(t) /\ Leaves(t)
      <3>1. CASE s = r BY <1>1, <1>2, <2>1, <3>1 DEF Begins, Making, Saves, Leaves
      <3>2. CASE s # r BY <1>3, <1>7, <2>1, <3>2 DEF CategoriesOK
      <3> QED BY <3>1, <3>2
    <2> QED BY <1>1, <2>1, <2>2 DEF Saves, Leaves, Kept, CategoriesOf
  <1>8. ASSUME NEW s \in Requests, NEW t \in Requests, request'[s] # Idle, request'[t] # Idle,
               request'[s].pc = "saveCategory", request'[t].pc = "saveCategory", request'[s].id = request'[t].id
        PROVE  SameKind(request'[s].row, request'[t].row)
    <2>1. \A x \in Requests : request'[x] # Idle /\ request'[x].pc = "saveCategory" =>
            /\ x = r => category[request'[x].id] # None /\ SameKind(request'[x].row, category[request'[x].id])
            /\ x # r /\ category[request'[x].id] # None => SameKind(request'[x].row, category[request'[x].id])
      BY <1>2, <1>3 DEF Begins, CategoriesOK, Saves
    <2>2. CASE s = r \/ t = r
      <3>1. category[request'[s].id] # None BY <1>8, <2>1, <2>2
      <3>2. SameKind(request'[s].row, category[request'[s].id]) /\ SameKind(request'[t].row, category[request'[s].id])
        BY <1>8, <2>1, <3>1
      <3> QED BY <3>2 DEF SameKind
    <2>3. CASE s # r /\ t # r BY <1>3, <1>8, <2>3 DEF CategoriesOK, Overwrites
    <2> QED BY <2>2, <2>3
  <1> QED BY <1>1, <1>6, <1>7, <1>8 DEF CategoriesOK, Busy, Overwrites

(* A handler that touches no category and makes no calendar.               *)
Steady(r, w) == (w # Idle => w.pc \notin {"saveCategory", "ownMember"}) /\ request[r].pc \notin Making
CategoriesSame ==
  category' = category /\ bare' = bare /\ \A c \in CalendarIds : calendar'[c] # None => calendar[c] # None

LEMMA CategoriesStill ==
  ASSUME CategoriesOK, RequestsOK, Tables, NEW r \in Requests, NEW w, Onward(r, w), Steady(r, w), CategoriesSame
  PROVE  CategoriesOK'
  <1>1. CategoriesLast BY DEF CategoriesLast, CategoriesSame, CategoriesOK, SameKind
  <1>2. CalendarsLast(r, w) BY DEF CalendarsLast, CategoriesSame, Steady, PromisedBy
  <1>3. KindKnown(r) BY DEF KindKnown, CategoriesSame
  <1> QED BY <1>1, <1>2, <1>3, CategoriesKept

LEMMA CreateSteady ==
  ASSUME RowsOK, RequestsOK, NEW r \in Requests,
         SaveNewProject(r) \/ SeatOwner(r) \/ SeatSelected(r) \/ NewChannel(r) \/ JoinSelected(r) \/ SeatBaseOwner(r) \/ FirstEvent(r)
  PROVE  (\E w : Onward(r, w) /\ Steady(r, w)) /\ CategoriesSame
  <1>1. request[r].pc \in CreateSteps
    BY DEF SaveNewProject, SeatOwner, SeatSelected, NewChannel, JoinSelected, SeatBaseOwner, FirstEvent, Fills, Writes, At, CreateSteps, IssueSteps
  <1>2. request[r].pc \notin Making /\ request[r].pc \notin {"saveCategory", "ownMember"}
    BY <1>1 DEF CreateSteps, IssueSteps, Making
  <1>3. CASE SaveNewProject(r) \/ SeatOwner(r) \/ NewChannel(r) \/ SeatBaseOwner(r)
    BY <1>2, <1>3, SaveNewProjectStep, SeatOwnerStep, NewChannelStep, SeatBaseOwnerStep
       DEF Steady, Same, Now, CategoriesSame, SaveNewProject, SeatOwner, NewChannel, SeatBaseOwner, tables, history
  <1>4. CASE SeatSelected(r) \/ JoinSelected(r)
    BY <1>2, <1>4, SeatSelectedStep, JoinSelectedStep
       DEF Steady, Same, Now, CategoriesSame, SeatSelected, JoinSelected, tables, history
  <1>5. CASE FirstEvent(r)
    BY <1>2, <1>5, FirstEventStep DEF Steady, Now, CategoriesSame, FirstEvent
  <1> QED BY <1>3, <1>4, <1>5

LEMMA MemberSteady ==
  ASSUME RowsOK, RequestsOK, NEW r \in Requests,
         SeatMember(r) \/ JoinChannel(r) \/ SaveRole(r) \/ FindPersonals(r) \/ PurgeEvents(r) \/ Unseat(r)
  PROVE  (\E w : Onward(r, w) /\ Steady(r, w)) /\ CategoriesSame
  <1>1. request[r].pc \in MemberSteps
    BY DEF SeatMember, JoinChannel, SaveRole, FindPersonals, PurgeEvents, Unseat, Writes, At, MemberSteps
  <1>2. request[r].pc \notin Making BY <1>1 DEF MemberSteps, Making
  <1>3. CASE SeatMember(r) \/ JoinChannel(r)
    BY <1>2, <1>3, SeatMemberStep, JoinChannelStep
       DEF Steady, Same, Now, CategoriesSame, SeatMember, JoinChannel, tables, history
  <1>4. CASE SaveRole(r) \/ PurgeEvents(r) \/ Unseat(r)
    BY <1>2, <1>4, SaveRoleStep, PurgeEventsStep, UnseatStep
       DEF Steady, Same, Now, CategoriesSame, SaveRole, PurgeEvents, Unseat, tables, history
  <1>5. CASE FindPersonals(r)
    BY <1>2, <1>5, FindPersonalsStep DEF Steady, Now, CategoriesSame, FindPersonals, tables, history
  <1> QED BY <1>3, <1>4, <1>5

LEMMA IssueSteady ==
  ASSUME RowsOK, RequestsOK, NEW r \in Requests, FindIssueCalendar(r) \/ SeatIssueOwner(r) \/ FindIssueCategory(r)
  PROVE  (\E w : Onward(r, w) /\ Steady(r, w)) /\ CategoriesSame
  <1>1. request[r].pc \notin Making
    BY DEF FindIssueCalendar, SeatIssueOwner, FindIssueCategory, Fills, Writes, At, Making
  <1>2. CASE FindIssueCalendar(r)
    <2>1. CategoriesSame BY <1>2 DEF CategoriesSame, FindIssueCalendar, tables, history
    <2>2. PICK w : Onward(r, w) /\ w.pc \in {"issueCategory", "newIssueCalendar"}
      BY <1>2, FindIssueCalendarStep DEF Same, Now
    <2> QED BY <1>1, <2>1, <2>2 DEF Steady
  <1>3. CASE SeatIssueOwner(r)
    BY <1>1, <1>3, SeatIssueOwnerStep DEF Steady, Same, Now, CategoriesSame, SeatIssueOwner, tables, history
  <1>4. CASE FindIssueCategory(r)
    BY <1>1, <1>4, FindIssueCategoryStep DEF Steady, Same, Now, CategoriesSame, FindIssueCategory, tables, history
  <1> QED BY <1>2, <1>3, <1>4

LEMMA ProjectSteady ==
  ASSUME RowsOK, RequestsOK, NEW r \in Requests, SaveProject(r) \/ DeleteChannelMembers(r) \/ InsertFavorite(r)
  PROVE  (\E w : Onward(r, w) /\ Steady(r, w)) /\ CategoriesSame
  <1>1. request[r].pc \notin Making BY DEF SaveProject, DeleteChannelMembers, InsertFavorite, Writes, At, Making
  <1> QED BY <1>1, SaveProjectStep, DeleteChannelMembersStep, InsertFavoriteStep
          DEF Steady, Same, Now, CategoriesSame, SaveProject, DeleteChannelMembers, InsertFavorite, tables, history

LEMMA CalendarSteady ==
  ASSUME RowsOK, RequestsOK, NEW r \in Requests,
         \/ FindPersonal(r) \/ EnsureDefault(r) \/ ReplaceMembers(r)
         \/ NewFolder(r) \/ DropFolder(r) \/ NewEvent(r) \/ SaveEvent(r)
  PROVE  (\E w : Onward(r, w) /\ Steady(r, w)) /\ CategoriesSame
  <1>1. request[r].pc \notin Making
    BY DEF FindPersonal, EnsureDefault, ReplaceMembers, NewFolder, DropFolder, NewEvent, SaveEvent, Fills, Writes, At, Making
  <1>2. CASE FindPersonal(r)
    BY <1>1, <1>2, FindPersonalStep DEF Steady, Follows, Same, Now, CategoriesSame, FindPersonal, tables, history
  <1>3. CASE EnsureDefault(r)
    BY <1>1, <1>3, EnsureDefaultStep DEF Steady, Same, Now, CategoriesSame, EnsureDefault, tables, history
  <1>4. CASE ReplaceMembers(r) \/ NewFolder(r) \/ DropFolder(r) \/ NewEvent(r) \/ SaveEvent(r)
    BY <1>1, <1>4, ReplaceMembersStep, NewFolderStep, DropFolderStep, NewEventStep, SaveEventStep
       DEF Steady, CategoriesSame, ReplaceMembers, NewFolder, DropFolder, NewEvent, SaveEvent, history
  <1> QED BY <1>2, <1>3, <1>4

(* A new calendar is promised a category, or has none from the start.      *)
LEMMA CreatesCategories ==
  ASSUME CategoriesOK, RequestsOK, Tables, NEW r \in Requests, NEW w, NEW c \in CalendarIds, NEW type, NEW owner,
         Creates(r, w, c, type, owner), request[r].pc \notin Making, category' = category, bare \subseteq bare',
         request[r].op = "getCalendars" /\ type = "TEAM" => c \in bare'
  PROVE  CategoriesOK'
  <1>1. CategoriesLast BY DEF CategoriesLast, CategoriesOK, SameKind
  <1>2. Onward(r, w) /\ w # Idle /\ w.pc = "ownMember" /\ w.id = c /\ w.row = type /\ w.op = request[r].op
    BY DEF Creates, Now, SameRequest
  <1>3. \A x \in CalendarIds : calendar'[x] # None /\ calendar[x] = None => x = c BY DEF Creates, Tables
  <1>4. \A s \in Busy : request[s].id # c BY DEF Creates
  <1>5. CalendarsLast(r, w) BY <1>2, <1>3, <1>4 DEF CalendarsLast, PromisedBy, Making
  <1>6. KindKnown(r) BY DEF KindKnown
  <1> QED BY <1>1, <1>2, <1>5, <1>6, CategoriesKept

LEMMA NewPersonalCategories ==
  ASSUME CategoriesOK, RowsOK, RequestsOK, Tables, NEW r \in Requests, NewPersonal(r)
  PROVE  CategoriesOK'
  <1>1. PICK w, c, type, owner : Creates(r, w, c, type, owner) /\ type = "PERSONAL" BY NewPersonalStep
  <1>2. c \in CalendarIds BY <1>1 DEF Creates
  <1>3. request[r].pc \notin Making /\ category' = category /\ bare' = bare /\ type # "TEAM"
    BY <1>1 DEF NewPersonal, Writes, At, Making, history
  <1> QED BY <1>1, <1>2, <1>3, CreatesCategories

LEMMA NewDefaultCalendarCategories ==
  ASSUME CategoriesOK, RowsOK, RequestsOK, Tables, NEW r \in Requests, NewDefaultCalendar(r)
  PROVE  CategoriesOK'
  <1>1. PICK w, c, type, owner : Creates(r, w, c, type, owner) /\ bare' = bare \cup {c} BY NewDefaultCalendarStep
  <1>2. c \in CalendarIds BY <1>1 DEF Creates
  <1>3. request[r].pc \notin Making /\ category' = category BY DEF NewDefaultCalendar, Writes, At, Making
  <1> QED BY <1>1, <1>2, <1>3, CreatesCategories

LEMMA NewCalendarCategories ==
  ASSUME CategoriesOK, RowsOK, RequestsOK, Tables, NEW r \in Requests, NewCalendar(r)
  PROVE  CategoriesOK'
  <1>1. PICK w, c, type, owner : Creates(r, w, c, type, owner) BY NewCalendarStep
  <1>2. c \in CalendarIds BY <1>1 DEF Creates
  <1>3. request[r].pc \notin Making /\ category' = category /\ bare' = bare
    BY DEF NewCalendar, Writes, At, Making
  <1>4. request[r].op # "getCalendars" BY NewCalendarStep
  <1> QED BY <1>1, <1>2, <1>3, <1>4, CreatesCategories

LEMMA NewBaseCalendarCategories ==
  ASSUME CategoriesOK, RowsOK, RequestsOK, Tables, NEW r \in Requests, NewBaseCalendar(r)
  PROVE  CategoriesOK'
  <1>1. PICK c, row :
          /\ c \in CalendarIds
          /\ \E w : Onward(r, w) /\ w # Idle /\ w.pc = "baseMember"
          /\ calendar' = [calendar EXCEPT ![c] = row] /\ bare' = bare \cup {c}
    BY NewBaseCalendarStep DEF Now, SameRequest
  <1>2. PICK w : Onward(r, w) /\ w # Idle /\ w.pc = "baseMember" BY <1>1
  <1>3. request[r].pc \notin Making /\ category' = category BY DEF NewBaseCalendar, Writes, At, Making
  <1>4. CategoriesLast BY <1>3 DEF CategoriesLast, CategoriesOK, SameKind
  <1>5. \A x \in CalendarIds : calendar'[x] # None /\ calendar[x] = None => x = c BY <1>1 DEF Tables
  <1>6. CalendarsLast(r, w) BY <1>1, <1>2, <1>3, <1>5 DEF CalendarsLast, PromisedBy
  <1>7. KindKnown(r) BY <1>3 DEF KindKnown
  <1> QED BY <1>2, <1>4, <1>6, <1>7, CategoriesKept

LEMMA NewIssueCalendarCategories ==
  ASSUME CategoriesOK, RowsOK, RequestsOK, Tables, NEW r \in Requests, NewIssueCalendar(r)
  PROVE  CategoriesOK'
  <1>1. PICK c, row :
          /\ c \in CalendarIds
          /\ \E w : Onward(r, w) /\ w # Idle /\ w.pc = "issueMember"
          /\ calendar' = [calendar EXCEPT ![c] = row] /\ bare' = bare \cup {c}
    BY NewIssueCalendarStep DEF Now, SameRequest
  <1>2. PICK w : Onward(r, w) /\ w # Idle /\ w.pc = "issueMember" BY <1>1
  <1>3. request[r].pc \notin Making /\ category' = category BY DEF NewIssueCalendar, Writes, At, Making
  <1>4. CategoriesLast BY <1>3 DEF CategoriesLast, CategoriesOK, SameKind
  <1>5. \A x \in CalendarIds : calendar'[x] # None /\ calendar[x] = None => x = c BY <1>1 DEF Tables
  <1>6. CalendarsLast(r, w) BY <1>1, <1>2, <1>3, <1>5 DEF CalendarsLast, PromisedBy
  <1>7. KindKnown(r) BY <1>3 DEF KindKnown
  <1> QED BY <1>2, <1>4, <1>6, <1>7, CategoriesKept

LEMMA DeactivatePersonalCategories ==
  ASSUME CategoriesOK, RowsOK, RequestsOK, Tables, NEW r \in Requests, DeactivatePersonal(r)
  PROVE  CategoriesOK'
  <1>1. request[r].pc = "deactivate" /\ category' = category BY DEF DeactivatePersonal, At
  <1>2. CategoriesLast BY <1>1 DEF CategoriesLast, CategoriesOK, SameKind
  <1>3. KindKnown(r) BY <1>1 DEF KindKnown
  <1>4. PICK w : Onward(r, w) /\ w.pc \in {"purge", "deactivate"} BY DeactivatePersonalStep DEF Same, Now
  <1>5. CASE UNCHANGED <<calendar, bare>>
    <2>1. CalendarsLast(r, w) BY <1>1, <1>4, <1>5 DEF CalendarsLast, PromisedBy, Making
    <2> QED BY <1>2, <1>3, <1>4, <2>1, CategoriesKept
  <1>6. ASSUME NEW c \in CalendarIds, NEW row, calendar' = [calendar EXCEPT ![c] = row],
               bare' = IF calendar[c] = None THEN bare \cup {c} ELSE bare
        PROVE  CategoriesOK'
    <2>1. \A x \in CalendarIds : calendar'[x] # None /\ calendar[x] = None => x \in bare' BY <1>6 DEF Tables
    <2>2. bare \subseteq bare' BY <1>6
    <2>3. CalendarsLast(r, w) BY <1>1, <1>4, <2>1, <2>2 DEF CalendarsLast, PromisedBy, Making
    <2> QED BY <1>2, <1>3, <1>4, <2>3, CategoriesKept
  <1> QED BY <1>5, <1>6, DeactivatePersonalStep

LEMMA OwnMemberCategories ==
  ASSUME CategoriesOK, RequestsOK, Tables, NEW r \in Requests, OwnMember(r)
  PROVE  CategoriesOK'
  <1>1. category' = category /\ bare' = bare /\ calendar' = calendar BY DEF OwnMember, history
  <1>2. CategoriesLast BY <1>1 DEF CategoriesLast, CategoriesOK, SameKind
  <1>3. KindKnown(r) BY <1>1 DEF KindKnown
  <1>4. request[r] # Idle /\ request[r].pc = "ownMember" BY DEF OwnMember, Fills, Writes, At
  <1>5. CASE Onward(r, Idle) /\ request[r].op = "getCalendars" /\ request[r].row = "TEAM"
    <2>1. Leaves(request[r]) BY <1>4 DEF CategoriesOK, Busy
    <2>2. \A c \in CalendarIds : Kept(c) => Kept(c)' BY <1>1 DEF Kept, CategoriesOf
    <2>3. CalendarsLast(r, Idle) BY <1>1, <1>4, <1>5, <2>1, <2>2 DEF CalendarsLast, PromisedBy, Leaves
    <2> QED BY <1>2, <1>3, <1>5, <2>3, CategoriesKept
  <1>6. ASSUME NEW w, Onward(r, w), Same(w, request[r], "extras") \/ Same(w, request[r], "newCategory")
        PROVE  CategoriesOK'
    <2>1. w # Idle /\ w.pc \in {"extras", "newCategory"} /\ w.id = request[r].id BY <1>6 DEF Same, Now, SameRequest
    <2>2. \A c : PromisedBy(request[r], c) => PromisedBy(w, c) BY <2>1 DEF PromisedBy, Making
    <2>3. CalendarsLast(r, w) BY <1>1, <2>1, <2>2 DEF CalendarsLast
    <2> QED BY <1>2, <1>3, <1>6, <2>3, CategoriesKept
  <1> QED BY <1>5, <1>6, OwnMemberStep

LEMMA AddExtrasCategories ==
  ASSUME CategoriesOK, RequestsOK, Tables, NEW r \in Requests, AddExtras(r)
  PROVE  CategoriesOK'
  <1>1. category' = category /\ calendar' = calendar BY DEF AddExtras
  <1>2. CategoriesLast BY <1>1 DEF CategoriesLast, CategoriesOK, SameKind
  <1>3. KindKnown(r) BY <1>1 DEF KindKnown
  <1>4. CASE Onward(r, Idle) /\ bare' = bare \cup {request[r].id}
    <2>1. CalendarsLast(r, Idle) BY <1>1, <1>4 DEF CalendarsLast, PromisedBy
    <2> QED BY <1>2, <1>3, <1>4, <2>1, CategoriesKept
  <1>5. ASSUME NEW w, Onward(r, w), Same(w, request[r], "newCategory"), bare' = bare
        PROVE  CategoriesOK'
    <2>1. w # Idle /\ w.pc = "newCategory" /\ w.id = request[r].id BY <1>5 DEF Same, Now, SameRequest
    <2>2. \A c : PromisedBy(request[r], c) => PromisedBy(w, c) BY <2>1 DEF PromisedBy, Making
    <2>3. CalendarsLast(r, w) BY <1>1, <1>5, <2>1, <2>2 DEF CalendarsLast
    <2> QED BY <1>2, <1>3, <1>5, <2>3, CategoriesKept
  <1> QED BY <1>4, <1>5, AddExtrasStep

LEMMA SaveCalendarCategories ==
  ASSUME CategoriesOK, RequestsOK, Tables, NEW r \in Requests, SaveCalendar(r)
  PROVE  CategoriesOK'
  <1>1. request[r] \in Rows /\ request[r].pc = "saveCalendar" /\ category' = category
    BY BusyRows DEF SaveCalendar, Writes, At
  <1>2. CategoriesLast BY <1>1 DEF CategoriesLast, CategoriesOK, SameKind
  <1>3. KindKnown(r) BY <1>1 DEF KindKnown
  <1>4. PICK w : Onward(r, w) /\ (w # Idle => w.pc = "members") BY SaveCalendarStep DEF Same, Now
  <1>5. \A x \in CalendarIds : calendar'[x] # None /\ calendar[x] = None => x \in bare'
    BY DEF SaveCalendar, Tables
  <1>6. bare \subseteq bare' BY DEF SaveCalendar
  <1>7. CalendarsLast(r, w) BY <1>1, <1>4, <1>5, <1>6 DEF CalendarsLast, PromisedBy, Making
  <1> QED BY <1>2, <1>3, <1>4, <1>7, CategoriesKept

LEMMA FailCategories ==
  ASSUME CategoriesOK, RequestsOK, Tables, NEW r \in Requests, Fail(r)
  PROVE  CategoriesOK'
  <1>1. category' = category /\ calendar' = calendar /\ bare \subseteq bare' BY DEF Fail, tables
  <1>2. CategoriesLast BY <1>1 DEF CategoriesLast, CategoriesOK, SameKind
  <1>3. KindKnown(r) BY <1>1 DEF KindKnown
  <1>4. \A c : PromisedBy(request[r], c) => c \in bare' BY DEF Fail, PromisedBy, Making
  <1>5. CalendarsLast(r, Idle) BY <1>1, <1>4 DEF CalendarsLast
  <1> QED BY <1>2, <1>3, <1>5, FailStep, CategoriesKept

(* A category added.                                                       *)
LEMMA AddedCategories ==
  ASSUME CategoriesOK, RequestsOK, Tables, NEW r \in Requests, NEW w, NEW k \in CategoryIds, NEW row \in Category,
         Onward(r, w), w # Idle => w.pc \notin {"saveCategory", "ownMember"},
         category[k] = None, \A s \in Busy : request[s].id # k,
         category' = [category EXCEPT ![k] = row], row.default => row.active,
         calendar' = calendar, \A c \in bare : c \in bare' \/ (row.default /\ row.calendar = c),
         \A c : PromisedBy(request[r], c) => row.default /\ row.calendar = c
  PROVE  CategoriesOK'
  <1>1. category'[k] = row /\ row # None /\ \A j \in CategoryIds \ {k} : category'[j] = category[j]
    BY NoneAssumption DEF Tables
  <1>2. CategoriesLast BY <1>1 DEF CategoriesLast, CategoriesOK, SameKind
  <1>3. KindKnown(r)
    <2>1. ASSUME NEW s \in Busy \ {r}, request[s].pc = "saveCategory", category'[request[s].id] # None, category[request[s].id] = None
          PROVE  FALSE
      <3>1. request[s] \in Rows BY <2>1, BusyRows DEF Busy
      <3>2. request[s].id \in CategoryIds BY <2>1, <3>1 DEF Rows, Fits
      <3> QED BY <1>1, <2>1, <3>2
    <2> QED BY <2>1 DEF KindKnown
  <1>4. \A c : row.default /\ row.calendar = c => Kept(c)' BY <1>1 DEF Kept, CategoriesOf
  <1>5. CalendarsLast(r, w) BY <1>4 DEF CalendarsLast
  <1> QED BY <1>2, <1>3, <1>5, CategoriesKept

LEMMA NewCategoryCategories ==
  ASSUME CategoriesOK, RequestsOK, Tables, NEW r \in Requests, NewCategory(r)
  PROVE  CategoriesOK'
  <1>1. request[r] \in Rows /\ request[r].pc = "newCategory" BY BusyRows DEF NewCategory, Fills, Writes, At
  <1>2. PICK k, row : k = NewId(category) /\ row = NewDefaultCategory(request[r].id) OBVIOUS
  <1>3. k \in CategoryIds /\ category[k] = None /\ \A s \in Busy : request[s].id # k
    BY <1>2, FreshId DEF NewCategory, Tables
  <1>4. request[r].id \in CalendarIds BY <1>1 DEF Rows, Fits
  <1>5. row \in Category /\ row.default /\ row.active /\ row.calendar = request[r].id
    BY <1>2, <1>4 DEF NewDefaultCategory, Category
  <1>6. PICK w : Onward(r, w) /\ (w # Idle => w.pc \notin {"saveCategory", "ownMember"})
    BY NewCategoryStep DEF Follows, Same, Now
  <1>7. category' = [category EXCEPT ![k] = row] /\ calendar' = calendar /\ bare' = bare
    BY <1>2 DEF NewCategory, NewIn, history
  <1>8. \A c : PromisedBy(request[r], c) => row.calendar = c BY <1>5 DEF PromisedBy
  <1> QED BY <1>3, <1>5, <1>6, <1>7, <1>8, AddedCategories

LEMMA NewIssueCategoryCategories ==
  ASSUME CategoriesOK, RequestsOK, Tables, NEW r \in Requests, NewIssueCategory(r)
  PROVE  CategoriesOK'
  <1>1. request[r] \in Rows /\ request[r].pc = "newIssueCategory" BY BusyRows DEF NewIssueCategory, Fills, Writes, At
  <1>2. PICK k, row : k = NewId(category) /\ row = [calendar |-> request[r].id, default |-> FALSE, active |-> TRUE] OBVIOUS
  <1>3. k \in CategoryIds /\ category[k] = None /\ \A s \in Busy : request[s].id # k
    BY <1>2, FreshId DEF NewIssueCategory, Tables
  <1>4. row \in Category /\ (row.default => row.active) BY <1>1, <1>2 DEF Rows, Fits, Category
  <1>5. category' = [category EXCEPT ![k] = row] /\ calendar' = calendar /\ bare' = bare
    BY <1>2 DEF NewIssueCategory, NewIn, history
  <1>6. \A c : ~PromisedBy(request[r], c) BY <1>1 DEF PromisedBy, Making
  <1>7. PICK w : w = Idle OBVIOUS
  <1>8. Onward(r, w) BY <1>7, NewIssueCategoryStep
  <1> QED BY <1>3, <1>4, <1>5, <1>6, <1>7, <1>8, AddedCategories

LEMMA NewBaseCategoryCategories ==
  ASSUME CategoriesOK, RowsOK, RequestsOK, Tables, NEW r \in Requests, NewBaseCategory(r)
  PROVE  CategoriesOK'
  <1>1. PICK k, w, row :
          /\ k \in CategoryIds /\ Onward(r, w) /\ w.pc = "firstEvent"
          /\ category[k] = None /\ \A s \in Busy : request[s].id # k
          /\ row = NewDefaultCategory(request[r].id) /\ category' = [category EXCEPT ![k] = row]
          /\ request[r].id \in CalendarIds /\ bare' = bare \ {request[r].id}
    BY NewBaseCategoryStep DEF Now
  <1>2. row \in Category /\ row.default /\ row.active /\ row.calendar = request[r].id
    BY <1>1 DEF NewDefaultCategory, Category
  <1>3. calendar' = calendar /\ \A c : ~PromisedBy(request[r], c)
    BY DEF NewBaseCategory, Fills, Writes, At, PromisedBy, Making
  <1>4. \A c \in bare : c \in bare' \/ row.calendar = c BY <1>1, <1>2
  <1> QED BY <1>1, <1>2, <1>3, <1>4, AddedCategories

LEMMA AddCategoryCategories ==
  ASSUME CategoriesOK, RequestsOK, Tables, NEW r \in Requests, AddCategory(r)
  PROVE  CategoriesOK'
  <1>1. request[r] \in Rows /\ request[r].pc = "addCategory" BY BusyRows DEF AddCategory, Writes, At
  <1>2. PICK k, row : k = NewId(category) /\ row = request[r].row OBVIOUS
  <1>3. k \in CategoryIds /\ category[k] = None /\ \A s \in Busy : request[s].id # k
    BY <1>2, FreshId DEF AddCategory, Tables
  <1>4. row \in Category /\ (row.default => row.active) BY <1>1, <1>2 DEF Rows, Fits
  <1>5. /\ category' = [category EXCEPT ![k] = row] /\ calendar' = calendar
        /\ \A c \in bare : c \in bare' \/ (row.default /\ row.calendar = c)
    BY <1>2 DEF AddCategory, NewIn
  <1>6. \A c : ~PromisedBy(request[r], c) BY <1>1 DEF PromisedBy, Making
  <1>7. PICK w : w = Idle OBVIOUS
  <1>8. Onward(r, w) BY <1>7, AddCategoryStep
  <1> QED BY <1>3, <1>4, <1>5, <1>6, <1>7, <1>8, AddedCategories

LEMMA SaveCategoryCategories ==
  ASSUME CategoriesOK, RequestsOK, Tables, NEW r \in Requests, SaveCategory(r)
  PROVE  CategoriesOK'
  <1>1. request[r] \in Rows /\ request[r].pc = "saveCategory" /\ r \in Busy BY BusyRows DEF SaveCategory, Writes, At
  <1>2. PICK k, row : k = request[r].id /\ row = request[r].row OBVIOUS
  <1>3. k \in CategoryIds /\ row \in Category /\ (row.default => row.active) BY <1>1, <1>2 DEF Rows, Fits
  <1>4. category' = [category EXCEPT ![k] = row] /\ calendar' = calendar /\ bare' = bare
    BY <1>2 DEF SaveCategory, history
  <1>5. category'[k] = row /\ row # None /\ \A j \in CategoryIds \ {k} : category'[j] = category[j]
    BY <1>3, <1>4, NoneAssumption DEF Tables
  <1>6. category[k] # None => SameKind(row, category[k]) BY <1>1, <1>2 DEF CategoriesOK, Saves
  <1>7. CategoriesLast BY <1>3, <1>5, <1>6 DEF CategoriesLast, CategoriesOK, SameKind
  <1>8. KindKnown(r)
    <2>1. ASSUME NEW s \in Busy \ {r}, request[s].pc = "saveCategory", category'[request[s].id] # None, category[request[s].id] = None
          PROVE  SameKind(request[s].row, category'[request[s].id])
      <3>1. request[s] \in Rows BY <2>1, BusyRows DEF Busy
      <3>2. request[s].id \in CategoryIds BY <2>1, <3>1 DEF Rows, Fits
      <3>3. request[s].id = k BY <1>5, <2>1, <3>2
      <3>4. SameKind(request[s].row, request[r].row) BY <1>1, <1>2, <2>1, <3>3 DEF CategoriesOK, Overwrites
      <3> QED BY <1>2, <1>5, <3>3, <3>4
    <2> QED BY <2>1 DEF KindKnown
  <1>9. CalendarsLast(r, Idle) BY <1>1, <1>4 DEF CalendarsLast, PromisedBy, Making
  <1> QED BY <1>7, <1>8, <1>9, SaveCategoryStep, CategoriesKept

LEMMA DropProjectCategories ==
  ASSUME CategoriesOK, RequestsOK, Tables, NEW r \in Requests, DropProject(r)
  PROVE  CategoriesOK'
  <1>1. \A s \in Requests : request'[s] = IF s = r THEN Idle ELSE request[s] BY DEF DropProject, Goes, RequestsOK
  <1>2. (\A c \in CalendarIds : calendar'[c] = None) /\ (\A k \in CategoryIds : category'[k] = None) BY DEF DropProject
  <1>3. ASSUME NEW s \in Requests, request'[s] # Idle
        PROVE  Saves(request[s])' /\ Leaves(request[s])'
    <2>1. request'[s] = request[s] /\ request[s] \in Rows BY <1>1, <1>3, BusyRows
    <2>2. /\ request[s].pc = "saveCategory" => request[s].id \in CategoryIds
          /\ request[s].pc = "ownMember" => request[s].id \in CalendarIds
      BY <2>1 DEF Rows, Fits
    <2> QED BY <1>2, <2>1, <2>2 DEF Saves, Leaves
  <1>4. \A s \in Requests : request'[s] # Idle => s \in Busy /\ request'[s] = request[s] BY <1>1 DEF Busy
  <1> QED BY <1>2, <1>3, <1>4 DEF CategoriesOK, Busy, Overwrites

LEMMA HandleCategories ==
  ASSUME CategoriesOK, RowsOK, RequestsOK, NEW r \in Requests, Handle(r)
  PROVE  CategoriesOK'
  <1>0. Tables BY RowsAre
  <1>1. ASSUME (\E w : Onward(r, w) /\ Steady(r, w)) /\ CategoriesSame
        PROVE  CategoriesOK'
    BY <1>0, <1>1, CategoriesStill
  <1>2. CASE \/ SaveNewProject(r) \/ SeatOwner(r) \/ SeatSelected(r) \/ NewChannel(r) \/ JoinSelected(r)
             \/ SeatBaseOwner(r) \/ FirstEvent(r)
    BY <1>1, <1>2, CreateSteady
  <1>3. CASE SeatMember(r) \/ JoinChannel(r) \/ SaveRole(r) \/ FindPersonals(r) \/ PurgeEvents(r) \/ Unseat(r)
    BY <1>1, <1>3, MemberSteady
  <1>4. CASE DeactivatePersonal(r) BY <1>0, <1>4, DeactivatePersonalCategories
  <1>5. CASE SaveProject(r) \/ DeleteChannelMembers(r) \/ InsertFavorite(r) BY <1>1, <1>5, ProjectSteady
  <1>6. CASE \/ FindPersonal(r) \/ EnsureDefault(r) \/ ReplaceMembers(r)
             \/ NewFolder(r) \/ DropFolder(r) \/ NewEvent(r) \/ SaveEvent(r)
    BY <1>1, <1>6, CalendarSteady
  <1>7. CASE NewPersonal(r) \/ NewDefaultCalendar(r) \/ NewCalendar(r) \/ NewBaseCalendar(r)
    BY <1>0, <1>7, NewPersonalCategories, NewDefaultCalendarCategories, NewCalendarCategories, NewBaseCalendarCategories
  <1>8. CASE OwnMember(r) \/ AddExtras(r) \/ SaveCalendar(r) \/ Fail(r)
    BY <1>0, <1>8, OwnMemberCategories, AddExtrasCategories, SaveCalendarCategories, FailCategories
  <1>9. CASE NewCategory(r) \/ NewBaseCategory(r) \/ AddCategory(r) \/ SaveCategory(r)
    BY <1>0, <1>9, NewCategoryCategories, NewBaseCategoryCategories, AddCategoryCategories, SaveCategoryCategories
  <1>10. CASE DropProject(r) BY <1>0, <1>10, DropProjectCategories
  <1>11. CASE FindIssueCalendar(r) \/ SeatIssueOwner(r) \/ FindIssueCategory(r) BY <1>1, <1>11, IssueSteady
  <1>12. CASE NewIssueCalendar(r) \/ NewIssueCategory(r)
    BY <1>0, <1>12, NewIssueCalendarCategories, NewIssueCategoryCategories
  <1> QED BY <1>2, <1>3, <1>4, <1>5, <1>6, <1>7, <1>8, <1>9, <1>10, <1>11, <1>12 DEF Handle, HandleCalendar

-----------------------------------------------------------------------------
(***************************************************************************)
(* The members: MembershipOK.                                              *)
(***************************************************************************)
(* What a step does to the users its request is not about.                 *)
Undisturbed(u) ==
  /\ role'[u] = role[u]
  /\ Joined(u) => Joined(u)'
  /\ ~hasChannel => ~hasChannel'
  /\ Personal(u)' \subseteq Personal(u)
  /\ NoEvents(u) => NoEvents(u)'

LEMMA SettledStays ==
  ASSUME NEW u, Undisturbed(u), Settled(u)
  PROVE  Settled(u)'
BY DEF Undisturbed, Settled, Member, Nothing, NoPersonal, OnePersonal

LEMMA StageStays ==
  ASSUME NEW u, NEW q, Undisturbed(u), Stage(q, u)
  PROVE  Stage(q, u)'
  <1>1. /\ Settled(u) => Settled(u)'
        /\ Member(u)' = Member(u) /\ (NoPersonal(u) => NoPersonal(u)') /\ (Nothing(u) => Nothing(u)')
        /\ (OnePersonal(u) => OnePersonal(u)') /\ (Joined(u) => Joined(u)') /\ (~hasChannel => ~hasChannel')
        /\ Personal(u)' \subseteq Personal(u)
    BY SettledStays DEF Undisturbed, Member, Nothing, NoPersonal, OnePersonal
  <1> QED BY <1>1 DEF Stage, IssueSteps, Seated

(* And to those it is about.                                               *)
Advance(w, u) == IF w = Idle THEN Settled(u)' \/ u \in crossed' ELSE Stage(w, u)'

LEMMA MembershipKept ==
  ASSUME RequestsOK, MembershipOK, NEW r \in Requests, NEW w, Onward(r, w),
         \A u \in Users \ request[r].about : Undisturbed(u),
         \A u \in request[r].about : Stage(request[r], u) => Advance(w, u)
  PROVE  MembershipOK'
  <1>1. \A s \in Requests : request'[s] = IF s = r THEN w ELSE request[s] BY DEF Onward, RequestsOK
  <1>2. w # Idle => w.about = request[r].about BY DEF Onward, SameRequest
  <1>3. r \in Busy BY DEF Onward, Busy
  <1>4. \A s \in Busy' : s \in Busy /\ request'[s].about = request[s].about BY <1>1, <1>2, <1>3 DEF Busy
  <1>5. ASSUME NEW u \in Users, u \notin crossed'
        PROVE  UserOK(u)'
    <2>1. UserOK(u) BY <1>5 DEF Onward, MembershipOK
    <2>2. \A s, t \in Busy' : u \in request'[s].about /\ u \in request'[t].about => s = t
      BY <1>4, <2>1 DEF UserOK
    <2>3. ASSUME \A s \in Busy' : u \notin request'[s].about
          PROVE  Settled(u)'
      <3>1. CASE u \in request[r].about
        <4>1. w = Idle BY <1>1, <1>2, <2>3, <3>1 DEF Busy
        <4>2. Stage(request[r], u) BY <1>3, <2>1, <3>1 DEF UserOK
        <4> QED BY <1>5, <3>1, <4>1, <4>2 DEF Advance
      <3>2. CASE u \notin request[r].about
        <4>1. \A s \in Busy : u \notin request[s].about BY <1>1, <2>3, <3>2 DEF Busy
        <4>2. Settled(u) BY <2>1, <4>1 DEF UserOK
        <4> QED BY <3>2, <4>2, SettledStays
      <3> QED BY <3>1, <3>2
    <2>4. ASSUME NEW s \in Busy', u \in request'[s].about
          PROVE  Stage(request[s], u)'
      <3>1. PICK q : q = request'[s] OBVIOUS
      <3>2. s \in Busy /\ u \in request[s].about BY <1>4, <2>4
      <3>3. Stage(request[s], u) BY <2>1, <3>2 DEF UserOK
      <3>4. Stage(q, u)'
        <4>1. CASE s = r
          <5>1. q = w /\ w # Idle BY <1>1, <2>4, <3>1, <4>1 DEF Busy
          <5> QED BY <3>2, <3>3, <4>1, <5>1 DEF Advance
        <4>2. CASE s # r
          <5>1. q = request[s] BY <1>1, <2>4, <3>1, <4>2 DEF Busy
          <5>2. u \notin request[r].about BY <1>3, <2>1, <3>2, <4>2 DEF UserOK
          <5> QED BY <3>3, <5>1, <5>2, StageStays
        <4> QED BY <4>1, <4>2
      <3> QED BY <3>1, <3>4 DEF Stage, IssueSteps, Seated
    <2> QED BY <2>2, <2>3, <2>4 DEF UserOK
  <1> QED BY <1>5 DEF MembershipOK

LEMMA BeginMembership ==
  ASSUME RequestsOK, MembershipOK, NEW r \in Requests, NEW q, Begins(r, q), UNCHANGED projectVars
  PROVE  MembershipOK'
  <1>1. /\ role' = role /\ calendar' = calendar /\ event' = event /\ channel' = channel /\ hasChannel' = hasChannel
        /\ request[r] = Idle
    BY DEF Begins, Starts, Free, tables, projectVars
  <1>2. \A s \in Requests : request'[s] = IF s = r THEN q ELSE request[s] BY DEF Begins, Starts, Goes, RequestsOK
  <1>3. \A s \in Busy' : s = r \/ (s \in Busy /\ s # r /\ request'[s] = request[s]) BY <1>2 DEF Busy
  <1>4. ASSUME NEW u \in Users, u \notin crossed'
        PROVE  UserOK(u)'
    <2>1. UserOK(u) /\ \A s \in Busy : u \in q.about => u \notin request[s].about
      BY <1>4 DEF Begins, Starts, MembershipOK
    <2>2. Undisturbed(u) BY <1>1 DEF Undisturbed, Joined, Personal, Active, NoEvents
    <2>3. request'[r] = q /\ r \in Busy' BY <1>2 DEF Begins, Busy
    <2>4. \A s, t \in Busy' : u \in request'[s].about /\ u \in request'[t].about => s = t
      BY <1>3, <2>1, <2>3 DEF UserOK
    <2>5. ASSUME \A s \in Busy' : u \notin request'[s].about
          PROVE  Settled(u)'
      <3>1. \A s \in Busy : s \in Busy' /\ request'[s] = request[s] BY <1>1, <1>2 DEF Busy
      <3>2. Settled(u) BY <2>1, <2>5, <3>1 DEF UserOK
      <3> QED BY <2>2, <3>2, SettledStays
    <2>6. ASSUME NEW s \in Busy', u \in request'[s].about
          PROVE  Stage(request[s], u)'
      <3>1. PICK t : t = request'[s] OBVIOUS
      <3>2. CASE s = r
        <4>1. t = q /\ u \in q.about BY <2>3, <2>6, <3>1, <3>2
        <4>2. Settled(u) BY <2>1, <4>1 DEF UserOK
        <4>3. Stage(t, u) BY <4>1, <4>2 DEF Begins
        <4>4. Stage(t, u)' BY <2>2, <4>3, StageStays
        <4> QED BY <3>1, <4>4 DEF Stage, IssueSteps, Seated
      <3>3. CASE s # r
        <4>1. t = request[s] /\ s \in Busy /\ u \in request[s].about BY <1>3, <2>6, <3>1, <3>3
        <4>2. Stage(t, u) BY <2>1, <4>1 DEF UserOK
        <4>3. Stage(t, u)' BY <2>2, <4>2, StageStays
        <4> QED BY <3>1, <4>3 DEF Stage, IssueSteps, Seated
      <3> QED BY <3>2, <3>3
    <2> QED BY <2>4, <2>5, <2>6 DEF UserOK
  <1> QED BY <1>4 DEF MembershipOK


-----------------------------------------------------------------------------
(* Steps that touch no membership, calendar or event.                      *)
Still == role' = role /\ channel' = channel /\ hasChannel' = hasChannel /\ calendar' = calendar /\ event' = event

Leads(w, u) == IF w = Idle THEN Settled(u) \/ u \in crossed' ELSE Stage(w, u)

LEMMA LeadsOn ==
  ASSUME NEW u, NEW w, Undisturbed(u), Leads(w, u)
  PROVE  Advance(w, u)
BY SettledStays, StageStays DEF Leads, Advance

LEMMA StillUndisturbed ==
  ASSUME Still
  PROVE  \A u : Undisturbed(u)
BY DEF Still, Undisturbed, Joined, Personal, Active, NoEvents

LEMMA StillMembership ==
  ASSUME RequestsOK, MembershipOK, NEW r \in Requests, NEW w, Onward(r, w), Still,
         \A u \in request[r].about : Stage(request[r], u) => Leads(w, u)
  PROVE  MembershipOK'
  <1>1. \A u : Undisturbed(u) BY StillUndisturbed
  <1>2. \A u \in request[r].about : Stage(request[r], u) => Advance(w, u) BY <1>1, LeadsOn
  <1> QED BY <1>1, <1>2, MembershipKept

LEMMA FollowsLeads ==
  ASSUME NEW q \in Rows, q.pc \in {"personal", "newCategory"}, q.op # "createCalendar",
         NEW w, Follows(w, q), NEW u \in q.about, Stage(q, u)
  PROVE  Leads(w, u)
  <1>1. Settled(u) /\ (u \in {q.who} \cup (IF q.op = "createProject" THEN q.todo ELSE {}) => Member(u)) BY DEF Stage, IssueSteps
  <1>2. CASE w = Idle BY <1>1, <1>2 DEF Leads
  <1>3. CASE w # Idle /\ Same(w, q, "default") /\ q.op = "getCalendars"
    <2>1. u = q.who BY <1>3 DEF Rows, Fits, OfOne
    <2> QED BY <1>1, <1>3, <2>1 DEF Leads, Stage, IssueSteps, Same, Now
  <1>4. ASSUME w # Idle, q.op = "createProject", NEW v \in q.todo, Now(w, q, "personal", v, q.todo \ {v}, q.id, q.row)
        PROVE  Leads(w, u)
    <2>1. w.pc = "personal" /\ w.who = v /\ w.todo = q.todo \ {v} BY <1>4 DEF Now
    <2>2. u \in {w.who} \cup w.todo => Member(u) BY <1>1, <1>4, <2>1
    <2> QED BY <1>1, <1>4, <2>1, <2>2 DEF Leads, Stage, IssueSteps
  <1>5. CASE w # Idle /\ Now(w, q, "issueCalendar", q.by, q.todo, q.id, q.row)
    BY <1>1, <1>5 DEF Leads, Stage, IssueSteps, Now
  <1> QED BY <1>2, <1>3, <1>4, <1>5 DEF Follows

LEMMA FindPersonalMembership ==
  ASSUME RequestsOK, MembershipOK, NEW r \in Requests, FindPersonal(r), UNCHANGED projectVars
  PROVE  MembershipOK'
  <1>1. Still BY DEF Still, FindPersonal, tables, projectVars
  <1>2. request[r] \in Rows /\ request[r].pc = "personal" BY BusyRows DEF FindPersonal, At
  <1>3. ASSUME NEW w, Onward(r, w), Follows(w, request[r])
        PROVE  MembershipOK'
    <2>1. request[r].op # "createCalendar" BY <1>2 DEF Rows, Fits
    <2>2. \A u \in request[r].about : Stage(request[r], u) => Leads(w, u) BY <1>2, <1>3, <2>1, FollowsLeads
    <2> QED BY <1>1, <1>3, <2>2, StillMembership
  <1>4. ASSUME NEW w, Onward(r, w), Same(w, request[r], "newPersonal"), Personal(request[r].who) = {}
        PROVE  MembershipOK'
    <2>1. \A u \in request[r].about : Stage(request[r], u) => Leads(w, u)
      BY <1>2, <1>4 DEF Leads, Stage, IssueSteps, Same, Now, SameRequest, NoPersonal
    <2> QED BY <1>1, <1>4, <2>1, StillMembership
  <1> QED BY <1>3, <1>4, FindPersonalStep

LEMMA EnsureDefaultMembership ==
  ASSUME RequestsOK, MembershipOK, NEW r \in Requests, EnsureDefault(r), UNCHANGED projectVars
  PROVE  MembershipOK'
  <1>1. Still BY DEF Still, EnsureDefault, tables, projectVars
  <1>2. request[r].pc = "default" BY DEF EnsureDefault, At
  <1>3. CASE Onward(r, Idle)
    <2>1. \A u \in request[r].about : Stage(request[r], u) => Leads(Idle, u) BY <1>2 DEF Leads, Stage, IssueSteps
    <2> QED BY <1>1, <1>3, <2>1, StillMembership
  <1>4. ASSUME NEW w, Onward(r, w), Same(w, request[r], "newDefault")
        PROVE  MembershipOK'
    <2>1. \A u \in request[r].about : Stage(request[r], u) => Leads(w, u)
      BY <1>2, <1>4 DEF Leads, Stage, IssueSteps, Same, Now, SameRequest
    <2> QED BY <1>1, <1>4, <2>1, StillMembership
  <1> QED BY <1>3, <1>4, EnsureDefaultStep

LEMMA OwnMemberMembership ==
  ASSUME RequestsOK, MembershipOK, NEW r \in Requests, OwnMember(r), UNCHANGED projectVars
  PROVE  MembershipOK'
  <1>1. Still BY DEF Still, OwnMember, tables, projectVars
  <1>2. request[r] \in Rows /\ request[r].pc = "ownMember" BY BusyRows DEF OwnMember, Fills, Writes, At
  <1>3. CASE Onward(r, Idle)
    <2>1. \A u \in request[r].about : Stage(request[r], u) => Leads(Idle, u) BY <1>2 DEF Leads, Stage, IssueSteps
    <2> QED BY <1>1, <1>3, <2>1, StillMembership
  <1>4. ASSUME NEW w, Onward(r, w), Same(w, request[r], "extras"), request[r].op = "createCalendar"
        PROVE  MembershipOK'
    <2>1. request[r].about = {} BY <1>2, <1>4 DEF Rows, Fits
    <2> QED BY <1>1, <1>4, <2>1, StillMembership
  <1>5. ASSUME NEW w, Onward(r, w), Same(w, request[r], "newCategory")
        PROVE  MembershipOK'
    <2>1. \A u \in request[r].about : Stage(request[r], u) => Leads(w, u)
      BY <1>2, <1>5 DEF Leads, Stage, IssueSteps, Same, Now, SameRequest
    <2> QED BY <1>1, <1>5, <2>1, StillMembership
  <1> QED BY <1>3, <1>4, <1>5, OwnMemberStep

LEMMA NewCategoryMembership ==
  ASSUME RequestsOK, MembershipOK, NEW r \in Requests, NewCategory(r), UNCHANGED projectVars
  PROVE  MembershipOK'
  <1>1. Still BY DEF Still, NewCategory, projectVars
  <1>2. request[r] \in Rows /\ request[r].pc = "newCategory" BY BusyRows DEF NewCategory, Fills, Writes, At
  <1>3. CASE request[r].op = "createCalendar" /\ Onward(r, Idle)
    <2>1. request[r].about = {} BY <1>2, <1>3 DEF Rows, Fits
    <2> QED BY <1>1, <1>3, <2>1, StillMembership
  <1>4. ASSUME request[r].op # "createCalendar", NEW w, Onward(r, w), Follows(w, request[r])
        PROVE  MembershipOK'
    <2>1. \A u \in request[r].about : Stage(request[r], u) => Leads(w, u) BY <1>2, <1>4, FollowsLeads
    <2> QED BY <1>1, <1>4, <2>1, StillMembership
  <1> QED BY <1>3, <1>4, NewCategoryStep

(* The calendar of the issue board is nobody's concern.                    *)
LEMMA IssueMembership ==
  ASSUME RequestsOK, MembershipOK, NEW r \in Requests, UNCHANGED projectVars,
         FindIssueCalendar(r) \/ SeatIssueOwner(r) \/ FindIssueCategory(r) \/ NewIssueCategory(r)
  PROVE  MembershipOK'
  <1>1. Still
    BY DEF Still, FindIssueCalendar, SeatIssueOwner, FindIssueCategory, NewIssueCategory, tables, projectVars
  <1>2. request[r].pc \in IssueSteps
    BY DEF FindIssueCalendar, SeatIssueOwner, FindIssueCategory, NewIssueCategory, Fills, Writes, At, IssueSteps
  <1>3. PICK w : Onward(r, w) /\ (w # Idle => w.pc \in {"issueCategory", "newIssueCalendar", "newIssueCategory"})
    <2>1. CASE FindIssueCalendar(r) BY <2>1, FindIssueCalendarStep DEF Same, Now
    <2>2. CASE SeatIssueOwner(r) BY <2>2, SeatIssueOwnerStep DEF Same, Now
    <2>3. CASE FindIssueCategory(r) BY <2>3, FindIssueCategoryStep DEF Same, Now
    <2>4. CASE NewIssueCategory(r) BY <2>4, NewIssueCategoryStep
    <2> QED BY <2>1, <2>2, <2>3, <2>4
  <1>4. \A u \in request[r].about : Stage(request[r], u) => Leads(w, u) BY <1>2, <1>3 DEF Leads, Stage, IssueSteps
  <1> QED BY <1>1, <1>3, <1>4, StillMembership

LEMMA ReplaceMembersMembership ==
  ASSUME RequestsOK, MembershipOK, NEW r \in Requests, ReplaceMembers(r), UNCHANGED projectVars
  PROVE  MembershipOK'
  <1>1. Still /\ request[r].pc = "members" BY DEF Still, ReplaceMembers, Fills, Writes, At, projectVars
  <1>2. \A u \in request[r].about : Stage(request[r], u) => Leads(Idle, u) BY <1>1 DEF Leads, Stage, IssueSteps
  <1> QED BY <1>1, <1>2, ReplaceMembersStep, StillMembership

LEMMA FailMembership ==
  ASSUME RequestsOK, MembershipOK, NEW r \in Requests, Fail(r), UNCHANGED projectVars
  PROVE  MembershipOK'
  <1>1. Still BY DEF Still, Fail, tables, projectVars
  <1>2. \A u \in request[r].about : Leads(Idle, u) BY DEF Fail, Leads
  <1> QED BY <1>1, <1>2, FailStep, StillMembership

(* These are about nobody.                                                 *)
LEMMA NobodyMembership ==
  ASSUME RequestsOK, MembershipOK, NEW r \in Requests,
         \/ UNCHANGED projectVars /\ (NewFolder(r) \/ DropFolder(r) \/ AddCategory(r) \/ SaveCategory(r) \/ AddExtras(r))
         \/ SaveProject(r) \/ InsertFavorite(r)
  PROVE  MembershipOK'
  <1>1. Still
    BY DEF Still, NewFolder, DropFolder, AddCategory, SaveCategory, AddExtras, SaveProject, InsertFavorite, tables, projectVars
  <1>2. request[r] \in Rows
    BY BusyRows DEF NewFolder, DropFolder, AddCategory, SaveCategory, AddExtras, SaveProject, InsertFavorite, Fills, Writes, At
  <1>3. request[r].pc \in {"newFolder", "dropFolder", "addCategory", "saveCategory", "extras", "saveProject", "favorite"}
    BY DEF NewFolder, DropFolder, AddCategory, SaveCategory, AddExtras, SaveProject, InsertFavorite, Fills, Writes, At
  <1>4. request[r].about = {} BY <1>2, <1>3 DEF Rows, Fits
  <1>5. \E w : Onward(r, w)
    BY NewFolderStep, DropFolderStep, AddCategoryStep, SaveCategoryStep, AddExtrasStep, SaveProjectStep, InsertFavoriteStep
  <1> QED BY <1>1, <1>4, <1>5, StillMembership

-----------------------------------------------------------------------------
(* createProject is about everybody.                                       *)
LEMMA CreateMembership ==
  ASSUME RequestsOK, MembershipOK, NEW r \in Requests, NEW w, Onward(r, w), request[r].op = "createProject",
         \A u \in Users : Stage(request[r], u) => Advance(w, u)
  PROVE  MembershipOK'
  <1>1. request[r] \in Rows BY BusyRows DEF Onward
  <1>2. request[r].about = Users BY <1>1 DEF Rows, Fits
  <1> QED BY <1>2, MembershipKept

LEMMA CreateOp ==
  ASSUME RequestsOK, NEW r \in Requests, request[r] # Idle, request[r].pc \in CreateSteps
  PROVE  request[r].op = "createProject" /\ request[r].about = Users /\ request[r].by \in Users /\ request[r].todo \in SUBSET Users
  <1>1. request[r] \in Rows BY BusyRows
  <1>2. request[r].by \in Users /\ request[r].todo \in SUBSET Users BY BusyRows, Fields
  <1> QED BY <1>1, <1>2 DEF Rows, Fits

LEMMA SaveNewProjectMembership ==
  ASSUME RequestsOK, MembershipOK, NEW r \in Requests, SaveNewProject(r)
  PROVE  MembershipOK'
  <1>1. Still /\ request[r].pc = "project" BY DEF Still, SaveNewProject, At, tables, projectVars
  <1>2. PICK w : Onward(r, w) /\ Same(w, request[r], "owner") BY SaveNewProjectStep
  <1>3. \A u \in request[r].about : Stage(request[r], u) => Leads(w, u)
    BY <1>1, <1>2 DEF Leads, Stage, IssueSteps, Same, Now, SameRequest
  <1> QED BY <1>1, <1>2, <1>3, StillMembership

LEMMA SeatOwnerMembership ==
  ASSUME RequestsOK, MembershipOK, NEW r \in Requests, SeatOwner(r), Tables
  PROVE  MembershipOK'
  <1>1. request[r] # Idle /\ request[r].pc = "owner" BY DEF SeatOwner, Writes, At
  <1>2. request[r].op = "createProject" /\ request[r].by \in Users BY <1>1, CreateOp DEF CreateSteps, IssueSteps
  <1>3. PICK w : Onward(r, w) /\ Same(w, request[r], "seats") BY SeatOwnerStep
  <1>4. calendar' = calendar /\ event' = event BY DEF SeatOwner, tables
  <1>5. \A u \in Users : role'[u] = IF u = request[r].by THEN "OWNER" ELSE role[u] BY DEF SeatOwner, Tables
  <1>6. "OWNER" # None BY NoneAssumption DEF Roles
  <1>7. ASSUME NEW u \in Users, Stage(request[r], u)
        PROVE  Advance(w, u)
    <2>1. ~Member(u) /\ Nothing(u) BY <1>1, <1>7 DEF Stage, IssueSteps
    <2>2. Nothing(u)' BY <1>4, <2>1 DEF Nothing, NoPersonal, NoEvents, Personal, Active
    <2>3. Member(u)' <=> u = w.by BY <1>3, <1>5, <1>6, <2>1 DEF Member, Same, Now, SameRequest
    <2>4. w # Idle /\ w.pc = "seats" BY <1>3 DEF Same, Now, SameRequest
    <2> QED BY <2>2, <2>3, <2>4 DEF Advance, Stage, IssueSteps
  <1> QED BY <1>2, <1>3, <1>7, CreateMembership

LEMMA SeatSelectedMembership ==
  ASSUME RequestsOK, MembershipOK, NEW r \in Requests, SeatSelected(r), Tables
  PROVE  MembershipOK'
  <1>1. request[r] # Idle /\ request[r].pc = "seats" BY DEF SeatSelected, Writes, At
  <1>2. request[r].op = "createProject" /\ request[r].todo \in SUBSET Users BY <1>1, CreateOp DEF CreateSteps, IssueSteps
  <1>3. calendar' = calendar /\ event' = event /\ channel' = channel /\ hasChannel' = hasChannel
    BY DEF SeatSelected, tables, projectVars
  <1>4. ASSUME NEW w, Onward(r, w), Same(w, request[r], "channel"), UNCHANGED role, \A u \in request[r].todo : Member(u)
        PROVE  MembershipOK'
    <2>1. \A u \in request[r].about : Stage(request[r], u) => Leads(w, u)
      BY <1>1, <1>4 DEF Leads, Stage, IssueSteps, Seated, Same, Now, SameRequest
    <2> QED BY <1>3, <1>4, <2>1, StillMembership DEF Still
  <1>5. CASE Onward(r, request[r]) /\ UNCHANGED request
    <2>1. PICK q : q = request[r] OBVIOUS
    <2>2. ASSUME NEW u \in Users, Stage(q, u)
          PROVE  Advance(q, u)
      <3>1. Nothing(u) /\ (u = q.by => Member(u)) /\ (Member(u) => u \in {q.by} \cup q.todo)
        BY <1>1, <2>1, <2>2 DEF Stage, IssueSteps
      <3>2. Nothing(u)' BY <1>3, <3>1 DEF Nothing, NoPersonal, NoEvents, Personal, Active
      <3>3. (Member(u) => Member(u)') /\ (Member(u)' => Member(u) \/ u \in q.todo)
        <4>1. SeatSelected(r) =>
                \/ role' = role
                \/ Unseated(request[r]) # {} /\ role' = [role EXCEPT ![OneOf(Unseated(request[r]))] = "MEMBER"]
          BY DEF SeatSelected
        <4>2. CASE role' = role BY <4>2 DEF Member
        <4>3. CASE Unseated(q) # {} /\ role' = [role EXCEPT ![OneOf(Unseated(q))] = "MEMBER"]
          <5>1. OneOf(Unseated(q)) \in q.todo BY <4>3 DEF OneOf, Unseated
          <5>2. "MEMBER" # None BY NoneAssumption DEF Roles
          <5>3. role'[u] = IF u = OneOf(Unseated(q)) THEN "MEMBER" ELSE role[u] BY <4>3 DEF Tables
          <5> QED BY <5>1, <5>2, <5>3 DEF Member
        <4> QED BY <2>1, <4>1, <4>2, <4>3
      <3> QED BY <1>1, <2>1, <3>1, <3>2, <3>3 DEF Advance, Stage, IssueSteps
    <2> QED BY <1>2, <1>5, <2>1, <2>2, CreateMembership
  <1> QED BY <1>4, <1>5, SeatSelectedStep

LEMMA NewChannelMembership ==
  ASSUME RequestsOK, MembershipOK, NEW r \in Requests, NewChannel(r)
  PROVE  MembershipOK'
  <1>1. request[r] # Idle /\ request[r].pc = "channel" BY DEF NewChannel, Writes, At
  <1>2. request[r].op = "createProject" BY <1>1, CreateOp DEF CreateSteps, IssueSteps
  <1>3. PICK w : Onward(r, w) /\ Same(w, request[r], "joins") BY NewChannelStep
  <1>4. calendar' = calendar /\ event' = event /\ role' = role BY DEF NewChannel, tables
  <1>5. ASSUME NEW u \in Users, Stage(request[r], u)
        PROVE  Advance(w, u)
    <2>1. Nothing(u) /\ Seated(u, request[r]) BY <1>1, <1>5 DEF Stage, IssueSteps
    <2>2. w # Idle /\ w.pc = "joins" /\ w.by = request[r].by /\ w.todo = request[r].todo BY <1>3 DEF Same, Now, SameRequest
    <2>3. Nothing(u)' BY <1>4, <2>1 DEF Nothing, NoPersonal, NoEvents, Personal, Active
    <2>4. Member(u)' <=> u \in {w.by} \cup w.todo BY <1>4, <2>1, <2>2 DEF Seated, Member
    <2> QED BY <2>2, <2>3, <2>4 DEF Advance, Stage, IssueSteps, Seated
  <1> QED BY <1>2, <1>3, <1>5, CreateMembership

LEMMA JoinSelectedMembership ==
  ASSUME RequestsOK, MembershipOK, NEW r \in Requests, JoinSelected(r)
  PROVE  MembershipOK'
  <1>1. request[r] # Idle /\ request[r].pc = "joins" BY DEF JoinSelected, Writes, At
  <1>2. request[r].op = "createProject" BY <1>1, CreateOp DEF CreateSteps, IssueSteps
  <1>3. calendar' = calendar /\ event' = event /\ role' = role /\ hasChannel' = hasChannel BY DEF JoinSelected, tables
  <1>4. ASSUME NEW w, Onward(r, w), Same(w, request[r], "base"), UNCHANGED channel,
               {request[r].by} \cup request[r].todo \subseteq channel
        PROVE  MembershipOK'
    <2>1. \A u \in request[r].about : Stage(request[r], u) => Leads(w, u)
      BY <1>1, <1>4 DEF Leads, Stage, IssueSteps, Seated, Joined, Same, Now, SameRequest
    <2> QED BY <1>3, <1>4, <2>1, StillMembership DEF Still
  <1>5. CASE Onward(r, request[r]) /\ UNCHANGED request
    <2>1. PICK q : q = request[r] OBVIOUS
    <2>2. ASSUME NEW u \in Users, Stage(q, u)
          PROVE  Advance(q, u)
      <3>1. Nothing(u) /\ Seated(u, q) BY <1>1, <2>1, <2>2 DEF Stage, IssueSteps
      <3>2. Nothing(u)' BY <1>3, <3>1 DEF Nothing, NoPersonal, NoEvents, Personal, Active
      <3>3. Member(u)' <=> u \in {q.by} \cup q.todo BY <1>3, <3>1 DEF Seated, Member
      <3> QED BY <1>1, <2>1, <3>2, <3>3 DEF Advance, Stage, IssueSteps, Seated
    <2> QED BY <1>2, <1>5, <2>1, <2>2, CreateMembership
  <1> QED BY <1>4, <1>5, JoinSelectedStep

LEMMA SeatBaseOwnerMembership ==
  ASSUME RequestsOK, MembershipOK, NEW r \in Requests, SeatBaseOwner(r)
  PROVE  MembershipOK'
  <1>1. Still /\ request[r].pc = "baseMember" BY DEF Still, SeatBaseOwner, Fills, Writes, At, projectVars
  <1>2. PICK w : Onward(r, w) /\ Same(w, request[r], "baseCategory") BY SeatBaseOwnerStep
  <1>3. \A u \in request[r].about : Stage(request[r], u) => Leads(w, u)
    BY <1>1, <1>2 DEF Leads, Stage, IssueSteps, Seated, Same, Now, SameRequest
  <1> QED BY <1>1, <1>2, <1>3, StillMembership

LEMMA NewBaseCategoryMembership ==
  ASSUME RowsOK, RequestsOK, MembershipOK, NEW r \in Requests, NewBaseCategory(r)
  PROVE  MembershipOK'
  <1>1. Still /\ request[r].pc = "baseCategory" BY DEF Still, NewBaseCategory, Fills, Writes, At, projectVars
  <1>2. PICK w, k : Onward(r, w) /\ Now(w, request[r], "firstEvent", request[r].who, request[r].todo, request[r].id, k)
    BY NewBaseCategoryStep
  <1>3. \A u \in request[r].about : Stage(request[r], u) => Leads(w, u)
    BY <1>1, <1>2 DEF Leads, Stage, IssueSteps, Seated, Now, SameRequest
  <1> QED BY <1>1, <1>2, <1>3, StillMembership

-----------------------------------------------------------------------------
(* Steps that write calendars.                                             *)
OtherwiseStill == role' = role /\ channel' = channel /\ hasChannel' = hasChannel /\ event' = event

LEMMA LedMembership ==
  ASSUME RequestsOK, MembershipOK, NEW r \in Requests, NEW w, Onward(r, w), \A u \in Users : Undisturbed(u),
         \A u \in request[r].about : Stage(request[r], u) => Leads(w, u)
  PROVE  MembershipOK'
  <1>1. request[r].about \subseteq Users BY BusyRows, Fields DEF Onward
  <1>2. \A u \in request[r].about : Stage(request[r], u) => Advance(w, u) BY <1>1, LeadsOn
  <1> QED BY <1>2, MembershipKept

(* Only the owner of a personal calendar notices that it is written.       *)
LEMMA WrittenUndisturbed ==
  ASSUME Tables, OtherwiseStill, NEW c \in CalendarIds, NEW row \in Calendar, calendar' = [calendar EXCEPT ![c] = row],
         NEW u, ~(row.type = "PERSONAL" /\ row.owner = u)
  PROVE  Undisturbed(u)
  <1>1. \A x \in CalendarIds : calendar'[x] = IF x = c THEN row ELSE calendar[x] BY DEF Tables
  <1>2. Personal(u)' \subseteq Personal(u) BY <1>1 DEF Personal, Active
  <1> QED BY <1>2 DEF OtherwiseStill, Undisturbed, Joined, NoEvents

LEMMA WrittenPersonal ==
  ASSUME Tables, OtherwiseStill, NEW c \in CalendarIds, NEW row \in Calendar, calendar' = [calendar EXCEPT ![c] = row],
         NEW u, Settled(u), Member(u), Personal(u) \subseteq {c}
  PROVE  Settled(u)' /\ Member(u)'
  <1>1. \A x \in CalendarIds : calendar'[x] = IF x = c THEN row ELSE calendar[x] BY DEF Tables
  <1>2. Personal(u)' \subseteq {c} BY <1>1 DEF Personal, Active
  <1>3. OnePersonal(u)' BY <1>2 DEF OnePersonal
  <1>4. Member(u)' /\ (Joined(u) => Joined(u)') BY DEF OtherwiseStill, Member, Joined
  <1> QED BY <1>3, <1>4 DEF Settled

LEMMA RowsActive ==
  ASSUME NEW type, NEW owner, NEW active
  PROVE  [type |-> type, owner |-> owner, active |-> active].active = active
OBVIOUS

LEMMA OffRow ==
  \A type, owner : \E row : row = [type |-> type, owner |-> owner, active |-> FALSE] /\ ~row.active
  <1>1. ASSUME NEW type, NEW owner
        PROVE  ~[type |-> type, owner |-> owner, active |-> FALSE].active
    <2>1. [type |-> type, owner |-> owner, active |-> FALSE].active = FALSE BY RowsActive
    <2> QED BY <2>1
  <1> QED BY <1>1

LEMMA NewRow ==
  \A type \in Types, owner \in Users :
    \E row \in Calendar :
      row = [type |-> type, owner |-> owner, active |-> TRUE] /\ row.type = type /\ row.owner = owner
  <1>1. ASSUME NEW type \in Types, NEW owner \in Users
        PROVE  [type |-> type, owner |-> owner, active |-> TRUE] \in Calendar
    BY DEF Calendar
  <1> QED BY <1>1

LEMMA NewCalendarMembership ==
  ASSUME RowsOK, Tables, RequestsOK, MembershipOK, NEW r \in Requests, NewCalendar(r), UNCHANGED projectVars
  PROVE  MembershipOK'
  <1>1. PICK c \in CalendarIds, row \in Calendar : calendar' = [calendar EXCEPT ![c] = row] /\ row.type # "PERSONAL"
    <2>1. PICK c, type, owner :
            /\ c \in CalendarIds /\ type \in Types /\ owner \in Users /\ type # "PERSONAL"
            /\ calendar' = [calendar EXCEPT ![c] = [type |-> type, owner |-> owner, active |-> TRUE]]
      BY NewCalendarStep DEF Creates
    <2> QED BY <2>1, NewRow
  <1>2. OtherwiseStill BY DEF OtherwiseStill, NewCalendar, projectVars
  <1>3. \A u : Undisturbed(u) BY <1>1, <1>2, WrittenUndisturbed
  <1>4. request[r].about = {} BY BusyRows DEF NewCalendar, Writes, At, Rows, Fits
  <1>5. \E w : Onward(r, w) BY NewCalendarStep DEF Creates
  <1> QED BY <1>3, <1>4, <1>5, LedMembership

LEMMA NewDefaultCalendarMembership ==
  ASSUME RowsOK, Tables, RequestsOK, MembershipOK, NEW r \in Requests, NewDefaultCalendar(r), UNCHANGED projectVars
  PROVE  MembershipOK'
  <1>1. PICK c \in CalendarIds, row \in Calendar : calendar' = [calendar EXCEPT ![c] = row] /\ row.type # "PERSONAL"
    <2>1. PICK c, type, owner :
            /\ c \in CalendarIds /\ type \in Types /\ owner \in Users /\ type # "PERSONAL"
            /\ calendar' = [calendar EXCEPT ![c] = [type |-> type, owner |-> owner, active |-> TRUE]]
      BY NewDefaultCalendarStep DEF Creates
    <2> QED BY <2>1, NewRow
  <1>2. OtherwiseStill BY DEF OtherwiseStill, NewDefaultCalendar, projectVars
  <1>3. \A u : Undisturbed(u) BY <1>1, <1>2, WrittenUndisturbed
  <1>4. PICK w : Onward(r, w) /\ w # Idle /\ w.pc = "ownMember" BY NewDefaultCalendarStep DEF Creates, Now, SameRequest
  <1>5. request[r].pc = "newDefault" BY DEF NewDefaultCalendar, Writes, At
  <1>6. \A u \in request[r].about : Stage(request[r], u) => Leads(w, u) BY <1>4, <1>5 DEF Leads, Stage, IssueSteps
  <1> QED BY <1>3, <1>4, <1>6, LedMembership

LEMMA NewIssueCalendarMembership ==
  ASSUME RowsOK, Tables, RequestsOK, MembershipOK, NEW r \in Requests, NewIssueCalendar(r), UNCHANGED projectVars
  PROVE  MembershipOK'
  <1>1. PICK c \in CalendarIds, row \in Calendar : calendar' = [calendar EXCEPT ![c] = row] /\ row.type # "PERSONAL"
    <2>1. PICK c, type, owner :
            /\ c \in CalendarIds /\ type \in Types /\ owner \in Users /\ type # "PERSONAL"
            /\ calendar' = [calendar EXCEPT ![c] = [type |-> type, owner |-> owner, active |-> TRUE]]
      <3>1. PICK type : type = "TEAM" OBVIOUS
      <3>2. type \in Types /\ type # "PERSONAL" BY <3>1 DEF Types
      <3> QED BY <3>1, <3>2, NewIssueCalendarStep
    <2> QED BY <2>1, NewRow
  <1>2. OtherwiseStill BY DEF OtherwiseStill, NewIssueCalendar, projectVars
  <1>3. \A u : Undisturbed(u) BY <1>1, <1>2, WrittenUndisturbed
  <1>4. PICK w : Onward(r, w) /\ w # Idle /\ w.pc = "issueMember" BY NewIssueCalendarStep DEF Now, SameRequest
  <1>5. request[r].pc = "newIssueCalendar" BY DEF NewIssueCalendar, Writes, At
  <1>6. \A u \in request[r].about : Stage(request[r], u) => Leads(w, u) BY <1>4, <1>5 DEF Leads, Stage, IssueSteps
  <1> QED BY <1>3, <1>4, <1>6, LedMembership

LEMMA NewBaseCalendarMembership ==
  ASSUME RowsOK, Tables, RequestsOK, MembershipOK, NEW r \in Requests, NewBaseCalendar(r)
  PROVE  MembershipOK'
  <1>1. PICK c \in CalendarIds, row \in Calendar : calendar' = [calendar EXCEPT ![c] = row] /\ row.type # "PERSONAL"
    <2>1. PICK type : type = "TEAM" OBVIOUS
    <2>2. PICK c \in CalendarIds, owner \in Users :
            calendar' = [calendar EXCEPT ![c] = [type |-> type, owner |-> owner, active |-> TRUE]]
      BY <2>1, NewBaseCalendarStep
    <2>3. type \in Types /\ type # "PERSONAL" BY <2>1 DEF Types
    <2>4. PICK row \in Calendar : row = [type |-> type, owner |-> owner, active |-> TRUE] /\ row.type = type
      BY <2>2, <2>3, NewRow
    <2> QED BY <2>2, <2>3, <2>4
  <1>2. OtherwiseStill BY DEF OtherwiseStill, NewBaseCalendar, projectVars
  <1>3. \A u : Undisturbed(u) BY <1>1, <1>2, WrittenUndisturbed
  <1>4. PICK w : Onward(r, w) /\ w # Idle /\ w.pc = "baseMember" /\ w.by = request[r].by /\ w.todo = request[r].todo
    BY NewBaseCalendarStep DEF Now, SameRequest
  <1>5. request[r].pc = "base" BY DEF NewBaseCalendar, Writes, At
  <1>6. \A u \in request[r].about : Stage(request[r], u) => Leads(w, u) BY <1>4, <1>5 DEF Leads, Stage, IssueSteps, Seated
  <1> QED BY <1>3, <1>4, <1>6, LedMembership

LEMMA NewPersonalMembership ==
  ASSUME RowsOK, Tables, RequestsOK, MembershipOK, NEW r \in Requests, NewPersonal(r), UNCHANGED projectVars
  PROVE  MembershipOK'
  <1>1. request[r] # Idle /\ request[r].pc = "newPersonal" BY DEF NewPersonal, Writes, At
  <1>2. PICK q : q = request[r] OBVIOUS
  <1>3. q \in Rows /\ q.about \subseteq Users /\ q.who \in Users BY <1>1, <1>2, BusyRows, Fields
  <1>4. q.who \in q.about BY <1>1, <1>2, <1>3 DEF Rows, Fits, OfOne
  <1>5. PICK w, c, row :
          /\ c \in CalendarIds /\ row \in Calendar
          /\ Onward(r, w) /\ w # Idle /\ w.pc = "ownMember" /\ w.op = q.op /\ w.who = q.who /\ w.todo = q.todo
          /\ calendar' = [calendar EXCEPT ![c] = row] /\ row.owner = q.who
    <2>1. PICK w, c, type :
            /\ c \in CalendarIds /\ type \in Types
            /\ Onward(r, w) /\ w # Idle /\ w.pc = "ownMember" /\ w.op = q.op /\ w.who = q.who /\ w.todo = q.todo
            /\ calendar' = [calendar EXCEPT ![c] = [type |-> type, owner |-> q.who, active |-> TRUE]]
      BY <1>2, NewPersonalStep DEF Creates, Now, SameRequest
    <2>2. PICK row \in Calendar : row = [type |-> type, owner |-> q.who, active |-> TRUE] /\ row.owner = q.who
      BY <1>3, <2>1, NewRow
    <2> QED BY <2>1, <2>2
  <1>6. OtherwiseStill BY DEF OtherwiseStill, NewPersonal, projectVars
  <1>7. \A u : u # q.who => Undisturbed(u) BY <1>5, <1>6, WrittenUndisturbed
  <1>8. ASSUME NEW u \in q.about, Stage(q, u)
        PROVE  Advance(w, u)
    <2>1. Settled(u) /\ (u \in {q.who} \cup (IF q.op = "createProject" THEN q.todo ELSE {}) => Member(u))
      BY <1>1, <1>2, <1>8 DEF Stage, IssueSteps
    <2>2. CASE u = q.who
      <3>1. NoPersonal(u) /\ Member(u) BY <1>1, <1>2, <1>8, <2>1, <2>2 DEF Stage, IssueSteps
      <3>2. Personal(u) \subseteq {c} BY <3>1 DEF NoPersonal
      <3>3. Settled(u)' /\ Member(u)' BY <1>5, <1>6, <2>1, <3>1, <3>2, WrittenPersonal
      <3> QED BY <1>5, <3>3 DEF Advance, Stage, IssueSteps
    <2>3. CASE u # q.who
      <3>1. Leads(w, u) BY <1>5, <2>1, <2>3 DEF Leads, Stage, IssueSteps
      <3> QED BY <1>7, <2>3, <3>1, LeadsOn
    <2> QED BY <2>2, <2>3
  <1> QED BY <1>2, <1>4, <1>5, <1>7, <1>8, MembershipKept

LEMMA SaveCalendarMembership ==
  ASSUME Tables, RequestsOK, MembershipOK, NEW r \in Requests, SaveCalendar(r), UNCHANGED projectVars
  PROVE  MembershipOK'
  <1>1. request[r] # Idle /\ request[r].pc = "saveCalendar" BY DEF SaveCalendar, Writes, At
  <1>2. PICK q : q = request[r] OBVIOUS
  <1>3. q \in Rows BY <1>1, <1>2, BusyRows
  <1>4. PICK c \in CalendarIds, row \in Calendar : c = q.id /\ row = q.row /\ (row.type = "PERSONAL" => row.owner \in q.about)
    BY <1>1, <1>2, <1>3 DEF Rows, Fits
  <1>5. calendar' = [calendar EXCEPT ![c] = row] BY <1>2, <1>4 DEF SaveCalendar
  <1>6. OtherwiseStill BY DEF OtherwiseStill, SaveCalendar, projectVars
  <1>7. \A u \in Users \ q.about : Undisturbed(u) BY <1>4, <1>5, <1>6, WrittenUndisturbed
  <1>8. PICK w : Onward(r, w) /\ (w # Idle => w.pc = "members") BY SaveCalendarStep DEF Same, Now
  <1>9. ASSUME NEW u \in q.about, Stage(q, u)
        PROVE  Advance(w, u)
    <2>1. Member(u) /\ Settled(u) /\ Personal(u) \subseteq {c} BY <1>1, <1>2, <1>4, <1>9 DEF Stage, IssueSteps
    <2>2. Settled(u)' BY <1>5, <1>6, <2>1, WrittenPersonal
    <2> QED BY <1>8, <2>2 DEF Advance, Stage, IssueSteps
  <1> QED BY <1>2, <1>7, <1>8, <1>9, MembershipKept

LEMMA FindPersonalsMembership ==
  ASSUME RequestsOK, MembershipOK, NEW r \in Requests, FindPersonals(r)
  PROVE  MembershipOK'
  <1>1. Still /\ request[r] # Idle /\ request[r].pc = "findPersonals"
    BY DEF Still, FindPersonals, At, tables, projectVars
  <1>2. request[r].about = {request[r].who} BY <1>1, BusyRows DEF Rows, Fits, OfOne
  <1>3. PICK w : Onward(r, w) /\ w # Idle /\ w.pc = "deactivate" /\ w.row = Personal(request[r].who)
    BY FindPersonalsStep DEF Now, SameRequest
  <1>4. \A u \in request[r].about : Stage(request[r], u) => Leads(w, u)
    BY <1>1, <1>2, <1>3 DEF Leads, Stage, IssueSteps
  <1> QED BY <1>1, <1>3, <1>4, StillMembership

LEMMA DeactivatePersonalMembership ==
  ASSUME Tables, RequestsOK, MembershipOK, NEW r \in Requests, DeactivatePersonal(r)
  PROVE  MembershipOK'
  <1>1. request[r] # Idle /\ request[r].pc = "deactivate" BY DEF DeactivatePersonal, At
  <1>2. PICK who : who = request[r].who OBVIOUS
  <1>3. request[r].about = {who} BY <1>1, <1>2, BusyRows DEF Rows, Fits, OfOne
  <1>4. OtherwiseStill BY DEF OtherwiseStill, DeactivatePersonal, projectVars
  <1>5. CASE request[r].row = {} /\ UNCHANGED calendar /\ \E w : Onward(r, w) /\ Same(w, request[r], "purge")
    <2>1. Still BY <1>4, <1>5 DEF Still, OtherwiseStill
    <2>2. PICK w : Onward(r, w) /\ w # Idle /\ w.pc = "purge" BY <1>5 DEF Same, Now, SameRequest
    <2>3. \A u \in request[r].about : Stage(request[r], u) => Leads(w, u)
      BY <1>1, <1>5, <2>2 DEF Leads, Stage, IssueSteps, NoPersonal
    <2> QED BY <2>1, <2>2, <2>3, StillMembership
  <1>6. ASSUME NEW c \in CalendarIds, NEW w, who \in Users, Onward(r, w), w # Idle,
               w.pc = "deactivate", w.row = request[r].row \ {c},
               calendar' = [calendar EXCEPT ![c] = [type |-> "PERSONAL", owner |-> who, active |-> FALSE]]
        PROVE  MembershipOK'
    <2>1. PICK row : row = [type |-> "PERSONAL", owner |-> who, active |-> FALSE] /\ ~row.active
      BY OffRow
    <2>2. \A x \in CalendarIds : calendar'[x] = IF x = c THEN row ELSE calendar[x] BY <1>6, <2>1 DEF Tables
    <2>3. \A u : Personal(u)' \subseteq Personal(u) \ {c} BY <2>1, <2>2 DEF Personal, Active
    <2>4. \A u : Undisturbed(u) BY <1>4, <2>3 DEF OtherwiseStill, Undisturbed, Joined, NoEvents
    <2>5. ASSUME NEW u \in request[r].about, Stage(request[r], u)
          PROVE  Advance(w, u)
      <3>1. Member(u) /\ Settled(u) /\ Personal(u) \subseteq request[r].row BY <1>1, <2>5 DEF Stage
      <3>2. Settled(u)' BY <2>4, <3>1, SettledStays
      <3>3. Member(u)' BY <2>4, <3>1 DEF Undisturbed, Member
      <3>4. Personal(u)' \subseteq w.row BY <1>6, <2>3, <3>1
      <3> QED BY <1>6, <3>2, <3>3, <3>4 DEF Advance, Stage, IssueSteps
    <2> QED BY <1>6, <2>4, <2>5, MembershipKept
  <1> QED BY <1>2, <1>5, <1>6, DeactivatePersonalStep DEF Now, SameRequest

-----------------------------------------------------------------------------
(* Steps that write events.                                                *)
LEMMA EventUndisturbed ==
  ASSUME Tables, role' = role, channel' = channel, hasChannel' = hasChannel, calendar' = calendar, NEW u,
         \A e \in EventIds : event'[e] # None /\ event'[e].by = u => event[e] # None /\ event[e].by = u
  PROVE  Undisturbed(u)
BY DEF Undisturbed, Joined, Personal, Active, NoEvents

(* Those of a member are no concern.                                       *)
LEMMA MembersEvents ==
  ASSUME role' = role, channel' = channel, hasChannel' = hasChannel, calendar' = calendar, NEW u, Member(u), Settled(u)
  PROVE  Settled(u)' /\ Member(u)'
BY DEF Settled, Member, Joined, OnePersonal, Personal, Active

LEMMA NewEventMembership ==
  ASSUME RowsOK, Tables, RequestsOK, MembershipOK, NEW r \in Requests, NewEvent(r) \/ SaveEvent(r), UNCHANGED projectVars
  PROVE  MembershipOK'
  <1>1. request[r] # Idle /\ request[r].pc \in {"newEvent", "saveEvent"} BY DEF NewEvent, SaveEvent, Writes, At
  <1>2. PICK q : q = request[r] OBVIOUS
  <1>3. q \in Rows BY <1>1, <1>2, BusyRows
  <1>4. PICK row : row = q.row OBVIOUS
  <1>5. row # None => row \in Event /\ row.by \in q.about BY <1>1, <1>2, <1>3, <1>4 DEF Rows, Fits
  <1>6. PICK e : event' = [event EXCEPT ![e] = row] BY <1>2, <1>4 DEF NewEvent, SaveEvent, NewIn
  <1>7. role' = role /\ channel' = channel /\ hasChannel' = hasChannel /\ calendar' = calendar
    BY DEF NewEvent, SaveEvent, projectVars
  <1>8. \A u \in Users \ q.about : Undisturbed(u)
    <2>1. \A x \in EventIds : event'[x] = event[x] \/ event'[x] = row BY <1>6 DEF Tables
    <2> QED BY <1>5, <1>7, <2>1, EventUndisturbed
  <1>9. \A u \in q.about : Stage(q, u) => Advance(Idle, u)
    BY <1>1, <1>2, <1>7, MembersEvents DEF Stage, IssueSteps, Advance
  <1> QED BY <1>2, <1>8, <1>9, NewEventStep, SaveEventStep, MembershipKept

LEMMA FirstEventMembership ==
  ASSUME RowsOK, Tables, RequestsOK, MembershipOK, NEW r \in Requests, FirstEvent(r)
  PROVE  MembershipOK'
  <1>1. request[r] # Idle /\ request[r].pc = "firstEvent" BY DEF FirstEvent, Fills, Writes, At
  <1>2. PICK q : q = request[r] OBVIOUS
  <1>3. q.op = "createProject" BY <1>1, <1>2, CreateOp DEF CreateSteps, IssueSteps
  <1>4. role' = role /\ channel' = channel /\ hasChannel' = hasChannel /\ calendar' = calendar
    BY DEF FirstEvent, projectVars
  <1>5. CASE Onward(r, Idle) /\ crossed' = crossed \cup request[r].about /\ UNCHANGED event
    <2>1. \A u \in request[r].about : Leads(Idle, u) BY <1>5 DEF Leads
    <2> QED BY <1>4, <1>5, <2>1, StillMembership DEF Still
  <1>6. ASSUME NEW w, Onward(r, w), Now(w, q, "personal", q.by, q.todo, None, None), Member(q.by),
               NEW e \in EventIds, event' = [event EXCEPT ![e] = [calendar |-> q.id, category |-> q.row, by |-> q.by]]
        PROVE  MembershipOK'
    <2>1. \A x \in EventIds : event'[x] = event[x] \/ event'[x].by = q.by BY <1>6 DEF Tables
    <2>2. w # Idle /\ w.pc = "personal" /\ w.who = q.by /\ w.todo = q.todo BY <1>6 DEF Now, SameRequest
    <2>3. ASSUME NEW u \in Users, Stage(q, u)
          PROVE  Advance(w, u)
      <3>1. Nothing(u) /\ Seated(u, q) /\ (Member(u) => Joined(u)) BY <1>1, <1>2, <2>3 DEF Stage, IssueSteps
      <3>2. Settled(u) BY <3>1 DEF Settled, Nothing, NoPersonal, OnePersonal
      <3>3. u \in {q.by} \cup q.todo => Member(u) BY <3>1 DEF Seated
      <3>4. Settled(u)'
        <4>1. CASE Member(u) BY <1>4, <3>2, <4>1, MembersEvents
        <4>2. CASE ~Member(u)
          <5>1. u # q.by BY <1>6, <4>2
          <5>2. Undisturbed(u) BY <1>4, <2>1, <5>1, EventUndisturbed
          <5> QED BY <3>2, <5>2, SettledStays
        <4> QED BY <4>1, <4>2
      <3>5. u \in {w.who} \cup w.todo => Member(u)' BY <1>4, <2>2, <3>3 DEF Member
      <3> QED BY <2>2, <3>4, <3>5 DEF Advance, Stage, IssueSteps
    <2> QED BY <1>2, <1>3, <1>6, <2>3, CreateMembership
  <1> QED BY <1>2, <1>5, <1>6, FirstEventStep

LEMMA PurgeEventsMembership ==
  ASSUME Tables, RequestsOK, MembershipOK, NEW r \in Requests, PurgeEvents(r)
  PROVE  MembershipOK'
  <1>1. request[r] # Idle /\ request[r].pc = "purge" BY DEF PurgeEvents, At
  <1>2. PICK who : who = request[r].who OBVIOUS
  <1>3. request[r].about = {who} BY <1>1, <1>2, BusyRows DEF Rows, Fits, OfOne
  <1>4. role' = role /\ channel' = channel /\ hasChannel' = hasChannel /\ calendar' = calendar
    BY DEF PurgeEvents, projectVars
  <1>5. \A e \in EventIds : event'[e] # None => event'[e] = event[e] /\ event[e].by # who
    BY <1>2 DEF PurgeEvents
  <1>6. \A u : Undisturbed(u) BY <1>4, <1>5, EventUndisturbed
  <1>7. NoEvents(who)' BY <1>5 DEF NoEvents
  <1>8. PICK w : Onward(r, w) /\ w # Idle /\ w.pc = "unseat" BY PurgeEventsStep DEF Same, Now, SameRequest
  <1>9. ASSUME Stage(request[r], who)
        PROVE  Advance(w, who)
    <2>1. NoPersonal(who) BY <1>1, <1>9 DEF Stage, IssueSteps
    <2>2. NoPersonal(who)' BY <1>6, <2>1 DEF Undisturbed, NoPersonal
    <2> QED BY <1>7, <1>8, <2>2 DEF Advance, Stage, IssueSteps, Nothing
  <1> QED BY <1>3, <1>6, <1>8, <1>9, MembershipKept

-----------------------------------------------------------------------------
(* Steps that write the members.                                           *)
LEMMA SeatMemberMembership ==
  ASSUME Tables, RequestsOK, MembershipOK, NEW r \in Requests, SeatMember(r)
  PROVE  MembershipOK'
  <1>1. request[r] # Idle /\ request[r].pc = "seat" BY DEF SeatMember, Writes, At
  <1>2. PICK who : who = request[r].who OBVIOUS
  <1>3. request[r].about = {who} /\ request[r].row \in Roles /\ who \in Users
    BY <1>1, <1>2, BusyRows, Fields DEF Rows, Fits, OfOne
  <1>4. channel' = channel /\ hasChannel' = hasChannel /\ calendar' = calendar /\ event' = event
    BY DEF SeatMember, tables, projectVars
  <1>5. \A u \in Users : role'[u] = IF u = who THEN request[r].row ELSE role[u] BY <1>2, <1>3 DEF SeatMember, Tables
  <1>6. \A u \in Users \ {who} : Undisturbed(u) BY <1>4, <1>5 DEF Undisturbed, Joined, Personal, Active, NoEvents
  <1>7. Member(who)' BY <1>3, <1>5, NoneAssumption DEF Member
  <1>8. ASSUME Stage(request[r], who)
        PROVE  OnePersonal(who)' /\ (request[r].todo = {} => Settled(who)')
    <2>1. Nothing(who) /\ (request[r].todo = {} => ~hasChannel) BY <1>1, <1>8 DEF Stage, IssueSteps
    <2>2. OnePersonal(who)' BY <1>4, <2>1 DEF Nothing, NoPersonal, OnePersonal, Personal, Active
    <2> QED BY <1>4, <1>7, <2>1, <2>2 DEF Settled, Joined
  <1>9. ASSUME NEW w, Onward(r, w), Same(w, request[r], "join")
        PROVE  MembershipOK'
    <2>1. w # Idle /\ w.pc = "join" BY <1>9 DEF Same, Now, SameRequest
    <2>2. Stage(request[r], who) => Advance(w, who) BY <1>7, <1>8, <2>1 DEF Advance, Stage, IssueSteps
    <2> QED BY <1>3, <1>6, <1>9, <2>2, MembershipKept
  <1>10. ASSUME NEW w, Onward(r, w), Same(w, request[r], "personal"), request[r].todo = {}
         PROVE  MembershipOK'
    <2>1. w # Idle /\ w.pc = "personal" BY <1>10 DEF Same, Now, SameRequest
    <2>2. Stage(request[r], who) => Advance(w, who) BY <1>7, <1>8, <1>10, <2>1 DEF Advance, Stage, IssueSteps
    <2> QED BY <1>3, <1>6, <1>10, <2>2, MembershipKept
  <1> QED BY <1>9, <1>10, SeatMemberStep

LEMMA JoinChannelMembership ==
  ASSUME Tables, RequestsOK, MembershipOK, NEW r \in Requests, JoinChannel(r)
  PROVE  MembershipOK'
  <1>1. request[r] # Idle /\ request[r].pc = "join" BY DEF JoinChannel, Writes, At
  <1>2. PICK who : who = request[r].who OBVIOUS
  <1>3. request[r].about = {who} BY <1>1, <1>2, BusyRows DEF Rows, Fits, OfOne
  <1>4. role' = role /\ channel' = channel \cup {who} /\ hasChannel' = hasChannel /\ calendar' = calendar /\ event' = event
    BY <1>2 DEF JoinChannel, tables
  <1>5. \A u : Undisturbed(u) BY <1>4 DEF Undisturbed, Joined, Personal, Active, NoEvents
  <1>6. PICK w : Onward(r, w) /\ w # Idle /\ w.pc = "personal" BY JoinChannelStep DEF Now, SameRequest
  <1>7. ASSUME Stage(request[r], who)
        PROVE  Advance(w, who)
    <2>1. Member(who) /\ OnePersonal(who) BY <1>1, <1>7 DEF Stage, IssueSteps
    <2>2. Member(who)' /\ OnePersonal(who)' /\ Joined(who)'
      BY <1>4, <2>1 DEF Member, OnePersonal, Joined, Personal, Active
    <2> QED BY <1>6, <2>2 DEF Advance, Stage, IssueSteps, Settled
  <1> QED BY <1>3, <1>5, <1>6, <1>7, MembershipKept

LEMMA SaveRoleMembership ==
  ASSUME Tables, RequestsOK, MembershipOK, NEW r \in Requests, SaveRole(r)
  PROVE  MembershipOK'
  <1>1. request[r] # Idle /\ request[r].pc = "saveRole" BY DEF SaveRole, Writes, At
  <1>2. PICK who : who = request[r].who OBVIOUS
  <1>3. request[r].about = {who} /\ request[r].row \in Roles /\ who \in Users
    BY <1>1, <1>2, BusyRows, Fields DEF Rows, Fits, OfOne
  <1>4. channel' = channel /\ hasChannel' = hasChannel /\ calendar' = calendar /\ event' = event
    BY DEF SaveRole, tables, projectVars
  <1>5. \A u \in Users : role'[u] = IF u = who THEN request[r].row ELSE role[u] BY <1>2, <1>3 DEF SaveRole, Tables
  <1>6. \A u \in Users \ {who} : Undisturbed(u) BY <1>4, <1>5 DEF Undisturbed, Joined, Personal, Active, NoEvents
  <1>7. Member(who)' BY <1>3, <1>5, NoneAssumption DEF Member
  <1>8. ASSUME Stage(request[r], who)
        PROVE  Advance(Idle, who)
    <2>1. Joined(who) /\ OnePersonal(who) BY <1>1, <1>8 DEF Stage, IssueSteps, Settled
    <2>2. Joined(who)' /\ OnePersonal(who)' BY <1>4, <2>1 DEF Joined, OnePersonal, Personal, Active
    <2> QED BY <1>7, <2>2 DEF Advance, Settled
  <1> QED BY <1>3, <1>6, <1>8, SaveRoleStep, MembershipKept

LEMMA UnseatMembership ==
  ASSUME Tables, RequestsOK, MembershipOK, NEW r \in Requests, Unseat(r)
  PROVE  MembershipOK'
  <1>1. request[r] # Idle /\ request[r].pc = "unseat" BY DEF Unseat, At
  <1>2. PICK who : who = request[r].who OBVIOUS
  <1>3. request[r].about = {who} /\ who \in Users BY <1>1, <1>2, BusyRows, Fields DEF Rows, Fits, OfOne
  <1>4. channel' = channel /\ hasChannel' = hasChannel /\ calendar' = calendar /\ event' = event
    BY DEF Unseat, tables, projectVars
  <1>5. \A u \in Users : role'[u] = IF u = who THEN None ELSE role[u] BY <1>2, <1>3 DEF Unseat, Tables
  <1>6. \A u \in Users \ {who} : Undisturbed(u) BY <1>4, <1>5 DEF Undisturbed, Joined, Personal, Active, NoEvents
  <1>7. ~Member(who)' BY <1>3, <1>5 DEF Member
  <1>8. ASSUME Stage(request[r], who)
        PROVE  Advance(Idle, who)
    <2>1. Nothing(who) BY <1>1, <1>8 DEF Stage, IssueSteps
    <2>2. Nothing(who)' BY <1>4, <2>1 DEF Nothing, NoPersonal, NoEvents, Personal, Active
    <2> QED BY <1>7, <2>2 DEF Advance, Settled
  <1> QED BY <1>3, <1>6, <1>8, UnseatStep, MembershipKept

LEMMA DeleteChannelMembersMembership ==
  ASSUME RequestsOK, MembershipOK, NEW r \in Requests, DeleteChannelMembers(r)
  PROVE  MembershipOK'
  <1>1. request[r].about = Users BY BusyRows DEF DeleteChannelMembers, At, Rows, Fits
  <1>2. PICK w : Onward(r, w) /\ w # Idle /\ w.pc = "drop" BY DeleteChannelMembersStep DEF Same, Now, SameRequest
  <1>3. \A u \in Users : Advance(w, u) BY <1>2 DEF Advance, Stage, IssueSteps
  <1> QED BY <1>1, <1>2, <1>3, MembershipKept

LEMMA DropProjectMembership ==
  ASSUME RequestsOK, MembershipOK, NEW r \in Requests, DropProject(r)
  PROVE  MembershipOK'
  <1>1. request[r].about = Users BY BusyRows DEF DropProject, At, Rows, Fits
  <1>2. \A u \in Users : ~Member(u)' BY DEF DropProject, Member
  <1>3. \A u \in Users : Nothing(u)' BY DEF DropProject, Nothing, NoPersonal, NoEvents, Personal, Active
  <1>4. \A u \in Users : Advance(Idle, u) BY <1>2, <1>3 DEF Advance, Settled
  <1> QED BY <1>1, <1>4, DropProjectStep, MembershipKept

LEMMA HandleMembership ==
  ASSUME RowsOK, RequestsOK, MembershipOK, NEW r \in Requests, Handle(r)
  PROVE  MembershipOK'
  <1>0. Tables BY RowsAre
  <1>1. CASE SaveNewProject(r) \/ SeatOwner(r) \/ SeatSelected(r) \/ NewChannel(r) \/ JoinSelected(r)
    BY <1>0, <1>1, SaveNewProjectMembership, SeatOwnerMembership, SeatSelectedMembership, NewChannelMembership,
       JoinSelectedMembership
  <1>2. CASE NewBaseCalendar(r) \/ SeatBaseOwner(r) \/ NewBaseCategory(r) \/ FirstEvent(r)
    BY <1>0, <1>2, NewBaseCalendarMembership, SeatBaseOwnerMembership, NewBaseCategoryMembership, FirstEventMembership
  <1>3. CASE SeatMember(r) \/ JoinChannel(r) \/ SaveRole(r) \/ DeactivatePersonal(r) \/ PurgeEvents(r) \/ Unseat(r)
    BY <1>0, <1>3, SeatMemberMembership, JoinChannelMembership, SaveRoleMembership, DeactivatePersonalMembership,
       PurgeEventsMembership, UnseatMembership
  <1>4. CASE SaveProject(r) \/ DeleteChannelMembers(r) \/ DropProject(r) \/ InsertFavorite(r)
    BY <1>4, NobodyMembership, DeleteChannelMembersMembership, DropProjectMembership
  <1>5. CASE UNCHANGED projectVars /\ (FindPersonal(r) \/ NewPersonal(r) \/ EnsureDefault(r) \/ NewDefaultCalendar(r) \/ OwnMember(r))
    BY <1>0, <1>5, FindPersonalMembership, NewPersonalMembership, EnsureDefaultMembership, NewDefaultCalendarMembership,
       OwnMemberMembership
  <1>6. CASE UNCHANGED projectVars /\ (NewCategory(r) \/ NewCalendar(r) \/ AddExtras(r) \/ SaveCalendar(r) \/ ReplaceMembers(r))
    BY <1>0, <1>6, NewCategoryMembership, NewCalendarMembership, NobodyMembership, SaveCalendarMembership,
       ReplaceMembersMembership
  <1>7. CASE UNCHANGED projectVars /\ (NewFolder(r) \/ DropFolder(r) \/ NewEvent(r) \/ SaveEvent(r) \/ AddCategory(r) \/ SaveCategory(r) \/ Fail(r))
    BY <1>0, <1>7, NobodyMembership, NewEventMembership, FailMembership
  <1>8. CASE UNCHANGED projectVars /\ (FindIssueCalendar(r) \/ SeatIssueOwner(r) \/ FindIssueCategory(r) \/ NewIssueCategory(r))
    BY <1>8, IssueMembership
  <1>9. CASE UNCHANGED projectVars /\ NewIssueCalendar(r) BY <1>0, <1>9, NewIssueCalendarMembership
  <1>10. CASE FindPersonals(r) BY <1>10, FindPersonalsMembership
  <1> QED BY <1>1, <1>2, <1>3, <1>4, <1>5, <1>6, <1>7, <1>8, <1>9, <1>10 DEF Handle, HandleCalendar

-----------------------------------------------------------------------------
(***************************************************************************)
(* The invariant.                                                          *)
(***************************************************************************)
LEMMA RowsAreNext == RequestsOK' /\ Tables' /\ (~project => NoRows)' => RowsOK'
  <1>1. RequestsOK' => \A r \in Requests : request'[r] # Idle => request'[r] \in Record BY DEF RequestsOK, Rows
  <1>2. RequestsOK' => \A r \in Requests : request'[r] # Idle => request'[r].by \in Users /\ request'[r].about \subseteq Users
    BY <1>1, Fields
  <1> QED BY <1>2 DEF RowsOK, ProjectTypeOK, TypeOK, Tables, NoRows

LEMMA HandleTables ==
  ASSUME RowsOK, RequestsOK, NEW r \in Requests, Handle(r)
  PROVE  Tables' /\ (~project => NoRows)'
  <1>0. Tables /\ (~project => NoRows) BY RowsAre
  <1>1. CASE SaveNewProject(r) \/ SeatOwner(r) \/ SeatSelected(r) \/ NewChannel(r) \/ JoinSelected(r)
    BY <1>0, <1>1, SaveNewProjectTables, SeatOwnerTables, SeatSelectedTables, NewChannelTables, JoinSelectedTables
  <1>2. CASE NewBaseCalendar(r) \/ SeatBaseOwner(r) \/ NewBaseCategory(r) \/ FirstEvent(r)
    BY <1>0, <1>2, NewBaseCalendarTables, SeatBaseOwnerTables, NewBaseCategoryTables, FirstEventTables
  <1>3. CASE SeatMember(r) \/ JoinChannel(r) \/ SaveRole(r) \/ DeactivatePersonal(r) \/ PurgeEvents(r) \/ Unseat(r)
    BY <1>0, <1>3, SeatMemberTables, JoinChannelTables, SaveRoleTables, DeactivatePersonalTables, PurgeEventsTables, UnseatTables
  <1>4. CASE SaveProject(r) \/ DeleteChannelMembers(r) \/ DropProject(r) \/ InsertFavorite(r)
    BY <1>0, <1>4, SaveProjectTables, DeleteChannelMembersTables, DropProjectTables, InsertFavoriteTables
  <1>5. CASE UNCHANGED projectVars /\ (FindPersonal(r) \/ NewPersonal(r) \/ EnsureDefault(r) \/ NewDefaultCalendar(r) \/ OwnMember(r))
    BY <1>0, <1>5, FindPersonalTables, NewPersonalTables, EnsureDefaultTables, NewDefaultCalendarTables, OwnMemberTables
  <1>6. CASE UNCHANGED projectVars /\ (NewCategory(r) \/ NewCalendar(r) \/ AddExtras(r) \/ SaveCalendar(r) \/ ReplaceMembers(r))
    BY <1>0, <1>6, NewCategoryTables, NewCalendarTables, AddExtrasTables, SaveCalendarTables, ReplaceMembersTables
  <1>7. CASE UNCHANGED projectVars /\ (NewFolder(r) \/ DropFolder(r) \/ NewEvent(r) \/ SaveEvent(r))
    BY <1>0, <1>7, NewFolderTables, DropFolderTables, NewEventTables, SaveEventTables
  <1>8. CASE UNCHANGED projectVars /\ (AddCategory(r) \/ SaveCategory(r) \/ Fail(r))
    BY <1>0, <1>8, AddCategoryTables, SaveCategoryTables, FailTables
  <1>9. CASE UNCHANGED projectVars /\ (FindIssueCalendar(r) \/ NewIssueCalendar(r) \/ SeatIssueOwner(r))
    BY <1>0, <1>9, FindIssueCalendarTables, NewIssueCalendarTables, SeatIssueOwnerTables
  <1>10. CASE UNCHANGED projectVars /\ (FindIssueCategory(r) \/ NewIssueCategory(r))
    BY <1>0, <1>10, FindIssueCategoryTables, NewIssueCategoryTables
  <1>11. CASE FindPersonals(r) BY <1>0, <1>11, FindPersonalsTables
  <1> QED BY <1>1, <1>2, <1>3, <1>4, <1>5, <1>6, <1>7, <1>8, <1>9, <1>10, <1>11 DEF Handle, HandleCalendar

LEMMA HandleKept ==
  ASSUME ProjectsInv, NEW r \in Requests, Handle(r)
  PROVE  ProjectsInv'
  <1>1. RequestsOK /\ RowsOK /\ LimitOK /\ CategoriesOK /\ MembershipOK BY DEF ProjectsInv
  <1>2. starts \in Nat BY <1>1, BoundAssumption DEF RowsOK, ProjectTypeOK, TypeOK
  <1>3. RequestsOK' BY <1>1, <1>2, HandleOnward, RequestsKept
  <1>4. RowsOK' BY <1>1, <1>3, HandleTables, RowsAreNext
  <1> QED BY <1>1, <1>3, <1>4, HandleLimit, HandleCategories, HandleMembership DEF ProjectsInv

LEMMA BeginKept ==
  ASSUME ProjectsInv, NEW r \in Requests, NEW q, Begins(r, q), UNCHANGED projectVars
  PROVE  ProjectsInv'
  <1>1. RequestsOK /\ RowsOK /\ LimitOK /\ CategoriesOK /\ MembershipOK BY DEF ProjectsInv
  <1>2. starts \in Nat BY <1>1, BoundAssumption DEF RowsOK, ProjectTypeOK, TypeOK
  <1>3. RequestsOK' BY <1>1, <1>2, RequestsKept
  <1>4. Tables /\ (~project => NoRows) BY <1>1, RowsAre
  <1>5. RowsOK' BY <1>3, <1>4, BeginTables, RowsAreNext
  <1> QED BY <1>1, <1>3, <1>5, BeginLimit, BeginCategories, BeginMembership DEF ProjectsInv

(* What only begins and leaves the tables and the requests alone.          *)
LEMMA OthersKept ==
  ASSUME ProjectsInv,
         UNCHANGED <<project, role, tables, request, history, channel, hasChannel>>,
         starts' \in 0..MaxStarts, starts' = 0 => starts = 0, favorites' \subseteq Users
  PROVE  ProjectsInv'
  <1>1. RequestsOK /\ RowsOK /\ LimitOK /\ CategoriesOK /\ MembershipOK BY DEF ProjectsInv
  <1>2. RequestsOK' BY <1>1 DEF RequestsOK
  <1>3. Tables /\ (~project => NoRows) BY <1>1, RowsAre
  <1>4. Tables' /\ (~project => NoRows)' BY <1>3 DEF Tables, NoRows, tables, history
  <1>5. RowsOK' BY <1>2, <1>4, RowsAreNext
  <1>6. LimitOK' BY <1>1 DEF LimitOK, TeamCalendarsBounded, TeamCalendars, Active, Alone, TeamCreation, tables, history
  <1>7. CategoriesOK'
    <2>1. \A c : Kept(c)' = Kept(c) BY DEF Kept, CategoriesOf, tables
    <2>2. Busy' = Busy BY DEF Busy
    <2>3. calendar' = calendar /\ category' = category /\ bare' = bare /\ request' = request BY DEF tables, history
    <2>4. \A r \in Busy : Saves(request[r])' /\ Leaves(request[r])'
      BY <1>1, <2>1, <2>3 DEF CategoriesOK, Saves, Leaves
    <2>5. \A c : Promised(c)' = Promised(c) BY <2>2, <2>3 DEF Promised
    <2> QED BY <1>1, <2>1, <2>2, <2>3, <2>4, <2>5 DEF CategoriesOK, Overwrites
  <1>8. MembershipOK'
    <2>1. Still /\ crossed' = crossed /\ request' = request BY DEF Still, tables, history
    <2>2. \A u : Undisturbed(u) BY <2>1, StillUndisturbed
    <2>3. Busy' = Busy BY <2>1 DEF Busy
    <2>4. ASSUME NEW u \in Users \ crossed
          PROVE  UserOK(u)'
      <3>1. UserOK(u) BY <1>1, <2>4 DEF MembershipOK
      <3>2. Settled(u) => Settled(u)' BY <2>2, SettledStays
      <3>3. ASSUME NEW r \in Busy, u \in request[r].about
            PROVE  Stage(request[r], u)'
        <4>1. PICK q : q = request[r] OBVIOUS
        <4>2. Stage(q, u) BY <3>1, <3>3, <4>1 DEF UserOK
        <4>3. Stage(q, u)' BY <2>2, <4>2, StageStays
        <4> QED BY <2>1, <4>1, <4>3 DEF Stage, IssueSteps, Seated
      <3> QED BY <2>1, <2>3, <3>1, <3>2, <3>3 DEF UserOK
    <2> QED BY <2>1, <2>4 DEF MembershipOK
  <1> QED BY <1>2, <1>5, <1>6, <1>7, <1>8 DEF ProjectsInv

LEMMA InvariantKept == ProjectsInv /\ [Next]_vars => ProjectsInv'
  <1>1. SUFFICES ASSUME ProjectsInv, [Next]_vars
                 PROVE  ProjectsInv'
    OBVIOUS
  <1>2. starts \in 0..MaxStarts /\ favorites \subseteq Users /\ MaxStarts \in Nat
    BY <1>1, BoundAssumption DEF ProjectsInv, RowsOK, ProjectTypeOK, TypeOK
  <1>3. ASSUME NEW r \in Requests, Ask(r)
        PROVE  ProjectsInv'
    <2>1. CASE RemoveFavorite(r)
      <3>1. starts < MaxStarts /\ starts' = starts + 1 /\ favorites' \subseteq favorites BY <2>1 DEF RemoveFavorite, Free
      <3>2. starts' \in 0..MaxStarts /\ starts' # 0 BY <1>2, <3>1
      <3>3. UNCHANGED <<project, role, tables, request, history, channel, hasChannel>> BY <2>1 DEF RemoveFavorite
      <3> QED BY <1>1, <1>2, <3>1, <3>2, <3>3, OthersKept
    <2> QED BY <1>1, <1>3, <2>1, AskBegins, BeginKept DEF ProjectsInv
  <1>4. CASE UNCHANGED vars
    <2>1. UNCHANGED <<project, role, tables, request, history, channel, hasChannel>> /\ starts' = starts /\ favorites' = favorites
      BY <1>4 DEF vars, calendarVars, projectVars
    <2> QED BY <1>1, <1>2, <2>1, OthersKept
  <1> QED BY <1>1, <1>3, <1>4, HandleKept DEF Next

LEMMA InitialInvariant == Init => ProjectsInv
  <1>1. SUFFICES ASSUME Init
                 PROVE  ProjectsInv
    OBVIOUS
  <1>2. PICK b \in Boards :
          /\ project = b.project /\ hasChannel = b.project
          /\ role = b.role /\ channel = {u \in Users : b.role[u] # None}
          /\ calendar = b.calendar /\ attendees = b.attendees /\ category = b.category /\ event = b.event
          /\ folders = IF b.project THEN 1 ELSE 0
    BY <1>1 DEF Init
  <1>3. /\ b \in Board /\ (~b.project => Empty(b))
        /\ Cardinality(On(b, "TEAM")) <= TeamLimit
        /\ \A c \in CalendarIds :
             IF calendar[c] = None THEN attendees[c] = {}
             ELSE \E k \in CategoryIds : category[k] = [calendar |-> c, default |-> TRUE, active |-> TRUE]
        /\ \A k \in CategoryIds : category[k] # None /\ category[k].default => category[k].active
        /\ \A c, d \in On(b, "PERSONAL") :
             role[calendar[c].owner] # None /\ (calendar[c].owner = calendar[d].owner => c = d)
        /\ \A e \in EventIds : event[e] # None => role[event[e].by] # None
    BY <1>2, BoardsAssumption
  <1>4. /\ \A r \in Requests : request[r] = Idle
        /\ Busy = {} /\ request \in [Requests -> {Idle}] /\ starts = 0
        /\ crossed = {} /\ bare = {} /\ uncounted = {} /\ favorites = {}
    BY <1>1 DEF Init, Busy
  <1>5. RequestsOK BY <1>4 DEF RequestsOK
  <1>6. RowsOK
    <2>1. /\ project \in BOOLEAN /\ role \in [Users -> Roles \cup {None}]
          /\ calendar \in [CalendarIds -> {None} \cup Calendar] /\ attendees \in [CalendarIds -> SUBSET Users]
          /\ category \in [CategoryIds -> {None} \cup Category] /\ event \in [EventIds -> {None} \cup Event]
      BY <1>2, <1>3 DEF Board
    <2>2. folders \in Nat /\ channel \subseteq Users /\ hasChannel \in BOOLEAN /\ starts \in 0..MaxStarts
      BY <1>2, <1>4, <2>1, BoundAssumption
    <2>3. Tables BY <1>3, <1>4, <2>1, <2>2 DEF Tables
    <2>4. ~project => NoRows BY <1>2, <1>3 DEF Empty, NoRows
    <2> QED BY <1>5, <2>3, <2>4, RowsAre
  <1>7. LimitOK
    <2>1. TeamCalendars = On(b, "TEAM") BY <1>2 DEF TeamCalendars, Active, On
    <2>2. TeamCalendars \ uncounted = TeamCalendars BY <1>4
    <2> QED BY <1>3, <1>4, <2>1, <2>2 DEF LimitOK, TeamCalendarsBounded, Alone, TeamCreation
  <1>8. CategoriesOK
    <2>1. ASSUME NEW c \in CalendarIds, calendar[c] # None
          PROVE  Kept(c)
      <3>1. PICK k \in CategoryIds : category[k] = [calendar |-> c, default |-> TRUE, active |-> TRUE] BY <1>3, <2>1
      <3>2. [calendar |-> c, default |-> TRUE, active |-> TRUE] \in Category BY DEF Category
      <3>3. category[k] # None BY <3>1, <3>2, NoneAssumption
      <3> QED BY <3>1, <3>3 DEF Kept, CategoriesOf
    <2> QED BY <1>3, <1>4, <2>1 DEF CategoriesOK
  <1>9. MembershipOK
    <2>1. ASSUME NEW u \in Users
          PROVE  Settled(u)
      <3>1. Personal(u) = {c \in On(b, "PERSONAL") : calendar[c].owner = u} BY <1>2 DEF Personal, Active, On
      <3>2. OnePersonal(u) BY <1>3, <3>1 DEF OnePersonal
      <3>3. Member(u) => Joined(u) BY <1>2 DEF Member, Joined
      <3>4. ~Member(u) => Nothing(u) BY <1>3, <3>1 DEF Member, Nothing, NoPersonal, NoEvents
      <3> QED BY <3>2, <3>3, <3>4 DEF Settled
    <2> QED BY <1>4, <2>1 DEF MembershipOK, UserOK
  <1> QED BY <1>5, <1>6, <1>7, <1>8, <1>9 DEF ProjectsInv

-----------------------------------------------------------------------------
(* ProjectsInv holds in every state of every behaviour: whatever the       *)
(* number of users, calendars and requests, and however their awaits       *)
(* interleave or fail.                                                     *)
THEOREM ProjectsInvariant == Spec => []ProjectsInv
  <1>1. Init => ProjectsInv BY InitialInvariant
  <1>2. ProjectsInv /\ [Next]_vars => ProjectsInv' BY InvariantKept
  <1> QED BY <1>1, <1>2, PTL DEF Spec

(* createProject, deleteProject, createCalendar: the rows keep their       *)
(* types, a calendar that is gone lists nobody, and the TEAM calendars     *)
(* that were counted never exceed the limit of the project.                *)
THEOREM ProjectStaysConsistent == Spec => []Consistent
  <1>1. ProjectsInv => Consistent BY DEF ProjectsInv, RowsOK, LimitOK, Consistent
  <1> QED BY <1>1, ProjectsInvariant, PTL

(* createCalendar, createProject, ensurePersonalCalendar, getCategories,   *)
(* deleteCategory, updateCategory: an active calendar that was given a     *)
(* default category has one, or the request that is making the calendar    *)
(* still has to make it.  ensureDefaultCalendar and createEventFromIssue   *)
(* give none; neither does a creation that fails half way, nor a save of a *)
(* calendar that was gone.                                                 *)
THEOREM CalendarsKeepTheirCategory == Spec => []CategoriesStay
  <1>1. ASSUME ProjectsInv
        PROVE  CategoriesStay
    BY <1>1 DEF ProjectsInv, CategoriesOK, CategoriesStay, Active
  <1> QED BY <1>1, ProjectsInvariant, PTL

(* addProjectMember, removeMember, createProject: when no request is in    *)
(* hand a member is in the default channel and has one personal calendar   *)
(* at most, and a user who is no member has neither calendar nor event     *)
(* left, unless two requests were about the user at once or one failed.    *)
THEOREM MembersAreFollowed == Spec => []MembershipFollows
  <1>1. ASSUME ProjectsInv
        PROVE  MembershipFollows
    <2>1. ASSUME Quiet, NEW u \in Users \ crossed
          PROVE  /\ Member(u) => (hasChannel => u \in channel) /\ Cardinality(Personal(u)) <= 1
                 /\ ~Member(u) => Personal(u) = {} /\ \A e \in EventIds : event[e] # None => event[e].by # u
      <3>1. UserOK(u) BY <1>1, <2>1 DEF ProjectsInv, MembershipOK
      <3>2. Settled(u) BY <2>1, <3>1 DEF UserOK, Quiet
      <3>3. OnePersonal(u) => Cardinality(Personal(u)) <= 1
        <4>1. CASE Personal(u) = {}
          <5>1. PICK S \in SUBSET CalendarIds : S = {} OBVIOUS
          <5>2. Cardinality(S) = 0 BY <5>1, CountedBy
          <5> QED BY <4>1, <5>1, <5>2
        <4>2. ASSUME NEW c \in Personal(u), OnePersonal(u)
              PROVE  Cardinality(Personal(u)) <= 1
          <5>1. PICK S : S = Personal(u) OBVIOUS
          <5>2. S = {c} BY <4>2, <5>1 DEF OnePersonal
          <5>3. Cardinality(S) = 1 BY <5>2, FS_Singleton
          <5> QED BY <5>1, <5>3
        <4> QED BY <4>1, <4>2
      <3> QED BY <3>2, <3>3 DEF Settled, Joined, Nothing, NoPersonal, NoEvents
    <2> QED BY <2>1 DEF MembershipFollows
  <1> QED BY <1>1, ProjectsInvariant, PTL
=============================================================================
