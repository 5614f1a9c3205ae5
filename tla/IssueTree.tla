------------------------------ MODULE IssueTree ------------------------------
(***************************************************************************)
(* IssuesService (src/src/modules/issues) and the part of CalendarService  *)
(* it calls: the issues of a project, the tree their parentId makes, the   *)
(* progress rolled up that tree and the calendar event kept for an issue.  *)
(*                                                                         *)
(* Every request loads rows, changes them in memory and saves them an      *)
(* await later.  A save compares the entity with the row of that moment    *)
(* and writes every column that differs, those the request never meant to  *)
(* change included; a row deleted meanwhile is inserted again.  parentId   *)
(* is a plain column: nothing follows it when the parent is removed.       *)
(*                                                                         *)
(* Titles, status, priority, assignee, comments, the group of an issue and *)
(* the activity log are left out; the pair (startAt, endAt) is one date;   *)
(* reads in a row are one step, so is the walk up the tree to the group a  *)
(* new issue inherits (findNearestGroupId, addSubtask): what it can come   *)
(* to, with other requests between its reads, is left open.                *)
(***************************************************************************)
EXTENDS Integers, FiniteSets

CONSTANTS
  Issues,     \* ids of issue rows
  Events,     \* ids of calendar events, as many as requests can make
  Requests,   \* requests the server can have in progress at once
  Dates,
  Full,       \* progress of a finished issue (100 in the code)
  MaxStarts,  \* bound: requests of a run
  Boards,     \* the boards a run may start from, with their issue and event rows
  None

ASSUME FiniteAssumption == IsFiniteSet(Issues) /\ IsFiniteSet(Requests)
ASSUME FullAssumption == Full \in Nat \ {0} /\ MaxStarts \in Nat

VARIABLES
  issue,     \* the row of each issue, None when there is none
  event,     \* the calendar event rows that come from issues
  groups,    \* groups the project has under the default name
  calendars, \* calendars the project has under the name of the issue calendar
  request,   \* the requests in progress
  starts,    \* requests begun so far
  removed,   \* history: issues that were removed
  undated,   \* history: issues that got a date without a calendar event
  drifted,   \* history: issues whose progress no roll-up has corrected
  raced      \* history: issues saved from a copy another request had outdated, or
             \* whose request failed between their row and their event

rows == <<issue, event, groups, calendars>>
history == <<removed, undated, drifted, raced>>
vars == <<rows, request, starts, history>>

Row == [parent : Issues \cup {None}, progress : 0..Full, date : Dates \cup {None}, event : Events \cup {None}]

NewRow(p, n, d) == [parent |-> p, progress |-> n, date |-> d, event |-> None]

Event == [issue : Issues, date : Dates \cup {None}]

ASSUME NoneAssumption == None \notin Issues \cup Events \cup Dates \cup Row \cup Event

\* Math.floor of the mean progress of the issues is; the sum counts each point of each of them.
MeanIn(table, is) ==
  Cardinality({x \in is \X (1..Full) : x[2] <= table[x[1]].progress}) \div Cardinality(is)

(* A state a run may start from: what the properties ask of one in which   *)
(* nobody is at work, and every parent is an issue of the board.           *)
On(b) == {i \in Issues : b.issue[i] # None}
Under(b, p) == {i \in On(b) : b.issue[i].parent = p}

ASSUME BoardsAssumption ==
  \A b \in Boards :
    /\ b.issue \in [Issues -> {None} \cup Row] /\ b.event \in [Events -> {None} \cup Event] /\ b.made \in Nat
    /\ \A i \in On(b) :
         LET row == b.issue[i]
         IN /\ row.parent \in On(b) \cup {None}
            /\ Under(b, i) # {} => row.progress = MeanIn(b.issue, Under(b, i))
            /\ row.date = None <=> row.event = None
            /\ row.event # None => b.event[row.event] = [issue |-> i, date |-> row.date]
    /\ \A e \in Events : b.event[e] # None => b.event[e].issue \in On(b) /\ b.issue[b.event[e].issue].event = e

Idle == [pc |-> "idle"]

\* A request at work on the issue at; copy is what it loaded, changed in memory; before is the
\* date it found; parent is the issue whose progress is to be recalculated, stale tells that
\* another request wrote at or a child of at after this one loaded it.
Request(op, pc, at, copy) ==
  [op |-> op, pc |-> pc, at |-> at, copy |-> copy, before |-> copy.date, stale |-> FALSE]

RequestRecord ==
  [op : {"create", "update", "touch", "progress", "addSubtask", "remove", "removeSubtask", "move"},
   pc : {"newGroup", "insert", "newCalendar", "calendar", "event", "link", "save", "refresh",
         "moveEvent", "remove", "parent", "subtasks", "roll"},
   at : Issues \cup {None}, copy : Row, before : Dates \cup {None}, stale : BOOLEAN]

(* Rows, events and requests are of their types. *)
TypeOK ==
  /\ issue \in [Issues -> {None} \cup Row]
  /\ event \in [Events -> {None} \cup Event]
  /\ groups \in Nat /\ calendars \in Nat
  /\ request \in [Requests -> {Idle} \cup RequestRecord]
  /\ starts \in 0..MaxStarts
  /\ removed \subseteq Issues /\ undated \subseteq Issues /\ drifted \subseteq Issues /\ raced \subseteq Issues

Init ==
  /\ \E b \in Boards :
       /\ issue = b.issue /\ event = b.event
       /\ groups = b.made /\ calendars = b.made
  /\ request = [r \in Requests |-> Idle]
  /\ starts = 0
  /\ removed = {} /\ undated = {} /\ drifted = {} /\ raced = {}

-----------------------------------------------------------------------------
(* The tree *)

Rows == {i \in Issues : issue[i] # None}
Subtasks(p) == {i \in Rows : issue[i].parent = p}

Mean(is) == MeanIn(issue, is)

\* Mutant: an issue whose parent is gone is no root.
Roots_Wrong == {i \in Rows : issue[i].parent = None}

Roots == {i \in Rows : issue[i].parent \notin Rows}

\* buildIssueTree: the roots and what hangs, at any depth, below one.
Shown ==
  {i \in Rows : \A is \in SUBSET Rows : Roots \subseteq is /\ (\A j \in is : Subtasks(j) \subseteq is) => i \in is}

Cyclic == \E is \in SUBSET Rows \ {{}} : \A i \in is : issue[i].parent \in is

-----------------------------------------------------------------------------
(* How a request reads, saves and ends *)

ParentOf(row) == IF row = None THEN {} ELSE {row.parent} \ {None}

\* What request r holds has to do with the row of issue i.
Uses(r, i, row) == request[r] # Idle /\ request[r].at \in {i} \cup ParentOf(row)

\* Request r becomes q after writing row over the row of issue i.
Wrote(r, q, i, row) ==
  request' = [s \in Requests |->
                IF s = r THEN q
                ELSE IF Uses(s, i, issue[i]) \/ Uses(s, i, row) THEN [request[s] EXCEPT !.stale = TRUE]
                ELSE request[s]]

Goes(r, q) == request' = [request EXCEPT ![r] = q]

At(r, pc) == request[r] # Idle /\ request[r].pc = pc

\* repository.save: insert or overwrite the row of issue i; q is what becomes of the request.
Save(r, i, row, q) ==
  /\ issue' = [issue EXCEPT ![i] = row]
  /\ Wrote(r, q, i, row)
  /\ raced' = IF request[r].stale THEN raced \cup {i} ELSE raced

\* The issues a save of row over issue i from an outdated copy may leave with a wrong progress.
Spoils(r, i, row) == IF request[r].stale THEN {i} \cup ParentOf(row) \cup ParentOf(issue[i]) ELSE {}

\* Bound: nothing is created without a free id for it.
Free == Issues \ (Rows \cup removed)
Inserting == {r \in Requests : request[r] # Idle /\ request[r].pc \in {"newGroup", "insert"}}
HasId == Cardinality(Free) > Cardinality(Inserting)

Starts(r, q) ==
  /\ request[r] = Idle /\ starts < MaxStarts
  /\ starts' = starts + 1
  /\ Goes(r, q)
  /\ UNCHANGED <<rows, history>>

-----------------------------------------------------------------------------
(* createIssue *)

\* findNearestGroupId: the parent or an ancestor may have a group.
Inherits(p) == IF p = None THEN {FALSE} ELSE BOOLEAN

\* A parent named in the request must exist.  Unless the group is given or inherited, the default
\* group is looked up, and made when there is none.
CreateIssue(r) ==
  \E p \in {None} \cup Rows, n \in {0, Full}, d \in Dates : \E inherits \in Inherits(p) :
    /\ HasId
    /\ Starts(r, Request("create", IF groups = 0 /\ ~inherits THEN "newGroup" ELSE "insert", None, NewRow(p, n, d)))

NewGroup(r) ==
  /\ At(r, "newGroup")
  /\ groups' = groups + 1
  /\ Goes(r, [request[r] EXCEPT !.pc = "insert"])
  /\ UNCHANGED <<issue, event, calendars, starts, history>>

\* The row gets a new id.  createIssue goes on to the calendar and leaves the progress of the
\* parent alone; addSubtask makes no event and recalculates the parent.
Insert(r) ==
  /\ At(r, "insert")
  /\ LET row == request[r].copy
         i == CHOOSE j \in Free : TRUE
         isCreate == request[r].op = "create"
     IN /\ Save(r, i, row,
                IF isCreate THEN [request[r] EXCEPT !.pc = "calendar", !.at = i]
                            ELSE [request[r] EXCEPT !.pc = "parent", !.at = row.parent])
        /\ drifted' = IF isCreate THEN drifted \cup ParentOf(row) ELSE drifted
        /\ undated' = IF isCreate \/ row.date = None THEN undated ELSE undated \cup {i}
  /\ UNCHANGED <<event, groups, calendars, starts, removed>>

-----------------------------------------------------------------------------
(* syncCalendarEvent and the events of issues *)

\* getOrCreateIssueCalendar: found by its name, made when there is none.
FindCalendar(r) ==
  /\ At(r, "calendar")
  /\ Goes(r, [request[r] EXCEPT !.pc = IF calendars = 0 THEN "newCalendar" ELSE "event"])
  /\ UNCHANGED <<rows, starts, history>>

NewCalendar(r) ==
  /\ At(r, "newCalendar")
  /\ calendars' = calendars + 1
  /\ Goes(r, [request[r] EXCEPT !.pc = "event"])
  /\ UNCHANGED <<issue, event, groups, starts, history>>

\* createEventFromIssue: the event is made from the issue in memory. (That an id is left is a bound.)
CreateEvent(r) ==
  /\ At(r, "event") /\ \E e \in Events : event[e] = None
  /\ LET e == CHOOSE f \in Events : event[f] = None
     IN /\ event' = [event EXCEPT ![e] = [issue |-> request[r].at, date |-> request[r].copy.date]]
        /\ Goes(r, [request[r] EXCEPT !.pc = "link", !.copy.event = e])
  /\ UNCHANGED <<issue, groups, calendars, starts, history>>

\* The issue is saved again with the id of its event, or without one.
LinkEvent(r) ==
  /\ At(r, "link")
  /\ Save(r, request[r].at, request[r].copy, Idle)
  /\ drifted' = drifted \cup Spoils(r, request[r].at, request[r].copy)
  /\ UNCHANGED <<event, groups, calendars, starts, removed, undated>>

\* updateEventFromIssue: the event, if it is still there, takes the date of the issue in memory.
MoveEvent(r) ==
  /\ At(r, "moveEvent")
  /\ LET e == request[r].copy.event
     IN event' = IF event[e] = None THEN event ELSE [event EXCEPT ![e].date = request[r].copy.date]
  /\ raced' = IF request[r].stale THEN raced \cup {request[r].at} ELSE raced
  /\ Goes(r, Idle)
  /\ UNCHANGED <<issue, groups, calendars, starts, removed, undated, drifted>>

-----------------------------------------------------------------------------
(* updateIssue, updateStatus, assignIssue, updateIssueDatesFromCalendar *)

\* The body of the request is assigned over the loaded row: a date, a progress, or a parentId
\* nobody checks, null included.
UpdateIssue(r) ==
  \E i \in Rows :
    \E row \in {[issue[i] EXCEPT !.date = d] : d \in Dates} \cup {[issue[i] EXCEPT !.progress = n] : n \in {0, Full}}
                 \cup {[issue[i] EXCEPT !.parent = p] : p \in Issues \cup {None}} :
      Starts(r, [Request("update", "save", i, row) EXCEPT !.before = issue[i].date])

\* What these two change is left out; what they save is the whole row.
TouchIssue(r) == \E i \in Rows : Starts(r, Request("touch", "save", i, issue[i]))

UpdateStatus(r) == TouchIssue(r)

AssignIssue(r) == TouchIssue(r)

\* The calendar moves the event of an issue: the issue is found through the event.
UpdateIssueDatesFromCalendar(r) ==
  \E e \in Events, d \in Dates :
    /\ event[e] # None /\ event[e].issue \in Rows
    /\ Starts(r, Request("move", "save", event[e].issue, [issue[event[e].issue] EXCEPT !.date = d]))

\* updateProgress saves the row and goes on to the parent it loaded; the others end or read again.
SaveIssue(r) ==
  /\ At(r, "save")
  /\ LET q == request[r]
         changed == issue[q.at] # None /\ (issue[q.at].progress # q.copy.progress \/ issue[q.at].parent # q.copy.parent)
     IN /\ Save(r, q.at, q.copy,
                CASE q.op = "touch" -> Idle
                  [] q.op = "progress" ->
                       IF q.copy.parent = None THEN Idle ELSE [q EXCEPT !.pc = "parent", !.at = q.copy.parent]
                  [] OTHER -> [q EXCEPT !.pc = "refresh", !.stale = FALSE])
        /\ drifted' = drifted \cup Spoils(r, q.at, q.copy)
                        \cup (IF ~changed THEN {}
                              ELSE IF q.op = "update" THEN {q.at} \cup ParentOf(q.copy) \cup ParentOf(issue[q.at])
                              ELSE {q.at})
  /\ UNCHANGED <<event, groups, calendars, starts, removed, undated>>

\* Mutant: the date is compared with what was just saved.
RefreshIssue_Wrong(r) ==
  /\ At(r, "refresh")
  /\ LET q == request[r]
         row == issue[q.at]
         e == IF q.op = "move" THEN q.copy.event ELSE row.event
         done == row = None \/ (IF q.op = "move" THEN e = None ELSE row.date \in {q.copy.date, None})
     IN Goes(r, IF done THEN Idle
                ELSE IF e = None THEN [q EXCEPT !.pc = "calendar", !.copy = row, !.stale = FALSE]
                ELSE [q EXCEPT !.pc = "moveEvent", !.copy = [row EXCEPT !.event = e], !.stale = FALSE])
  /\ UNCHANGED <<rows, starts, history>>

\* updateIssue reads the row again and, when its date is not the one it first found, brings the
\* calendar up to date; updateIssueDatesFromCalendar does so always, for the event it knows of.
\* (syncCalendarEvent would delete the event of an issue without a date: there never is one, see
\* EventFollowsIssue.)
RefreshIssue(r) ==
  /\ At(r, "refresh")
  /\ LET q == request[r]
         row == issue[q.at]
         e == IF q.op = "move" THEN q.copy.event ELSE row.event
         done == row = None \/ (IF q.op = "move" THEN e = None ELSE row.date \in {q.before, None})
     IN Goes(r, IF done THEN Idle
                ELSE IF e = None THEN [q EXCEPT !.pc = "calendar", !.copy = row, !.stale = FALSE]
                ELSE [q EXCEPT !.pc = "moveEvent", !.copy = [row EXCEPT !.event = e], !.stale = FALSE])
  /\ UNCHANGED <<rows, starts, history>>

-----------------------------------------------------------------------------
(* updateProgress, addSubtask, removeSubtask, removeIssue *)

UpdateProgress(r) ==
  \E i \in Rows, n \in {0, Full} : Starts(r, Request("progress", "save", i, [issue[i] EXCEPT !.progress = n]))

AddSubtask(r) ==
  \E p \in Rows, d \in Dates \cup {None} :
    HasId /\ Starts(r, Request("addSubtask", "insert", None, NewRow(p, 0, d)))

RemoveIssue(r) == \E i \in Rows : Starts(r, Request("remove", "remove", i, issue[i]))

\* A subtask without a parent row goes without a recalculation.
RemoveSubtask(r) ==
  \E i \in Rows :
    Starts(r, Request(IF issue[i].parent \in Rows THEN "removeSubtask" ELSE "remove", "remove", i, issue[i]))

\* The row goes; its calendar event, its children's parentId stay.
RemoveRow(r) ==
  /\ At(r, "remove")
  /\ LET q == request[r]
         rolls == q.op = "removeSubtask"
     IN /\ issue' = [issue EXCEPT ![q.at] = None]
        /\ Wrote(r, IF rolls THEN [q EXCEPT !.pc = "parent", !.at = q.copy.parent] ELSE Idle, q.at, None)
        /\ removed' = removed \cup {q.at}
        /\ raced' = IF q.stale THEN raced \cup {q.at} ELSE raced
        /\ drifted' = drifted \cup Spoils(r, q.at, q.copy) \cup (IF rolls THEN {} ELSE ParentOf(q.copy))
  /\ UNCHANGED <<event, groups, calendars, starts, undated>>

-----------------------------------------------------------------------------
(* recalculateParentProgress *)

\* The parent is loaded; when it is gone nothing is done, above it neither.
LoadParent(r) ==
  /\ At(r, "parent")
  /\ LET p == request[r].at
     IN Goes(r, IF issue[p] = None THEN Idle
                ELSE [request[r] EXCEPT !.pc = "subtasks", !.copy = issue[p], !.stale = FALSE])
  /\ UNCHANGED <<rows, starts, history>>

\* Its subtasks are read and their mean taken; without any, nothing is done.
ReadSubtasks(r) ==
  /\ At(r, "subtasks")
  /\ LET is == Subtasks(request[r].at)
     IN Goes(r, IF is = {} THEN Idle ELSE [request[r] EXCEPT !.pc = "roll", !.copy.progress = Mean(is)])
  /\ UNCHANGED <<rows, starts, history>>

\* Mutant: the recalculation stops after one level.
SaveParent_Wrong(r) ==
  /\ At(r, "roll")
  /\ LET q == request[r]
     IN /\ Save(r, q.at, q.copy, Idle)
        /\ drifted' = (drifted \ {q.at}) \cup Spoils(r, q.at, q.copy)
  /\ UNCHANGED <<event, groups, calendars, starts, removed, undated>>

\* Mutant: the recalculation of the parent calls itself with the same id.
SaveParent_Loops(r) ==
  /\ At(r, "roll")
  /\ LET q == request[r]
         up == q.copy.parent
     IN /\ Save(r, q.at, q.copy, IF up = None THEN Idle ELSE [q EXCEPT !.pc = "parent", !.at = q.at])
        /\ drifted' = (drifted \ {q.at}) \cup Spoils(r, q.at, q.copy)
  /\ UNCHANGED <<event, groups, calendars, starts, removed, undated>>

\* The whole row of the parent is saved, and the parent it had when it was loaded is next.
SaveParent(r) ==
  /\ At(r, "roll")
  /\ LET q == request[r]
         up == q.copy.parent
     IN /\ Save(r, q.at, q.copy, IF up = None THEN Idle ELSE [q EXCEPT !.pc = "parent", !.at = up])
        /\ drifted' = (drifted \ {q.at}) \cup Spoils(r, q.at, q.copy)
  /\ UNCHANGED <<event, groups, calendars, starts, removed, undated>>

-----------------------------------------------------------------------------
Handle(r) ==
  \/ NewGroup(r) \/ Insert(r)
  \/ FindCalendar(r) \/ NewCalendar(r) \/ CreateEvent(r) \/ LinkEvent(r) \/ MoveEvent(r)
  \/ SaveIssue(r) \/ RefreshIssue(r) \/ RemoveRow(r)
  \/ LoadParent(r) \/ ReadSubtasks(r) \/ SaveParent(r)

Ask(r) ==
  \/ CreateIssue(r) \/ UpdateIssue(r) \/ UpdateStatus(r) \/ AssignIssue(r) \/ UpdateIssueDatesFromCalendar(r)
  \/ UpdateProgress(r) \/ AddSubtask(r) \/ RemoveIssue(r) \/ RemoveSubtask(r)

\* A query fails: the recalculation stops where it is, a saved date has no event or another one.
Fail(r) ==
  /\ request[r] # Idle
  /\ LET at == {request[r].at}
         stops(pcs) == IF request[r].pc \in pcs THEN at ELSE {}
     IN /\ drifted' = drifted \cup stops({"parent", "subtasks", "roll"})
        /\ undated' = undated \cup stops({"calendar", "newCalendar", "event"})
        /\ raced' = raced \cup stops({"refresh", "link", "moveEvent"})
  /\ Goes(r, Idle)
  /\ UNCHANGED <<rows, starts, removed>>

-----------------------------------------------------------------------------
(* The groups of a project.  A request about one is one step, that of its  *)
(* last save: what it reads before shows in nothing but names and colours. *)

\* Under the default name; a group of any other name is in no variable here.
CreateIssueGroup == groups' = groups + 1

\* A group gets the default name or loses it, or is saved with it after it was removed.
UpdateIssueGroup == groups' \in {groups + 1} \cup ({groups - 1} \cap Nat)

RemoveIssueGroup == groups > 0 /\ groups' = groups - 1

AskGroup ==
  /\ starts < MaxStarts /\ starts' = starts + 1
  /\ CreateIssueGroup \/ UpdateIssueGroup \/ RemoveIssueGroup
  /\ UNCHANGED <<issue, event, calendars, request, history>>

Next ==
  \/ \E r \in Requests : (request[r] = Idle /\ starts < MaxStarts /\ Ask(r)) \/ Handle(r) \/ Fail(r)
  \/ AskGroup

\* The server goes on with what it has begun; nobody has to ask for anything.
Spec == Init /\ [][Next]_vars /\ \A r \in Requests : WF_vars(Handle(r))

-----------------------------------------------------------------------------
(* Properties *)

Quiet == \A r \in Requests : request[r] = Idle

(* recalculateParentProgress: once every request has ended, an issue with  *)
(* subtasks has the floor of their mean progress, at every level of the    *)
(* tree.  Excused are the issues that a request which rolls nothing up     *)
(* changed (createIssue under a parent, updateIssue, removeIssue, a        *)
(* progress set on a parent), that were saved from an outdated copy or     *)
(* where a recalculation failed, until the next one.                       *)
ProgressRolledUp ==
  Quiet => \A p \in Rows \ drifted : Subtasks(p) # {} => issue[p].progress = Mean(Subtasks(p))

(* syncCalendarEvent: once every request has ended, an issue nobody saved  *)
(* from an outdated copy, or failed to link, has one calendar event at     *)
(* most, the one its row names, at its own date; it has none only when it  *)
(* has no date, came from addSubtask, which makes none, or its event could *)
(* not be made.  An event without its issue is left by a removal.  At no   *)
(* time has a row without a date an event.                                 *)
EventFollowsIssue ==
  /\ \A i \in Rows : issue[i].date = None => issue[i].event = None
  /\ Quiet =>
    /\ \A i \in Rows \ raced :
         /\ issue[i].event # None => event[issue[i].event] = [issue |-> i, date |-> issue[i].date]
         /\ \A e \in Events : event[e] # None /\ event[e].issue = i => issue[i].event = e
         /\ issue[i].event = None => issue[i].date = None \/ i \in undated
    /\ \A e \in Events : event[e] # None /\ event[e].issue \notin Rows => event[e].issue \in removed

(* buildIssueTree: the board shows every issue, under its parent or, when  *)
(* that is gone, as a root; only issues whose parents form a cycle, which  *)
(* updateIssue does not refuse, are left out.                              *)
BoardComplete ==
  \A i \in Rows : i \in Shown \/ \E is \in SUBSET Rows : i \in is /\ \A j \in is : issue[j].parent \in is

(* createIssue, updateIssue, removeIssue and buildIssueTree: whatever they *)
(* leave behind, the board shows it.                                       *)
Consistent == TypeOK /\ BoardComplete

(* Every request ends: as long as no cycle of parents is made, walking up  *)
(* the tree stops, whatever the other requests do to it meanwhile.         *)
RequestsEnd == []~Cyclic => \A r \in Requests : (request[r] # Idle) ~> (request[r] = Idle)
=============================================================================
