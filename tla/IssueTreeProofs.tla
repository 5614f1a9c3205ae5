--------------------------- MODULE IssueTreeProofs ---------------------------
(***************************************************************************)
(* Theorems about IssueTree, for every number of issues and requests.      *)
(*                                                                         *)
(* IssuesInv says of each request what it holds of its issue, unless       *)
(* somebody has written the issue or a subtask since (stale); and of each  *)
(* issue that its progress and its event are right, or who is about to     *)
(* put them right.                                                         *)
(***************************************************************************)
EXTENDS IssueTree, FiniteSetTheorems, TLAPS


Busy == {r \in Requests : request[r] # Idle}
Known == Rows \cup removed
Filing == {"calendar", "newCalendar", "event"}
Climbing == {"parent", "subtasks", "roll"}
Loaded == {"save", "remove", "subtasks", "roll", "link", "moveEvent"} \cup Filing

(* What a request is at each of its steps.                                 *)
Fits(q) ==
  /\ q.pc \in {"newGroup", "insert"} =>
       /\ q.op \in {"create", "addSubtask"} /\ q.at = None
       /\ q.copy.event = None
       /\ q.copy.parent # None => q.copy.parent \in Known
       /\ IF q.op = "create" THEN q.copy.date # None ELSE q.copy.parent # None
  /\ q.pc \notin {"newGroup", "insert"} => q.at \in Issues
  /\ q.pc \notin {"newGroup", "insert", "parent"} => q.at \in Known
  /\ q.pc \in Filing \cup {"link"} => q.copy.date # None /\ q.op \in {"create", "update"}
  /\ q.pc \in Filing => q.copy.event = None
  /\ q.pc \in {"link", "moveEvent"} => q.copy.event # None
  /\ q.pc = "save" => q.op \in {"update", "touch", "progress", "move"}
  /\ q.pc \in {"refresh", "moveEvent"} => q.op \in {"update", "move"}
  /\ q.pc \in Climbing => q.op # "move"
  /\ q.pc = "remove" => q.op \in {"remove", "removeSubtask"}
  /\ q.op = "removeSubtask" /\ q.pc = "remove" => q.copy.parent # None
  /\ q.pc # "moveEvent" /\ q.copy.date = None => q.copy.event = None
  /\ q.copy.event # None => event[q.copy.event] # None /\ (q.pc # "parent" => event[q.copy.event].issue = q.at)
  /\ q.op = "move" => \E e \in Events : event[e] # None /\ event[e].issue = q.at

(* What a request holds is what the row is, but for what it is to change.  *)
Agrees(q) ==
  LET row == issue[q.at]
      asked(ops) == q.pc = "save" /\ q.op \in ops
  IN /\ row # None
     /\ asked({"update"}) \/ q.copy.parent = row.parent
     /\ asked({"update", "progress"}) \/ q.pc = "roll" \/ q.copy.progress = row.progress
     /\ asked({"update", "move"}) \/ q.copy.date = row.date
     /\ q.pc = "moveEvent" \/ (IF q.pc = "link" THEN row.event = None ELSE q.copy.event = row.event)
     /\ asked({"update"}) => q.before = row.date
     /\ q.pc = "roll" => q.copy.progress = Mean(Subtasks(q.at))

RequestsOK ==
  /\ request \in [Requests -> {Idle} \cup RequestRecord]
  /\ \A r \in Busy : Fits(request[r])
  /\ \A r \in Busy : request[r].pc \in Loaded /\ ~request[r].stale => Agrees(request[r])

IdsOK == Cardinality(Free) >= Cardinality(Inserting)

(* An event is of an issue there was, and a row names only an event of its *)
(* own.                                                                    *)
RowsOK ==
  /\ \A e \in Events : event[e] # None => event[e].issue \in Known
  /\ \A i \in Rows : issue[i].date = None => issue[i].event = None
  /\ \A i \in Rows : issue[i].event # None =>
       event[issue[i].event] # None /\ event[issue[i].event].issue = i

(* Nobody else has heard of an event that is about to be linked.           *)
LinksOK ==
  \A r \in Busy : request[r].pc = "link" /\ ~request[r].stale =>
    /\ event[request[r].copy.event].date = request[r].copy.date
    /\ \A s \in Busy \ {r} : request[s].copy.event # request[r].copy.event

(* The progress of an issue is right or somebody is at it; an issue that    *)
(* never was has no subtasks unless somebody moved them there.             *)
Climber(p) == \E r \in Busy : request[r].pc \in Climbing /\ request[r].at = p
RolledAt(p) ==
  p \in Rows \ drifted /\ Subtasks(p) # {} => issue[p].progress = Mean(Subtasks(p)) \/ Climber(p)
BornAt(p) == p \notin Known /\ Subtasks(p) # {} => p \in drifted

RolledOK == \A p \in Issues : RolledAt(p) /\ BornAt(p)

(* The event of an issue is right or somebody is at it.                    *)
Rereads(q, i) == q.pc = "refresh" /\ q.op = "update" /\ q.before # issue[i].date
Moves(q, i) ==
  \/ Rereads(q, i)
  \/ q.pc = "refresh" /\ q.op = "move" /\ q.copy.event = issue[i].event
  \/ q.pc = "moveEvent" /\ (q.stale \/ q.copy.event = issue[i].event)
Correcting == Filing \cup {"link", "refresh", "moveEvent"}
Files(q, i) == q.pc \in Filing \cup {"link"} \/ Rereads(q, i)

Mover(i) == \E r \in Busy : request[r].at = i /\ Moves(request[r], i)
Linker(i, e) == \E r \in Busy : request[r].pc = "link" /\ request[r].at = i /\ request[r].copy.event = e
Filer(i) == \E r \in Busy : request[r].at = i /\ Files(request[r], i)

Dated(i) == issue[i].event # None => event[issue[i].event].date = issue[i].date \/ Mover(i)
Linked(i) == \A e \in Events : event[e] # None /\ event[e].issue = i => issue[i].event = e \/ Linker(i, e)
Filed(i) == issue[i].event = None => issue[i].date = None \/ i \in undated \/ Filer(i)

FollowedOK == \A i \in Rows \ raced : Dated(i) /\ Linked(i) /\ Filed(i)

IssuesInv == TypeOK /\ RequestsOK /\ IdsOK /\ RowsOK /\ LinksOK /\ RolledOK /\ FollowedOK

-----------------------------------------------------------------------------
(***************************************************************************)
(* Requests and rows.                                                      *)
(***************************************************************************)
Ops == {"create", "update", "touch", "progress", "addSubtask", "remove", "removeSubtask", "move"}
Pcs == {"newGroup", "insert", "newCalendar", "calendar", "event", "link", "save", "refresh",
        "moveEvent", "remove", "parent", "subtasks", "roll"}
Ids == Issues \cup {None}
Days == Dates \cup {None}

Made(op, pc, at, copy, before, stale) ==
  [op |-> op, pc |-> pc, at |-> at, copy |-> copy, before |-> before, stale |-> stale]

(* q is the request with these fields.                                     *)
Has(q, op, pc, at, copy, before, stale) ==
  /\ q \in RequestRecord /\ q # Idle
  /\ q.op = op /\ q.pc = pc /\ q.at = at /\ q.copy = copy /\ q.before = before /\ q.stale = stale

LEMMA Fields ==
  ASSUME NEW q \in RequestRecord
  PROVE  /\ q.op \in Ops /\ q.pc \in Pcs /\ q.at \in Ids /\ q.copy \in Row /\ q.before \in Days /\ q.stale \in BOOLEAN
         /\ q # Idle /\ q = Made(q.op, q.pc, q.at, q.copy, q.before, q.stale)
BY DEF RequestRecord, Ops, Pcs, Ids, Days, Idle, Made

LEMMA MadeHas ==
  ASSUME NEW op \in Ops, NEW pc \in Pcs, NEW at \in Ids, NEW copy \in Row, NEW before \in Days, NEW stale \in BOOLEAN
  PROVE  \A w : w = Made(op, pc, at, copy, before, stale) => Has(w, op, pc, at, copy, before, stale)
  <1>1. ASSUME NEW w, w = Made(op, pc, at, copy, before, stale)
        PROVE  Has(w, op, pc, at, copy, before, stale)
    <2>1. w \in RequestRecord BY <1>1 DEF Made, RequestRecord, Ops, Pcs, Ids, Days
    <2>2. w # Idle BY <2>1, Fields
    <2>3. w.op = op /\ w.pc = pc /\ w.at = at /\ w.copy = copy /\ w.before = before /\ w.stale = stale
      BY <1>1 DEF Made
    <2> QED BY <2>1, <2>2, <2>3 DEF Has
  <1> QED BY <1>1

LEMMA RowFields ==
  ASSUME NEW c \in Row
  PROVE  /\ c.parent \in Ids /\ c.progress \in 0..Full /\ c.date \in Days /\ c.event \in Events \cup {None}
         /\ c = [parent |-> c.parent, progress |-> c.progress, date |-> c.date, event |-> c.event]
         /\ c # None
  <1>1. c # None BY NoneAssumption
  <1> QED BY <1>1 DEF Row, Ids, Days

RowHas(c, parent, progress, date, event0) ==
  c \in Row /\ c.parent = parent /\ c.progress = progress /\ c.date = date /\ c.event = event0

LEMMA RowMade ==
  ASSUME NEW p \in Ids, NEW n \in 0..Full, NEW d \in Days, NEW e \in Events \cup {None}
  PROVE  \A c : c = [parent |-> p, progress |-> n, date |-> d, event |-> e] => RowHas(c, p, n, d, e)
BY DEF Row, Ids, Days, RowHas

LEMMA RowChanges ==
  ASSUME NEW c \in Row
  PROVE  /\ \A d \in Days : RowHas([c EXCEPT !.date = d], c.parent, c.progress, d, c.event)
         /\ \A n \in 0..Full : RowHas([c EXCEPT !.progress = n], c.parent, n, c.date, c.event)
         /\ \A p \in Ids : RowHas([c EXCEPT !.parent = p], p, c.progress, c.date, c.event)
         /\ \A e \in Events : RowHas([c EXCEPT !.event = e], c.parent, c.progress, c.date, e)
  <1>0. PICK p0 \in Ids, n0 \in 0..Full, d0 \in Days, e0 \in Events \cup {None} :
          c = [parent |-> p0, progress |-> n0, date |-> d0, event |-> e0]
            /\ p0 = c.parent /\ n0 = c.progress /\ d0 = c.date /\ e0 = c.event
    BY RowFields
  <1>1. ASSUME NEW d \in Days PROVE RowHas([c EXCEPT !.date = d], p0, n0, d, e0)
    BY <1>0, RowMade
  <1>2. ASSUME NEW n \in 0..Full PROVE RowHas([c EXCEPT !.progress = n], p0, n, d0, e0)
    BY <1>0, RowMade
  <1>3. ASSUME NEW p \in Ids PROVE RowHas([c EXCEPT !.parent = p], p, n0, d0, e0)
    BY <1>0, RowMade
  <1>4. ASSUME NEW e \in Events PROVE RowHas([c EXCEPT !.event = e], p0, n0, d0, e)
    <2>1. e \in Events \cup {None} OBVIOUS
    <2> QED BY <1>0, <2>1, RowMade
  <1> QED BY <1>0, <1>1, <1>2, <1>3, <1>4

(* How the handlers change a request: w is what becomes of q.               *)
Stepped(w, q, pc) == w = [q EXCEPT !.pc = pc]
Sent(w, q, pc, at) == w = [q EXCEPT !.pc = pc, !.at = at]
Reread(w, q, pc, b) == w = [q EXCEPT !.pc = pc, !.stale = b]
Outdated(w, q, b) == w = [q EXCEPT !.stale = b]
Loads(w, q, pc, c, b) == w = [q EXCEPT !.pc = pc, !.copy = c, !.stale = b]
Links(w, q, pc, e) == w = [q EXCEPT !.pc = pc, !.copy.event = e]
Rolls(w, q, pc, n) == w = [q EXCEPT !.pc = pc, !.copy.progress = n]

LEMMA SteppedMade ==
  \A op0, pc0, at0, c0, b0, s0, q, w, pc :
    q = Made(op0, pc0, at0, c0, b0, s0) /\ Stepped(w, q, pc)
      => w = Made(op0, pc, at0, c0, b0, s0)
  <1>1. ASSUME NEW op0, NEW pc0, NEW at0, NEW c0, NEW b0, NEW s0, NEW q, NEW w, NEW pc,
               q = Made(op0, pc0, at0, c0, b0, s0), Stepped(w, q, pc)
        PROVE  w = Made(op0, pc, at0, c0, b0, s0)
    BY <1>1 DEF Made, Stepped
  <1> QED BY <1>1

LEMMA SentMade ==
  \A op0, pc0, at0, c0, b0, s0, q, w, pc, at :
    q = Made(op0, pc0, at0, c0, b0, s0) /\ Sent(w, q, pc, at)
      => w = Made(op0, pc, at, c0, b0, s0)
  <1>1. ASSUME NEW op0, NEW pc0, NEW at0, NEW c0, NEW b0, NEW s0, NEW q, NEW w, NEW pc, NEW at,
               q = Made(op0, pc0, at0, c0, b0, s0), Sent(w, q, pc, at)
        PROVE  w = Made(op0, pc, at, c0, b0, s0)
    BY <1>1 DEF Made, Sent
  <1> QED BY <1>1

LEMMA RereadMade ==
  \A op0, pc0, at0, c0, b0, s0, q, w, pc, b :
    q = Made(op0, pc0, at0, c0, b0, s0) /\ Reread(w, q, pc, b)
      => w = Made(op0, pc, at0, c0, b0, b)
  <1>1. ASSUME NEW op0, NEW pc0, NEW at0, NEW c0, NEW b0, NEW s0, NEW q, NEW w, NEW pc, NEW b,
               q = Made(op0, pc0, at0, c0, b0, s0), Reread(w, q, pc, b)
        PROVE  w = Made(op0, pc, at0, c0, b0, b)
    BY <1>1 DEF Made, Reread
  <1> QED BY <1>1

LEMMA OutdatedMade ==
  \A op0, pc0, at0, c0, b0, s0, q, w, b :
    q = Made(op0, pc0, at0, c0, b0, s0) /\ Outdated(w, q, b)
      => w = Made(op0, pc0, at0, c0, b0, b)
  <1>1. ASSUME NEW op0, NEW pc0, NEW at0, NEW c0, NEW b0, NEW s0, NEW q, NEW w, NEW b,
               q = Made(op0, pc0, at0, c0, b0, s0), Outdated(w, q, b)
        PROVE  w = Made(op0, pc0, at0, c0, b0, b)
    BY <1>1 DEF Made, Outdated
  <1> QED BY <1>1

LEMMA LoadsMade ==
  \A op0, pc0, at0, c0, b0, s0, q, w, pc, c, b :
    q = Made(op0, pc0, at0, c0, b0, s0) /\ Loads(w, q, pc, c, b)
      => w = Made(op0, pc, at0, c, b0, b)
  <1>1. ASSUME NEW op0, NEW pc0, NEW at0, NEW c0, NEW b0, NEW s0, NEW q, NEW w, NEW pc, NEW c, NEW b,
               q = Made(op0, pc0, at0, c0, b0, s0), Loads(w, q, pc, c, b)
        PROVE  w = Made(op0, pc, at0, c, b0, b)
    BY <1>1 DEF Made, Loads
  <1> QED BY <1>1

LEMMA LinksMade ==
  \A op0, pc0, at0, c0, b0, s0, q, w, pc, e, c :
    q = Made(op0, pc0, at0, c0, b0, s0) /\ Links(w, q, pc, e) /\ c = [c0 EXCEPT !.event = e]
      => w = Made(op0, pc, at0, c, b0, s0)
  <1>1. ASSUME NEW op0, NEW pc0, NEW at0, NEW c0, NEW b0, NEW s0, NEW q, NEW w, NEW pc, NEW e, NEW c,
               q = Made(op0, pc0, at0, c0, b0, s0), Links(w, q, pc, e), c = [c0 EXCEPT !.event = e]
        PROVE  w = Made(op0, pc, at0, c, b0, s0)
    BY <1>1 DEF Made, Links
  <1> QED BY <1>1

LEMMA RollsMade ==
  \A op0, pc0, at0, c0, b0, s0, q, w, pc, n, c :
    q = Made(op0, pc0, at0, c0, b0, s0) /\ Rolls(w, q, pc, n) /\ c = [c0 EXCEPT !.progress = n]
      => w = Made(op0, pc, at0, c, b0, s0)
  <1>1. ASSUME NEW op0, NEW pc0, NEW at0, NEW c0, NEW b0, NEW s0, NEW q, NEW w, NEW pc, NEW n, NEW c,
               q = Made(op0, pc0, at0, c0, b0, s0), Rolls(w, q, pc, n), c = [c0 EXCEPT !.progress = n]
        PROVE  w = Made(op0, pc, at0, c, b0, s0)
    BY <1>1 DEF Made, Rolls
  <1> QED BY <1>1

LEMMA Changes ==
  ASSUME NEW q \in RequestRecord, NEW w
  PROVE  /\ \A pc \in Pcs : Stepped(w, q, pc) => Has(w, q.op, pc, q.at, q.copy, q.before, q.stale)
         /\ \A pc \in Pcs, at \in Ids : Sent(w, q, pc, at) => Has(w, q.op, pc, at, q.copy, q.before, q.stale)
         /\ \A pc \in Pcs, b \in BOOLEAN : Reread(w, q, pc, b) => Has(w, q.op, pc, q.at, q.copy, q.before, b)
         /\ \A b \in BOOLEAN : Outdated(w, q, b) => Has(w, q.op, q.pc, q.at, q.copy, q.before, b)
         /\ \A pc \in Pcs, c \in Row, b \in BOOLEAN : Loads(w, q, pc, c, b) => Has(w, q.op, pc, q.at, c, q.before, b)
         /\ \A pc \in Pcs, e \in Events, c \in Row : c = [q.copy EXCEPT !.event = e] /\ Links(w, q, pc, e) =>
              Has(w, q.op, pc, q.at, c, q.before, q.stale)
         /\ \A pc \in Pcs, n \in 0..Full, c \in Row : c = [q.copy EXCEPT !.progress = n] /\ Rolls(w, q, pc, n) =>
              Has(w, q.op, pc, q.at, c, q.before, q.stale)
  <1>0. PICK op0 \in Ops, pc0 \in Pcs, at0 \in Ids, c0 \in Row, b0 \in Days, s0 \in BOOLEAN :
          op0 = q.op /\ pc0 = q.pc /\ at0 = q.at /\ c0 = q.copy /\ b0 = q.before /\ s0 = q.stale
    BY Fields
  <1>9. q = Made(op0, pc0, at0, c0, b0, s0) BY <1>0, Fields
  <1>1. ASSUME NEW pc \in Pcs, Stepped(w, q, pc)
        PROVE  Has(w, op0, pc, at0, c0, b0, s0)
    <2>1. w = Made(op0, pc, at0, c0, b0, s0) BY <1>9, <1>1, SteppedMade
    <2> QED BY <2>1, MadeHas
  <1>2. ASSUME NEW pc \in Pcs, NEW at \in Ids, Sent(w, q, pc, at)
        PROVE  Has(w, op0, pc, at, c0, b0, s0)
    <2>1. w = Made(op0, pc, at, c0, b0, s0) BY <1>9, <1>2, SentMade
    <2> QED BY <2>1, MadeHas
  <1>3. ASSUME NEW pc \in Pcs, NEW b \in BOOLEAN, Reread(w, q, pc, b)
        PROVE  Has(w, op0, pc, at0, c0, b0, b)
    <2>1. w = Made(op0, pc, at0, c0, b0, b) BY <1>9, <1>3, RereadMade
    <2> QED BY <2>1, MadeHas
  <1>4. ASSUME NEW b \in BOOLEAN, Outdated(w, q, b)
        PROVE  Has(w, op0, pc0, at0, c0, b0, b)
    <2>1. w = Made(op0, pc0, at0, c0, b0, b) BY <1>9, <1>4, OutdatedMade
    <2> QED BY <2>1, MadeHas
  <1>5. ASSUME NEW pc \in Pcs, NEW c \in Row, NEW b \in BOOLEAN, Loads(w, q, pc, c, b)
        PROVE  Has(w, op0, pc, at0, c, b0, b)
    <2>1. w = Made(op0, pc, at0, c, b0, b) BY <1>9, <1>5, LoadsMade
    <2> QED BY <2>1, MadeHas
  <1>6. ASSUME NEW pc \in Pcs, NEW e \in Events, NEW c \in Row, c = [c0 EXCEPT !.event = e], Links(w, q, pc, e)
        PROVE  Has(w, op0, pc, at0, c, b0, s0)
    <2>1. w = Made(op0, pc, at0, c, b0, s0) BY <1>9, <1>6, LinksMade
    <2> QED BY <2>1, MadeHas
  <1>7. ASSUME NEW pc \in Pcs, NEW n \in 0..Full, NEW c \in Row, c = [c0 EXCEPT !.progress = n], Rolls(w, q, pc, n)
        PROVE  Has(w, op0, pc, at0, c, b0, s0)
    <2>1. w = Made(op0, pc, at0, c, b0, s0) BY <1>9, <1>7, RollsMade
    <2> QED BY <2>1, MadeHas
  <1> QED BY <1>0, <1>1, <1>2, <1>3, <1>4, <1>5, <1>6, <1>7

(* The mean of numbers up to Full is one.                                  *)
LEMMA AtMostFull ==
  ASSUME NEW a \in Nat, NEW c \in Nat \ {0}, a <= c * Full
  PROVE  a \div c \in 0..Full
  <1>1. Full \in Nat BY FullAssumption
  <1>2. PICK k \in Int : k = a \div c OBVIOUS
  <1>3. c * k <= a /\ k >= 0 BY <1>2
  <1>4. ASSUME k > Full PROVE FALSE
    <2>1. PICK j \in Nat : k = Full + 1 + j BY <1>1, <1>4
    <2>2. c * k = c * Full + c + c * j BY <1>1, <2>1
    <2>3. c * j >= 0 /\ c * Full \in Nat BY <1>1
    <2> QED BY <1>3, <2>2, <2>3, <1>1
  <1> QED BY <1>1, <1>2, <1>3, <1>4

LEMMA MeanTyped ==
  ASSUME NEW table, NEW is \in SUBSET Issues, is # {}
  PROVE  MeanIn(table, is) \in 0..Full
  <1>1. IsFiniteSet(is) BY FiniteAssumption, FS_Subset
  <1>2. Full \in Nat BY FullAssumption
  <1>3. IsFiniteSet(1..Full) /\ Cardinality(1..Full) = Full BY <1>2, FS_Interval
  <1>4. PICK T : T = is \X (1..Full) OBVIOUS
  <1>5. IsFiniteSet(T) /\ Cardinality(T) = Cardinality(is) * Full BY <1>1, <1>3, <1>4, FS_Product
  <1>6. PICK S \in SUBSET T : S = {x \in is \X (1..Full) : x[2] <= table[x[1]].progress} BY <1>4
  <1>7. IsFiniteSet(S) /\ Cardinality(S) <= Cardinality(T) BY <1>5, FS_Subset
  <1>8. Cardinality(S) \in Nat /\ Cardinality(is) \in Nat /\ Cardinality(is) # 0
    BY <1>1, <1>7, FS_CardinalityType, FS_EmptySet
  <1> QED BY <1>5, <1>6, <1>7, <1>8, AtMostFull DEF MeanIn

-----------------------------------------------------------------------------
(***************************************************************************)
(* What a step of one request leaves of the others.                        *)
(***************************************************************************)
(* w is the request q, outdated maybe.                                     *)
Kept(w, q) == Has(w, q.op, q.pc, q.at, q.copy, q.before, w.stale) /\ (q.stale => w.stale)

(* Request r becomes w; those about an issue in the set T are outdated.    *)
Steps(r, w, T) ==
  /\ request' \in [Requests -> {Idle} \cup RequestRecord]
  /\ request'[r] = w
  /\ \A s \in Requests \ {r} :
       IF request[s] = Idle THEN request'[s] = Idle
       ELSE Kept(request'[s], request[s]) /\ (request[s].at \in T => request'[s].stale)

Near(i, row) == {i} \cup ParentOf(issue[i]) \cup ParentOf(row)

(* The rows of issues outside of T and of their subtasks stay.             *)
Untouched(T) ==
  \A p \in Issues \ T :
    /\ issue'[p] = issue[p]
    /\ Subtasks(p)' = Subtasks(p)
    /\ Mean(Subtasks(p))' = Mean(Subtasks(p))

(* Nothing that was there is forgotten.                                    *)
Grows ==
  /\ Known \subseteq Known'
  /\ \A e \in Events : event[e] # None => event'[e] # None /\ event'[e].issue = event[e].issue

Typed == issue \in [Issues -> {None} \cup Row] /\ request \in [Requests -> {Idle} \cup RequestRecord]

LEMMA KeptSame == \A q \in RequestRecord : Kept(q, q)
BY Fields DEF Kept, Has

LEMMA KeptOutdated == \A q \in RequestRecord : \A w : Outdated(w, q, TRUE) => Kept(w, q) /\ w.stale
  <1>1. ASSUME NEW q \in RequestRecord, NEW w, Outdated(w, q, TRUE)
        PROVE  Kept(w, q) /\ w.stale
    <2>1. TRUE \in BOOLEAN OBVIOUS
    <2>2. Has(w, q.op, q.pc, q.at, q.copy, q.before, TRUE) BY <1>1, <2>1, Changes
    <2> QED BY <2>2 DEF Has, Kept
  <1> QED BY <1>1

LEMMA GoesSteps ==
  ASSUME Typed, NEW r \in Requests, NEW w \in {Idle} \cup RequestRecord, Goes(r, w)
  PROVE  Steps(r, w, {})
  <1>1. request' \in [Requests -> {Idle} \cup RequestRecord] /\ request'[r] = w BY DEF Typed, Goes
  <1>2. ASSUME NEW s \in Requests \ {r}
        PROVE  IF request[s] = Idle THEN request'[s] = Idle ELSE Kept(request'[s], request[s])
    <2>1. request'[s] = request[s] BY DEF Typed, Goes
    <2>2. request[s] \in {Idle} \cup RequestRecord BY DEF Typed
    <2> QED BY <2>1, <2>2, KeptSame
  <1> QED BY <1>1, <1>2 DEF Steps

LEMMA WroteSteps ==
  ASSUME Typed, NEW r \in Requests, NEW w \in {Idle} \cup RequestRecord, NEW i \in Issues, NEW row, Wrote(r, w, i, row)
  PROVE  Steps(r, w, Near(i, row))
  <1>1. ASSUME NEW s \in Requests \ {r}
        PROVE  /\ request'[s] \in {Idle} \cup RequestRecord
               /\ IF request[s] = Idle THEN request'[s] = Idle
                  ELSE Kept(request'[s], request[s]) /\ (request[s].at \in Near(i, row) => request'[s].stale)
    <2>1. request[s] \in {Idle} \cup RequestRecord BY DEF Typed
    <2>2. CASE Uses(s, i, issue[i]) \/ Uses(s, i, row)
      <3>1. PICK w0 : w0 = request'[s] OBVIOUS
      <3>2. Outdated(w0, request[s], TRUE) BY <2>2, <3>1 DEF Wrote, Outdated
      <3>3. request[s] # Idle BY <2>2 DEF Uses
      <3>4. Kept(w0, request[s]) /\ w0.stale BY <2>1, <3>2, <3>3, KeptOutdated
      <3> QED BY <3>1, <3>3, <3>4 DEF Kept, Has
    <2>3. CASE ~(Uses(s, i, issue[i]) \/ Uses(s, i, row))
      <3>1. request'[s] = request[s] BY <2>3 DEF Wrote
      <3>2. request[s] # Idle => request[s].at \notin Near(i, row) BY <2>3 DEF Uses, Near
      <3> QED BY <2>1, <3>1, <3>2, KeptSame
    <2> QED BY <2>2, <2>3
  <1>2. request'[r] = w BY DEF Wrote
  <1>3. request' \in [Requests -> {Idle} \cup RequestRecord]
    <2>1. \A s \in Requests : request'[s] \in {Idle} \cup RequestRecord BY <1>1, <1>2
    <2>2. request' = [s \in Requests |-> request'[s]] BY DEF Wrote
    <2> QED BY <2>1, <2>2
  <1> QED BY <1>1, <1>2, <1>3 DEF Steps

LEMMA SameIssues ==
  ASSUME issue' = issue
  PROVE  Untouched({}) /\ Rows' = Rows
  <1>1. Rows' = Rows BY DEF Rows
  <1>2. \A p : Subtasks(p)' = Subtasks(p) BY <1>1 DEF Subtasks
  <1>3. \A p : Mean(Subtasks(p))' = Mean(Subtasks(p)) BY <1>2 DEF Mean, MeanIn
  <1> QED BY <1>1, <1>2, <1>3 DEF Untouched

LEMMA OneIssue ==
  ASSUME Typed, NEW i \in Issues, NEW row \in {None} \cup Row, issue' = [issue EXCEPT ![i] = row]
  PROVE  /\ Untouched(Near(i, row)) /\ issue' \in [Issues -> {None} \cup Row]
         /\ issue'[i] = row /\ \A j \in Issues \ {i} : issue'[j] = issue[j]
         /\ Rows' \subseteq Rows \cup {i} /\ Rows \ {i} \subseteq Rows'
  <1>1. /\ issue' \in [Issues -> {None} \cup Row] /\ issue'[i] = row
        /\ \A j \in Issues \ {i} : issue'[j] = issue[j]
    BY DEF Typed
  <1>2. ASSUME NEW p \in Issues \ Near(i, row)
        PROVE  /\ issue'[p] = issue[p] /\ Subtasks(p)' = Subtasks(p)
               /\ Mean(Subtasks(p))' = Mean(Subtasks(p))
    <2>1. p # i /\ p # None BY NoneAssumption DEF Near
    <2>2. ~(issue[i] # None /\ issue[i].parent = p) /\ ~(row # None /\ row.parent = p)
      BY <2>1 DEF Near, ParentOf
    <2>3. \A j \in Issues : j \in Subtasks(p)' <=> j \in Subtasks(p)
      <3>1. ASSUME NEW j \in Issues PROVE j \in Subtasks(p)' <=> j \in Subtasks(p)
        <4>1. CASE j = i BY <1>1, <2>2, <4>1 DEF Subtasks, Rows
        <4>2. CASE j # i BY <1>1, <4>2 DEF Subtasks, Rows
        <4> QED BY <4>1, <4>2
      <3> QED BY <3>1
    <2>4. Subtasks(p)' = Subtasks(p) BY <2>3 DEF Subtasks, Rows
    <2>5. PICK is \in SUBSET Issues : is = Subtasks(p) BY DEF Subtasks, Rows
    <2>6. \A j \in is : issue'[j] = issue[j] BY <1>1, <2>2, <2>5 DEF Subtasks, Rows
    <2>7. {x \in is \X (1..Full) : x[2] <= issue'[x[1]].progress} = {x \in is \X (1..Full) : x[2] <= issue[x[1]].progress}
      <3>1. \A x \in is \X (1..Full) : issue'[x[1]] = issue[x[1]] BY <2>6
      <3> QED BY <3>1
    <2>8. MeanIn(issue', is) = MeanIn(issue, is) BY <2>7 DEF MeanIn
    <2>9. Mean(Subtasks(p))' = MeanIn(issue', is) BY <2>4, <2>5 DEF Mean
    <2> QED BY <1>1, <2>1, <2>4, <2>5, <2>8, <2>9 DEF Mean
  <1>3. Rows' \subseteq Rows \cup {i} /\ Rows \ {i} \subseteq Rows' BY <1>1 DEF Rows
  <1> QED BY <1>1, <1>2, <1>3 DEF Untouched

-----------------------------------------------------------------------------
(* The requests of others stay as good as they were.                       *)
LEMMA FitsKept ==
  ASSUME NEW q \in RequestRecord, NEW w, Kept(w, q), Fits(q), Grows
  PROVE  Fits(w)'
  <1>1. w.op = q.op /\ w.pc = q.pc /\ w.at = q.at /\ w.copy = q.copy BY DEF Kept, Has
  <1>2. PICK op0 \in Ops, pc0 \in Pcs, at0 \in Ids, c0 \in Row : op0 = q.op /\ pc0 = q.pc /\ at0 = q.at /\ c0 = q.copy BY Fields
  <1>3. c0.event # None => c0.event \in Events BY RowFields
  <1>4. \A x : x \in Known => x \in Known' BY DEF Grows
  <1>5. c0.event # None => event'[c0.event] # None /\ (pc0 # "parent" => event'[c0.event].issue = at0)
    BY <1>2, <1>3 DEF Fits, Grows
  <1>6. op0 = "move" => \E e \in Events : event'[e] # None /\ event'[e].issue = at0
    BY <1>2 DEF Fits, Grows
  <1> QED BY <1>1, <1>2, <1>4, <1>5, <1>6 DEF Fits

LEMMA AgreesKept ==
  ASSUME NEW q \in RequestRecord, NEW w, NEW T, Kept(w, q), Fits(q), q.pc \in Loaded, Agrees(q), q.at \notin T, Untouched(T)
  PROVE  Agrees(w)'
  <1>1. q.at \in Issues \ T BY DEF Fits, Loaded, Filing
  <1>2. issue'[q.at] = issue[q.at] /\ Mean(Subtasks(q.at))' = Mean(Subtasks(q.at)) BY <1>1 DEF Untouched
  <1>3. w.op = q.op /\ w.pc = q.pc /\ w.at = q.at /\ w.copy = q.copy /\ w.before = q.before BY DEF Kept, Has
  <1>4. Mean(Subtasks(w.at))' = Mean(Subtasks(q.at)) BY <1>2, <1>3
  <1> QED BY <1>2, <1>3, <1>4 DEF Agrees

OwnOK(w) == w # Idle => Fits(w) /\ (w.pc \in Loaded /\ ~w.stale => Agrees(w))

LEMMA RequestsKept ==
  ASSUME Typed, RequestsOK, NEW r \in Requests, NEW w, NEW T, Steps(r, w, T), Untouched(T), Grows, OwnOK(w)'
  PROVE  RequestsOK'
  <1>1. ASSUME NEW s \in Requests, NEW v, v = request'[s], v # Idle
        PROVE  Fits(v)' /\ (v.pc \in Loaded /\ ~v.stale => Agrees(v)')
    <2>1. CASE s = r
      <3>1. v = w BY <1>1, <2>1 DEF Steps
      <3> QED BY <3>1, <1>1 DEF OwnOK
    <2>2. CASE s # r
      <3>1. request[s] # Idle /\ Kept(v, request[s]) /\ (request[s].at \in T => v.stale) BY <1>1, <2>2 DEF Steps
      <3>2. PICK q \in RequestRecord : q = request[s] BY <3>1 DEF Typed
      <3>3. s \in Busy BY <3>1 DEF Busy
      <3>4. Fits(q) /\ (q.pc \in Loaded /\ ~q.stale => Agrees(q)) BY <3>2, <3>3 DEF RequestsOK
      <3>5. Fits(v)' BY <3>1, <3>2, <3>4, FitsKept
      <3>6. ASSUME v.pc \in Loaded, ~v.stale PROVE Agrees(v)'
        <4>1. q.pc \in Loaded /\ ~q.stale /\ q.at \notin T BY <3>1, <3>2, <3>6 DEF Kept, Has
        <4> QED BY <4>1, <3>1, <3>2, <3>4, AgreesKept
      <3> QED BY <3>5, <3>6
    <2> QED BY <2>1, <2>2
  <1>2. request' \in [Requests -> {Idle} \cup RequestRecord] BY DEF Steps
  <1>3. \A s \in Busy' : Fits(request[s])'
    <2>1. ASSUME NEW s \in Busy' PROVE Fits(request[s])'
      <3>1. PICK v : v = request'[s] OBVIOUS
      <3>2. s \in Requests /\ v # Idle BY <2>1, <3>1 DEF Busy
      <3>3. Fits(v)' BY <1>1, <3>1, <3>2
      <3> QED BY <3>1, <3>3 DEF Fits
    <2> QED BY <2>1
  <1>4. \A s \in Busy' : request'[s].pc \in Loaded /\ ~request'[s].stale => Agrees(request[s])'
    <2>1. ASSUME NEW s \in Busy', request'[s].pc \in Loaded, ~request'[s].stale PROVE Agrees(request[s])'
      <3>1. PICK v : v = request'[s] OBVIOUS
      <3>2. s \in Requests /\ v # Idle BY <2>1, <3>1 DEF Busy
      <3>3. Agrees(v)' BY <1>1, <2>1, <3>1, <3>2
      <3> QED BY <3>1, <3>3 DEF Agrees
    <2> QED BY <2>1
  <1> QED BY <1>2, <1>3, <1>4 DEF RequestsOK

-----------------------------------------------------------------------------
(* Who climbs, moves an event, links or files one still does.              *)
LEMMA ClimberKept ==
  ASSUME Typed, NEW r \in Requests, NEW w, NEW T, Steps(r, w, T), NEW s \in Requests \ {r}, NEW p,
         request[s] # Idle, request[s].pc \in Climbing, request[s].at = p
  PROVE  Climber(p)'
  <1>1. request'[s] # Idle /\ request'[s].pc = request[s].pc /\ request'[s].at = p BY DEF Steps, Kept, Has
  <1> QED BY <1>1 DEF Climber, Busy

LEMMA ClimberNow ==
  ASSUME NEW r \in Requests, NEW w, NEW T, Steps(r, w, T), NEW p, w # Idle, w.pc \in Climbing, w.at = p
  PROVE  Climber(p)'
BY DEF Steps, Climber, Busy

LEMMA MoverKept ==
  ASSUME Typed, NEW r \in Requests, NEW w, NEW T, Steps(r, w, T), NEW s \in Requests \ {r}, NEW j \in Issues,
         request[s] # Idle, request[s].at = j, Moves(request[s], j),
         issue'[j].event = issue[j].event, issue'[j].date = issue[j].date
  PROVE  Mover(j)'
  <1>1. PICK q \in RequestRecord : q = request[s] BY DEF Typed
  <1>2. PICK v : v = request'[s] OBVIOUS
  <1>3. Kept(v, q) BY <1>1, <1>2 DEF Steps
  <1>4. v # Idle /\ v.op = q.op /\ v.pc = q.pc /\ v.at = q.at /\ v.copy = q.copy /\ v.before = q.before /\ (q.stale => v.stale)
    BY <1>3 DEF Kept, Has
  <1>5. v.at = j /\ Moves(v, j)' BY <1>1, <1>4 DEF Moves, Rereads
  <1> QED BY <1>2, <1>4, <1>5 DEF Mover, Busy, Moves, Rereads

LEMMA MoverNow ==
  ASSUME NEW r \in Requests, NEW w, NEW T, Steps(r, w, T), NEW j, w # Idle, w.at = j, Moves(w, j)'
  PROVE  Mover(j)'
BY DEF Steps, Mover, Busy, Moves, Rereads

LEMMA FilerKept ==
  ASSUME Typed, NEW r \in Requests, NEW w, NEW T, Steps(r, w, T), NEW s \in Requests \ {r}, NEW j \in Issues,
         request[s] # Idle, request[s].at = j, Files(request[s], j), issue'[j].date = issue[j].date
  PROVE  Filer(j)'
  <1>1. PICK q \in RequestRecord : q = request[s] BY DEF Typed
  <1>2. PICK v : v = request'[s] OBVIOUS
  <1>3. Kept(v, q) BY <1>1, <1>2 DEF Steps
  <1>4. v # Idle /\ v.op = q.op /\ v.pc = q.pc /\ v.at = q.at /\ v.before = q.before BY <1>3 DEF Kept, Has
  <1>5. v.at = j /\ Files(v, j)' BY <1>1, <1>4 DEF Files, Rereads
  <1> QED BY <1>2, <1>4, <1>5 DEF Filer, Busy, Files, Rereads

LEMMA FilerNow ==
  ASSUME NEW r \in Requests, NEW w, NEW T, Steps(r, w, T), NEW j, w # Idle, w.at = j, Files(w, j)'
  PROVE  Filer(j)'
BY DEF Steps, Filer, Busy, Files, Rereads

LEMMA LinkerKept ==
  ASSUME Typed, NEW r \in Requests, NEW w, NEW T, Steps(r, w, T), NEW s \in Requests \ {r}, NEW j, NEW e,
         request[s] # Idle, request[s].pc = "link", request[s].at = j, request[s].copy.event = e
  PROVE  Linker(j, e)'
  <1>1. request'[s] # Idle /\ request'[s].pc = "link" /\ request'[s].at = j /\ request'[s].copy.event = e
    BY DEF Steps, Kept, Has
  <1> QED BY <1>1 DEF Linker, Busy

LEMMA LinkerNow ==
  ASSUME NEW r \in Requests, NEW w, NEW T, Steps(r, w, T), NEW j, NEW e, w # Idle, w.pc = "link", w.at = j, w.copy.event = e
  PROVE  Linker(j, e)'
BY DEF Steps, Linker, Busy

-----------------------------------------------------------------------------
(***************************************************************************)
(* The parts of the invariant under a step of request r.                   *)
(***************************************************************************)
LEMMA RolledKept ==
  ASSUME Typed, RolledOK, NEW r \in Requests, NEW w, NEW T, Steps(r, w, T), Untouched(T),
         Known \subseteq Known', drifted \subseteq drifted' \cup T,
         \A p \in Issues \cap T : RolledAt(p)' /\ BornAt(p)',
         \A p \in Issues : request[r] # Idle /\ request[r].pc \in Climbing /\ request[r].at = p => RolledAt(p)'
  PROVE  RolledOK'
  <1>1. ASSUME NEW p \in Issues \ T
        PROVE  RolledAt(p)' /\ BornAt(p)'
    <2>1. /\ issue'[p] = issue[p] /\ Subtasks(p)' = Subtasks(p) /\ Mean(Subtasks(p))' = Mean(Subtasks(p))
      BY <1>1 DEF Untouched
    <2>2. p \in Rows' <=> p \in Rows BY <2>1 DEF Rows
    <2>3. p \in drifted => p \in drifted' BY <1>1
    <2>4. RolledAt(p) /\ BornAt(p) BY <1>1 DEF RolledOK
    <2>5. BornAt(p)' BY <2>1, <2>3, <2>4, <1>1 DEF BornAt
    <2>6. CASE request[r] # Idle /\ request[r].pc \in Climbing /\ request[r].at = p
      BY <1>1, <2>5, <2>6
    <2>7. CASE ~(request[r] # Idle /\ request[r].pc \in Climbing /\ request[r].at = p)
      <3>1. ASSUME Climber(p) PROVE Climber(p)'
        <4>1. PICK s \in Requests \ {r} : request[s] # Idle /\ request[s].pc \in Climbing /\ request[s].at = p
          BY <2>7, <3>1 DEF Climber, Busy
        <4> QED BY <4>1, ClimberKept
      <3> QED BY <2>1, <2>2, <2>3, <2>4, <2>5, <3>1 DEF RolledAt
    <2> QED BY <2>6, <2>7
  <1> QED BY <1>1 DEF RolledOK

LEMMA IdsKept ==
  ASSUME Typed, IdsOK, NEW r \in Requests, NEW w, NEW T, Steps(r, w, T), Free' = Free,
         w # Idle /\ w.pc \in {"newGroup", "insert"} => r \in Inserting
  PROVE  IdsOK'
  <1>1. Inserting' \subseteq Inserting
    <2>1. ASSUME NEW s \in Inserting' PROVE s \in Inserting
      <3>1. CASE s = r BY <2>1, <3>1 DEF Inserting, Steps
      <3>2. CASE s # r BY <2>1, <3>2 DEF Inserting, Steps, Kept, Has
      <3> QED BY <3>1, <3>2
    <2> QED BY <2>1
  <1>2. IsFiniteSet(Inserting) BY FiniteAssumption, FS_Subset DEF Inserting
  <1>3. IsFiniteSet(Free) BY FiniteAssumption, FS_Subset DEF Free
  <1>4. PICK S, S2 : S = Inserting /\ S2 = Inserting' OBVIOUS
  <1>5. Cardinality(S2) <= Cardinality(S) /\ Cardinality(S2) \in Nat /\ Cardinality(S) \in Nat
    BY <1>1, <1>2, <1>4, FS_Subset, FS_CardinalityType
  <1>6. PICK n \in Nat : n = Cardinality(Free) BY <1>3, FS_CardinalityType
  <1> QED BY <1>4, <1>5, <1>6 DEF IdsOK

LEMMA LinkedNowhere ==
  ASSUME Typed, RequestsOK, RowsOK, NEW t \in Busy, request[t].pc = "link", ~request[t].stale, NEW j \in Rows
  PROVE  issue[j].event # request[t].copy.event
  <1>1. PICK q \in RequestRecord : q = request[t] BY DEF Typed, Busy
  <1>2. Fits(q) /\ Agrees(q) BY <1>1 DEF RequestsOK, Loaded
  <1>3. q.copy.event # None /\ event[q.copy.event].issue = q.at /\ issue[q.at].event = None BY <1>1, <1>2 DEF Fits, Agrees
  <1> QED BY <1>1, <1>3 DEF RowsOK

LEMMA LinksKept ==
  ASSUME Typed, RequestsOK, RowsOK, LinksOK, NEW r \in Requests, NEW w, NEW T, Steps(r, w, T),
         \A t \in Busy \ {r} : request[t].pc = "link" /\ ~request[t].stale =>
           event'[request[t].copy.event] = event[request[t].copy.event],
         w # Idle => w.pc # "link",
         w # Idle => \/ w.copy.event = None
                     \/ r \in Busy /\ w.copy.event = request[r].copy.event
                     \/ \E j \in Rows : w.copy.event = issue[j].event
  PROVE  LinksOK'
  <1>1. ASSUME NEW t \in Busy', request'[t].pc = "link", ~request'[t].stale
        PROVE  /\ event'[request'[t].copy.event].date = request'[t].copy.date
               /\ \A s \in Busy' \ {t} : request'[s].copy.event # request'[t].copy.event
    <2>1. t \in Requests /\ request'[t] # Idle BY <1>1 DEF Busy
    <2>2. t # r BY <1>1, <2>1 DEF Steps
    <2>3. t \in Busy /\ Kept(request'[t], request[t]) BY <2>1, <2>2 DEF Steps, Busy
    <2>4. PICK q \in RequestRecord : q = request[t] BY <2>3 DEF Busy, Typed
    <2>5. q.pc = "link" /\ ~q.stale /\ request'[t].copy = q.copy BY <1>1, <2>3, <2>4 DEF Kept, Has
    <2>6. event'[q.copy.event].date = q.copy.date BY <2>2, <2>3, <2>4, <2>5 DEF LinksOK
    <2>7. q.copy.event # None BY <2>3, <2>4, <2>5 DEF RequestsOK, Fits
    <2>8. ASSUME NEW s \in Busy' \ {t} PROVE request'[s].copy.event # q.copy.event
      <3>1. s \in Requests /\ request'[s] # Idle BY <2>8 DEF Busy
      <3>2. CASE s = r
        <4>1. request'[s] = w BY <3>2 DEF Steps
        <4>2. ASSUME r \in Busy PROVE request[r].copy.event # q.copy.event
          BY <2>2, <2>3, <2>4, <2>5, <4>2 DEF LinksOK
        <4>3. \A j \in Rows : issue[j].event # q.copy.event BY <2>3, <2>4, <2>5, LinkedNowhere
        <4> QED BY <4>1, <4>2, <4>3, <2>7, <3>1
      <3>3. CASE s # r
        <4>1. s \in Busy /\ request'[s].copy = request[s].copy BY <3>1, <3>3 DEF Steps, Busy, Kept, Has
        <4> QED BY <4>1, <2>3, <2>4, <2>5, <2>8 DEF LinksOK
      <3> QED BY <3>2, <3>3
    <2> QED BY <2>5, <2>6, <2>8
  <1> QED BY <1>1 DEF LinksOK

LEMMA FollowedKept ==
  ASSUME Typed, RowsOK, FollowedOK, NEW r \in Requests, NEW w, NEW T, Steps(r, w, T), NEW i \in Ids,
         request[r] # Idle /\ request[r].pc \in Correcting => request[r].at = i,
         \A j \in Issues \ {i} : issue'[j] = issue[j],
         \A e \in Events : event'[e] # event[e] =>
           event'[e] # None /\ event'[e].issue = i /\ (event[e] # None => event[e].issue = i),
         raced \subseteq raced', undated \subseteq undated',
         i \in Rows' \ raced' => Dated(i)' /\ Linked(i)' /\ Filed(i)'
  PROVE  FollowedOK'
  <1>1. ASSUME NEW j \in Rows' \ raced', j # i
        PROVE  Dated(j)' /\ Linked(j)' /\ Filed(j)'
    <2>1. j \in Issues /\ issue'[j] = issue[j] /\ j \in Rows \ raced BY <1>1 DEF Rows
    <2>2. Dated(j) /\ Linked(j) /\ Filed(j) BY <2>1 DEF FollowedOK
    <2>3. issue[j] \in Row BY <2>1 DEF Typed, Rows
    <2>4. issue[j].event # None => issue[j].event \in Events BY <2>3, RowFields
    <2>5. Dated(j)'
      <3>1. ASSUME issue[j].event # None
            PROVE  event'[issue[j].event].date = issue[j].date \/ Mover(j)'
        <4>1. event[issue[j].event] # None /\ event[issue[j].event].issue = j BY <2>1, <3>1 DEF RowsOK
        <4>2. event'[issue[j].event] = event[issue[j].event] BY <1>1, <2>4, <3>1, <4>1
        <4>3. CASE Mover(j)
          <5>1. PICK s \in Busy : request[s].at = j /\ Moves(request[s], j) BY <4>3 DEF Mover
          <5>2. request[s] # Idle /\ s \in Requests BY DEF Busy
          <5>3. request[s].pc \in Correcting BY <5>1 DEF Moves, Rereads, Correcting
          <5>4. s # r BY <1>1, <5>1, <5>2, <5>3
          <5> QED BY <2>1, <5>1, <5>2, <5>4, MoverKept
        <4> QED BY <2>2, <3>1, <4>2, <4>3 DEF Dated
      <3> QED BY <2>1, <3>1 DEF Dated
    <2>6. Linked(j)'
      <3>1. ASSUME NEW e \in Events, event'[e] # None, event'[e].issue = j
            PROVE  issue[j].event = e \/ Linker(j, e)'
        <4>1. event'[e] = event[e] BY <1>1, <3>1
        <4>2. CASE Linker(j, e)
          <5>1. PICK s \in Busy : request[s].pc = "link" /\ request[s].at = j /\ request[s].copy.event = e BY <4>2 DEF Linker
          <5>2. request[s] # Idle /\ s \in Requests BY DEF Busy
          <5>3. s # r BY <1>1, <5>1, <5>2 DEF Correcting
          <5> QED BY <5>1, <5>2, <5>3, LinkerKept
        <4> QED BY <2>2, <3>1, <4>1, <4>2 DEF Linked
      <3> QED BY <2>1, <3>1 DEF Linked
    <2>7. Filed(j)'
      <3>1. CASE Filer(j)
        <4>1. PICK s \in Busy : request[s].at = j /\ Files(request[s], j) BY <3>1 DEF Filer
        <4>2. request[s] # Idle /\ s \in Requests BY DEF Busy
        <4>3. request[s].pc \in Correcting BY <4>1 DEF Files, Rereads, Correcting
        <4>4. s # r BY <1>1, <4>1, <4>2, <4>3
        <4>5. Filer(j)' BY <2>1, <4>1, <4>2, <4>4, FilerKept
        <4> QED BY <4>5 DEF Filed
      <3>2. CASE ~Filer(j)
        BY <2>1, <2>2, <3>2 DEF Filed
      <3> QED BY <3>1, <3>2
    <2> QED BY <2>5, <2>6, <2>7
  <1> QED BY <1>1 DEF FollowedOK

-----------------------------------------------------------------------------
(***************************************************************************)
(* A step that leaves the rows and the events as they are.                 *)
(***************************************************************************)
LEMMA SameOwn ==
  ASSUME issue' = issue, event' = event, removed' = removed, NEW w, OwnOK(w)
  PROVE  OwnOK(w)'
  <1>1. Known' = Known BY DEF Known, Rows
  <1>2. Mean(Subtasks(w.at))' = Mean(Subtasks(w.at)) BY DEF Mean, MeanIn, Subtasks, Rows
  <1>3. Fits(w) => Fits(w)' BY <1>1 DEF Fits
  <1>4. Agrees(w) => Agrees(w)' BY <1>2 DEF Agrees
  <1> QED BY <1>3, <1>4 DEF OwnOK

LEMMA StayKeeps ==
  ASSUME IssuesInv, NEW r \in Requests, NEW w \in {Idle} \cup RequestRecord, Goes(r, w),
         issue' = issue, event' = event, removed' = removed,
         groups' \in Nat, calendars' \in Nat, starts' \in 0..MaxStarts,
         undated \subseteq undated', drifted \subseteq drifted', raced \subseteq raced',
         undated' \subseteq Issues, drifted' \subseteq Issues, raced' \subseteq Issues,
         OwnOK(w), IdsOK',
         w # Idle => /\ w.pc # "link"
                     /\ \/ w.copy.event = None
                        \/ r \in Busy /\ w.copy.event = request[r].copy.event
                        \/ \E j \in Rows : w.copy.event = issue[j].event,
         \A p \in Issues : request[r] # Idle /\ request[r].pc \in Climbing /\ request[r].at = p => RolledAt(p)',
         NEW i \in Ids,
         request[r] # Idle /\ request[r].pc \in Correcting => request[r].at = i,
         i \in Rows \ raced' => Dated(i)' /\ Linked(i)' /\ Filed(i)'
  PROVE  IssuesInv'
  <1>1. Typed BY DEF IssuesInv, RequestsOK, TypeOK, Typed
  <1>2. Steps(r, w, {}) BY <1>1, GoesSteps
  <1>3. Untouched({}) /\ Rows' = Rows BY SameIssues
  <1>4. Grows BY <1>3 DEF Grows, Known
  <1>5. TypeOK' BY <1>2 DEF IssuesInv, TypeOK, Steps
  <1>6. OwnOK(w)' BY SameOwn
  <1>7. RequestsOK' BY <1>1, <1>2, <1>3, <1>4, <1>6, RequestsKept DEF IssuesInv
  <1>8. RowsOK' BY <1>3 DEF IssuesInv, RowsOK, Known
  <1>9. LinksOK' BY <1>1, <1>2, LinksKept DEF IssuesInv
  <1>10. RolledOK' BY <1>1, <1>2, <1>3, <1>4, RolledKept DEF IssuesInv, Grows
  <1>11. FollowedOK' BY <1>1, <1>2, <1>3, FollowedKept DEF IssuesInv
  <1> QED BY <1>5, <1>7, <1>8, <1>9, <1>10, <1>11 DEF IssuesInv

LEMMA StayIds ==
  ASSUME IssuesInv, NEW r \in Requests, NEW w \in {Idle} \cup RequestRecord, Goes(r, w),
         issue' = issue, removed' = removed,
         w # Idle /\ w.pc \in {"newGroup", "insert"} => r \in Inserting
  PROVE  IdsOK'
  <1>1. Typed BY DEF IssuesInv, RequestsOK, TypeOK, Typed
  <1>2. Steps(r, w, {}) BY <1>1, GoesSteps
  <1>3. Free' = Free BY DEF Free, Rows
  <1> QED BY <1>1, <1>2, <1>3, IdsKept DEF IssuesInv

(* What is right of an issue stays right when the step is not about it.    *)
LEMMA StayFollowed ==
  ASSUME IssuesInv, NEW r \in Requests, NEW w \in {Idle} \cup RequestRecord, Goes(r, w),
         issue' = issue, event' = event, raced \subseteq raced', undated \subseteq undated',
         NEW j \in Rows \ raced'
  PROVE  /\ ~(request[r] # Idle /\ request[r].at = j /\ Moves(request[r], j)) => Dated(j)'
         /\ ~(request[r] # Idle /\ request[r].at = j /\ request[r].pc = "link") => Linked(j)'
         /\ ~(request[r] # Idle /\ request[r].at = j /\ Files(request[r], j)) => Filed(j)'
  <1>1. Typed BY DEF IssuesInv, RequestsOK, TypeOK, Typed
  <1>2. Steps(r, w, {}) BY <1>1, GoesSteps
  <1>3. j \in Rows \ raced /\ j \in Issues BY DEF Rows
  <1>4. Dated(j) /\ Linked(j) /\ Filed(j) BY <1>3 DEF IssuesInv, FollowedOK
  <1>5. ASSUME ~(request[r] # Idle /\ request[r].at = j /\ Moves(request[r], j)) PROVE Dated(j)'
    <2>1. CASE Mover(j)
      <3>1. PICK s \in Busy : request[s].at = j /\ Moves(request[s], j) BY <2>1 DEF Mover
      <3>2. s \in Requests \ {r} /\ request[s] # Idle BY <1>5, <3>1 DEF Busy
      <3>3. Mover(j)' BY <1>1, <1>2, <1>3, <3>1, <3>2, MoverKept
      <3> QED BY <3>3 DEF Dated
    <2>2. CASE ~Mover(j) BY <1>4, <2>2 DEF Dated
    <2> QED BY <2>1, <2>2
  <1>6. ASSUME ~(request[r] # Idle /\ request[r].at = j /\ request[r].pc = "link") PROVE Linked(j)'
    <2>1. ASSUME NEW e \in Events, Linker(j, e) PROVE Linker(j, e)'
      <3>1. PICK s \in Busy : request[s].pc = "link" /\ request[s].at = j /\ request[s].copy.event = e BY <2>1 DEF Linker
      <3>2. s \in Requests \ {r} /\ request[s] # Idle BY <1>6, <3>1 DEF Busy
      <3> QED BY <1>1, <1>2, <3>1, <3>2, LinkerKept
    <2> QED BY <1>4, <2>1 DEF Linked
  <1>7. ASSUME ~(request[r] # Idle /\ request[r].at = j /\ Files(request[r], j)) PROVE Filed(j)'
    <2>1. CASE Filer(j)
      <3>1. PICK s \in Busy : request[s].at = j /\ Files(request[s], j) BY <2>1 DEF Filer
      <3>2. s \in Requests \ {r} /\ request[s] # Idle BY <1>7, <3>1 DEF Busy
      <3>3. Filer(j)' BY <1>1, <1>2, <1>3, <3>1, <3>2, FilerKept
      <3> QED BY <3>3 DEF Filed
    <2>2. CASE ~Filer(j) BY <1>4, <2>2 DEF Filed
    <2> QED BY <2>1, <2>2
  <1> QED BY <1>5, <1>6, <1>7

-----------------------------------------------------------------------------
(***************************************************************************)
(* A request begins.                                                       *)
(***************************************************************************)
LEMMA StartIds ==
  ASSUME IssuesInv, NEW r \in Requests, request[r] = Idle, NEW w \in RequestRecord, Goes(r, w),
         issue' = issue, removed' = removed, HasId
  PROVE  IdsOK'
  <1>1. Typed BY DEF IssuesInv, RequestsOK, TypeOK, Typed
  <1>2. Free' = Free BY DEF Free, Rows
  <1>3. Inserting' \subseteq Inserting \cup {r} BY <1>1 DEF Inserting, Goes, Typed
  <1>4. IsFiniteSet(Inserting) BY FiniteAssumption, FS_Subset DEF Inserting
  <1>5. r \notin Inserting BY DEF Inserting
  <1>6. IsFiniteSet(Inserting \cup {r}) /\ Cardinality(Inserting \cup {r}) = Cardinality(Inserting) + 1
    BY <1>4, <1>5, FS_AddElement
  <1>7. PICK S, S2 : S = Inserting \cup {r} /\ S2 = Inserting' OBVIOUS
  <1>8. Cardinality(S2) <= Cardinality(S) /\ Cardinality(S2) \in Nat BY <1>3, <1>6, <1>7, FS_Subset, FS_CardinalityType
  <1>9. IsFiniteSet(Free) BY FiniteAssumption, FS_Subset DEF Free
  <1>10. Cardinality(Free) \in Nat /\ Cardinality(Inserting) \in Nat BY <1>4, <1>9, FS_CardinalityType
  <1>11. Cardinality(S2) <= Cardinality(Free) BY <1>6, <1>7, <1>8, <1>10 DEF HasId
  <1> QED BY <1>2, <1>7, <1>11 DEF IdsOK

LEMMA StartKeeps ==
  ASSUME IssuesInv, NEW r \in Requests, NEW w \in RequestRecord, Starts(r, w), OwnOK(w),
         w.pc # "link", w.copy.event = None \/ (\E j \in Rows : w.copy.event = issue[j].event),
         w.pc \in {"newGroup", "insert"} => HasId
  PROVE  IssuesInv'
  <1>1. /\ request[r] = Idle /\ Goes(r, w) /\ issue' = issue /\ event' = event /\ removed' = removed
        /\ groups' = groups /\ calendars' = calendars
        /\ undated' = undated /\ drifted' = drifted /\ raced' = raced
    BY DEF Starts, rows, history
  <1>2. groups \in Nat /\ calendars \in Nat /\ undated \subseteq Issues /\ drifted \subseteq Issues /\ raced \subseteq Issues
    BY DEF IssuesInv, TypeOK
  <1>3. starts' \in 0..MaxStarts BY FullAssumption DEF IssuesInv, TypeOK, Starts
  <1>4. IdsOK'
    <2>1. CASE w.pc \in {"newGroup", "insert"} BY <2>1, <1>1, StartIds
    <2>2. CASE w.pc \notin {"newGroup", "insert"} BY <2>2, <1>1, StayIds
    <2> QED BY <2>1, <2>2
  <1>5. None \in Ids /\ None \notin Rows BY NoneAssumption DEF Ids, Rows
  <1> QED BY <1>1, <1>2, <1>3, <1>4, <1>5, StayKeeps

LEMMA RequestMade ==
  ASSUME NEW op \in Ops, NEW pc \in Pcs, NEW at \in Ids, NEW c \in Row
  PROVE  \A w : w = Request(op, pc, at, c) => Has(w, op, pc, at, c, c.date, FALSE)
  <1>1. PICK d \in Days : d = c.date BY RowFields
  <1>2. FALSE \in BOOLEAN OBVIOUS
  <1>3. \A w : w = Made(op, pc, at, c, d, FALSE) => Has(w, op, pc, at, c, d, FALSE) BY <1>2, MadeHas
  <1> QED BY <1>1, <1>3 DEF Request, Made

(* What a row names.                                                       *)
LEMMA RowKnows ==
  ASSUME IssuesInv, NEW i \in Rows
  PROVE  /\ i \in Issues /\ i \in Known /\ issue[i] \in Row
         /\ issue[i].date = None => issue[i].event = None
         /\ issue[i].event # None => event[issue[i].event] # None /\ event[issue[i].event].issue = i
BY DEF IssuesInv, TypeOK, RowsOK, Rows, Known

(* A request that loaded a row and starts at save or remove.               *)
LEMMA LoadedStarts ==
  ASSUME IssuesInv, NEW r \in Requests, NEW i \in Rows, NEW op \in Ops, NEW pc \in {"save", "remove"},
         NEW c \in Row, NEW b \in Days, NEW w, Has(w, op, pc, i, c, b, FALSE), Starts(r, w),
         c.event = issue[i].event, c.date = None => issue[i].date = None,
         op = "update" => b = issue[i].date,
         op = "move" => \E e \in Events : event[e] # None /\ event[e].issue = i,
         pc = "save" => /\ op \in {"update", "touch", "progress", "move"}
                        /\ op = "update" \/ c.parent = issue[i].parent
                        /\ op \in {"update", "progress"} \/ c.progress = issue[i].progress
                        /\ op \in {"update", "move"} \/ c.date = issue[i].date,
         pc = "remove" => /\ op \in {"remove", "removeSubtask"} /\ c = issue[i]
                          /\ op = "removeSubtask" => c.parent # None
  PROVE  IssuesInv'
  <1>1. /\ w \in RequestRecord /\ w # Idle /\ w.op = op /\ w.pc = pc /\ w.at = i /\ w.copy = c
        /\ w.before = b /\ ~w.stale
    BY DEF Has
  <1>2. i \in Issues /\ i \in Known /\ issue[i] # None BY RowKnows DEF Rows
  <1>3. /\ c.date = None => c.event = None
        /\ c.event # None => event[c.event] # None /\ event[c.event].issue = i
    BY RowKnows
  <1>4. CASE pc = "save"
    <2>1. Fits(w) BY <1>1, <1>2, <1>3, <1>4 DEF Fits, Filing, Climbing
    <2>2. Agrees(w) BY <1>1, <1>2, <1>4 DEF Agrees
    <2> QED BY <1>1, <1>4, <2>1, <2>2, StartKeeps DEF OwnOK
  <1>5. CASE pc = "remove"
    <2>1. Fits(w) BY <1>1, <1>2, <1>3, <1>5 DEF Fits, Filing, Climbing
    <2>2. Agrees(w) BY <1>1, <1>2, <1>5 DEF Agrees
    <2> QED BY <1>1, <1>5, <2>1, <2>2, StartKeeps DEF OwnOK
  <1> QED BY <1>4, <1>5

LEMMA TouchStarts ==
  ASSUME IssuesInv, NEW r \in Requests, TouchIssue(r)
  PROVE  IssuesInv'
  <1>1. PICK i \in Rows : Starts(r, Request("touch", "save", i, issue[i])) BY DEF TouchIssue
  <1>2. PICK c \in Row : c = issue[i] BY RowKnows
  <1>3. PICK op \in Ops, pc \in Pcs : op = "touch" /\ pc = "save" BY DEF Ops, Pcs
  <1>4. PICK w : w = Request(op, pc, i, c) OBVIOUS
  <1>5. i \in Ids /\ c.date \in Days BY <1>2, RowKnows, RowFields DEF Ids
  <1>6. Has(w, op, pc, i, c, c.date, FALSE) BY <1>4, <1>5, RequestMade
  <1>7. Starts(r, w) BY <1>1, <1>2, <1>3, <1>4
  <1> QED BY <1>2, <1>3, <1>5, <1>6, <1>7, LoadedStarts

LEMMA ProgressStarts ==
  ASSUME IssuesInv, NEW r \in Requests, UpdateProgress(r)
  PROVE  IssuesInv'
  <1>1. PICK i \in Rows, n \in {0, Full} : Starts(r, Request("progress", "save", i, [issue[i] EXCEPT !.progress = n]))
    BY DEF UpdateProgress
  <1>2. PICK c0 \in Row : c0 = issue[i] BY RowKnows
  <1>3. n \in 0..Full BY FullAssumption
  <1>4. PICK c : c = [c0 EXCEPT !.progress = n] OBVIOUS
  <1>5. RowHas(c, c0.parent, n, c0.date, c0.event) BY <1>3, <1>4, RowChanges
  <1>6. PICK op \in Ops, pc \in Pcs : op = "progress" /\ pc = "save" BY DEF Ops, Pcs
  <1>7. PICK w : w = Request(op, pc, i, c) OBVIOUS
  <1>8. c \in Row /\ i \in Ids /\ c.date \in Days BY <1>5, RowKnows, RowFields DEF Ids, RowHas
  <1>9. Has(w, op, pc, i, c, c.date, FALSE) BY <1>7, <1>8, RequestMade
  <1>10. Starts(r, w) BY <1>1, <1>2, <1>4, <1>6, <1>7
  <1>11. c.parent = issue[i].parent /\ c.date = issue[i].date /\ c.event = issue[i].event BY <1>2, <1>5 DEF RowHas
  <1> QED BY <1>6, <1>8, <1>9, <1>10, <1>11, LoadedStarts

LEMMA MoveStarts ==
  ASSUME IssuesInv, NEW r \in Requests, UpdateIssueDatesFromCalendar(r)
  PROVE  IssuesInv'
  <1>1. PICK e \in Events, d \in Dates :
          /\ event[e] # None /\ event[e].issue \in Rows
          /\ Starts(r, Request("move", "save", event[e].issue, [issue[event[e].issue] EXCEPT !.date = d]))
    BY DEF UpdateIssueDatesFromCalendar
  <1>2. PICK i \in Rows : i = event[e].issue BY <1>1
  <1>3. PICK c0 \in Row : c0 = issue[i] BY RowKnows
  <1>4. d \in Days /\ d # None BY NoneAssumption DEF Days
  <1>5. PICK c : c = [c0 EXCEPT !.date = d] OBVIOUS
  <1>6. RowHas(c, c0.parent, c0.progress, d, c0.event) BY <1>4, <1>5, RowChanges
  <1>7. PICK op \in Ops, pc \in Pcs : op = "move" /\ pc = "save" BY DEF Ops, Pcs
  <1>8. PICK w : w = Request(op, pc, i, c) OBVIOUS
  <1>9. c \in Row /\ i \in Ids /\ c.date = d BY <1>6, RowKnows DEF Ids, RowHas
  <1>10. Has(w, op, pc, i, c, d, FALSE) BY <1>8, <1>9, RequestMade
  <1>11. Starts(r, w) BY <1>1, <1>2, <1>3, <1>5, <1>7, <1>8
  <1>12. c.parent = issue[i].parent /\ c.progress = issue[i].progress /\ c.event = issue[i].event
    BY <1>3, <1>6 DEF RowHas
  <1> QED BY <1>1, <1>2, <1>4, <1>7, <1>9, <1>10, <1>11, <1>12, LoadedStarts

LEMMA BeforeMade ==
  \A op0, pc0, at0, c0, b0, s0, q, w, b :
    q = Made(op0, pc0, at0, c0, b0, s0) /\ w = [q EXCEPT !.before = b]
      => w = Made(op0, pc0, at0, c0, b, s0)
  <1>1. ASSUME NEW op0, NEW pc0, NEW at0, NEW c0, NEW b0, NEW s0, NEW q, NEW w, NEW b,
               q = Made(op0, pc0, at0, c0, b0, s0), w = [q EXCEPT !.before = b]
        PROVE  w = Made(op0, pc0, at0, c0, b, s0)
    BY <1>1 DEF Made
  <1> QED BY <1>1

LEMMA UpdateStarts ==
  ASSUME IssuesInv, NEW r \in Requests, UpdateIssue(r)
  PROVE  IssuesInv'
  <1>1. PICK i \in Rows : \E row \in {[issue[i] EXCEPT !.date = d] : d \in Dates}
                 \cup {[issue[i] EXCEPT !.progress = n] : n \in {0, Full}}
                 \cup {[issue[i] EXCEPT !.parent = p] : p \in Issues \cup {None}} :
            Starts(r, [Request("update", "save", i, row) EXCEPT !.before = issue[i].date])
    BY DEF UpdateIssue
  <1>2. PICK c0 \in Row : c0 = issue[i] BY RowKnows
  <1>3. PICK c \in {[c0 EXCEPT !.date = d] : d \in Dates}
                 \cup {[c0 EXCEPT !.progress = n] : n \in {0, Full}}
                 \cup {[c0 EXCEPT !.parent = p] : p \in Issues \cup {None}} :
            Starts(r, [Request("update", "save", i, c) EXCEPT !.before = c0.date])
    BY <1>1, <1>2
  <1>4. c \in Row /\ c.event = c0.event /\ (c.date = None => c0.date = None)
    <2>1. ASSUME NEW d \in Dates, c = [c0 EXCEPT !.date = d]
          PROVE  c \in Row /\ c.event = c0.event /\ c.date = d
      <3>1. d \in Days BY DEF Days
      <3> QED BY <2>1, <3>1, RowChanges DEF RowHas
    <2>2. ASSUME NEW n \in {0, Full}, c = [c0 EXCEPT !.progress = n]
          PROVE  c \in Row /\ c.event = c0.event /\ c.date = c0.date
      <3>1. n \in 0..Full BY FullAssumption
      <3> QED BY <2>2, <3>1, RowChanges DEF RowHas
    <2>3. ASSUME NEW p \in Issues \cup {None}, c = [c0 EXCEPT !.parent = p]
          PROVE  c \in Row /\ c.event = c0.event /\ c.date = c0.date
      <3>1. p \in Ids BY DEF Ids
      <3> QED BY <2>3, <3>1, RowChanges DEF RowHas
    <2>4. None \notin Dates BY NoneAssumption
    <2> QED BY <1>3, <2>1, <2>2, <2>3, <2>4
  <1>5. PICK op \in Ops, pc \in Pcs : op = "update" /\ pc = "save" BY DEF Ops, Pcs
  <1>6. PICK q : q = Request(op, pc, i, c) OBVIOUS
  <1>7. PICK w : w = [q EXCEPT !.before = c0.date] OBVIOUS
  <1>8. i \in Ids /\ c0.date \in Days /\ c.date \in Days BY <1>4, RowKnows, RowFields DEF Ids
  <1>9. PICK f \in BOOLEAN : ~f OBVIOUS
  <1>10. q = Made(op, pc, i, c, c.date, f) BY <1>6, <1>9 DEF Request, Made
  <1>11. w = Made(op, pc, i, c, c0.date, f) BY <1>7, <1>10, BeforeMade
  <1>12. Has(w, op, pc, i, c, c0.date, f) BY <1>4, <1>8, <1>11, MadeHas
  <1>13. Starts(r, w) BY <1>3, <1>5, <1>6, <1>7
  <1>14. Has(w, op, pc, i, c, c0.date, FALSE) BY <1>9, <1>12
  <1> QED BY <1>2, <1>4, <1>5, <1>8, <1>13, <1>14, LoadedStarts

LEMMA RemoveStarts ==
  ASSUME IssuesInv, NEW r \in Requests, RemoveIssue(r) \/ RemoveSubtask(r)
  PROVE  IssuesInv'
  <1>1. PICK i \in Rows, op \in Ops :
          /\ op \in {"remove", "removeSubtask"} /\ (op = "removeSubtask" => issue[i].parent \in Rows)
          /\ Starts(r, Request(op, "remove", i, issue[i]))
    <2>1. CASE RemoveIssue(r)
      <3>1. PICK op \in Ops : op = "remove" BY DEF Ops
      <3> QED BY <2>1, <3>1 DEF RemoveIssue
    <2>2. CASE RemoveSubtask(r)
      <3>1. PICK i \in Rows : Starts(r, Request(IF issue[i].parent \in Rows THEN "removeSubtask" ELSE "remove", "remove", i, issue[i]))
        BY <2>2 DEF RemoveSubtask
      <3>2. PICK op \in Ops : op = IF issue[i].parent \in Rows THEN "removeSubtask" ELSE "remove" BY DEF Ops
      <3> QED BY <3>1, <3>2
    <2> QED BY <2>1, <2>2
  <1>2. PICK c \in Row : c = issue[i] BY RowKnows
  <1>3. PICK pc \in Pcs : pc = "remove" BY DEF Pcs
  <1>4. PICK w : w = Request(op, pc, i, c) OBVIOUS
  <1>5. i \in Ids /\ c.date \in Days BY <1>2, RowKnows, RowFields DEF Ids
  <1>6. Has(w, op, pc, i, c, c.date, FALSE) BY <1>4, <1>5, RequestMade
  <1>7. Starts(r, w) BY <1>1, <1>2, <1>3, <1>4
  <1>8. op = "removeSubtask" => c.parent # None BY <1>1, <1>2, NoneAssumption DEF Rows
  <1>9. op \notin {"update", "move"} BY <1>1
  <1> QED BY <1>1, <1>2, <1>3, <1>5, <1>6, <1>7, <1>8, <1>9, LoadedStarts

(* A request that makes an issue.                                          *)
LEMMA NewStarts ==
  ASSUME IssuesInv, NEW r \in Requests, NEW op \in Ops, NEW pc \in Pcs, op \in {"create", "addSubtask"},
         pc \in {"newGroup", "insert"}, NEW p \in {None} \cup Rows, NEW n \in 0..Full, NEW d \in Days,
         IF op = "create" THEN d # None ELSE p # None, HasId,
         Starts(r, Request(op, pc, None, NewRow(p, n, d)))
  PROVE  IssuesInv'
  <1>1. None \in Events \cup {None} /\ p \in Ids BY DEF Ids, Rows
  <1>2. PICK c : c = NewRow(p, n, d) OBVIOUS
  <1>3. RowHas(c, p, n, d, None) BY <1>1, <1>2, RowMade DEF NewRow
  <1>4. c \in Row /\ c.parent = p /\ c.date = d /\ c.event = None BY <1>3 DEF RowHas
  <1>5. PICK at \in Ids : at = None BY DEF Ids
  <1>6. PICK w : w = Request(op, pc, at, c) OBVIOUS
  <1>7. Has(w, op, pc, at, c, c.date, FALSE) BY <1>4, <1>6, RequestMade
  <1>8. /\ w \in RequestRecord /\ w.op = op /\ w.pc = pc /\ w.at = None /\ w.copy = c
    BY <1>5, <1>7 DEF Has
  <1>9. p # None => p \in Known BY DEF Known
  <1>10. Fits(w) BY <1>4, <1>8, <1>9 DEF Fits, Filing, Climbing
  <1>11. w.pc \notin Loaded BY <1>8 DEF Loaded, Filing
  <1>12. Starts(r, w) BY <1>2, <1>5, <1>6
  <1>13. OwnOK(w) BY <1>10, <1>11 DEF OwnOK
  <1> QED BY <1>4, <1>8, <1>12, <1>13, StartKeeps

LEMMA CreateStarts ==
  ASSUME IssuesInv, NEW r \in Requests, CreateIssue(r)
  PROVE  IssuesInv'
  <1>1. PICK p \in {None} \cup Rows, n \in {0, Full}, d \in Dates : \E inherits \in Inherits(p) :
          /\ HasId
          /\ Starts(r, Request("create", IF groups = 0 /\ ~inherits THEN "newGroup" ELSE "insert", None, NewRow(p, n, d)))
    BY DEF CreateIssue
  <1>2. PICK op \in Ops, pc \in {"newGroup", "insert"} :
          op = "create" /\ HasId /\ Starts(r, Request(op, pc, None, NewRow(p, n, d)))
    <2>1. PICK inherits \in Inherits(p) :
            /\ HasId
            /\ Starts(r, Request("create", IF groups = 0 /\ ~inherits THEN "newGroup" ELSE "insert", None, NewRow(p, n, d)))
      BY <1>1
    <2>2. PICK pc \in {"newGroup", "insert"} : pc = IF groups = 0 /\ ~inherits THEN "newGroup" ELSE "insert" OBVIOUS
    <2>3. PICK op \in Ops : op = "create" BY DEF Ops
    <2>4. Starts(r, Request(op, pc, None, NewRow(p, n, d))) BY <2>1, <2>2, <2>3
    <2> QED BY <2>1, <2>3, <2>4
  <1>3. d \in Days /\ d # None /\ n \in 0..Full BY NoneAssumption, FullAssumption DEF Days
  <1>4. op \in {"create", "addSubtask"} /\ pc \in Pcs BY <1>2 DEF Pcs
  <1> QED BY <1>2, <1>3, <1>4, NewStarts

LEMMA SubtaskStarts ==
  ASSUME IssuesInv, NEW r \in Requests, AddSubtask(r)
  PROVE  IssuesInv'
  <1>1. PICK p \in Rows, d \in Dates \cup {None} :
          HasId /\ Starts(r, Request("addSubtask", "insert", None, NewRow(p, 0, d)))
    BY DEF AddSubtask
  <1>2. PICK op \in Ops, pc \in Pcs : op = "addSubtask" /\ pc = "insert" BY DEF Ops, Pcs
  <1>3. d \in Days /\ p # None BY NoneAssumption DEF Days, Rows
  <1>4. PICK n \in 0..Full : n = 0 BY FullAssumption
  <1>5. Starts(r, Request(op, pc, None, NewRow(p, n, d))) BY <1>1, <1>2, <1>4
  <1> QED BY <1>1, <1>2, <1>3, <1>5, NewStarts

-----------------------------------------------------------------------------
(***************************************************************************)
(* A request goes on without touching a row.                               *)
(***************************************************************************)
LEMMA BusyFacts ==
  ASSUME IssuesInv, NEW r \in Requests, request[r] # Idle
  PROVE  /\ request[r] \in RequestRecord /\ r \in Busy
         /\ Fits(request[r])
         /\ request[r].pc \in Loaded /\ ~request[r].stale => Agrees(request[r])
BY DEF IssuesInv, RequestsOK, Busy

LEMMA StateTyped ==
  ASSUME IssuesInv
  PROVE  /\ Typed /\ groups \in Nat /\ calendars \in Nat /\ starts \in 0..MaxStarts
         /\ undated \subseteq Issues /\ drifted \subseteq Issues /\ raced \subseteq Issues
BY DEF IssuesInv, RequestsOK, TypeOK, Typed

LEMMA GroupKeeps ==
  ASSUME IssuesInv, NEW r \in Requests, NewGroup(r)
  PROVE  IssuesInv'
  <1>1. PICK q \in RequestRecord : q = request[r] /\ q.pc = "newGroup" /\ Fits(q) /\ r \in Busy BY BusyFacts DEF NewGroup, At
  <1>2. PICK pc \in Pcs : pc = "insert" BY DEF Pcs
  <1>3. PICK w : w = [q EXCEPT !.pc = pc] OBVIOUS
  <1>4. Has(w, q.op, pc, q.at, q.copy, q.before, q.stale) BY <1>3, Changes DEF Stepped
  <1>5. w \in RequestRecord /\ w # Idle /\ w.op = q.op /\ w.pc = pc /\ w.at = q.at /\ w.copy = q.copy BY <1>4 DEF Has
  <1>6. Fits(w) BY <1>1, <1>2, <1>5 DEF Fits, Climbing, Filing
  <1>7. OwnOK(w) BY <1>2, <1>5, <1>6 DEF OwnOK, Loaded, Filing
  <1>8. /\ Goes(r, w) /\ issue' = issue /\ event' = event /\ removed' = removed /\ groups' = groups + 1
        /\ calendars' = calendars /\ starts' = starts /\ undated' = undated /\ drifted' = drifted /\ raced' = raced
    BY <1>1, <1>2, <1>3 DEF NewGroup, history
  <1>9. groups' \in Nat BY <1>8, StateTyped
  <1>10. r \in Inserting BY <1>1 DEF Inserting, Busy
  <1>11. IdsOK' BY <1>5, <1>8, <1>10, StayIds
  <1>12. q.pc \notin Climbing /\ q.pc \notin Correcting /\ pc # "link" BY <1>1, <1>2 DEF Climbing, Correcting, Filing
  <1>13. None \in Ids /\ None \notin Rows BY NoneAssumption DEF Ids, Rows
  <1> QED BY <1>1, <1>5, <1>7, <1>8, <1>9, <1>11, <1>12, <1>13, StateTyped, StayKeeps

(* The calendar is looked up or made.                                      *)
LEMMA CalendarKeeps ==
  ASSUME IssuesInv, NEW r \in Requests, FindCalendar(r) \/ NewCalendar(r)
  PROVE  IssuesInv'
  <1>1. PICK q \in RequestRecord : q = request[r] /\ q.pc \in {"calendar", "newCalendar"} /\ Fits(q) /\ r \in Busy
                                   /\ (~q.stale => Agrees(q))
    BY BusyFacts DEF FindCalendar, NewCalendar, At, Loaded, Filing
  <1>2. PICK pc \in Pcs : pc \in {"newCalendar", "event"} /\ Goes(r, [q EXCEPT !.pc = pc])
    <2>1. CASE FindCalendar(r)
      <3>1. PICK pc \in Pcs : pc = IF calendars = 0 THEN "newCalendar" ELSE "event" BY DEF Pcs
      <3>2. Goes(r, [q EXCEPT !.pc = pc]) BY <1>1, <2>1, <3>1 DEF FindCalendar
      <3> QED BY <3>1, <3>2
    <2>2. CASE NewCalendar(r)
      <3>1. PICK pc \in Pcs : pc = "event" BY DEF Pcs
      <3>2. Goes(r, [q EXCEPT !.pc = pc]) BY <1>1, <2>2, <3>1 DEF NewCalendar
      <3> QED BY <3>1, <3>2
    <2> QED BY <2>1, <2>2
  <1>3. PICK w : w = [q EXCEPT !.pc = pc] OBVIOUS
  <1>4. Has(w, q.op, pc, q.at, q.copy, q.before, q.stale) BY <1>3, Changes DEF Stepped
  <1>5. /\ w \in RequestRecord /\ w # Idle /\ w.op = q.op /\ w.pc = pc /\ w.at = q.at /\ w.copy = q.copy
        /\ w.before = q.before /\ w.stale = q.stale
    BY <1>4 DEF Has
  <1>6. Fits(w) BY <1>1, <1>2, <1>5 DEF Fits, Climbing, Filing
  <1>7. ASSUME ~w.stale PROVE Agrees(w) BY <1>1, <1>2, <1>5, <1>7 DEF Agrees
  <1>8. OwnOK(w) BY <1>6, <1>7 DEF OwnOK
  <1>9. /\ Goes(r, w) /\ issue' = issue /\ event' = event /\ removed' = removed
        /\ groups' = groups /\ calendars' \in {calendars, calendars + 1}
        /\ starts' = starts /\ undated' = undated /\ drifted' = drifted /\ raced' = raced
    BY <1>2, <1>3 DEF FindCalendar, NewCalendar, rows, history
  <1>10. calendars' \in Nat /\ groups' \in Nat BY <1>9, StateTyped
  <1>11. IdsOK' BY <1>2, <1>5, <1>9, StayIds
  <1>12. q.pc \notin Climbing BY <1>1 DEF Climbing
  <1>13. q.at \in Issues /\ q.at \in Ids BY <1>1 DEF Fits, Ids
  <1>14. ASSUME q.at \in Rows \ raced' PROVE Dated(q.at)' /\ Linked(q.at)' /\ Filed(q.at)'
    <2>1. PICK j \in Rows \ raced' : j = q.at BY <1>14
    <2>2. ~Moves(q, j) /\ q.pc # "link" BY <1>1 DEF Moves, Rereads
    <2>3. Dated(j)' /\ Linked(j)' BY <1>1, <1>5, <1>9, <2>2, StayFollowed
    <2>4. Steps(r, w, {}) BY <1>5, <1>9, StateTyped, GoesSteps
    <2>5. Files(w, j)' BY <1>2, <1>5 DEF Files, Filing
    <2>6. Filer(j)' BY <1>5, <2>1, <2>4, <2>5, FilerNow
    <2>7. Filed(j)' BY <2>6 DEF Filed
    <2> QED BY <2>1, <2>3, <2>7 DEF Dated, Linked, Filed, Mover, Filer, Linker
  <1> QED BY <1>1, <1>2, <1>5, <1>8, <1>9, <1>10, <1>11, <1>12, <1>13, <1>14, StateTyped, StayKeeps

(* A request is over: nothing is left of it but what history says.         *)
LEMMA EndKeeps ==
  ASSUME IssuesInv, NEW r \in Requests, request[r] # Idle, Goes(r, Idle),
         issue' = issue, event' = event, removed' = removed,
         groups' = groups, calendars' = calendars, starts' = starts,
         undated \subseteq undated', drifted \subseteq drifted', raced \subseteq raced',
         undated' \subseteq Issues, drifted' \subseteq Issues, raced' \subseteq Issues,
         \A p \in Issues : request[r].pc \in Climbing /\ request[r].at = p => RolledAt(p)',
         NEW i \in Ids, request[r].pc \in Correcting => request[r].at = i,
         i \in Rows \ raced' => Dated(i)' /\ Linked(i)' /\ Filed(i)'
  PROVE  IssuesInv'
  <1>1. OwnOK(Idle) BY DEF OwnOK
  <1>2. IdsOK' BY StayIds
  <1> QED BY <1>1, <1>2, StateTyped, StayKeeps

LEMMA FailKeeps ==
  ASSUME IssuesInv, NEW r \in Requests, Fail(r)
  PROVE  IssuesInv'
  <1>1. PICK q \in RequestRecord : q = request[r] /\ q # Idle /\ Fits(q) /\ r \in Busy BY BusyFacts DEF Fail
  <1>2. /\ Goes(r, Idle) /\ issue' = issue /\ event' = event /\ removed' = removed
        /\ groups' = groups /\ calendars' = calendars /\ starts' = starts
    BY DEF Fail, rows
  <1>3. /\ drifted' = drifted \cup (IF q.pc \in Climbing THEN {q.at} ELSE {})
        /\ undated' = undated \cup (IF q.pc \in Filing THEN {q.at} ELSE {})
        /\ raced' = raced \cup (IF q.pc \in {"refresh", "link", "moveEvent"} THEN {q.at} ELSE {})
    BY <1>1 DEF Fail, Climbing, Filing
  <1>4. q.pc \in Climbing \cup Correcting => q.at \in Issues BY <1>1 DEF Fits, Climbing, Correcting, Filing
  <1>5. /\ drifted' \subseteq Issues /\ undated' \subseteq Issues /\ raced' \subseteq Issues
    BY <1>3, <1>4, StateTyped DEF Correcting
  <1>6. \A p \in Issues : q.pc \in Climbing /\ q.at = p => RolledAt(p)' BY <1>3 DEF RolledAt
  <1>7. q.at \in Ids BY <1>1, Fields
  <1>8. ASSUME q.at \in Rows \ raced' PROVE Dated(q.at)' /\ Linked(q.at)' /\ Filed(q.at)'
    <2>1. PICK j \in Rows \ raced' : j = q.at BY <1>8
    <2>2. q.pc \notin {"refresh", "link", "moveEvent"} BY <1>3, <1>8
    <2>3. ~Moves(q, j) BY <2>2 DEF Moves, Rereads
    <2>4. PICK w \in {Idle} \cup RequestRecord : w = Idle OBVIOUS
    <2>5. Goes(r, w) /\ raced \subseteq raced' /\ undated \subseteq undated' BY <1>2, <1>3, <2>4
    <2>6. Dated(j)' /\ Linked(j)' BY <1>1, <1>2, <2>2, <2>5, <2>3, StayFollowed
    <2>7. Filed(j)'
      <3>1. CASE q.pc \in Filing BY <1>3, <2>1, <3>1 DEF Filed
      <3>2. CASE q.pc \notin Filing
        <4>1. ~Files(q, j) BY <2>2, <3>2 DEF Files, Rereads
        <4> QED BY <1>1, <1>2, <2>5, <4>1, StayFollowed
      <3> QED BY <3>1, <3>2
    <2> QED BY <2>1, <2>6, <2>7 DEF Dated, Linked, Filed, Mover, Filer, Linker
  <1> QED BY <1>1, <1>2, <1>3, <1>5, <1>6, <1>7, <1>8, EndKeeps

(* The progress of a parent: reading it and its subtasks.                  *)
LEMMA ReadKeeps ==
  ASSUME IssuesInv, NEW r \in Requests, request[r] # Idle, request[r].pc \in Climbing, NEW w \in RequestRecord, w # Idle,
         Goes(r, w), UNCHANGED <<rows, starts, history>>, w.pc \in Climbing, w.at = request[r].at, OwnOK(w),
         w.copy.event = request[r].copy.event \/ (\E j \in Rows : w.copy.event = issue[j].event)
  PROVE  IssuesInv'
  <1>1. /\ issue' = issue /\ event' = event /\ removed' = removed /\ groups' = groups /\ calendars' = calendars
        /\ starts' = starts /\ undated' = undated /\ drifted' = drifted /\ raced' = raced
    BY DEF rows, history
  <1>2. Steps(r, w, {}) BY StateTyped, GoesSteps
  <1>3. \A p \in Issues : request[r].at = p => RolledAt(p)'
    <2>1. ASSUME NEW p \in Issues, request[r].at = p PROVE RolledAt(p)'
      <3>1. Climber(p)' BY <1>2, <2>1, ClimberNow
      <3> QED BY <3>1 DEF RolledAt
    <2> QED BY <2>1
  <1>4. w.pc \notin {"newGroup", "insert", "link"} BY DEF Climbing
  <1>5. request[r].pc \notin Correcting BY DEF Climbing, Correcting, Filing
  <1>6. IdsOK' BY <1>1, <1>4, StayIds
  <1>7. None \in Ids /\ None \notin Rows /\ r \in Busy BY NoneAssumption DEF Ids, Rows, Busy
  <1> QED BY <1>1, <1>3, <1>4, <1>5, <1>6, <1>7, StateTyped, StayKeeps

LEMMA ReadEnds ==
  ASSUME IssuesInv, NEW r \in Requests, request[r] # Idle, request[r].pc \in Climbing, Goes(r, Idle),
         UNCHANGED <<rows, starts, history>>,
         request[r].at \notin Rows \/ Subtasks(request[r].at) = {}
  PROVE  IssuesInv'
  <1>1. /\ issue' = issue /\ event' = event /\ removed' = removed /\ groups' = groups /\ calendars' = calendars
        /\ starts' = starts /\ undated' = undated /\ drifted' = drifted /\ raced' = raced
    BY DEF rows, history
  <1>2. \A p \in Issues : request[r].at = p => RolledAt(p)' BY <1>1 DEF RolledAt, Rows, Subtasks
  <1>3. request[r].pc \notin Correcting BY DEF Climbing, Correcting, Filing
  <1>4. None \in Ids /\ None \notin Rows BY NoneAssumption DEF Ids, Rows
  <1> QED BY <1>1, <1>2, <1>3, <1>4, StateTyped, EndKeeps

LEMMA ParentKeeps ==
  ASSUME IssuesInv, NEW r \in Requests, LoadParent(r)
  PROVE  IssuesInv'
  <1>1. PICK q \in RequestRecord : q = request[r] /\ q # Idle /\ q.pc = "parent" /\ Fits(q) /\ r \in Busy
    BY BusyFacts DEF LoadParent, At
  <1>2. PICK p \in Issues : p = q.at BY <1>1 DEF Fits
  <1>3. CASE issue[p] = None
    <2>1. Goes(r, Idle) BY <1>1, <1>2, <1>3 DEF LoadParent
    <2>2. p \notin Rows BY <1>3 DEF Rows
    <2> QED BY <1>1, <1>2, <2>1, <2>2, ReadEnds DEF LoadParent, Climbing
  <1>4. CASE issue[p] # None
    <2>1. p \in Rows BY <1>4 DEF Rows
    <2>2. PICK c \in Row : c = issue[p] BY <2>1, RowKnows
    <2>3. PICK pc \in Pcs, b \in BOOLEAN : pc = "subtasks" /\ ~b BY DEF Pcs
    <2>4. PICK w : w = [q EXCEPT !.pc = pc, !.copy = c, !.stale = b] OBVIOUS
    <2>5. Goes(r, w) BY <1>1, <1>2, <1>4, <2>2, <2>3, <2>4 DEF LoadParent
    <2>6. Has(w, q.op, pc, q.at, c, q.before, b) BY <2>4, Changes DEF Loads
    <2>7. w \in RequestRecord /\ w # Idle /\ w.op = q.op /\ w.pc = pc /\ w.at = p /\ w.copy = c /\ ~w.stale
      BY <1>2, <2>3, <2>6 DEF Has
    <2>8. /\ p \in Known /\ (c.date = None => c.event = None)
          /\ c.event # None => event[c.event] # None /\ event[c.event].issue = p
      BY <2>1, <2>2, RowKnows
    <2>9. Fits(w) BY <1>1, <2>3, <2>7, <2>8 DEF Fits, Climbing, Filing
    <2>10. Agrees(w) BY <1>4, <2>2, <2>3, <2>7 DEF Agrees
    <2>11. OwnOK(w) BY <2>9, <2>10 DEF OwnOK
    <2> QED BY <1>1, <1>2, <2>1, <2>2, <2>3, <2>5, <2>7, <2>11, ReadKeeps DEF LoadParent, Climbing
  <1> QED BY <1>3, <1>4

LEMMA SubtasksKeep ==
  ASSUME IssuesInv, NEW r \in Requests, ReadSubtasks(r)
  PROVE  IssuesInv'
  <1>1. PICK q \in RequestRecord : q = request[r] /\ q # Idle /\ q.pc = "subtasks" /\ Fits(q) /\ r \in Busy
                                   /\ (~q.stale => Agrees(q))
    BY BusyFacts DEF ReadSubtasks, At, Loaded
  <1>2. PICK is \in SUBSET Issues : is = Subtasks(q.at) BY DEF Subtasks, Rows
  <1>3. CASE is = {}
    <2>1. Goes(r, Idle) BY <1>1, <1>2, <1>3 DEF ReadSubtasks
    <2> QED BY <1>1, <1>2, <1>3, <2>1, ReadEnds DEF ReadSubtasks, Climbing
  <1>4. CASE is # {}
    <2>1. PICK n \in 0..Full : n = Mean(is) BY <1>4, MeanTyped DEF Mean
    <2>2. PICK c0 \in Row : c0 = q.copy BY Fields
    <2>3. PICK c : c = [c0 EXCEPT !.progress = n] OBVIOUS
    <2>4. RowHas(c, c0.parent, n, c0.date, c0.event) BY <2>3, RowChanges
    <2>5. PICK pc \in Pcs : pc = "roll" BY DEF Pcs
    <2>6. PICK w : w = [q EXCEPT !.pc = pc, !.copy.progress = n] OBVIOUS
    <2>7. Goes(r, w) BY <1>1, <1>2, <1>4, <2>1, <2>5, <2>6 DEF ReadSubtasks
    <2>8. c \in Row /\ c.parent = c0.parent /\ c.progress = n /\ c.date = c0.date /\ c.event = c0.event BY <2>4 DEF RowHas
    <2>9. Has(w, q.op, pc, q.at, c, q.before, q.stale) BY <2>2, <2>3, <2>6, <2>8, Changes DEF Rolls
    <2>10. /\ w \in RequestRecord /\ w # Idle /\ w.op = q.op /\ w.pc = pc /\ w.at = q.at /\ w.copy = c
           /\ w.before = q.before /\ w.stale = q.stale
      BY <2>9 DEF Has
    <2>11. Fits(w) BY <1>1, <2>2, <2>5, <2>8, <2>10 DEF Fits, Climbing, Filing
    <2>12. ASSUME ~w.stale PROVE Agrees(w)
      BY <1>1, <1>2, <2>1, <2>2, <2>5, <2>8, <2>10, <2>12 DEF Agrees
    <2>13. OwnOK(w) BY <2>11, <2>12 DEF OwnOK
    <2> QED BY <1>1, <2>2, <2>5, <2>7, <2>8, <2>10, <2>13, ReadKeeps DEF ReadSubtasks, Climbing
  <1> QED BY <1>3, <1>4

(* The issue is read again after it was saved.                             *)
LEMMA RefreshEnds ==
  ASSUME IssuesInv, NEW r \in Requests, NEW q \in RequestRecord, q = request[r], q.pc = "refresh", q.op \in {"update", "move"},
         Goes(r, Idle), UNCHANGED <<rows, starts, history>>,
         \A j \in Rows : j = q.at => IF q.op = "move" THEN q.copy.event = None ELSE issue[j].date \in {q.before, None}
  PROVE  IssuesInv'
  <1>1. /\ issue' = issue /\ event' = event /\ removed' = removed /\ groups' = groups /\ calendars' = calendars
        /\ starts' = starts /\ undated' = undated /\ drifted' = drifted /\ raced' = raced
    BY DEF rows, history
  <1>2. q # Idle /\ q.at \in Ids BY Fields
  <1>3. q.pc \notin Climbing BY DEF Climbing
  <1>4. ASSUME q.at \in Rows \ raced' PROVE Dated(q.at)' /\ Linked(q.at)' /\ Filed(q.at)'
    <2>1. PICK j \in Rows \ raced' : j = q.at BY <1>4
    <2>2. PICK w \in {Idle} \cup RequestRecord : w = Idle OBVIOUS
    <2>3. Linked(j)' BY <1>1, <2>2, StayFollowed
    <2>4. Dated(j)'
      <3>1. CASE Moves(q, j)
        <4>1. issue[j].event = None
          BY <2>1, <3>1, RowKnows DEF Moves, Rereads
        <4> QED BY <1>1, <4>1 DEF Dated
      <3>2. CASE ~Moves(q, j) BY <1>1, <2>2, <3>2, StayFollowed
      <3> QED BY <3>1, <3>2
    <2>5. Filed(j)'
      <3>1. CASE Files(q, j)
        <4>1. issue[j].date = None BY <2>1, <3>1 DEF Files, Rereads, Filing
        <4> QED BY <1>1, <4>1 DEF Filed
      <3>2. CASE ~Files(q, j) BY <1>1, <2>2, <3>2, StayFollowed
      <3> QED BY <3>1, <3>2
    <2> QED BY <2>1, <2>3, <2>4, <2>5 DEF Dated, Linked, Filed, Mover, Filer, Linker
  <1> QED BY <1>1, <1>2, <1>3, <1>4, StateTyped, EndKeeps

LEMMA RefreshGoesOn ==
  ASSUME IssuesInv, NEW r \in Requests, NEW q \in RequestRecord, q = request[r], q.pc = "refresh", q.op \in {"update", "move"},
         NEW j \in Rows, j = q.at, NEW w, NEW pc \in Pcs, NEW c \in Row, Has(w, q.op, pc, q.at, c, q.before, FALSE), Goes(r, w),
         UNCHANGED <<rows, starts, history>>,
         c.parent = issue[j].parent, c.progress = issue[j].progress, c.date = issue[j].date,
         IF q.op = "move" THEN c.event = q.copy.event ELSE c.event = issue[j].event,
         IF c.event = None THEN pc = "calendar" /\ q.op = "update" /\ c.date # None ELSE pc = "moveEvent"
  PROVE  IssuesInv'
  <1>1. /\ issue' = issue /\ event' = event /\ removed' = removed /\ groups' = groups /\ calendars' = calendars
        /\ starts' = starts /\ undated' = undated /\ drifted' = drifted /\ raced' = raced
    BY DEF rows, history
  <1>2. q # Idle /\ q.at \in Ids BY Fields
  <1>3. q.pc \notin Climbing BY DEF Climbing
  <1>4. /\ w \in RequestRecord /\ w # Idle /\ w.op = q.op /\ w.pc = pc /\ w.at = q.at /\ w.copy = c
        /\ w.before = q.before /\ ~w.stale
    BY DEF Has
  <1>5. Fits(q) /\ r \in Busy BY <1>2, BusyFacts
  <1>6. /\ j \in Issues /\ j \in Known /\ issue[j] # None
        /\ issue[j].event # None => event[issue[j].event] # None /\ event[issue[j].event].issue = j
    BY RowKnows, NoneAssumption
  <1>7. c.event # None => event[c.event] # None /\ event[c.event].issue = j BY <1>5, <1>6 DEF Fits
  <1>8. pc \in {"calendar", "moveEvent"} OBVIOUS
  <1>9. Fits(w)
    <2>1. CASE pc = "calendar" BY <1>4, <1>5, <1>6, <1>7, <2>1 DEF Fits, Climbing, Filing
    <2>2. CASE pc = "moveEvent" BY <1>4, <1>5, <1>6, <1>7, <2>2 DEF Fits, Climbing, Filing
    <2> QED BY <1>8, <2>1, <2>2
  <1>10. Agrees(w) BY <1>4, <1>6, <1>8 DEF Agrees
  <1>11. OwnOK(w) BY <1>9, <1>10 DEF OwnOK
  <1>12. IdsOK' BY <1>1, <1>4, <1>8, StayIds
  <1>13. ASSUME q.at \in Rows \ raced' PROVE Dated(q.at)' /\ Linked(q.at)' /\ Filed(q.at)'
    <2>1. j \in Rows \ raced' BY <1>13
    <2>2. Linked(j)' BY <1>1, <1>4, <2>1, StayFollowed
    <2>3. Steps(r, w, {}) BY <1>4, StateTyped, GoesSteps
    <2>4. Dated(j)'
      <3>1. CASE Moves(q, j) /\ issue[j].event # None
        <4>1. c.event = issue[j].event BY <3>1 DEF Moves, Rereads
        <4>2. Moves(w, j)' BY <1>1, <1>4, <3>1, <4>1 DEF Moves
        <4>3. Mover(j)' BY <1>4, <2>3, <4>2, MoverNow
        <4> QED BY <4>3 DEF Dated
      <3>2. CASE ~Moves(q, j) BY <1>1, <1>4, <2>1, <3>2, StayFollowed
      <3>3. CASE issue[j].event = None BY <1>1, <3>3 DEF Dated
      <3> QED BY <3>1, <3>2, <3>3
    <2>5. Filed(j)'
      <3>1. CASE Files(q, j) /\ issue[j].event = None
        <4>1. q.op = "update" BY <3>1 DEF Files, Rereads, Filing
        <4>2. Files(w, j)' BY <1>4, <3>1, <4>1 DEF Files, Filing
        <4>3. Filer(j)' BY <1>4, <2>3, <4>2, FilerNow
        <4> QED BY <4>3 DEF Filed
      <3>2. CASE ~Files(q, j) BY <1>1, <1>4, <2>1, <3>2, StayFollowed
      <3>3. CASE issue[j].event # None BY <1>1, <3>3 DEF Filed
      <3> QED BY <3>1, <3>2, <3>3
    <2> QED BY <2>2, <2>4, <2>5 DEF Dated, Linked, Filed, Mover, Filer, Linker
  <1>14. c.event = None \/ c.event = request[r].copy.event \/ c.event = issue[j].event OBVIOUS
  <1> QED BY <1>1, <1>2, <1>3, <1>4, <1>5, <1>8, <1>11, <1>12, <1>13, <1>14, StateTyped, StayKeeps

LEMMA RefreshKeeps ==
  ASSUME IssuesInv, NEW r \in Requests, RefreshIssue(r)
  PROVE  IssuesInv'
  <1>1. PICK q \in RequestRecord : q = request[r] /\ q # Idle /\ q.pc = "refresh" /\ Fits(q)
    BY BusyFacts DEF RefreshIssue, At
  <1>2. q.op \in {"update", "move"} BY <1>1 DEF Fits
  <1>3. UNCHANGED <<rows, starts, history>> BY DEF RefreshIssue
  <1>4. CASE q.at \notin Rows
    <2>1. issue[q.at] = None BY <1>1, <1>4 DEF Rows, Fits
    <2>2. Goes(r, Idle) BY <1>1, <2>1 DEF RefreshIssue
    <2> QED BY <1>1, <1>2, <1>3, <1>4, <2>2, RefreshEnds
  <1>5. ASSUME NEW j \in Rows, j = q.at PROVE IssuesInv'
    <2>1. PICK row \in Row : row = issue[j] BY RowKnows
    <2>2. row # None BY NoneAssumption
    <2>3. PICK e \in Events \cup {None} : e = IF q.op = "move" THEN q.copy.event ELSE row.event
      <3>1. q.copy.event \in Events \cup {None} /\ row.event \in Events \cup {None} BY Fields, RowFields
      <3> QED BY <3>1
    <2>4. CASE IF q.op = "move" THEN e = None ELSE row.date \in {q.before, None}
      <3>1. Goes(r, Idle) BY <1>1, <1>5, <2>1, <2>3, <2>4 DEF RefreshIssue
      <3> QED BY <1>1, <1>2, <1>3, <1>5, <2>1, <2>3, <2>4, <3>1, RefreshEnds
    <2>5. CASE ~(IF q.op = "move" THEN e = None ELSE row.date \in {q.before, None})
      <3>1. PICK b \in BOOLEAN : b = FALSE OBVIOUS
      <3>2. CASE e = None
        <4>1. PICK pc \in Pcs : pc = "calendar" BY DEF Pcs
        <4>2. PICK w : w = [q EXCEPT !.pc = pc, !.copy = row, !.stale = b] OBVIOUS
        <4>3. Goes(r, w) BY <1>1, <1>5, <2>1, <2>2, <2>3, <2>5, <3>1, <3>2, <4>1, <4>2 DEF RefreshIssue
        <4>4. Has(w, q.op, pc, q.at, row, q.before, FALSE) BY <3>1, <4>2, Changes DEF Loads
        <4>5. q.op = "update" /\ row.event = None /\ row.date # None BY <1>2, <2>3, <2>5, <3>2
        <4> QED BY <1>1, <1>2, <1>3, <1>5, <2>1, <4>1, <4>3, <4>4, <4>5, RefreshGoesOn
      <3>3. CASE e # None
        <4>1. PICK pc \in Pcs : pc = "moveEvent" BY DEF Pcs
        <4>2. PICK c : c = [row EXCEPT !.event = e] OBVIOUS
        <4>3. RowHas(c, row.parent, row.progress, row.date, e) BY <3>3, <4>2, RowChanges
        <4>4. c \in Row /\ c.parent = row.parent /\ c.progress = row.progress /\ c.date = row.date /\ c.event = e
          BY <4>3 DEF RowHas
        <4>5. PICK w : w = [q EXCEPT !.pc = pc, !.copy = c, !.stale = b] OBVIOUS
        <4>6. Goes(r, w) BY <1>1, <1>5, <2>1, <2>2, <2>3, <2>5, <3>1, <3>3, <4>1, <4>2, <4>5 DEF RefreshIssue
        <4>7. Has(w, q.op, pc, q.at, c, q.before, FALSE) BY <3>1, <4>4, <4>5, Changes DEF Loads
        <4> QED BY <1>1, <1>2, <1>3, <1>5, <2>1, <2>3, <3>3, <4>1, <4>4, <4>6, <4>7, RefreshGoesOn
      <3> QED BY <3>2, <3>3
    <2> QED BY <2>4, <2>5
  <1> QED BY <1>4, <1>5

-----------------------------------------------------------------------------
(***************************************************************************)
(* The event of an issue is made or moved.                                 *)
(***************************************************************************)
LEMMA EventHas ==
  ASSUME NEW i \in Issues, NEW d \in Days
  PROVE  \A x : x = [issue |-> i, date |-> d] => x \in Event /\ x.issue = i /\ x.date = d /\ x # None
BY NoneAssumption DEF Event, Days

LEMMA EventMoved ==
  ASSUME NEW x \in Event, NEW d \in Days
  PROVE  \A y : y = [x EXCEPT !.date = d] => y \in Event /\ y.issue = x.issue /\ y.date = d /\ y # None
  <1>1. PICK i \in Issues, d0 \in Days : x = [issue |-> i, date |-> d0] BY DEF Event, Days
  <1>2. x.issue = i BY <1>1
  <1>3. \A y : y = [x EXCEPT !.date = d] => y = [issue |-> i, date |-> d] BY <1>1
  <1> QED BY <1>2, <1>3, EventHas

(* What the steps on events leave: the rows stay, only the event e changes.*)
LEMMA MoveKeeps ==
  ASSUME IssuesInv, NEW r \in Requests, MoveEvent(r)
  PROVE  IssuesInv'
  <1>1. PICK q \in RequestRecord : q = request[r] /\ q # Idle /\ q.pc = "moveEvent" /\ Fits(q) /\ r \in Busy
                                   /\ (~q.stale => Agrees(q))
    BY BusyFacts DEF MoveEvent, At, Loaded
  <1>2. PICK e \in Events : e = q.copy.event BY <1>1, Fields, RowFields DEF Fits
  <1>3. PICK d \in Days : d = q.copy.date BY Fields, RowFields
  <1>4. e # None /\ event[e] # None /\ event[e].issue = q.at BY <1>1, <1>2, NoneAssumption DEF Fits
  <1>5. event \in [Events -> {None} \cup Event] BY DEF IssuesInv, TypeOK
  <1>6. PICK y : y = [event[e] EXCEPT !.date = d] OBVIOUS
  <1>7. y \in Event /\ y.issue = q.at /\ y.date = d /\ y # None BY <1>4, <1>5, <1>6, EventMoved
  <1>8. event' = [event EXCEPT ![e] = y]
    <2>1. event' = [event EXCEPT ![e].date = d] BY <1>1, <1>2, <1>3, <1>4 DEF MoveEvent
    <2> QED BY <2>1, <1>6
  <1>9. /\ event' \in [Events -> {None} \cup Event] /\ event'[e] = y /\ \A f \in Events \ {e} : event'[f] = event[f]
    BY <1>5, <1>7, <1>8
  <1>10. /\ Goes(r, Idle) /\ issue' = issue /\ removed' = removed /\ groups' = groups /\ calendars' = calendars
         /\ starts' = starts /\ undated' = undated /\ drifted' = drifted
         /\ raced' = IF q.stale THEN raced \cup {q.at} ELSE raced
    BY <1>1 DEF MoveEvent
  <1>11. PICK w \in {Idle} \cup RequestRecord : w = Idle OBVIOUS
  <1>12. Steps(r, w, {}) BY <1>10, <1>11, StateTyped, GoesSteps
  <1>13. Untouched({}) /\ Rows' = Rows BY <1>10, SameIssues
  <1>14. PICK i \in Issues : i = q.at BY <1>1 DEF Fits
  <1>15. Grows BY <1>4, <1>7, <1>9, <1>10, <1>13 DEF Grows, Known
  <1>16. TypeOK' BY <1>9, <1>10, <1>12, <1>14, StateTyped DEF IssuesInv, TypeOK, Steps
  <1>17. RequestsOK' BY <1>11, <1>12, <1>13, <1>15, StateTyped, RequestsKept DEF IssuesInv, OwnOK
  <1>18. IdsOK'
    <2>1. Free' = Free BY <1>10, <1>13 DEF Free
    <2> QED BY <1>11, <1>12, <2>1, StateTyped, IdsKept DEF IssuesInv
  <1>19. RowsOK'
    <2>1. \A f \in Events : event'[f] # None => event[f] # None /\ event'[f].issue = event[f].issue
      BY <1>4, <1>7, <1>9
    <2>2. \A f \in Events : event[f] # None => event'[f] # None /\ event'[f].issue = event[f].issue BY <1>15 DEF Grows
    <2>3. \A j \in Rows : issue[j].event # None => issue[j].event \in Events BY RowKnows, RowFields
    <2> QED BY <1>10, <1>13, <2>1, <2>2, <2>3 DEF IssuesInv, RowsOK, Known
  <1>20. LinksOK'
    <2>1. ASSUME NEW t \in Busy \ {r}, request[t].pc = "link", ~request[t].stale
          PROVE  event'[request[t].copy.event] = event[request[t].copy.event]
      <3>1. request[t].copy.event # request[r].copy.event BY <1>1, <2>1 DEF IssuesInv, LinksOK
      <3>2. t \in Requests /\ request[t] # Idle BY DEF Busy
      <3>3. request[t].copy.event \in Events BY <2>1, <3>2, BusyFacts, Fields, RowFields DEF Fits
      <3> QED BY <1>1, <1>2, <1>9, <3>1, <3>3
    <2> QED BY <1>11, <1>12, <2>1, StateTyped, LinksKept DEF IssuesInv
  <1>21. RolledOK'
    <2>1. q.pc \notin Climbing BY <1>1 DEF Climbing
    <2> QED BY <1>1, <1>10, <1>12, <1>13, <1>15, <2>1, StateTyped, RolledKept DEF IssuesInv, Grows
  <1>22. FollowedOK'
    <2>1. ASSUME i \in Rows' \ raced' PROVE Dated(i)' /\ Linked(i)' /\ Filed(i)'
      <3>1. i \in Rows /\ i \notin raced /\ ~q.stale BY <1>10, <1>13, <1>14, <2>1
      <3>2. Dated(i) /\ Linked(i) /\ Filed(i) BY <3>1 DEF IssuesInv, FollowedOK
      <3>3. d = issue[i].date BY <1>1, <1>3, <1>14, <3>1 DEF Agrees
      <3>4. issue[i].event # None => issue[i].event \in Events BY <3>1, RowKnows, RowFields
      <3>5. Dated(i)'
        <4>1. CASE issue[i].event = None BY <1>10, <4>1 DEF Dated
        <4>2. CASE issue[i].event = e BY <1>7, <1>9, <1>10, <3>3, <4>2 DEF Dated
        <4>3. CASE issue[i].event \in Events \ {e} /\ Mover(i)
          <5>1. PICK s \in Busy : request[s].at = i /\ Moves(request[s], i) BY <4>3 DEF Mover
          <5>2. s # r BY <1>1, <1>2, <3>1, <4>3, <5>1 DEF Moves, Rereads
          <5>3. s \in Requests \ {r} /\ request[s] # Idle BY <5>2 DEF Busy
          <5>4. Mover(i)' BY <1>10, <1>12, <5>1, <5>3, StateTyped, MoverKept
          <5> QED BY <5>4 DEF Dated
        <4>4. CASE issue[i].event \in Events \ {e} /\ ~Mover(i)
          BY <1>9, <1>10, <3>2, <4>4, NoneAssumption DEF Dated
        <4> QED BY <3>4, <4>1, <4>2, <4>3, <4>4
      <3>6. Linked(i)'
        <4>1. ASSUME NEW f \in Events, event'[f] # None, event'[f].issue = i
              PROVE  issue[i].event = f \/ Linker(i, f)'
          <5>1. event[f] # None /\ event[f].issue = i BY <1>4, <1>9, <1>14, <4>1
          <5>2. ASSUME Linker(i, f) PROVE Linker(i, f)'
            <6>1. PICK s \in Busy : request[s].pc = "link" /\ request[s].at = i /\ request[s].copy.event = f
              BY <5>2 DEF Linker
            <6>2. s \in Requests \ {r} /\ request[s] # Idle BY <1>1, <6>1 DEF Busy
            <6> QED BY <1>12, <6>1, <6>2, StateTyped, LinkerKept
          <5> QED BY <3>2, <5>1, <5>2 DEF Linked
        <4> QED BY <1>10, <4>1 DEF Linked
      <3>7. Filed(i)'
        <4>1. CASE Filer(i)
          <5>1. PICK s \in Busy : request[s].at = i /\ Files(request[s], i) BY <4>1 DEF Filer
          <5>2. s # r BY <1>1, <5>1 DEF Files, Rereads, Filing
          <5>3. s \in Requests \ {r} /\ request[s] # Idle BY <5>2 DEF Busy
          <5>4. Filer(i)' BY <1>10, <1>12, <5>1, <5>3, StateTyped, FilerKept
          <5> QED BY <5>4 DEF Filed
        <4>2. CASE ~Filer(i) BY <1>10, <3>2, <4>2 DEF Filed
        <4> QED BY <4>1, <4>2
      <3> QED BY <3>5, <3>6, <3>7
    <2>2. i \in Ids /\ raced \subseteq raced' /\ undated \subseteq undated' BY <1>10 DEF Ids
    <2>3. \A f \in Events : event'[f] # event[f] => event'[f] # None /\ event'[f].issue = i /\ (event[f] # None => event[f].issue = i)
      BY <1>4, <1>7, <1>9, <1>14
    <2> QED BY <1>1, <1>10, <1>12, <1>14, <2>1, <2>2, <2>3, StateTyped, FollowedKept DEF IssuesInv
  <1> QED BY <1>16, <1>17, <1>18, <1>19, <1>20, <1>21, <1>22 DEF IssuesInv

LEMMA CreateKeeps ==
  ASSUME IssuesInv, NEW r \in Requests, CreateEvent(r)
  PROVE  IssuesInv'
  <1>1. PICK q \in RequestRecord : q = request[r] /\ q # Idle /\ q.pc = "event" /\ Fits(q) /\ r \in Busy
                                   /\ (~q.stale => Agrees(q))
    BY BusyFacts DEF CreateEvent, At, Loaded, Filing
  <1>2. PICK e \in Events : event[e] = None /\ e = CHOOSE f \in Events : event[f] = None BY DEF CreateEvent
  <1>3. PICK c0 \in Row : c0 = q.copy BY Fields
  <1>4. PICK i \in Issues : i = q.at BY <1>1 DEF Fits
  <1>5. c0.date \in Days /\ c0.date # None /\ c0.event = None BY <1>1, <1>3, RowFields DEF Fits, Filing
  <1>6. PICK y : y = [issue |-> i, date |-> c0.date] OBVIOUS
  <1>7. y \in Event /\ y.issue = i /\ y.date = c0.date /\ y # None BY <1>5, <1>6, EventHas
  <1>8. event \in [Events -> {None} \cup Event] BY DEF IssuesInv, TypeOK
  <1>9. /\ event' = [event EXCEPT ![e] = y]
        /\ issue' = issue /\ removed' = removed /\ groups' = groups /\ calendars' = calendars
        /\ starts' = starts /\ undated' = undated /\ drifted' = drifted /\ raced' = raced
    BY <1>1, <1>2, <1>3, <1>4, <1>6 DEF CreateEvent, history
  <1>10. /\ event' \in [Events -> {None} \cup Event] /\ event'[e] = y /\ \A f \in Events \ {e} : event'[f] = event[f]
    BY <1>7, <1>8, <1>9
  <1>11. PICK pc \in Pcs : pc = "link" BY DEF Pcs
  <1>12. PICK c : c = [c0 EXCEPT !.event = e] OBVIOUS
  <1>13. RowHas(c, c0.parent, c0.progress, c0.date, e) BY <1>12, RowChanges
  <1>14. c \in Row /\ c.parent = c0.parent /\ c.progress = c0.progress /\ c.date = c0.date /\ c.event = e BY <1>13 DEF RowHas
  <1>15. PICK w : w = [q EXCEPT !.pc = pc, !.copy.event = e] OBVIOUS
  <1>16. Goes(r, w) BY <1>1, <1>2, <1>11, <1>15 DEF CreateEvent
  <1>17. Has(w, q.op, pc, q.at, c, q.before, q.stale) BY <1>3, <1>12, <1>14, <1>15, Changes DEF Links
  <1>18. /\ w \in RequestRecord /\ w # Idle /\ w.op = q.op /\ w.pc = pc /\ w.at = i /\ w.copy = c
         /\ w.before = q.before /\ w.stale = q.stale
    BY <1>4, <1>17 DEF Has
  <1>19. Steps(r, w, {}) BY <1>16, <1>18, StateTyped, GoesSteps
  <1>20. Untouched({}) /\ Rows' = Rows BY <1>9, SameIssues
  <1>21. Known' = Known BY <1>9, <1>20 DEF Known
  <1>22. Grows BY <1>2, <1>10, <1>21 DEF Grows
  <1>23. TypeOK' BY <1>9, <1>10, <1>19, StateTyped DEF IssuesInv, TypeOK, Steps
  <1>24. e # None BY NoneAssumption
  <1>25. Fits(w)'
    BY <1>1, <1>3, <1>4, <1>5, <1>7, <1>10, <1>11, <1>14, <1>18, <1>21, <1>24 DEF Fits, Climbing, Filing
  <1>26. ASSUME ~w.stale PROVE Agrees(w)'
    BY <1>1, <1>3, <1>4, <1>5, <1>9, <1>11, <1>14, <1>18, <1>26 DEF Agrees
  <1>27. RequestsOK' BY <1>19, <1>20, <1>22, <1>25, <1>26, StateTyped, RequestsKept DEF IssuesInv, OwnOK
  <1>28. IdsOK'
    <2>1. Free' = Free BY <1>9, <1>20 DEF Free
    <2> QED BY <1>11, <1>18, <1>19, <2>1, StateTyped, IdsKept DEF IssuesInv
  <1>29. RowsOK'
    <2>1. i \in Known BY <1>1, <1>4 DEF Fits
    <2>2. \A j \in Rows : issue[j].event # None => issue[j].event \in Events \ {e} BY <1>2, RowKnows, RowFields
    <2> QED BY <1>7, <1>9, <1>10, <1>20, <1>21, <2>1, <2>2 DEF IssuesInv, RowsOK
  <1>30. \A s \in Busy : request[s].copy.event # e
    <2>1. ASSUME NEW s \in Busy PROVE request[s].copy.event # e
      <3>1. s \in Requests /\ request[s] # Idle BY DEF Busy
      <3>2. request[s].copy.event # None => event[request[s].copy.event] # None BY <3>1, BusyFacts DEF Fits
      <3> QED BY <1>2, <1>24, <3>2
    <2> QED BY <2>1
  <1>31. LinksOK'
    <2>1. ASSUME NEW t \in Busy', request'[t].pc = "link", ~request'[t].stale
          PROVE  /\ event'[request'[t].copy.event].date = request'[t].copy.date
                 /\ \A s \in Busy' \ {t} : request'[s].copy.event # request'[t].copy.event
      <3>1. t \in Requests /\ request'[t] # Idle BY <2>1 DEF Busy
      <3>2. \A s \in Busy' \ {r} : s \in Busy /\ request'[s].copy = request[s].copy
        BY <1>19 DEF Steps, Busy, Kept, Has
      <3>3. CASE t = r
        <4>1. request'[t] = w BY <1>19, <3>3 DEF Steps
        <4> QED BY <1>7, <1>10, <1>14, <1>18, <1>30, <3>2, <3>3, <4>1
      <3>4. CASE t # r
        <4>1. t \in Busy /\ Kept(request'[t], request[t]) BY <1>19, <3>1, <3>4 DEF Steps, Busy
        <4>2. request[t].pc = "link" /\ ~request[t].stale /\ request'[t].copy = request[t].copy
          BY <2>1, <4>1 DEF Kept, Has
        <4>3. request[t].copy.event \in Events \ {e} BY <1>30, <3>1, <4>1, <4>2, BusyFacts, Fields, RowFields DEF Fits, Busy
        <4>4. event'[request[t].copy.event].date = request[t].copy.date BY <1>10, <4>1, <4>2, <4>3 DEF IssuesInv, LinksOK
        <4>5. ASSUME NEW s \in Busy' \ {t} PROVE request'[s].copy.event # request[t].copy.event
          <5>1. CASE s = r BY <1>14, <1>18, <1>19, <4>3, <5>1 DEF Steps
          <5>2. CASE s # r BY <3>2, <4>1, <4>2, <4>5, <5>2 DEF IssuesInv, LinksOK
          <5> QED BY <5>1, <5>2
        <4> QED BY <4>2, <4>4, <4>5
      <3> QED BY <3>3, <3>4
    <2> QED BY <2>1 DEF LinksOK
  <1>32. RolledOK'
    <2>1. q.pc \notin Climbing BY <1>1 DEF Climbing
    <2> QED BY <1>1, <1>9, <1>19, <1>20, <1>21, <2>1, StateTyped, RolledKept DEF IssuesInv
  <1>33. FollowedOK'
    <2>1. ASSUME i \in Rows' \ raced' PROVE Dated(i)' /\ Linked(i)' /\ Filed(i)'
      <3>1. i \in Rows /\ i \notin raced BY <1>9, <1>20, <2>1
      <3>2. Dated(i) /\ Linked(i) /\ Filed(i) BY <3>1 DEF IssuesInv, FollowedOK
      <3>3. issue[i].event # None => issue[i].event \in Events \ {e} BY <1>2, <3>1, RowKnows, RowFields
      <3>4. Dated(i)'
        <4>1. CASE Mover(i)
          <5>1. PICK s \in Busy : request[s].at = i /\ Moves(request[s], i) BY <4>1 DEF Mover
          <5>2. s # r BY <1>1, <5>1 DEF Moves, Rereads
          <5>3. s \in Requests \ {r} /\ request[s] # Idle BY <5>2 DEF Busy
          <5>4. Mover(i)' BY <1>9, <1>19, <5>1, <5>3, StateTyped, MoverKept
          <5> QED BY <5>4 DEF Dated
        <4>2. CASE ~Mover(i) BY <1>9, <1>10, <3>2, <3>3, <4>2 DEF Dated
        <4> QED BY <4>1, <4>2
      <3>5. Linked(i)'
        <4>1. ASSUME NEW f \in Events, event'[f] # None, event'[f].issue = i
              PROVE  issue[i].event = f \/ Linker(i, f)'
          <5>1. CASE f = e BY <1>11, <1>14, <1>18, <1>19, <5>1, LinkerNow
          <5>2. CASE f # e
            <6>1. event[f] # None /\ event[f].issue = i BY <1>10, <4>1, <5>2
            <6>2. ASSUME Linker(i, f) PROVE Linker(i, f)'
              <7>1. PICK s \in Busy : request[s].pc = "link" /\ request[s].at = i /\ request[s].copy.event = f
                BY <6>2 DEF Linker
              <7>2. s \in Requests \ {r} /\ request[s] # Idle BY <1>1, <7>1 DEF Busy
              <7> QED BY <1>19, <7>1, <7>2, StateTyped, LinkerKept
            <6> QED BY <3>2, <6>1, <6>2 DEF Linked
          <5> QED BY <5>1, <5>2
        <4> QED BY <1>9, <4>1 DEF Linked
      <3>6. Filed(i)'
        <4>1. Files(w, i)' BY <1>11, <1>18 DEF Files
        <4>2. Filer(i)' BY <1>18, <1>19, <4>1, FilerNow
        <4> QED BY <4>2 DEF Filed
      <3> QED BY <3>4, <3>5, <3>6
    <2>2. i \in Ids /\ raced \subseteq raced' /\ undated \subseteq undated' BY <1>9 DEF Ids
    <2>3. \A f \in Events : event'[f] # event[f] => event'[f] # None /\ event'[f].issue = i /\ (event[f] # None => event[f].issue = i)
      BY <1>2, <1>7, <1>10
    <2> QED BY <1>1, <1>4, <1>9, <1>19, <2>1, <2>2, <2>3, StateTyped, FollowedKept DEF IssuesInv
  <1> QED BY <1>23, <1>27, <1>28, <1>29, <1>31, <1>32, <1>33 DEF IssuesInv

-----------------------------------------------------------------------------
(***************************************************************************)
(* A row is written.                                                       *)
(***************************************************************************)
Saves(r, w, i, row) ==
  /\ issue' = [issue EXCEPT ![i] = row] /\ Wrote(r, w, i, row)
  /\ event' = event /\ groups' = groups /\ calendars' = calendars /\ starts' = starts
  /\ removed \subseteq removed' /\ removed' \subseteq removed \cup {i} /\ (row # None \/ i \in removed')
  /\ undated \subseteq undated' /\ undated' \subseteq undated \cup {i}
  /\ raced \subseteq raced' /\ raced' \subseteq raced \cup {i}
  /\ drifted \subseteq drifted' \cup Near(i, row) /\ drifted' \subseteq Issues

LEMMA SaveFrame ==
  ASSUME IssuesInv, NEW r \in Requests, NEW w \in {Idle} \cup RequestRecord, NEW i \in Issues, NEW row \in {None} \cup Row,
         Saves(r, w, i, row)
  PROVE  /\ Steps(r, w, Near(i, row)) /\ Untouched(Near(i, row))
         /\ issue' \in [Issues -> {None} \cup Row]
         /\ issue'[i] = row /\ \A j \in Issues \ {i} : issue'[j] = issue[j]
         /\ Rows' = IF row = None THEN Rows \ {i} ELSE Rows \cup {i}
         /\ Known' = Known \cup {i} /\ Grows /\ TypeOK'
  <1>1. Steps(r, w, Near(i, row)) BY StateTyped, WroteSteps DEF Saves
  <1>2. issue' = [issue EXCEPT ![i] = row] BY DEF Saves
  <1>3. /\ Untouched(Near(i, row)) /\ issue' \in [Issues -> {None} \cup Row]
        /\ issue'[i] = row /\ \A j \in Issues \ {i} : issue'[j] = issue[j]
    BY <1>2, StateTyped, OneIssue
  <1>4. Rows' = IF row = None THEN Rows \ {i} ELSE Rows \cup {i} BY <1>3 DEF Rows
  <1>5. Known' = Known \cup {i} BY <1>4 DEF Saves, Known
  <1>6. Grows BY <1>5 DEF Grows, Saves
  <1>7. TypeOK' BY <1>1, <1>3, StateTyped DEF Saves, Steps, IssuesInv, TypeOK
  <1> QED BY <1>1, <1>3, <1>4, <1>5, <1>6, <1>7

LEMMA SaveKeeps ==
  ASSUME IssuesInv, NEW r \in Requests, NEW w \in {Idle} \cup RequestRecord, NEW i \in Issues, NEW row \in {None} \cup Row,
         Saves(r, w, i, row), request[r] # Idle,
         row # None => /\ row.date = None => row.event = None
                       /\ row.event # None => event[row.event] # None /\ event[row.event].issue = i,
         OwnOK(w)', IdsOK',
         w # Idle => w.pc # "link" /\ (w.copy.event = None \/ w.copy.event = request[r].copy.event),
         request[r].pc \in Climbing \cup Correcting => request[r].at = i,
         \A p \in Issues \cap Near(i, row) : RolledAt(p)' /\ BornAt(p)',
         i \in Rows' \ raced' => Dated(i)' /\ Linked(i)' /\ Filed(i)'
  PROVE  IssuesInv'
  <1>1. /\ Steps(r, w, Near(i, row)) /\ Untouched(Near(i, row))
        /\ issue'[i] = row /\ \A j \in Issues \ {i} : issue'[j] = issue[j]
        /\ Rows' = IF row = None THEN Rows \ {i} ELSE Rows \cup {i}
        /\ Known' = Known \cup {i} /\ Grows /\ TypeOK'
    BY SaveFrame
  <1>2. RequestsOK' BY <1>1, StateTyped, RequestsKept DEF IssuesInv
  <1>3. RowsOK'
    <2>1. \A e \in Events : event'[e] # None => event'[e].issue \in Known' BY <1>1 DEF Saves, IssuesInv, RowsOK
    <2>2. ASSUME NEW j \in Rows'
          PROVE  /\ issue'[j].date = None => issue'[j].event = None
                 /\ issue'[j].event # None => event'[issue'[j].event] # None /\ event'[issue'[j].event].issue = j
      <3>1. CASE j = i BY <1>1, <2>2, <3>1 DEF Saves
      <3>2. CASE j # i
        <4>1. j \in Rows /\ j \in Issues BY <1>1, <2>2, <3>2 DEF Rows
        <4> QED BY <1>1, <3>2, <4>1 DEF Saves, IssuesInv, RowsOK
      <3> QED BY <3>1, <3>2
    <2> QED BY <2>1, <2>2 DEF RowsOK
  <1>4. r \in Busy BY DEF Busy
  <1>5. LinksOK' BY <1>1, <1>4, StateTyped, LinksKept DEF IssuesInv, Saves
  <1>6. \A p \in Issues : request[r] # Idle /\ request[r].pc \in Climbing /\ request[r].at = p => RolledAt(p)'
    <2>1. i \in Near(i, row) BY DEF Near
    <2> QED BY <2>1
  <1>7. RolledOK' BY <1>1, <1>6, StateTyped, RolledKept DEF IssuesInv, Saves
  <1>8. i \in Ids BY DEF Ids
  <1>9. FollowedOK' BY <1>1, <1>8, StateTyped, FollowedKept DEF IssuesInv, Saves
  <1> QED BY <1>1, <1>2, <1>3, <1>5, <1>7, <1>9 DEF IssuesInv

LEMMA SaveIds ==
  ASSUME IssuesInv, NEW r \in Requests, NEW w \in {Idle} \cup RequestRecord, NEW i \in Known, NEW row \in {None} \cup Row,
         Saves(r, w, i, row), w # Idle => w.pc \notin {"newGroup", "insert"}
  PROVE  IdsOK'
  <1>0. i \in Issues BY DEF Known, Rows, IssuesInv, TypeOK
  <1>1. Steps(r, w, Near(i, row)) /\ Known' = Known \cup {i} BY <1>0, SaveFrame
  <1>2. Known' = Known BY <1>1
  <1>3. Free' = Free BY <1>2 DEF Free, Known
  <1> QED BY <1>1, <1>3, StateTyped, IdsKept DEF IssuesInv

(* Neither the parent nor the progress of the issue changes.               *)
LEMMA TreeStays ==
  ASSUME IssuesInv, NEW r \in Requests, NEW w \in {Idle} \cup RequestRecord, NEW i \in Rows, NEW row \in Row,
         Saves(r, w, i, row), row.parent = issue[i].parent, row.progress = issue[i].progress,
         drifted \subseteq drifted', ~(request[r] # Idle /\ request[r].pc \in Climbing)
  PROVE  \A p \in Issues : RolledAt(p)' /\ BornAt(p)'
  <1>1. i \in Issues /\ issue[i] # None /\ row # None BY NoneAssumption DEF Rows
  <1>2. /\ Steps(r, w, Near(i, row)) /\ issue'[i] = row /\ \A j \in Issues \ {i} : issue'[j] = issue[j]
        /\ Rows' = (IF row = None THEN Rows \ {i} ELSE Rows \cup {i}) /\ Known' = Known \cup {i}
    <2>1. row \in {None} \cup Row OBVIOUS
    <2> QED BY <1>1, <2>1, SaveFrame
  <1>3. Rows' = Rows /\ Known' = Known BY <1>1, <1>2 DEF Known
  <1>4. \A j \in Rows : issue'[j].parent = issue[j].parent /\ issue'[j].progress = issue[j].progress
    BY <1>2 DEF Rows
  <1>5. ASSUME NEW p \in Issues
        PROVE  RolledAt(p)' /\ BornAt(p)'
    <2>1. Subtasks(p)' = Subtasks(p) BY <1>3, <1>4 DEF Subtasks
    <2>2. PICK is \in SUBSET Rows : is = Subtasks(p) BY DEF Subtasks
    <2>3. {x \in is \X (1..Full) : x[2] <= issue'[x[1]].progress} = {x \in is \X (1..Full) : x[2] <= issue[x[1]].progress}
      <3>1. \A x \in is \X (1..Full) : issue'[x[1]].progress = issue[x[1]].progress BY <1>4
      <3> QED BY <3>1
    <2>4. MeanIn(issue', is) = MeanIn(issue, is) BY <2>3 DEF MeanIn
    <2>5. Mean(Subtasks(p))' = MeanIn(issue', is) BY <2>1, <2>2 DEF Mean
    <2>6. Mean(Subtasks(p)) = MeanIn(issue, is) BY <2>2 DEF Mean
    <2>7. RolledAt(p) /\ BornAt(p) BY DEF IssuesInv, RolledOK
    <2>8. ASSUME Climber(p) PROVE Climber(p)'
      <3>1. PICK s \in Requests \ {r} : request[s] # Idle /\ request[s].pc \in Climbing /\ request[s].at = p
        BY <2>8 DEF Climber, Busy
      <3> QED BY <1>2, <3>1, StateTyped, ClimberKept
    <2>9. RolledAt(p)'
      <3>1. p \in Rows => issue'[p].progress = issue[p].progress BY <1>4
      <3> QED BY <1>3, <2>1, <2>4, <2>5, <2>6, <2>7, <2>8, <3>1 DEF RolledAt
    <2>10. BornAt(p)' BY <1>3, <2>1, <2>7 DEF BornAt
    <2> QED BY <2>9, <2>10
  <1> QED BY <1>5

(* Neither the date nor the event of the issue changes.                    *)
LEMMA EventStays ==
  ASSUME IssuesInv, NEW r \in Requests, NEW w \in {Idle} \cup RequestRecord, NEW i \in Rows, NEW row \in Row,
         Saves(r, w, i, row), row.date = issue[i].date, row.event = issue[i].event,
         i \notin raced, request[r] # Idle, request[r].pc \notin Correcting
  PROVE  Dated(i)' /\ Linked(i)' /\ Filed(i)'
  <1>1. i \in Issues /\ event' = event /\ undated \subseteq undated' BY DEF Rows, Saves
  <1>2. /\ Steps(r, w, Near(i, row)) /\ issue'[i].date = issue[i].date /\ issue'[i].event = issue[i].event
    <2>1. row \in {None} \cup Row OBVIOUS
    <2>2. Steps(r, w, Near(i, row)) /\ issue'[i] = row BY <1>1, <2>1, SaveFrame
    <2> QED BY <2>2
  <1>3. Dated(i) /\ Linked(i) /\ Filed(i) BY DEF IssuesInv, FollowedOK
  <1>4. Dated(i)'
    <2>1. CASE Mover(i)
      <3>1. PICK s \in Busy : request[s].at = i /\ Moves(request[s], i) BY <2>1 DEF Mover
      <3>2. s # r BY <3>1 DEF Moves, Rereads, Correcting
      <3>3. s \in Requests \ {r} /\ request[s] # Idle BY <3>2 DEF Busy
      <3>4. Mover(i)' BY <1>1, <1>2, <3>1, <3>3, StateTyped, MoverKept
      <3> QED BY <3>4 DEF Dated
    <2>2. CASE ~Mover(i) BY <1>1, <1>2, <1>3, <2>2 DEF Dated
    <2> QED BY <2>1, <2>2
  <1>5. Linked(i)'
    <2>1. ASSUME NEW f \in Events, Linker(i, f) PROVE Linker(i, f)'
      <3>1. PICK s \in Busy : request[s].pc = "link" /\ request[s].at = i /\ request[s].copy.event = f BY <2>1 DEF Linker
      <3>2. s \in Requests \ {r} /\ request[s] # Idle BY <3>1 DEF Busy, Correcting
      <3> QED BY <1>2, <3>1, <3>2, StateTyped, LinkerKept
    <2> QED BY <1>1, <1>2, <1>3, <2>1 DEF Linked
  <1>6. Filed(i)'
    <2>1. CASE Filer(i)
      <3>1. PICK s \in Busy : request[s].at = i /\ Files(request[s], i) BY <2>1 DEF Filer
      <3>2. s # r BY <3>1 DEF Files, Rereads, Correcting
      <3>3. s \in Requests \ {r} /\ request[s] # Idle BY <3>2 DEF Busy
      <3>4. Filer(i)' BY <1>1, <1>2, <3>1, <3>3, StateTyped, FilerKept
      <3> QED BY <3>4 DEF Filed
    <2>2. CASE ~Filer(i) BY <1>1, <1>2, <1>3, <2>2 DEF Filed
    <2> QED BY <2>1, <2>2
  <1> QED BY <1>4, <1>5, <1>6

(* Everything the write may leave wrong is on record.                      *)
LEMMA DriftedRolled == ASSUME NEW p, p \in drifted' PROVE RolledAt(p)' /\ BornAt(p)'
BY DEF RolledAt, BornAt

(* The parent of the issue does not change.                                *)
LEMMA ParentStays ==
  ASSUME IssuesInv, NEW r \in Requests, NEW w \in {Idle} \cup RequestRecord, NEW i \in Rows, NEW row \in Row,
         Saves(r, w, i, row), row.parent = issue[i].parent
  PROVE  /\ Rows' = Rows /\ Known' = Known
         /\ \A p \in Issues : Subtasks(p)' = Subtasks(p) /\ (i \notin Subtasks(p) => Mean(Subtasks(p))' = Mean(Subtasks(p)))
  <1>1. i \in Issues /\ issue[i] # None /\ row # None BY NoneAssumption DEF Rows
  <1>2. /\ issue'[i] = row /\ \A j \in Issues \ {i} : issue'[j] = issue[j]
        /\ Rows' = (IF row = None THEN Rows \ {i} ELSE Rows \cup {i}) /\ Known' = Known \cup {i}
    <2>1. row \in {None} \cup Row OBVIOUS
    <2> QED BY <1>1, <2>1, SaveFrame
  <1>3. Rows' = Rows /\ Known' = Known BY <1>1, <1>2 DEF Known
  <1>4. \A j \in Rows : issue'[j].parent = issue[j].parent BY <1>2 DEF Rows
  <1>5. ASSUME NEW p \in Issues
        PROVE  Subtasks(p)' = Subtasks(p) /\ (i \notin Subtasks(p) => Mean(Subtasks(p))' = Mean(Subtasks(p)))
    <2>1. Subtasks(p)' = Subtasks(p) BY <1>3, <1>4 DEF Subtasks
    <2>2. PICK is \in SUBSET Rows : is = Subtasks(p) BY DEF Subtasks
    <2>3. ASSUME i \notin is PROVE MeanIn(issue', is) = MeanIn(issue, is)
      <3>1. \A x \in is \X (1..Full) : issue'[x[1]] = issue[x[1]] BY <1>2, <2>3 DEF Rows
      <3>2. {x \in is \X (1..Full) : x[2] <= issue'[x[1]].progress} = {x \in is \X (1..Full) : x[2] <= issue[x[1]].progress}
        BY <3>1
      <3> QED BY <3>2 DEF MeanIn
    <2>4. Mean(Subtasks(p))' = MeanIn(issue', is) BY <2>1, <2>2 DEF Mean
    <2>5. Mean(Subtasks(p)) = MeanIn(issue, is) BY <2>2 DEF Mean
    <2> QED BY <2>1, <2>2, <2>3, <2>4, <2>5
  <1> QED BY <1>3, <1>5

(* A request whose recalculation goes on with the parent it loaded.        *)
LEMMA ClimbsOn ==
  ASSUME IssuesInv, NEW q \in RequestRecord, Fits(q), q.op # "move",
         q.copy.date = None => q.copy.event = None,
         event' = event, NEW w,
         IF q.copy.parent = None THEN w = Idle ELSE w = [q EXCEPT !.pc = "parent", !.at = q.copy.parent]
  PROVE  /\ w \in {Idle} \cup RequestRecord /\ OwnOK(w)'
         /\ w # Idle => /\ q.copy.parent \in Issues /\ w.pc = "parent" /\ w.at = q.copy.parent /\ w.copy = q.copy
         /\ q.copy.parent # None => w # Idle
  <1>1. CASE q.copy.parent = None BY <1>1 DEF OwnOK
  <1>2. CASE q.copy.parent # None
    <2>1. PICK p \in Ids : p = q.copy.parent BY Fields, RowFields
    <2>2. p \in Issues BY <1>2, <2>1 DEF Ids
    <2>3. PICK pc \in Pcs : pc = "parent" BY DEF Pcs
    <2>4. w = [q EXCEPT !.pc = pc, !.at = p] BY <1>2, <2>1, <2>3
    <2>5. Has(w, q.op, pc, p, q.copy, q.before, q.stale) BY <2>4, Changes DEF Sent
    <2>6. w \in RequestRecord /\ w # Idle /\ w.op = q.op /\ w.pc = "parent" /\ w.at = p /\ w.copy = q.copy
      BY <2>3, <2>5 DEF Has
    <2>7. PICK c \in Row : c = q.copy BY Fields
    <2>8. c.event # None => event'[c.event] # None BY <2>7 DEF Fits
    <2>9. Fits(w)' BY <2>2, <2>6, <2>7, <2>8 DEF Fits, Climbing, Filing
    <2>10. OwnOK(w)' BY <2>6, <2>9 DEF OwnOK, Loaded, Filing
    <2> QED BY <1>2, <2>1, <2>2, <2>6, <2>10
  <1> QED BY <1>1, <1>2

LEMMA SaveParentKeeps ==
  ASSUME IssuesInv, NEW r \in Requests, SaveParent(r)
  PROVE  IssuesInv'
  <1>1. PICK q \in RequestRecord : q = request[r] /\ q # Idle /\ q.pc = "roll" /\ Fits(q) /\ r \in Busy
                                   /\ (~q.stale => Agrees(q))
    BY BusyFacts DEF SaveParent, At, Loaded
  <1>2. PICK c \in Row : c = q.copy BY Fields
  <1>3. PICK i \in Issues : i = q.at BY <1>1 DEF Fits
  <1>4. PICK w : w = IF c.parent = None THEN Idle ELSE [q EXCEPT !.pc = "parent", !.at = c.parent] OBVIOUS
  <1>5. /\ issue' = [issue EXCEPT ![i] = c] /\ Wrote(r, w, i, c) /\ raced' = (IF q.stale THEN raced \cup {i} ELSE raced)
        /\ drifted' = (drifted \ {i}) \cup Spoils(r, i, c)
        /\ event' = event /\ groups' = groups /\ calendars' = calendars /\ starts' = starts /\ removed' = removed
        /\ undated' = undated
    BY <1>1, <1>2, <1>3, <1>4 DEF SaveParent, Save
  <1>6. c.parent \in Ids /\ c # None /\ c \in {None} \cup Row BY RowFields
  <1>7. issue[i] \in {None} \cup Row BY StateTyped DEF Typed
  <1>8. ParentOf(c) \subseteq Issues /\ ParentOf(issue[i]) \subseteq Issues BY <1>6, <1>7, RowFields DEF ParentOf, Ids
  <1>9. Near(i, c) \subseteq Issues /\ (q.stale => Spoils(r, i, c) = Near(i, c)) /\ (~q.stale => Spoils(r, i, c) = {})
    BY <1>1, <1>8 DEF Near, Spoils
  <1>10. Saves(r, w, i, c)
    <2>1. drifted \subseteq drifted' \cup Near(i, c) /\ drifted' \subseteq Issues BY <1>5, <1>9, StateTyped DEF Near
    <2> QED BY <1>5, <1>6, <2>1 DEF Saves
  <1>11. q.op # "move" /\ (c.date = None => c.event = None)
         /\ (c.event # None => event[c.event] # None /\ event[c.event].issue = i) /\ i \in Known
    BY <1>1, <1>2, <1>3 DEF Fits, Climbing
  <1>12. /\ w \in {Idle} \cup RequestRecord /\ OwnOK(w)'
         /\ w # Idle => /\ c.parent \in Issues /\ w.pc = "parent" /\ w.at = c.parent /\ w.copy = c
         /\ c.parent # None => w # Idle
    <2>1. IF q.copy.parent = None THEN w = Idle ELSE w = [q EXCEPT !.pc = "parent", !.at = q.copy.parent] BY <1>2, <1>4
    <2>2. q.copy.date = None => q.copy.event = None BY <1>2, <1>11
    <2>3. event' = event BY <1>5
    <2>4. /\ w \in {Idle} \cup RequestRecord /\ OwnOK(w)'
          /\ w # Idle => /\ q.copy.parent \in Issues /\ w.pc = "parent" /\ w.at = q.copy.parent /\ w.copy = q.copy
          /\ q.copy.parent # None => w # Idle
      BY <1>1, <1>11, <2>1, <2>2, <2>3, ClimbsOn
    <2> QED BY <1>2, <2>4
  <1>13. IdsOK' BY <1>6, <1>10, <1>11, <1>12, SaveIds
  <1>14. Steps(r, w, Near(i, c)) /\ issue'[i] = c /\ Known' = Known \cup {i} BY <1>6, <1>10, <1>12, SaveFrame
  <1>15. ASSUME NEW p \in Issues \cap Near(i, c) PROVE RolledAt(p)' /\ BornAt(p)'
    <2>1. CASE q.stale
      <3>1. p \in drifted' BY <1>5, <1>9, <2>1
      <3> QED BY <3>1, DriftedRolled
    <2>2. CASE ~q.stale
      <3>1. /\ issue[i] # None /\ c.parent = issue[i].parent /\ c.progress = Mean(Subtasks(i))
        BY <1>1, <1>2, <1>3, <2>2 DEF Agrees
      <3>2. i \in Rows BY <3>1 DEF Rows
      <3>3. /\ Rows' = Rows /\ Known' = Known
            /\ \A j \in Issues : Subtasks(j)' = Subtasks(j) /\ (i \notin Subtasks(j) => Mean(Subtasks(j))' = Mean(Subtasks(j)))
        BY <1>10, <1>12, <3>1, <3>2, ParentStays
      <3>4. CASE p = c.parent
        <4>1. c.parent # None BY <3>4, NoneAssumption
        <4>2. w # Idle /\ w.pc \in Climbing /\ w.at = p BY <1>12, <3>4, <4>1 DEF Climbing
        <4>3. Climber(p)' BY <1>14, <4>2, ClimberNow
        <4>4. RolledAt(p)' BY <4>3 DEF RolledAt
        <4>5. BornAt(p) BY DEF IssuesInv, RolledOK
        <4>6. BornAt(p)' BY <1>5, <1>11, <3>3, <4>5 DEF BornAt
        <4> QED BY <4>4, <4>6
      <3>5. CASE p # c.parent
        <4>1. p = i BY <3>1, <3>5 DEF Near, ParentOf
        <4>2. i \notin Subtasks(i) BY <3>1, <3>5, <4>1 DEF Subtasks
        <4>3. issue'[i].progress = Mean(Subtasks(i))' BY <1>14, <3>1, <3>3, <4>2
        <4>4. RolledAt(i)' BY <4>3 DEF RolledAt
        <4>5. BornAt(i)' BY <1>14 DEF BornAt
        <4> QED BY <4>1, <4>4, <4>5 DEF RolledAt, BornAt, Climber, Mean, MeanIn, Subtasks, Rows
      <3> QED BY <3>4, <3>5
    <2> QED BY <2>1, <2>2
  <1>16. ASSUME i \in Rows' \ raced' PROVE Dated(i)' /\ Linked(i)' /\ Filed(i)'
    <2>1. ~q.stale /\ i \notin raced BY <1>5, <1>16
    <2>2. i \in Rows /\ c.date = issue[i].date /\ c.event = issue[i].event
      BY <1>1, <1>2, <1>3, <2>1 DEF Agrees, Rows
    <2>3. q.pc \notin Correcting BY <1>1 DEF Correcting, Filing
    <2> QED BY <1>1, <1>10, <1>12, <2>1, <2>2, <2>3, EventStays
  <1>17. w # Idle => w.pc # "link" /\ w.copy.event = request[r].copy.event BY <1>1, <1>2, <1>12
  <1> QED BY <1>1, <1>3, <1>6, <1>10, <1>11, <1>12, <1>13, <1>15, <1>16, <1>17, SaveKeeps

LEMMA LinkKeeps ==
  ASSUME IssuesInv, NEW r \in Requests, LinkEvent(r)
  PROVE  IssuesInv'
  <1>1. PICK q \in RequestRecord : q = request[r] /\ q # Idle /\ q.pc = "link" /\ Fits(q) /\ r \in Busy
                                   /\ (~q.stale => Agrees(q))
    BY BusyFacts DEF LinkEvent, At, Loaded
  <1>2. PICK c \in Row : c = q.copy BY Fields
  <1>3. PICK i \in Issues : i = q.at BY <1>1 DEF Fits
  <1>4. PICK w \in {Idle} \cup RequestRecord : w = Idle OBVIOUS
  <1>5. /\ issue' = [issue EXCEPT ![i] = c] /\ Wrote(r, w, i, c) /\ raced' = (IF q.stale THEN raced \cup {i} ELSE raced)
        /\ drifted' = drifted \cup Spoils(r, i, c)
        /\ event' = event /\ groups' = groups /\ calendars' = calendars /\ starts' = starts /\ removed' = removed
        /\ undated' = undated
    BY <1>1, <1>2, <1>3, <1>4 DEF LinkEvent, Save
  <1>6. c.parent \in Ids /\ c # None /\ c \in {None} \cup Row BY RowFields
  <1>7. issue[i] \in {None} \cup Row BY StateTyped DEF Typed
  <1>8. ParentOf(c) \subseteq Issues /\ ParentOf(issue[i]) \subseteq Issues BY <1>6, <1>7, RowFields DEF ParentOf, Ids
  <1>9. Near(i, c) \subseteq Issues /\ (q.stale => Spoils(r, i, c) = Near(i, c)) /\ (~q.stale => Spoils(r, i, c) = {})
    BY <1>1, <1>8 DEF Near, Spoils
  <1>10. Saves(r, w, i, c)
    <2>1. drifted \subseteq drifted' \cup Near(i, c) /\ drifted' \subseteq Issues BY <1>5, <1>9, StateTyped DEF Near
    <2> QED BY <1>5, <1>6, <2>1 DEF Saves
  <1>11. /\ c.date # None /\ c.event # None /\ event[c.event] # None /\ event[c.event].issue = i /\ i \in Known
    BY <1>1, <1>2, <1>3 DEF Fits, Filing
  <1>12. OwnOK(w)' BY <1>4 DEF OwnOK
  <1>13. IdsOK' BY <1>4, <1>6, <1>10, <1>11, SaveIds
  <1>14. q.pc \notin Climbing BY <1>1 DEF Climbing
  <1>15. ASSUME NEW p \in Issues \cap Near(i, c) PROVE RolledAt(p)' /\ BornAt(p)'
    <2>1. CASE q.stale
      <3>1. p \in drifted' BY <1>5, <1>9, <2>1
      <3> QED BY <3>1, DriftedRolled
    <2>2. CASE ~q.stale
      <3>1. i \in Rows /\ c.parent = issue[i].parent /\ c.progress = issue[i].progress
        BY <1>1, <1>2, <1>3, <2>2 DEF Agrees, Rows
      <3> QED BY <1>1, <1>5, <1>10, <1>14, <3>1, TreeStays
    <2> QED BY <2>1, <2>2
  <1>16. ASSUME i \in Rows' \ raced' PROVE Dated(i)' /\ Linked(i)' /\ Filed(i)'
    <2>1. ~q.stale /\ i \notin raced BY <1>5, <1>16
    <2>2. i \in Rows /\ issue[i].event = None BY <1>1, <1>2, <1>3, <2>1 DEF Agrees, Rows
    <2>3. issue'[i] = c /\ Steps(r, w, Near(i, c)) BY <1>6, <1>10, SaveFrame
    <2>4. event[c.event].date = c.date BY <1>1, <1>2, <2>1 DEF IssuesInv, LinksOK
    <2>5. Dated(i)' BY <1>5, <2>3, <2>4 DEF Dated
    <2>6. Filed(i)' BY <1>11, <2>3 DEF Filed
    <2>7. Linked(i)'
      <3>1. ASSUME NEW f \in Events, event[f] # None, event[f].issue = i PROVE c.event = f \/ Linker(i, f)'
        <4>1. Linker(i, f) BY <2>1, <2>2, <3>1, NoneAssumption DEF IssuesInv, FollowedOK, Linked
        <4>2. PICK s \in Busy : request[s].pc = "link" /\ request[s].at = i /\ request[s].copy.event = f BY <4>1 DEF Linker
        <4>3. CASE s = r BY <1>1, <1>2, <4>2, <4>3
        <4>4. CASE s # r
          <5>1. s \in Requests \ {r} /\ request[s] # Idle BY <4>4 DEF Busy
          <5> QED BY <2>3, <4>2, <5>1, StateTyped, LinkerKept
        <4> QED BY <4>3, <4>4
      <3> QED BY <1>5, <2>3, <3>1 DEF Linked
    <2> QED BY <2>5, <2>6, <2>7
  <1> QED BY <1>1, <1>3, <1>4, <1>6, <1>10, <1>11, <1>12, <1>13, <1>15, <1>16, SaveKeeps

LEMMA RemoveKeeps ==
  ASSUME IssuesInv, NEW r \in Requests, RemoveRow(r)
  PROVE  IssuesInv'
  <1>1. PICK q \in RequestRecord : q = request[r] /\ q # Idle /\ q.pc = "remove" /\ Fits(q) /\ r \in Busy
                                   /\ (~q.stale => Agrees(q))
    BY BusyFacts DEF RemoveRow, At, Loaded
  <1>2. PICK c \in Row : c = q.copy BY Fields
  <1>3. PICK i \in Issues : i = q.at BY <1>1 DEF Fits
  <1>4. PICK rolls \in BOOLEAN : rolls <=> q.op = "removeSubtask" OBVIOUS
  <1>5. PICK w : w = IF rolls THEN [q EXCEPT !.pc = "parent", !.at = c.parent] ELSE Idle OBVIOUS
  <1>6. PICK none \in {None} \cup Row : none = None OBVIOUS
  <1>7. /\ issue' = [issue EXCEPT ![i] = none] /\ Wrote(r, w, i, none)
        /\ removed' = removed \cup {i} /\ raced' = (IF q.stale THEN raced \cup {i} ELSE raced)
        /\ drifted' = drifted \cup Spoils(r, i, c) \cup (IF rolls THEN {} ELSE ParentOf(c))
        /\ event' = event /\ groups' = groups /\ calendars' = calendars /\ starts' = starts
        /\ undated' = undated
    BY <1>1, <1>2, <1>3, <1>4, <1>5, <1>6 DEF RemoveRow
  <1>8. c.parent \in Ids /\ c # None BY RowFields
  <1>9. issue[i] \in {None} \cup Row BY StateTyped DEF Typed
  <1>10. ParentOf(c) \subseteq Issues /\ ParentOf(issue[i]) \subseteq Issues BY <1>8, <1>9, RowFields DEF ParentOf, Ids
  <1>11. Near(i, none) = {i} \cup ParentOf(issue[i]) BY <1>6 DEF Near, ParentOf
  <1>12. /\ q.stale => Spoils(r, i, c) = {i} \cup ParentOf(c) \cup ParentOf(issue[i])
         /\ ~q.stale => Spoils(r, i, c) = {}
    BY <1>1 DEF Spoils
  <1>13. Saves(r, w, i, none)
    <2>1. drifted' \subseteq Issues BY <1>7, <1>10, <1>12, StateTyped
    <2> QED BY <1>7, <2>1 DEF Saves
  <1>14. q.op \in {"remove", "removeSubtask"} /\ (c.date = None => c.event = None) /\ i \in Known
         /\ (rolls => c.parent # None)
    BY <1>1, <1>2, <1>3, <1>4 DEF Fits
  <1>15. /\ w \in {Idle} \cup RequestRecord /\ OwnOK(w)'
         /\ w # Idle => /\ c.parent \in Issues /\ w.pc = "parent" /\ w.at = c.parent /\ w.copy = c
         /\ rolls => w # Idle
    <2>1. CASE rolls
      <3>1. IF q.copy.parent = None THEN w = Idle ELSE w = [q EXCEPT !.pc = "parent", !.at = q.copy.parent]
        BY <1>2, <1>5, <1>14, <2>1
      <3>2. q.op # "move" /\ (q.copy.date = None => q.copy.event = None) BY <1>2, <1>14
      <3>3. event' = event BY <1>7
      <3>4. /\ w \in {Idle} \cup RequestRecord /\ OwnOK(w)'
            /\ w # Idle => /\ q.copy.parent \in Issues /\ w.pc = "parent" /\ w.at = q.copy.parent /\ w.copy = q.copy
            /\ q.copy.parent # None => w # Idle
        BY <1>1, <3>1, <3>2, <3>3, ClimbsOn
      <3> QED BY <1>2, <1>14, <2>1, <3>4
    <2>2. CASE ~rolls BY <1>5, <2>2 DEF OwnOK
    <2> QED BY <2>1, <2>2
  <1>16. IdsOK' BY <1>13, <1>14, <1>15, SaveIds
  <1>17. /\ Steps(r, w, Near(i, none)) /\ Known' = Known \cup {i} /\ Rows' = Rows \ {i}
         /\ \A j \in Issues \ {i} : issue'[j] = issue[j]
    BY <1>6, <1>13, <1>15, SaveFrame
  <1>18. ASSUME NEW p \in Issues \cap Near(i, none) PROVE RolledAt(p)' /\ BornAt(p)'
    <2>1. CASE p \in drifted' BY <2>1, DriftedRolled
    <2>2. CASE p \notin drifted'
      <3>1. ~q.stale BY <1>7, <1>11, <1>12, <2>2
      <3>2. c.parent = issue[i].parent BY <1>1, <1>2, <1>3, <3>1 DEF Agrees
      <3>3. CASE p = i BY <1>17, <3>3 DEF RolledAt, BornAt
      <3>4. CASE p # i
        <4>1. p = c.parent /\ issue[i] # None BY <1>11, <3>2, <3>4 DEF ParentOf
        <4>2. p \in ParentOf(c) BY <1>8, <4>1, NoneAssumption DEF ParentOf
        <4>3. rolls BY <1>7, <2>2, <4>2
        <4>4. w # Idle /\ w.pc \in Climbing /\ w.at = p BY <1>15, <4>1, <4>3 DEF Climbing
        <4>5. Climber(p)' BY <1>17, <4>4, ClimberNow
        <4>6. RolledAt(p)' BY <4>5 DEF RolledAt
        <4>7. BornAt(p) BY DEF IssuesInv, RolledOK
        <4>8. Subtasks(p)' \subseteq Subtasks(p) BY <1>17 DEF Subtasks, Rows
        <4>9. BornAt(p)' BY <1>7, <1>17, <2>2, <4>7, <4>8 DEF BornAt
        <4> QED BY <4>6, <4>9
      <3> QED BY <3>3, <3>4
    <2> QED BY <2>1, <2>2
  <1>19. i \notin Rows' BY <1>17
  <1>20. w # Idle => w.pc # "link" /\ w.copy.event = request[r].copy.event BY <1>1, <1>2, <1>15
  <1>21. q.pc \notin Climbing \cup Correcting BY <1>1 DEF Climbing, Correcting, Filing
  <1> QED BY <1>1, <1>6, <1>13, <1>15, <1>16, <1>18, <1>19, <1>20, <1>21, SaveKeeps

(* An update or a move that was saved is read again.                       *)
LEMMA SavedRereads ==
  ASSUME IssuesInv, NEW q \in RequestRecord, Fits(q), q.pc = "save", q.op \in {"update", "move"},
         event' = event, Known \subseteq Known', NEW b \in BOOLEAN, NEW w, Reread(w, q, "refresh", b)
  PROVE  /\ w \in RequestRecord /\ w # Idle /\ OwnOK(w)'
         /\ w.op = q.op /\ w.pc = "refresh" /\ w.at = q.at /\ w.copy = q.copy /\ w.before = q.before
  <1>1. PICK pc \in Pcs : pc = "refresh" BY DEF Pcs
  <1>2. Reread(w, q, pc, b) BY <1>1
  <1>3. Has(w, q.op, pc, q.at, q.copy, q.before, b) BY <1>2, Changes
  <1>4. /\ w \in RequestRecord /\ w # Idle
        /\ w.op = q.op /\ w.pc = "refresh" /\ w.at = q.at /\ w.copy = q.copy /\ w.before = q.before
    BY <1>1, <1>3 DEF Has
  <1>5. PICK c \in Row : c = q.copy BY Fields
  <1>6. \A x : x \in Known => x \in Known' OBVIOUS
  <1>7. Fits(w)' BY <1>4, <1>5, <1>6 DEF Fits, Climbing, Filing
  <1>8. OwnOK(w)' BY <1>4, <1>7 DEF OwnOK, Loaded, Filing
  <1> QED BY <1>4, <1>8

LEMMA SaveIssueKeeps ==
  ASSUME IssuesInv, NEW r \in Requests, SaveIssue(r)
  PROVE  IssuesInv'
  <1>1. PICK q \in RequestRecord : q = request[r] /\ q # Idle /\ q.pc = "save" /\ Fits(q) /\ r \in Busy
                                   /\ (~q.stale => Agrees(q))
    BY BusyFacts DEF SaveIssue, At, Loaded
  <1>2. PICK c \in Row : c = q.copy BY Fields
  <1>3. PICK i \in Issues : i = q.at BY <1>1 DEF Fits
  <1>4. PICK changed \in BOOLEAN : changed <=> issue[i] # None /\ (issue[i].progress # c.progress \/ issue[i].parent # c.parent)
    OBVIOUS
  <1>5. PICK w : w = CASE q.op = "touch" -> Idle
                       [] q.op = "progress" -> IF c.parent = None THEN Idle ELSE [q EXCEPT !.pc = "parent", !.at = c.parent]
                       [] OTHER -> [q EXCEPT !.pc = "refresh", !.stale = FALSE]
    OBVIOUS
  <1>6. /\ issue' = [issue EXCEPT ![i] = c] /\ Wrote(r, w, i, c) /\ raced' = (IF q.stale THEN raced \cup {i} ELSE raced)
        /\ event' = event /\ groups' = groups /\ calendars' = calendars /\ starts' = starts /\ removed' = removed
        /\ undated' = undated
    BY <1>1, <1>2, <1>3, <1>5, Zenon DEF SaveIssue, Save
  <1>7. drifted' = drifted \cup Spoils(r, i, c)
                     \cup (IF ~changed THEN {} ELSE IF q.op = "update" THEN {i} \cup ParentOf(c) \cup ParentOf(issue[i]) ELSE {i})
    BY <1>1, <1>2, <1>3, <1>4 DEF SaveIssue
  <1>8. c.parent \in Ids /\ c # None /\ c \in {None} \cup Row BY RowFields
  <1>9. issue[i] \in {None} \cup Row BY StateTyped DEF Typed
  <1>10. ParentOf(c) \subseteq Issues /\ ParentOf(issue[i]) \subseteq Issues BY <1>8, <1>9, RowFields DEF ParentOf, Ids
  <1>11. /\ Near(i, c) = {i} \cup ParentOf(c) \cup ParentOf(issue[i])
         /\ q.stale => Spoils(r, i, c) = Near(i, c)
         /\ ~q.stale => Spoils(r, i, c) = {}
    BY <1>1 DEF Near, Spoils
  <1>12. Saves(r, w, i, c)
    <2>1. drifted \subseteq drifted' /\ drifted' \subseteq Issues BY <1>7, <1>10, <1>11, StateTyped
    <2> QED BY <1>6, <1>8, <2>1 DEF Saves
  <1>13. /\ q.op \in {"update", "touch", "progress", "move"} /\ i \in Known
         /\ c.date = None => c.event = None
         /\ c.event # None => event[c.event] # None /\ event[c.event].issue = i
    BY <1>1, <1>2, <1>3 DEF Fits
  <1>14. Known \subseteq Known'
    <2>1. Rows \subseteq Rows' BY <1>6, <1>8, <1>9, StateTyped DEF Rows, Typed
    <2> QED BY <1>6, <2>1 DEF Known
  <1>15. q.op = "touch" => w = Idle BY <1>5
  <1>16. q.op = "progress" =>
           /\ w \in {Idle} \cup RequestRecord /\ OwnOK(w)'
           /\ w # Idle => /\ c.parent \in Issues /\ w.pc = "parent" /\ w.at = c.parent /\ w.copy = c
           /\ c.parent # None => w # Idle
    <2>1. CASE q.op = "progress"
      <3>1. IF q.copy.parent = None THEN w = Idle ELSE w = [q EXCEPT !.pc = "parent", !.at = q.copy.parent]
        BY <1>2, <1>5, <2>1
      <3>2. q.op # "move" /\ (q.copy.date = None => q.copy.event = None) BY <1>2, <1>13, <2>1
      <3>3. event' = event BY <1>6
      <3>4. /\ w \in {Idle} \cup RequestRecord /\ OwnOK(w)'
            /\ w # Idle => /\ q.copy.parent \in Issues /\ w.pc = "parent" /\ w.at = q.copy.parent /\ w.copy = q.copy
            /\ q.copy.parent # None => w # Idle
        BY <1>1, <3>1, <3>2, <3>3, ClimbsOn
      <3> QED BY <1>2, <3>4
    <2> QED BY <2>1
  <1>17. q.op \in {"update", "move"} =>
           /\ w \in RequestRecord /\ w # Idle /\ OwnOK(w)'
           /\ w.op = q.op /\ w.pc = "refresh" /\ w.at = i /\ w.copy = c /\ w.before = q.before
    <2>1. CASE q.op \in {"update", "move"}
      <3>1. PICK b \in BOOLEAN : b = FALSE OBVIOUS
      <3>2. Reread(w, q, "refresh", b) BY <1>5, <2>1, <3>1 DEF Reread
      <3>3. event' = event BY <1>6
      <3>4. /\ w \in RequestRecord /\ w # Idle /\ OwnOK(w)'
            /\ w.op = q.op /\ w.pc = "refresh" /\ w.at = q.at /\ w.copy = q.copy /\ w.before = q.before
        BY <1>1, <1>14, <2>1, <3>2, <3>3, SavedRereads
      <3> QED BY <1>2, <1>3, <3>4
    <2> QED BY <2>1
  <1>18. /\ w \in {Idle} \cup RequestRecord /\ OwnOK(w)'
         /\ w # Idle => w.pc \in {"parent", "refresh"} /\ w.copy = c
    <2>1. CASE q.op = "touch" BY <1>15, <2>1 DEF OwnOK
    <2>2. CASE q.op = "progress" BY <1>16, <2>2
    <2>3. CASE q.op \in {"update", "move"} BY <1>17, <2>3
    <2> QED BY <1>13, <2>1, <2>2, <2>3
  <1>19. IdsOK' BY <1>8, <1>12, <1>13, <1>18, SaveIds
  <1>20. /\ Steps(r, w, Near(i, c)) /\ issue'[i] = c /\ Known' = Known \cup {i} BY <1>8, <1>12, <1>18, SaveFrame
  <1>21. q.pc \notin Climbing \cup Correcting BY <1>1 DEF Climbing, Correcting, Filing
  <1>22. ASSUME NEW p \in Issues \cap Near(i, c) PROVE RolledAt(p)' /\ BornAt(p)'
    <2>1. CASE p \in drifted' BY <2>1, DriftedRolled
    <2>2. CASE p \notin drifted'
      <3>1. ~q.stale BY <1>7, <1>11, <2>2
      <3>2. i \in Rows /\ issue[i] # None BY <1>1, <1>3, <3>1 DEF Agrees, Rows
      <3>3. CASE ~changed
        <4>1. c.parent = issue[i].parent /\ c.progress = issue[i].progress BY <1>4, <3>2, <3>3
        <4>2. drifted \subseteq drifted' BY <1>7
        <4> QED BY <1>1, <1>12, <1>18, <1>21, <3>2, <4>1, <4>2, TreeStays
      <3>4. CASE changed
        <4>1. q.op # "update" /\ p # i BY <1>7, <1>11, <2>2, <3>4
        <4>2. c.parent = issue[i].parent BY <1>1, <1>2, <1>3, <3>1, <4>1 DEF Agrees
        <4>3. q.op = "progress" BY <1>1, <1>2, <1>3, <1>4, <3>1, <3>4, <4>1, <4>2 DEF Agrees
        <4>4. p = c.parent /\ c.parent # None BY <1>11, <4>1, <4>2, NoneAssumption DEF ParentOf
        <4>5. w # Idle /\ w.pc \in Climbing /\ w.at = p BY <1>16, <4>3, <4>4 DEF Climbing
        <4>6. Climber(p)' BY <1>20, <4>5, ClimberNow
        <4>7. RolledAt(p)' BY <4>6 DEF RolledAt
        <4>8. BornAt(p) BY DEF IssuesInv, RolledOK
        <4>9. Known' = Known /\ Subtasks(p)' = Subtasks(p) BY <1>12, <1>18, <3>2, <4>2, ParentStays
        <4>10. p \in drifted => p \in drifted' BY <1>7
        <4>11. BornAt(p)' BY <4>8, <4>9, <4>10 DEF BornAt
        <4> QED BY <4>7, <4>11
      <3> QED BY <3>3, <3>4
    <2> QED BY <2>1, <2>2
  <1>23. ASSUME i \in Rows' \ raced' PROVE Dated(i)' /\ Linked(i)' /\ Filed(i)'
    <2>1. ~q.stale /\ i \notin raced BY <1>6, <1>23
    <2>2. i \in Rows /\ c.event = issue[i].event BY <1>1, <1>2, <1>3, <2>1 DEF Agrees, Rows
    <2>3. CASE c.date = issue[i].date
      BY <1>1, <1>12, <1>18, <1>21, <2>1, <2>2, <2>3, EventStays
    <2>4. CASE c.date # issue[i].date
      <3>1. q.op \in {"update", "move"} BY <1>1, <1>2, <1>3, <1>13, <2>1, <2>4 DEF Agrees
      <3>2. /\ w \in RequestRecord /\ w # Idle /\ w.op = q.op /\ w.pc = "refresh" /\ w.at = i /\ w.copy = c /\ w.before = q.before
        BY <1>17, <3>1
      <3>3. Linked(i) /\ Filed(i) BY <2>1, <2>2 DEF IssuesInv, FollowedOK
      <3>4. q.op = "update" => q.before = issue[i].date BY <1>1, <1>3, <2>1 DEF Agrees
      <3>5. Linked(i)'
        <4>1. ASSUME NEW f \in Events, Linker(i, f) PROVE Linker(i, f)'
          <5>1. PICK s \in Busy : request[s].pc = "link" /\ request[s].at = i /\ request[s].copy.event = f BY <4>1 DEF Linker
          <5>2. s \in Requests \ {r} /\ request[s] # Idle BY <1>1, <5>1 DEF Busy
          <5> QED BY <1>20, <5>1, <5>2, StateTyped, LinkerKept
        <4> QED BY <1>6, <1>20, <2>2, <3>3, <4>1 DEF Linked
      <3>6. Moves(w, i)'
        <4>1. CASE q.op = "update" BY <1>20, <2>4, <3>2, <3>4, <4>1 DEF Moves, Rereads
        <4>2. CASE q.op = "move" BY <1>20, <3>2, <4>2 DEF Moves
        <4> QED BY <3>1, <4>1, <4>2
      <3>7. Mover(i)' BY <1>20, <3>2, <3>6, MoverNow
      <3>8. Dated(i)' BY <3>7 DEF Dated
      <3>9. Filed(i)'
        <4>1. CASE q.op = "update"
          <5>1. Files(w, i)' BY <1>20, <2>4, <3>2, <3>4, <4>1 DEF Files, Rereads
          <5>2. Filer(i)' BY <1>20, <3>2, <5>1, FilerNow
          <5> QED BY <5>2 DEF Filed
        <4>2. CASE q.op = "move" /\ issue[i].event = None
          <5>1. PICK f \in Events : event[f] # None /\ event[f].issue = i BY <1>1, <1>3, <4>2 DEF Fits
          <5>2. Linker(i, f) BY <3>3, <4>2, <5>1, NoneAssumption DEF Linked
          <5>3. PICK s \in Busy : request[s].pc = "link" /\ request[s].at = i /\ request[s].copy.event = f
            BY <5>2 DEF Linker
          <5>4. s \in Requests \ {r} /\ request[s] # Idle BY <1>1, <5>3 DEF Busy
          <5>5. Linker(i, f)' BY <1>20, <5>3, <5>4, StateTyped, LinkerKept
          <5>6. Filer(i)' BY <5>5 DEF Linker, Filer, Files
          <5> QED BY <5>6 DEF Filed
        <4>3. CASE issue[i].event # None BY <1>20, <2>2, <4>3 DEF Filed
        <4> QED BY <3>1, <4>1, <4>2, <4>3
      <3> QED BY <3>5, <3>8, <3>9
    <2> QED BY <2>3, <2>4
  <1>24. w # Idle => w.pc # "link" /\ w.copy.event = request[r].copy.event BY <1>1, <1>2, <1>18
  <1> QED BY <1>1, <1>8, <1>12, <1>13, <1>18, <1>19, <1>21, <1>22, <1>23, <1>24, SaveKeeps

(* A row is inserted under an id nobody had.                               *)
LEMMA InsertIds ==
  ASSUME IssuesInv, NEW r \in Inserting, NEW w \in {Idle} \cup RequestRecord, NEW i \in Free, NEW T, Steps(r, w, T),
         Known' = Known \cup {i}, w # Idle => w.pc \notin {"newGroup", "insert"}
  PROVE  IdsOK'
  <1>1. Free' = Free \ {i} BY DEF Free, Known
  <1>2. Inserting' \subseteq Inserting \ {r}
    <2>1. ASSUME NEW s \in Inserting' PROVE s \in Inserting \ {r}
      <3>1. s \in Requests /\ request'[s] # Idle /\ request'[s].pc \in {"newGroup", "insert"} BY DEF Inserting
      <3>2. s # r BY <3>1 DEF Steps
      <3>3. request[s] # Idle /\ request[s].pc = request'[s].pc BY <3>1, <3>2 DEF Steps, Kept, Has
      <3> QED BY <3>1, <3>2, <3>3 DEF Inserting
    <2> QED BY <2>1
  <1>3. IsFiniteSet(Free) /\ IsFiniteSet(Inserting) BY FiniteAssumption, FS_Subset DEF Free, Inserting
  <1>4. Cardinality(Free) \in Nat /\ Cardinality(Inserting) \in Nat BY <1>3, FS_CardinalityType
  <1>5. Cardinality(Free \ {i}) = Cardinality(Free) - 1 BY <1>3, FS_RemoveElement
  <1>6. IsFiniteSet(Inserting \ {r}) /\ Cardinality(Inserting \ {r}) = Cardinality(Inserting) - 1 BY <1>3, FS_RemoveElement
  <1>7. PICK S, S2 : S = Inserting \ {r} /\ S2 = Inserting' OBVIOUS
  <1>8. Cardinality(S2) <= Cardinality(S) /\ Cardinality(S2) \in Nat
    BY <1>2, <1>6, <1>7, FS_Subset, FS_CardinalityType
  <1>9. Cardinality(Free) >= Cardinality(Inserting) BY DEF IssuesInv, IdsOK
  <1>10. Cardinality(S2) <= Cardinality(Free \ {i}) BY <1>4, <1>5, <1>6, <1>7, <1>8, <1>9
  <1> QED BY <1>1, <1>7, <1>8, <1>10 DEF IdsOK

LEMMA InsertKeeps ==
  ASSUME IssuesInv, NEW r \in Requests, Insert(r)
  PROVE  IssuesInv'
  <1>1. PICK q \in RequestRecord : q = request[r] /\ q # Idle /\ q.pc = "insert" /\ Fits(q) /\ r \in Busy
    BY BusyFacts DEF Insert, At
  <1>2. PICK c \in Row : c = q.copy BY Fields
  <1>3. /\ q.op \in {"create", "addSubtask"} /\ c.event = None
        /\ c.parent # None => c.parent \in Known
        /\ q.op = "create" => c.date # None
        /\ q.op = "addSubtask" => c.parent # None
    BY <1>1, <1>2 DEF Fits
  <1>4. PICK isCreate \in BOOLEAN : isCreate <=> q.op = "create" OBVIOUS
  <1>5. r \in Inserting BY <1>1 DEF Inserting, Busy
  <1>6. PICK i : i = CHOOSE j \in Free : TRUE OBVIOUS
  <1>7. i \in Free
    <2>1. IsFiniteSet(Free) /\ IsFiniteSet(Inserting) BY FiniteAssumption, FS_Subset DEF Free, Inserting
    <2>2. Cardinality(Inserting) # 0 /\ Cardinality(Inserting) \in Nat BY <1>5, <2>1, FS_EmptySet, FS_CardinalityType
    <2>3. Cardinality(Free) >= Cardinality(Inserting) BY DEF IssuesInv, IdsOK
    <2>4. Free # {} BY <2>1, <2>2, <2>3, FS_EmptySet
    <2> QED BY <1>6, <2>4
  <1>8. i \in Issues /\ i \notin Known /\ i \notin Rows /\ issue[i] = None BY <1>7 DEF Free, Known, Rows
  <1>9. PICK w : w = IF isCreate THEN [q EXCEPT !.pc = "calendar", !.at = i] ELSE [q EXCEPT !.pc = "parent", !.at = c.parent]
    OBVIOUS
  <1>10. /\ issue' = [issue EXCEPT ![i] = c] /\ Wrote(r, w, i, c) /\ raced' = (IF q.stale THEN raced \cup {i} ELSE raced)
         /\ drifted' = (IF isCreate THEN drifted \cup ParentOf(c) ELSE drifted)
         /\ undated' = (IF isCreate \/ c.date = None THEN undated ELSE undated \cup {i})
         /\ event' = event /\ groups' = groups /\ calendars' = calendars /\ starts' = starts /\ removed' = removed
    BY <1>1, <1>2, <1>4, <1>6, <1>9 DEF Insert, Save
  <1>11. c.parent \in Ids /\ c # None /\ c \in {None} \cup Row BY RowFields
  <1>12. ParentOf(c) \subseteq Issues BY <1>11 DEF ParentOf, Ids
  <1>13. Near(i, c) = {i} \cup ParentOf(c) BY <1>8 DEF Near, ParentOf
  <1>14. Saves(r, w, i, c) BY <1>8, <1>10, <1>11, <1>12, StateTyped DEF Saves
  <1>15. PICK pc \in Pcs, at \in Ids : IF isCreate THEN pc = "calendar" /\ at = i ELSE pc = "parent" /\ at = c.parent
    <2>1. PICK pc \in Pcs : pc = IF isCreate THEN "calendar" ELSE "parent" BY DEF Pcs
    <2>2. PICK at \in Ids : at = IF isCreate THEN i ELSE c.parent BY <1>8, <1>11 DEF Ids
    <2> QED BY <2>1, <2>2
  <1>16. Sent(w, q, pc, at) BY <1>9, <1>15 DEF Sent
  <1>17. Has(w, q.op, pc, at, q.copy, q.before, q.stale) BY <1>16, Changes
  <1>18. /\ w \in {Idle} \cup RequestRecord /\ w # Idle /\ w.op = q.op /\ w.pc = pc /\ w.at = at /\ w.copy = c
    BY <1>2, <1>17 DEF Has
  <1>19. /\ Steps(r, w, Near(i, c)) /\ issue'[i] = c /\ \A j \in Issues \ {i} : issue'[j] = issue[j]
         /\ Rows' = (IF c = None THEN Rows \ {i} ELSE Rows \cup {i}) /\ Known' = Known \cup {i}
    BY <1>8, <1>11, <1>14, <1>18, SaveFrame
  <1>20. OwnOK(w)'
    <2>1. at \in Issues BY <1>3, <1>4, <1>8, <1>15, <1>11 DEF Ids
    <2>2. Fits(w)' BY <1>3, <1>4, <1>15, <1>18, <1>19, <2>1 DEF Fits, Climbing, Filing
    <2>3. ASSUME w.pc \in Loaded PROVE Agrees(w)'
      BY <1>3, <1>11, <1>15, <1>18, <1>19, <2>3 DEF Agrees, Loaded, Filing
    <2> QED BY <2>2, <2>3 DEF OwnOK
  <1>21. w.pc \notin {"newGroup", "insert", "link"} BY <1>15, <1>18
  <1>22. IdsOK' BY <1>5, <1>7, <1>18, <1>19, <1>21, InsertIds
  <1>23. ASSUME NEW p \in Issues \cap Near(i, c) PROVE RolledAt(p)' /\ BornAt(p)'
    <2>1. CASE p \in drifted' BY <2>1, DriftedRolled
    <2>2. CASE p \notin drifted'
      <3>1. CASE p = i
        <4>1. BornAt(p)' BY <1>19, <3>1 DEF BornAt
        <4>2. c.parent # i BY <1>3, <1>8, NoneAssumption
        <4>3. Subtasks(p)' = Subtasks(p) BY <1>8, <1>11, <1>19, <3>1, <4>2 DEF Subtasks, Rows
        <4>4. BornAt(p) BY DEF IssuesInv, RolledOK
        <4>5. Subtasks(p)' = {} BY <1>8, <1>10, <2>2, <3>1, <4>3, <4>4 DEF BornAt
        <4>6. RolledAt(p)' BY <4>5 DEF RolledAt
        <4> QED BY <4>1, <4>6
      <3>2. CASE p # i
        <4>1. p \in ParentOf(c) BY <1>13, <3>2
        <4>2. p = c.parent /\ c.parent # None BY <1>11, <4>1 DEF ParentOf
        <4>3. ~isCreate BY <1>10, <2>2, <4>1
        <4>4. w # Idle /\ w.pc \in Climbing /\ w.at = p BY <1>15, <1>18, <4>2, <4>3 DEF Climbing
        <4>5. Climber(p)' BY <1>19, <4>4, ClimberNow
        <4>6. RolledAt(p)' BY <4>5 DEF RolledAt
        <4>7. BornAt(p)' BY <1>3, <1>19, <4>2 DEF BornAt
        <4> QED BY <4>6, <4>7
      <3> QED BY <3>1, <3>2
    <2> QED BY <2>1, <2>2
  <1>24. ASSUME i \in Rows' \ raced' PROVE Dated(i)' /\ Linked(i)' /\ Filed(i)'
    <2>1. Dated(i)' BY <1>3, <1>19 DEF Dated
    <2>2. \A e \in Events : event[e] # None => event[e].issue # i BY <1>8 DEF IssuesInv, RowsOK
    <2>3. Linked(i)' BY <1>10, <2>2 DEF Linked
    <2>4. CASE isCreate
      <3>1. w # Idle /\ w.at = i /\ Files(w, i)' BY <1>15, <1>18, <2>4 DEF Files, Filing
      <3>2. Filer(i)' BY <1>19, <3>1, FilerNow
      <3>3. Filed(i)' BY <3>2 DEF Filed
      <3> QED BY <2>1, <2>3, <3>3
    <2>5. CASE ~isCreate
      <3>1. Filed(i)' BY <1>10, <1>19, <2>5 DEF Filed
      <3> QED BY <2>1, <2>3, <3>1
    <2> QED BY <2>4, <2>5
  <1>25. q.pc \notin Climbing \cup Correcting BY <1>1 DEF Climbing, Correcting, Filing
  <1> QED BY <1>1, <1>3, <1>8, <1>11, <1>14, <1>18, <1>20, <1>21, <1>22, <1>23, <1>24, <1>25, SaveKeeps

-----------------------------------------------------------------------------
(***************************************************************************)
(* The invariant.                                                          *)
(***************************************************************************)
LEMMA InitInv == Init => IssuesInv
  <1> SUFFICES ASSUME Init PROVE IssuesInv OBVIOUS
  <1>1. PICK b \in Boards : issue = b.issue /\ event = b.event /\ groups = b.made /\ calendars = b.made BY DEF Init
  <1>2. /\ \A r \in Requests : request[r] = Idle
        /\ request = [r \in Requests |-> Idle] /\ starts = 0
        /\ removed = {} /\ undated = {} /\ drifted = {} /\ raced = {}
    BY DEF Init
  <1>3. issue \in [Issues -> {None} \cup Row] /\ event \in [Events -> {None} \cup Event] /\ groups \in Nat /\ calendars \in Nat
    BY <1>1, BoardsAssumption
  <1>4. On(b) = Rows /\ \A p \in Issues : Under(b, p) = Subtasks(p) BY <1>1 DEF On, Under, Rows, Subtasks
  <1>5. ASSUME NEW i \in Rows
        PROVE  /\ issue[i].parent \in Rows \cup {None}
               /\ Subtasks(i) # {} => issue[i].progress = Mean(Subtasks(i))
               /\ issue[i].date = None <=> issue[i].event = None
               /\ issue[i].event # None => event[issue[i].event] = [issue |-> i, date |-> issue[i].date]
    <2>1. i \in Issues /\ i \in On(b) BY <1>4 DEF Rows
    <2> QED BY <1>1, <1>4, <2>1, BoardsAssumption DEF Mean
  <1>6. \A e \in Events : event[e] # None => event[e].issue \in Rows /\ issue[event[e].issue].event = e
    BY <1>1, <1>4, BoardsAssumption
  <1>7. TypeOK BY <1>2, <1>3, FullAssumption DEF TypeOK
  <1>8. Busy = {} /\ Inserting = {} BY <1>2 DEF Busy, Inserting
  <1>9. RequestsOK BY <1>2, <1>8 DEF RequestsOK
  <1>10. IdsOK
    <2>1. IsFiniteSet(Free) BY FiniteAssumption, FS_Subset DEF Free
    <2>2. Cardinality(Free) \in Nat BY <2>1, FS_CardinalityType
    <2>3. Cardinality(Inserting) = 0 BY <1>8, FS_EmptySet
    <2> QED BY <2>2, <2>3 DEF IdsOK
  <1>11. ASSUME NEW i \in Rows, issue[i].event # None
         PROVE  event[issue[i].event] # None /\ event[issue[i].event].issue = i /\ event[issue[i].event].date = issue[i].date
    <2>1. i \in Issues /\ issue[i] \in Row BY <1>3 DEF Rows
    <2>2. PICK d \in Days : d = issue[i].date BY <2>1, RowFields
    <2>3. event[issue[i].event] = [issue |-> i, date |-> d] BY <1>5, <1>11, <2>2
    <2> QED BY <2>1, <2>2, <2>3, EventHas
  <1>12. RowsOK BY <1>5, <1>6, <1>11 DEF RowsOK, Known
  <1>13. LinksOK BY <1>8 DEF LinksOK
  <1>14. RolledOK
    <2>1. ASSUME NEW p \in Issues PROVE RolledAt(p) /\ BornAt(p)
      <3>1. RolledAt(p) BY <1>5 DEF RolledAt
      <3>2. p \notin Known => Subtasks(p) = {} BY <1>5, NoneAssumption DEF Known, Subtasks
      <3> QED BY <3>1, <3>2 DEF BornAt
    <2> QED BY <2>1 DEF RolledOK
  <1>15. FollowedOK BY <1>5, <1>6, <1>11 DEF FollowedOK, Dated, Linked, Filed
  <1> QED BY <1>7, <1>9, <1>10, <1>12, <1>13, <1>14, <1>15 DEF IssuesInv

(* How many groups there are is nothing to the issues.                     *)
LEMMA Apart ==
  ASSUME IssuesInv, issue' = issue, event' = event, groups' \in Nat, calendars' = calendars, request' = request,
         starts' \in 0..MaxStarts, removed' = removed, undated' = undated, drifted' = drifted, raced' = raced
  PROVE  IssuesInv'
  <1>1. /\ issue' = issue /\ event' = event /\ groups' \in Nat /\ calendars' = calendars /\ request' = request
        /\ starts' \in 0..MaxStarts /\ removed' = removed /\ undated' = undated /\ drifted' = drifted /\ raced' = raced
    OBVIOUS
  <1>2. TypeOK' BY <1>1 DEF IssuesInv, TypeOK
  <1>3. RequestsOK'
    <2>1. ASSUME NEW r \in Busy
          PROVE  Fits(request[r])' /\ (request'[r].pc \in Loaded /\ ~request'[r].stale => Agrees(request[r])')
      <3>1. PICK q : q = request[r] OBVIOUS
      <3>2. q # Idle /\ OwnOK(q) BY <2>1, <3>1 DEF IssuesInv, RequestsOK, OwnOK, Busy
      <3>3. OwnOK(q)' BY <1>1, <3>2, SameOwn
      <3>4. q = request'[r] BY <1>1, <3>1
      <3> QED BY <3>2, <3>3, <3>4 DEF OwnOK, Fits, Agrees
    <2>2. Busy' = Busy BY <1>1 DEF Busy
    <2>3. request' \in [Requests -> {Idle} \cup RequestRecord] BY <1>1 DEF IssuesInv, RequestsOK
    <2> QED BY <2>1, <2>2, <2>3 DEF RequestsOK
  <1>4. IdsOK' BY <1>1 DEF IssuesInv, IdsOK, Free, Inserting, Rows
  <1>5. RowsOK' BY <1>1 DEF IssuesInv, RowsOK, Known, Rows
  <1>6. LinksOK' BY <1>1 DEF IssuesInv, LinksOK, Busy
  <1>7. RolledOK' BY <1>1 DEF IssuesInv, RolledOK, RolledAt, BornAt, Climber, Busy, Known, Rows, Subtasks, Mean, MeanIn
  <1>8. FollowedOK'
    BY <1>1 DEF IssuesInv, FollowedOK, Dated, Linked, Filed, Mover, Linker, Filer, Moves, Files, Rereads, Busy, Rows
  <1> QED BY <1>2, <1>3, <1>4, <1>5, <1>6, <1>7, <1>8 DEF IssuesInv

LEMMA GroupInv == IssuesInv /\ AskGroup => IssuesInv'
  <1> SUFFICES ASSUME IssuesInv, AskGroup PROVE IssuesInv' OBVIOUS
  <1>1. groups \in Nat /\ starts \in 0..MaxStarts BY DEF IssuesInv, TypeOK
  <1>2. groups' \in Nat BY <1>1 DEF AskGroup, CreateIssueGroup, UpdateIssueGroup, RemoveIssueGroup
  <1>3. starts' \in 0..MaxStarts BY <1>1, FullAssumption DEF AskGroup
  <1> QED BY <1>2, <1>3, Apart DEF AskGroup, history

LEMMA NextInv == IssuesInv /\ Next => IssuesInv'
  <1> SUFFICES ASSUME IssuesInv, NEW r \in Requests, Ask(r) \/ Handle(r) \/ Fail(r) PROVE IssuesInv' BY GroupInv DEF Next
  <1>1. CASE Ask(r)
    BY <1>1, CreateStarts, UpdateStarts, TouchStarts, MoveStarts, ProgressStarts, SubtaskStarts, RemoveStarts DEF Ask, UpdateStatus, AssignIssue
  <1>2. CASE Handle(r)
    BY <1>2, GroupKeeps, InsertKeeps, CalendarKeeps, CreateKeeps, LinkKeeps, MoveKeeps, SaveIssueKeeps, RefreshKeeps,
       RemoveKeeps, ParentKeeps, SubtasksKeep, SaveParentKeeps DEF Handle
  <1>3. CASE Fail(r) BY <1>3, FailKeeps
  <1> QED BY <1>1, <1>2, <1>3

LEMMA StutterInv == IssuesInv /\ UNCHANGED vars => IssuesInv'
  <1> SUFFICES ASSUME IssuesInv, UNCHANGED vars PROVE IssuesInv' OBVIOUS
  <1>1. groups \in Nat /\ starts \in 0..MaxStarts BY DEF IssuesInv, TypeOK
  <1> QED BY <1>1, Apart DEF vars, rows, history

(* What every request holds, and who is about to put right what is not,    *)
(* whatever the requests do between each other's steps.                    *)
THEOREM IssuesInvariant == Spec => []IssuesInv
  <1>1. IssuesInv /\ [Next]_vars => IssuesInv' BY NextInv, StutterInv
  <1> QED BY InitInv, <1>1, PTL DEF Spec

(* buildIssueTree shows every issue but those below a cycle of parents.    *)
LEMMA TreeShown == TypeOK => BoardComplete
  <1> SUFFICES ASSUME NEW i \in Rows, i \notin Shown
               PROVE  \E is \in SUBSET Rows : i \in is /\ \A j \in is : issue[j].parent \in is
    BY DEF BoardComplete
  <1>1. ASSUME NEW j \in Rows \ Shown PROVE issue[j].parent \in Rows \ Shown
    <2>1. PICK S \in SUBSET Rows : Roots \subseteq S /\ (\A k \in S : Subtasks(k) \subseteq S) /\ j \notin S
      BY <1>1 DEF Shown
    <2>2. issue[j].parent \in Rows BY <1>1, <2>1 DEF Roots
    <2>3. ASSUME issue[j].parent \in Shown PROVE FALSE
      <3>1. issue[j].parent \in S BY <2>1, <2>3 DEF Shown
      <3>2. j \in Subtasks(issue[j].parent) BY <1>1 DEF Subtasks
      <3> QED BY <2>1, <3>1, <3>2
    <2> QED BY <2>2, <2>3
  <1>2. i \in Rows \ Shown /\ Rows \ Shown \in SUBSET Rows OBVIOUS
  <1> QED BY <1>1, <1>2

(* createIssue, updateIssue, removeIssue: rows, events and requests keep   *)
(* their types, and no issue is lost from the board unless it hangs below  *)
(* a cycle of parents.                                                     *)
THEOREM BoardIsComplete == Spec => []Consistent
  <1>1. IssuesInv => Consistent BY TreeShown DEF IssuesInv, Consistent
  <1> QED BY <1>1, IssuesInvariant, PTL

(* recalculateParentProgress: when no request is left, the progress of an  *)
(* issue is the floor of the mean of its subtasks', unless something that  *)
(* rolls nothing up, or an outdated copy, was saved there last.            *)
THEOREM ProgressIsRolledUp == Spec => []ProgressRolledUp
  <1>1. ASSUME IssuesInv, Quiet, NEW p \in Rows \ drifted, Subtasks(p) # {}
        PROVE  issue[p].progress = Mean(Subtasks(p))
    <2>1. ~Climber(p) BY <1>1 DEF Quiet, Climber, Busy
    <2>2. p \in Issues BY DEF Rows
    <2> QED BY <1>1, <2>1, <2>2 DEF IssuesInv, RolledOK, RolledAt
  <1>2. IssuesInv => ProgressRolledUp BY <1>1 DEF ProgressRolledUp
  <1> QED BY <1>2, IssuesInvariant, PTL

(* syncCalendarEvent: when no request is left, the event an issue names is *)
(* its own, its only one and at its date, unless somebody saved the issue  *)
(* from an outdated copy or failed between the row and the event.          *)
THEOREM EventsFollowTheirIssues == Spec => []EventFollowsIssue
  <1>1. ASSUME IssuesInv, Quiet, NEW i \in Rows \ raced
        PROVE  /\ issue[i].event # None => event[issue[i].event] = [issue |-> i, date |-> issue[i].date]
               /\ \A e \in Events : event[e] # None /\ event[e].issue = i => issue[i].event = e
               /\ issue[i].event = None => issue[i].date = None \/ i \in undated
    <2>1. Dated(i) /\ Linked(i) /\ Filed(i) BY <1>1 DEF IssuesInv, FollowedOK
    <2>2. ~Mover(i) /\ ~Filer(i) /\ \A e \in Events : ~Linker(i, e) BY <1>1 DEF Quiet, Mover, Filer, Linker, Busy
    <2>3. ASSUME issue[i].event # None
          PROVE  event[issue[i].event] = [issue |-> i, date |-> issue[i].date]
      <3>1. PICK e \in Events : e = issue[i].event BY <1>1, <2>3, RowKnows, RowFields
      <3>2. event[e] # None /\ event[e].issue = i BY <1>1, <2>3, <3>1, RowKnows
      <3>3. event[e].date = issue[i].date BY <2>1, <2>2, <2>3, <3>1 DEF Dated
      <3>4. event[e] \in Event BY <1>1, <3>2 DEF IssuesInv, TypeOK
      <3> QED BY <3>1, <3>2, <3>3, <3>4 DEF Event
    <2> QED BY <2>1, <2>2, <2>3 DEF Linked, Filed
  <1>2. ASSUME IssuesInv
        PROVE  /\ \A i \in Rows : issue[i].date = None => issue[i].event = None
               /\ \A e \in Events : event[e] # None /\ event[e].issue \notin Rows => event[e].issue \in removed
    BY <1>2 DEF IssuesInv, RowsOK, Known
  <1>3. IssuesInv => EventFollowsIssue BY <1>1, <1>2 DEF EventFollowsIssue
  <1> QED BY <1>3, IssuesInvariant, PTL
=============================================================================
