---------------------------- MODULE DocumentsProofs ----------------------------
(***************************************************************************)
(* Proofs about Documents, for any users, folders, comments and requests:  *)
(* the rows fit together, every text is a version, the shared text has all *)
(* that was answered, the row has the text the answers told, and what was  *)
(* removed does not come back.                                             *)
(***************************************************************************)
EXTENDS Documents, FiniteSetTheorems, TLAPS

-----------------------------------------------------------------------------
(***************************************************************************)
(* The inductive invariant.                                                *)
(***************************************************************************)
Ops == {"create", "move", "retitle", "write", "rewrite", "rename", "refile", "remove", "edit", "add", "change", "drop"}

FolderSteps == {"newFolder", "ownFolder", "findFolder", "saveFolder"}
DocumentSteps == {"newDocument", "ownDocument", "findDocument", "saveDocument", "version", "deleteDocument"}
Loading == {"readRow", "checkAuthor", "checkFolder", "nextFolder", "loadText", "shareText"}
CommentSteps == {"findComment", "checkReader", "saveComment", "deleteComment"}
Steps == {"findParent", "saveEdit"} \cup FolderSteps \cup DocumentSteps \cup Loading \cup CommentSteps

Subjects ==
  {<<"new">>, <<"text">>, <<"document">>} \cup {Folder(f) : f \in Folders} \cup {Comment(c) : c \in Comments}

Record ==
  [op : Ops, pc : Steps,
   by : Users \cup {None}, about : Subjects, to : Folders \cup {None}, id : Edits,
   text : Texts, home : Folders \cup {None}, at : Folders \cup {None}, up : Folders \cup {None}]

(* What the requests of each operation and of each step have in common.    *)
Rows ==
  {q \in Record :
    /\ q.op = "create" => q.about = <<"new">> /\ q.by \in Users
    /\ q.op \in {"move", "retitle"} => q.at \in Folders /\ q.about = Folder(q.at)
    /\ q.op = "write" => q.about = <<"text">> /\ q.by \in Users
    /\ q.op \in {"rewrite", "rename", "refile"} => q.about = <<"text">>
    /\ q.pc = "findParent" => q.op \in {"create", "move", "write", "refile"}
    /\ q.pc \in {"newFolder", "ownFolder"} => q.op = "create"
    /\ q.pc = "ownFolder" => q.at \in Folders
    /\ q.pc \in {"findFolder", "saveFolder"} => q.op \in {"move", "retitle"}
    /\ q.pc \in {"newDocument", "ownDocument"} => q.op = "write"
    /\ q.pc \in {"findDocument", "saveDocument"} => q.op \in {"rewrite", "rename", "refile"}
    /\ q.pc = "saveDocument" /\ q.op = "rewrite" => q.text = {q.id}
    /\ q.pc = "version" => q.about = <<"text">>
    /\ q.pc = "deleteDocument" => q.op = "remove" /\ q.about = <<"document">>
    /\ q.pc \in Loading \cup {"saveEdit"} => q.op = "edit" /\ q.about = <<"text">>
    /\ q.pc \in CommentSteps => q.by \in Users /\ \E c \in Comments : q.about = Comment(c)}

RequestsOK ==
  /\ request \in [Requests -> {Idle} \cup Rows]
  /\ starts \in 0..MaxStarts
  /\ \A r \in Busy : request[r].id <= starts
  /\ \A r, s \in Busy : r # s => request[r].id # request[s].id

(* Each timer was set by an edit of its own that has loaded its text.      *)
LoadingIds == {request[r].id : r \in {s \in Busy : request[s].pc \in Loading}}
TimersOK == timers \in Nat /\ timers <= starts /\ timers + Cardinality(LoadingIds) <= starts

(* Requests about the same text or comment have crossed.                   *)
CrossedOK ==
  \A r, s \in Busy : r # s /\ request[r].about = request[s].about /\ request[r].about # <<"document">>
    => request[r].about \in excused

SharedOK ==
  <<"shared">> \notin excused =>
    /\ shared # None => answered \subseteq shared
    /\ \A r \in Unanswered : shared # None /\ request[r].id \in shared

(* The text of the document is a version or about to become one.           *)
VersionsOK ==
  doc # None /\ <<"versions">> \notin excused =>
    doc.text \in versions \/ \E r \in Busy : request[r].pc \in {"ownDocument", "version"} /\ request[r].text = doc.text

(* Before the document was made there is nothing of it.                    *)
NothingYet ==
  expected = {} => doc = None /\ shared = None /\ \A r \in Busy : request[r].pc # "shareText"

(* What the request that is to write the text has read of it.              *)
ReadText(q) ==
  /\ q.op = "write" /\ q.pc \in {"findParent", "newDocument"} => expected = {}
  /\ q.op \in {"rename", "refile"} /\ q.pc \in {"findParent", "saveDocument"} /\ doc # None => q.text = doc.text
  /\ q.pc = "shareText" /\ doc # None => q.text = doc.text
  /\ q.pc = "saveEdit" /\ doc # None => q.text = doc.text \cup {q.id}
  /\ q.pc = "saveEdit" /\ shared # None => shared = q.text

TextOK ==
  <<"text">> \notin excused =>
    /\ doc # None => doc.text = expected
    /\ \A r \in Busy : ReadText(request[r])
    /\ shared # None /\ doc # None => shared = doc.text \/ \E r \in Busy : request[r].pc = "saveEdit"

(* A request that has found the folder or the comment it is about.         *)
Late(q) ==
  \/ q.pc \in {"saveFolder", "checkReader", "saveComment", "deleteComment"}
  \/ q.op = "move" /\ q.pc = "findParent"

RemovedOK ==
  /\ RemovedStaysRemoved
  /\ \A r \in Busy : Late(request[r]) /\ request[r].about \in removed => request[r].about \in excused

DocumentsInv ==
  /\ TypeOK /\ RequestsOK /\ TimersOK /\ CrossedOK /\ SharedOK /\ VersionsOK
  /\ NothingYet /\ TextOK /\ RemovedOK


-----------------------------------------------------------------------------
(***************************************************************************)
(* How a request's steps change the requests.                              *)
(***************************************************************************)
LEMMA NotIdle == \A q \in Record : q # Idle
BY DEF Record, Idle, FolderSteps, DocumentSteps, Loading, CommentSteps

LEMMA BusyRows ==
  ASSUME RequestsOK, NEW r \in Requests, request[r] # Idle
  PROVE  request[r] \in Rows /\ request[r] \in Record /\ r \in Busy /\ request[r].id <= starts
BY DEF RequestsOK, Rows, Busy

(* Request w is q at another step.                                         *)
SameRequest(w, q) ==
  w \in Record /\ w # Idle /\ w.op = q.op /\ w.by = q.by /\ w.about = q.about /\ w.to = q.to /\ w.id = q.id

(* Request r goes on to w, or ends, and nothing that was excused is not.   *)
Onward(r, w) ==
  /\ request[r] # Idle /\ request' = [request EXCEPT ![r] = w]
  /\ w # Idle => w \in Rows /\ SameRequest(w, request[r])
  /\ starts' = starts /\ excused \subseteq excused'

(* Request r begins with w; one that crosses another is excused.           *)
First == {"findParent", "findFolder", "findDocument", "deleteDocument", "readRow", "findComment", "checkReader"}

Begins(r, w) ==
  /\ request[r] = Idle /\ request' = [request EXCEPT ![r] = w]
  /\ w # Idle /\ w \in Rows /\ w.id = starts + 1 /\ w.pc \in First
  /\ w.op = "write" => expected = {}
  /\ w.op = "move" => w.pc = "findFolder"
  /\ w.op \in {"rewrite", "rename", "refile"} => w.pc = "findDocument"
  /\ w.pc = "checkReader" => w.about \notin removed
  /\ starts' = starts + 1 /\ starts < MaxStarts
  /\ excused \subseteq excused'
  /\ w.about # <<"document">> /\ (\E s \in Busy : request[s].about = w.about) => w.about \in excused'
  /\ UNCHANGED <<rows, timers, expected, answered, removed>>

(* The record of a request that goes on is the one it was, but for the     *)
(* fields that were written.                                               *)
With(q, pc, text, home, at, up) ==
  [op |-> q.op, pc |-> pc, by |-> q.by, about |-> q.about, to |-> q.to, id |-> q.id,
   text |-> text, home |-> home, at |-> at, up |-> up]

LEMMA Recorded ==
  ASSUME NEW q \in Record
  PROVE  /\ q = [op |-> q.op, pc |-> q.pc, by |-> q.by, about |-> q.about, to |-> q.to, id |-> q.id,
                 text |-> q.text, home |-> q.home, at |-> q.at, up |-> q.up]
         /\ \E text \in Texts, home \in Folders \cup {None}, at \in Folders \cup {None}, up \in Folders \cup {None} :
              q.text = text /\ q.home = home /\ q.at = at /\ q.up = up
BY DEF Record

(* w is q with other fields.                                              *)
ToText(w, q, pc, text) == w = [q EXCEPT !.pc = pc, !.text = text]
ToFolder(w, q, pc, at) == w = [q EXCEPT !.pc = pc, !.at = at]
ToParent(w, q, pc, at, up) == w = [q EXCEPT !.pc = pc, !.at = at, !.up = up]
ToUp(w, q, pc, up) == w = [q EXCEPT !.pc = pc, !.up = up]
ToHome(w, q, pc, home, at) == w = [q EXCEPT !.pc = pc, !.home = home, !.at = at]

LEMMA WithStep ==
  \A q \in Record, pc \in Steps : \A w : w = [q EXCEPT !.pc = pc] =>
    SameRequest(w, q) /\ w.pc = pc /\ w.text = q.text /\ w.home = q.home /\ w.at = q.at /\ w.up = q.up
  <1>1. ASSUME NEW q \in Record, NEW pc \in Steps, NEW w, w = [q EXCEPT !.pc = pc]
        PROVE  SameRequest(w, q) /\ w.pc = pc /\ w.text = q.text /\ w.home = q.home /\ w.at = q.at /\ w.up = q.up
    <2>1. PICK text0 \in Texts, home0 \in Folders \cup {None}, at0 \in Folders \cup {None}, up0 \in Folders \cup {None} :
            q.text = text0 /\ q.home = home0 /\ q.at = at0 /\ q.up = up0
      BY Recorded
    <2>2. q = [op |-> q.op, pc |-> q.pc, by |-> q.by, about |-> q.about, to |-> q.to, id |-> q.id,
               text |-> q.text, home |-> q.home, at |-> q.at, up |-> q.up]
      BY Recorded
    <2>3. w = With(q, pc, text0, home0, at0, up0) BY <1>1, <2>1, <2>2 DEF With
    <2>4. SameRequest(w, q) /\ w.pc = pc /\ w.text = text0 /\ w.home = home0 /\ w.at = at0 /\ w.up = up0
      <3>1. w \in Record BY <2>3 DEF With, Record
      <3> QED BY <2>3, <3>1, NotIdle DEF With, SameRequest
    <2> QED BY <2>1, <2>4
  <1> QED BY <1>1

LEMMA WithText ==
  \A q \in Record, pc \in Steps, text \in Texts : \A w : ToText(w, q, pc, text) =>
    SameRequest(w, q) /\ w.pc = pc /\ w.text = text /\ w.home = q.home /\ w.at = q.at /\ w.up = q.up
  <1>1. ASSUME NEW q \in Record, NEW pc \in Steps, NEW text \in Texts, NEW w, ToText(w, q, pc, text)
        PROVE  SameRequest(w, q) /\ w.pc = pc /\ w.text = text /\ w.home = q.home /\ w.at = q.at /\ w.up = q.up
    <2>1. PICK text0 \in Texts, home0 \in Folders \cup {None}, at0 \in Folders \cup {None}, up0 \in Folders \cup {None} :
            q.text = text0 /\ q.home = home0 /\ q.at = at0 /\ q.up = up0
      BY Recorded
    <2>2. q = [op |-> q.op, pc |-> q.pc, by |-> q.by, about |-> q.about, to |-> q.to, id |-> q.id,
               text |-> q.text, home |-> q.home, at |-> q.at, up |-> q.up]
      BY Recorded
    <2>3. w = With(q, pc, text, home0, at0, up0) BY <1>1, <2>1, <2>2 DEF With, ToText
    <2>4. SameRequest(w, q) /\ w.pc = pc /\ w.text = text /\ w.home = home0 /\ w.at = at0 /\ w.up = up0
      <3>1. w \in Record BY <2>3 DEF With, Record
      <3> QED BY <2>3, <3>1, NotIdle DEF With, SameRequest
    <2> QED BY <2>1, <2>4
  <1> QED BY <1>1

LEMMA WithFolder ==
  \A q \in Record, pc \in Steps, at \in Folders \cup {None} : \A w : ToFolder(w, q, pc, at) =>
    SameRequest(w, q) /\ w.pc = pc /\ w.text = q.text /\ w.home = q.home /\ w.at = at /\ w.up = q.up
  <1>1. ASSUME NEW q \in Record, NEW pc \in Steps, NEW at \in Folders \cup {None}, NEW w, ToFolder(w, q, pc, at)
        PROVE  SameRequest(w, q) /\ w.pc = pc /\ w.text = q.text /\ w.home = q.home /\ w.at = at /\ w.up = q.up
    <2>1. PICK text0 \in Texts, home0 \in Folders \cup {None}, at0 \in Folders \cup {None}, up0 \in Folders \cup {None} :
            q.text = text0 /\ q.home = home0 /\ q.at = at0 /\ q.up = up0
      BY Recorded
    <2>2. q = [op |-> q.op, pc |-> q.pc, by |-> q.by, about |-> q.about, to |-> q.to, id |-> q.id,
               text |-> q.text, home |-> q.home, at |-> q.at, up |-> q.up]
      BY Recorded
    <2>3. w = With(q, pc, text0, home0, at, up0) BY <1>1, <2>1, <2>2 DEF With, ToFolder
    <2>4. SameRequest(w, q) /\ w.pc = pc /\ w.text = text0 /\ w.home = home0 /\ w.at = at /\ w.up = up0
      <3>1. w \in Record BY <2>3 DEF With, Record
      <3> QED BY <2>3, <3>1, NotIdle DEF With, SameRequest
    <2> QED BY <2>1, <2>4
  <1> QED BY <1>1

LEMMA WithParent ==
  \A q \in Record, pc \in Steps, at \in Folders \cup {None}, up \in Folders \cup {None} : \A w : ToParent(w, q, pc, at, up) =>
    SameRequest(w, q) /\ w.pc = pc /\ w.text = q.text /\ w.home = q.home /\ w.at = at /\ w.up = up
  <1>1. ASSUME NEW q \in Record, NEW pc \in Steps, NEW at \in Folders \cup {None}, NEW up \in Folders \cup {None}, 
         NEW w, ToParent(w, q, pc, at, up)
        PROVE  SameRequest(w, q) /\ w.pc = pc /\ w.text = q.text /\ w.home = q.home /\ w.at = at /\ w.up = up
    <2>1. PICK text0 \in Texts, home0 \in Folders \cup {None}, at0 \in Folders \cup {None}, up0 \in Folders \cup {None} :
            q.text = text0 /\ q.home = home0 /\ q.at = at0 /\ q.up = up0
      BY Recorded
    <2>2. q = [op |-> q.op, pc |-> q.pc, by |-> q.by, about |-> q.about, to |-> q.to, id |-> q.id,
               text |-> q.text, home |-> q.home, at |-> q.at, up |-> q.up]
      BY Recorded
    <2>3. w = With(q, pc, text0, home0, at, up) BY <1>1, <2>1, <2>2 DEF With, ToParent
    <2>4. SameRequest(w, q) /\ w.pc = pc /\ w.text = text0 /\ w.home = home0 /\ w.at = at /\ w.up = up
      <3>1. w \in Record BY <2>3 DEF With, Record
      <3> QED BY <2>3, <3>1, NotIdle DEF With, SameRequest
    <2> QED BY <2>1, <2>4
  <1> QED BY <1>1

LEMMA WithUp ==
  \A q \in Record, pc \in Steps, up \in Folders \cup {None} : \A w : ToUp(w, q, pc, up) =>
    SameRequest(w, q) /\ w.pc = pc /\ w.text = q.text /\ w.home = q.home /\ w.at = q.at /\ w.up = up
  <1>1. ASSUME NEW q \in Record, NEW pc \in Steps, NEW up \in Folders \cup {None}, NEW w, ToUp(w, q, pc, up)
        PROVE  SameRequest(w, q) /\ w.pc = pc /\ w.text = q.text /\ w.home = q.home /\ w.at = q.at /\ w.up = up
    <2>1. PICK text0 \in Texts, home0 \in Folders \cup {None}, at0 \in Folders \cup {None}, up0 \in Folders \cup {None} :
            q.text = text0 /\ q.home = home0 /\ q.at = at0 /\ q.up = up0
      BY Recorded
    <2>2. q = [op |-> q.op, pc |-> q.pc, by |-> q.by, about |-> q.about, to |-> q.to, id |-> q.id,
               text |-> q.text, home |-> q.home, at |-> q.at, up |-> q.up]
      BY Recorded
    <2>3. w = With(q, pc, text0, home0, at0, up) BY <1>1, <2>1, <2>2 DEF With, ToUp
    <2>4. SameRequest(w, q) /\ w.pc = pc /\ w.text = text0 /\ w.home = home0 /\ w.at = at0 /\ w.up = up
      <3>1. w \in Record BY <2>3 DEF With, Record
      <3> QED BY <2>3, <3>1, NotIdle DEF With, SameRequest
    <2> QED BY <2>1, <2>4
  <1> QED BY <1>1

LEMMA WithHome ==
  \A q \in Record, pc \in Steps, home \in Folders \cup {None}, at \in Folders \cup {None} : \A w : ToHome(w, q, pc, home, at) =>
    SameRequest(w, q) /\ w.pc = pc /\ w.text = q.text /\ w.home = home /\ w.at = at /\ w.up = q.up
  <1>1. ASSUME NEW q \in Record, NEW pc \in Steps, NEW home \in Folders \cup {None}, NEW at \in Folders \cup {None}, 
         NEW w, ToHome(w, q, pc, home, at)
        PROVE  SameRequest(w, q) /\ w.pc = pc /\ w.text = q.text /\ w.home = home /\ w.at = at /\ w.up = q.up
    <2>1. PICK text0 \in Texts, home0 \in Folders \cup {None}, at0 \in Folders \cup {None}, up0 \in Folders \cup {None} :
            q.text = text0 /\ q.home = home0 /\ q.at = at0 /\ q.up = up0
      BY Recorded
    <2>2. q = [op |-> q.op, pc |-> q.pc, by |-> q.by, about |-> q.about, to |-> q.to, id |-> q.id,
               text |-> q.text, home |-> q.home, at |-> q.at, up |-> q.up]
      BY Recorded
    <2>3. w = With(q, pc, text0, home, at, up0) BY <1>1, <2>1, <2>2 DEF With, ToHome
    <2>4. SameRequest(w, q) /\ w.pc = pc /\ w.text = text0 /\ w.home = home /\ w.at = at /\ w.up = up0
      <3>1. w \in Record BY <2>3 DEF With, Record
      <3> QED BY <2>3, <3>1, NotIdle DEF With, SameRequest
    <2> QED BY <2>1, <2>4
  <1> QED BY <1>1

(* How each step of a request goes on.                                     *)
LEMMA Ends ==
  ASSUME NEW r \in Requests, request[r] # Idle, Goes(r, Idle), starts' = starts, excused \subseteq excused'
  PROVE  Onward(r, Idle)
BY DEF Onward, Goes

LEMMA GoesOn ==
  ASSUME NEW r \in Requests, request[r] # Idle, NEW w \in Rows, SameRequest(w, request[r]), Goes(r, w),
         starts' = starts, excused \subseteq excused'
  PROVE  Onward(r, w) /\ w # Idle
BY DEF Onward, Goes, SameRequest

LEMMA FindFolderStep ==
  ASSUME RequestsOK, NEW r \in Requests, FindFolder(r)
  PROVE  \/ Onward(r, Idle)
         \/ \E w : /\ Onward(r, w) /\ w # Idle /\ w.pc \in {"findParent", "saveFolder"} /\ w.op \in {"move", "retitle"}
                   /\ w.at = request[r].at /\ Exists(request[r].at)
  <1>1. PICK q, pc : /\ q = request[r]
                     /\ pc = IF q.op = "move" /\ q.to # None THEN "findParent" ELSE "saveFolder"
    OBVIOUS
  <1>2. q \in Rows /\ q \in Record /\ q # Idle /\ q.pc = "findFolder" /\ pc \in Steps
    BY <1>1, BusyRows DEF FindFolder, At, Steps, FolderSteps
  <1>3. PICK w : w = [q EXCEPT !.pc = pc] OBVIOUS
  <1>4. SameRequest(w, q) /\ w.pc = pc /\ w.text = q.text /\ w.at = q.at BY <1>2, <1>3, WithStep
  <1>5. q.op \in {"move", "retitle"} BY <1>2 DEF Rows
  <1>6. w \in Rows BY <1>1, <1>2, <1>4, <1>5 DEF Rows, FolderSteps, DocumentSteps, Loading, CommentSteps, SameRequest
  <1>7. starts' = starts /\ excused \subseteq excused' BY DEF FindFolder, history
  <1>8. Goes(r, Idle) \/ (Goes(r, w) /\ Exists(request[r].at)) BY <1>1, <1>3 DEF FindFolder
  <1>9. CASE Goes(r, Idle) BY <1>1, <1>2, <1>7, <1>9, Ends
  <1>10. CASE Goes(r, w) /\ Exists(request[r].at)
    <2>1. Onward(r, w) /\ w # Idle BY <1>1, <1>2, <1>4, <1>6, <1>7, <1>10, GoesOn
    <2>2. w.op \in {"move", "retitle"} BY <1>4, <1>5 DEF SameRequest
    <2> QED BY <1>1, <1>4, <1>10, <2>1, <2>2
  <1> QED BY <1>8, <1>9, <1>10

(* A request whose folder was looked up goes on to what it is to do.       *)
LEMMA FindParentStep ==
  ASSUME RequestsOK, NEW r \in Requests, FindParent(r)
  PROVE  \/ Onward(r, Idle)
         \/ \E w : /\ Onward(r, w) /\ w # Idle /\ w.text = request[r].text /\ w.op = request[r].op
                   /\ w.op \in {"create", "move", "write", "refile"}
                   /\ w.op = "create" => w.pc = "newFolder"
                   /\ w.op = "move" => w.pc = "saveFolder"
                   /\ w.op = "write" => w.pc = "newDocument"
                   /\ w.op = "refile" => w.pc = "saveDocument"
  <1>1. PICK q, pc, up : /\ q = request[r] /\ pc = Found[q.op]
                         /\ up = IF Exists(q.to) THEN q.to ELSE None
    OBVIOUS
  <1>2. q \in Rows /\ q \in Record /\ q # Idle /\ q.pc = "findParent" BY <1>1, BusyRows DEF FindParent, At
  <1>3. q.op \in {"create", "move", "write", "refile"} BY <1>2 DEF Rows
  <1>4. /\ q.op = "create" => pc = "newFolder"
        /\ q.op = "move" => pc = "saveFolder"
        /\ q.op = "write" => pc = "newDocument"
        /\ q.op = "refile" => pc = "saveDocument"
    BY <1>1 DEF Found
  <1>5. pc \in Steps BY <1>3, <1>4 DEF Steps, FolderSteps, DocumentSteps
  <1>6. up \in Folders \cup {None} BY <1>1, <1>2 DEF Record
  <1>7. PICK w : ToUp(w, q, pc, up) BY DEF ToUp
  <1>8. SameRequest(w, q) /\ w.pc = pc /\ w.text = q.text /\ w.at = q.at BY <1>2, <1>5, <1>6, <1>7, WithUp
  <1>9. w \in Rows BY <1>2, <1>3, <1>4, <1>8 DEF Rows, FolderSteps, DocumentSteps, Loading, CommentSteps, SameRequest
  <1>10. starts' = starts /\ excused \subseteq excused' BY DEF FindParent, history
  <1>11. Goes(r, Idle) \/ Goes(r, w) BY <1>1, <1>7 DEF FindParent, ToUp
  <1>12. CASE Goes(r, Idle) BY <1>1, <1>2, <1>10, <1>12, Ends
  <1>13. CASE Goes(r, w)
    <2>1. Onward(r, w) /\ w # Idle BY <1>1, <1>2, <1>8, <1>9, <1>10, <1>13, GoesOn
    <2>2. w.op = q.op BY <1>8 DEF SameRequest
    <2> QED BY <1>1, <1>3, <1>4, <1>8, <2>1, <2>2
  <1> QED BY <1>11, <1>12, <1>13

LEMMA OwnDocumentStep ==
  ASSUME RequestsOK, NEW r \in Requests, OwnDocument(r)
  PROVE  \E w : Onward(r, w) /\ w # Idle /\ w.pc = "version" /\ w.text = request[r].text
  <1>1. PICK q, pc : q = request[r] /\ pc = "version" OBVIOUS
  <1>2. q \in Rows /\ q \in Record /\ q # Idle /\ q.pc = "ownDocument" /\ pc \in Steps
    BY <1>1, BusyRows DEF OwnDocument, At, Steps, FolderSteps, DocumentSteps, Loading, CommentSteps
  <1>3. PICK w : w = [q EXCEPT !.pc = pc] OBVIOUS
  <1>4. SameRequest(w, q) /\ w.pc = pc /\ w.text = q.text /\ w.at = q.at BY <1>2, <1>3, WithStep
  <1>5. w \in Rows BY <1>1, <1>2, <1>4 DEF Rows, FolderSteps, DocumentSteps, Loading, CommentSteps, SameRequest
  <1>6. Goes(r, w) /\ starts' = starts /\ excused \subseteq excused' BY <1>1, <1>3 DEF OwnDocument, history
  <1> QED BY <1>1, <1>2, <1>4, <1>5, <1>6, GoesOn

LEMMA SaveDocumentStep ==
  ASSUME RequestsOK, NEW r \in Requests, SaveDocument(r)
  PROVE  \E w : Onward(r, w) /\ w # Idle /\ w.pc = "version" /\ w.text = request[r].text
  <1>1. PICK q, pc : q = request[r] /\ pc = "version" OBVIOUS
  <1>2. q \in Rows /\ q \in Record /\ q # Idle /\ q.pc = "saveDocument" /\ pc \in Steps
    BY <1>1, BusyRows DEF SaveDocument, At, Steps, FolderSteps, DocumentSteps, Loading, CommentSteps
  <1>3. PICK w : w = [q EXCEPT !.pc = pc] OBVIOUS
  <1>4. SameRequest(w, q) /\ w.pc = pc /\ w.text = q.text /\ w.at = q.at BY <1>2, <1>3, WithStep
  <1>5. w \in Rows BY <1>1, <1>2, <1>4 DEF Rows, FolderSteps, DocumentSteps, Loading, CommentSteps, SameRequest
  <1>6. Goes(r, w) /\ starts' = starts /\ excused \subseteq excused' BY <1>1, <1>3 DEF SaveDocument, history
  <1> QED BY <1>1, <1>2, <1>4, <1>5, <1>6, GoesOn

LEMMA SaveEditStep ==
  ASSUME RequestsOK, NEW r \in Requests, SaveEdit(r)
  PROVE  \E w : Onward(r, w) /\ w # Idle /\ w.pc = "version" /\ w.text = request[r].text
  <1>1. PICK q, pc : q = request[r] /\ pc = "version" OBVIOUS
  <1>2. q \in Rows /\ q \in Record /\ q # Idle /\ q.pc = "saveEdit" /\ pc \in Steps
    BY <1>1, BusyRows DEF SaveEdit, At, Steps, FolderSteps, DocumentSteps, Loading, CommentSteps
  <1>3. PICK w : w = [q EXCEPT !.pc = pc] OBVIOUS
  <1>4. SameRequest(w, q) /\ w.pc = pc /\ w.text = q.text /\ w.at = q.at BY <1>2, <1>3, WithStep
  <1>5. w \in Rows BY <1>1, <1>2, <1>4 DEF Rows, FolderSteps, DocumentSteps, Loading, CommentSteps, SameRequest
  <1>6. Goes(r, w) /\ starts' = starts /\ excused \subseteq excused' BY <1>1, <1>3 DEF SaveEdit, history
  <1> QED BY <1>1, <1>2, <1>4, <1>5, <1>6, GoesOn

LEMMA FindCommentStep ==
  ASSUME RequestsOK, NEW r \in Requests, FindComment(r)
  PROVE  \/ Onward(r, Idle)
         \/ \E w : Onward(r, w) /\ w # Idle /\ w.pc = "checkReader" /\ w.at = request[r].at /\ comment[request[r].about[2]] = request[r].by
  <1>1. PICK q, pc : q = request[r] /\ pc = "checkReader" OBVIOUS
  <1>2. q \in Rows /\ q \in Record /\ q # Idle /\ q.pc = "findComment" /\ pc \in Steps
    BY <1>1, BusyRows DEF FindComment, At, Steps, FolderSteps, DocumentSteps, Loading, CommentSteps
  <1>3. PICK w : w = [q EXCEPT !.pc = pc] OBVIOUS
  <1>4. SameRequest(w, q) /\ w.pc = pc /\ w.text = q.text /\ w.at = q.at BY <1>2, <1>3, WithStep
  <1>5. w \in Rows BY <1>1, <1>2, <1>4 DEF Rows, FolderSteps, DocumentSteps, Loading, CommentSteps, SameRequest
  <1>6. starts' = starts /\ excused \subseteq excused' BY DEF FindComment, history
  <1>7. Goes(r, Idle) \/ (Goes(r, w) /\ comment[request[r].about[2]] = request[r].by) BY <1>1, <1>3 DEF FindComment
  <1>8. CASE Goes(r, Idle) BY <1>1, <1>2, <1>6, <1>8, Ends
  <1>9. CASE Goes(r, w) /\ comment[request[r].about[2]] = request[r].by BY <1>1, <1>2, <1>4, <1>5, <1>6, <1>9, GoesOn
  <1> QED BY <1>7, <1>8, <1>9

LEMMA NewFolderStep ==
  ASSUME RequestsOK, NEW r \in Requests, NewFolder(r)
  PROVE  \E f \in Folders : \E w :
           /\ Onward(r, w) /\ w # Idle /\ w.pc = "ownFolder" /\ w.at = f
           /\ Folder(f) \notin removed /\ folder[f] = None
           /\ folder' = [folder EXCEPT ![f] =
                [owner |-> None, parent |-> request[r].up]]
  <1>1. PICK q, pc : q = request[r] /\ pc = "ownFolder" OBVIOUS
  <1>2. q \in Rows /\ q \in Record /\ q # Idle /\ q.pc = "newFolder" /\ pc \in Steps
    BY <1>1, BusyRows DEF NewFolder, At, Steps, FolderSteps
  <1>3. PICK f \in Folders :
          /\ Folder(f) \notin removed /\ folder[f] = None
          /\ folder' = [folder EXCEPT ![f] =
               [owner |-> None, parent |-> request[r].up]]
          /\ Goes(r, [request[r] EXCEPT !.pc = "ownFolder", !.at = f])
    BY DEF NewFolder
  <1>8. PICK at \in Folders \cup {None} : at = f OBVIOUS
  <1>4. PICK w : ToFolder(w, q, pc, at) BY DEF ToFolder
  <1>9. SameRequest(w, q) /\ w.pc = pc /\ w.at = at BY <1>2, <1>4, WithFolder
  <1>5. SameRequest(w, q) /\ w.pc = pc /\ w.at = f BY <1>8, <1>9
  <1>6. w \in Rows BY <1>1, <1>2, <1>5 DEF Rows, FolderSteps, DocumentSteps, Loading, CommentSteps, SameRequest
  <1>7. Goes(r, w) /\ starts' = starts /\ excused \subseteq excused' BY <1>1, <1>3, <1>4, <1>8 DEF NewFolder, history, ToFolder
  <1> QED BY <1>1, <1>2, <1>3, <1>5, <1>6, <1>7, GoesOn

LEMMA IdTyped == ASSUME NEW q \in Record PROVE q.id \in Edits /\ {q.id} \in Texts /\ q.text \in Texts
BY DEF Record, Texts

LEMMA NewDocumentStep ==
  ASSUME RequestsOK, NEW r \in Requests, NewDocument(r)
  PROVE  \E w : Onward(r, w) /\ w # Idle /\ w.pc = "ownDocument" /\ w.text = {request[r].id}
  <1>1. PICK q, pc : q = request[r] /\ pc = "ownDocument" OBVIOUS
  <1>2. q \in Rows /\ q \in Record /\ q # Idle /\ q.pc = "newDocument" /\ pc \in Steps
    BY <1>1, BusyRows DEF NewDocument, At, Steps, DocumentSteps
  <1>3. PICK text \in Texts : text = {q.id} BY <1>2, IdTyped
  <1>4. PICK w : ToText(w, q, pc, text) BY DEF ToText
  <1>5. SameRequest(w, q) /\ w.pc = pc /\ w.text = text BY <1>2, <1>4, WithText
  <1>6. w \in Rows BY <1>1, <1>2, <1>5 DEF Rows, FolderSteps, DocumentSteps, Loading, CommentSteps, SameRequest
  <1>7. Goes(r, w) /\ starts' = starts /\ excused \subseteq excused' BY <1>1, <1>3, <1>4 DEF NewDocument, ToText
  <1> QED BY <1>1, <1>2, <1>3, <1>5, <1>6, <1>7, GoesOn

LEMMA FindDocumentStep ==
  ASSUME TypeOK, RequestsOK, NEW r \in Requests, FindDocument(r)
  PROVE  \/ Onward(r, Idle)
         \/ /\ doc # None
            /\ \E w : /\ Onward(r, w) /\ w # Idle /\ w.pc \in {"findParent", "saveDocument"}
                      /\ w.op \in {"rewrite", "rename", "refile"}
                      /\ w.op # "rewrite" => w.text = doc.text
  <1>1. PICK q, pc : /\ q = request[r]
                     /\ pc = IF q.op = "refile" /\ q.to # None THEN "findParent" ELSE "saveDocument"
    OBVIOUS
  <1>2. q \in Rows /\ q \in Record /\ q # Idle /\ q.pc = "findDocument" /\ pc \in Steps
    BY <1>1, BusyRows DEF FindDocument, At, Steps, DocumentSteps
  <1>3. starts' = starts /\ excused \subseteq excused' BY DEF FindDocument, history
  <1>4. CASE doc = None
    <2>1. Goes(r, Idle) BY <1>4 DEF FindDocument
    <2> QED BY <1>1, <1>2, <1>3, <2>1, Ends
  <1>5. CASE doc # None
    <2>1. doc.text \in Texts BY <1>5 DEF TypeOK, DocumentRow
    <2>2. PICK text \in Texts : text = IF q.op = "rewrite" THEN {q.id} ELSE doc.text BY <1>2, <2>1, IdTyped
    <2>3. PICK w : ToText(w, q, pc, text) BY DEF ToText
    <2>4. SameRequest(w, q) /\ w.pc = pc /\ w.text = text /\ w.at = q.at BY <1>2, <2>3, WithText
    <2>5. q.op \in {"rewrite", "rename", "refile"} BY <1>2 DEF Rows
    <2>6. w \in Rows BY <1>1, <1>2, <2>2, <2>4, <2>5 DEF Rows, FolderSteps, DocumentSteps, Loading, CommentSteps, SameRequest
    <2>7. Goes(r, w) BY <1>1, <1>5, <2>2, <2>3 DEF FindDocument, ToText
    <2>8. w.op \in {"rewrite", "rename", "refile"} /\ (w.op # "rewrite" => w.text = doc.text)
      BY <2>2, <2>4, <2>5 DEF SameRequest
    <2>9. Onward(r, w) /\ w # Idle BY <1>1, <1>2, <1>3, <2>4, <2>6, <2>7, GoesOn
    <2> QED BY <1>1, <1>5, <2>4, <2>8, <2>9
  <1> QED BY <1>4, <1>5

LEMMA ReadRowStep ==
  ASSUME TypeOK, RequestsOK, NEW r \in Requests, ReadRow(r)
  PROVE  \/ Onward(r, Idle)
         \/ \E w : Onward(r, w) /\ w # Idle /\ w.pc = "checkAuthor"
  <1>1. PICK q, pc : q = request[r] /\ pc = "checkAuthor" OBVIOUS
  <1>2. q \in Rows /\ q \in Record /\ q # Idle /\ q.pc = "readRow" /\ pc \in Steps
    BY <1>1, BusyRows DEF ReadRow, At, Steps, Loading
  <1>3. starts' = starts /\ excused \subseteq excused' BY DEF ReadRow, history
  <1>4. CASE doc = None
    <2>1. Goes(r, Idle) BY <1>4 DEF ReadRow
    <2> QED BY <1>1, <1>2, <1>3, <2>1, Ends
  <1>5. CASE doc # None
    <2>1. doc.folder \in Folders \cup {None} BY <1>5 DEF TypeOK, DocumentRow
    <2>2. PICK home \in Folders \cup {None}, at \in Folders \cup {None} : home = doc.folder /\ at = doc.folder BY <2>1
    <2>3. PICK w : ToHome(w, q, pc, home, at) BY DEF ToHome
    <2>4. SameRequest(w, q) /\ w.pc = pc BY <1>2, <2>3, WithHome
    <2>5. w \in Rows BY <1>1, <1>2, <2>4 DEF Rows, FolderSteps, DocumentSteps, Loading, CommentSteps, SameRequest
    <2>6. Goes(r, w) BY <1>1, <1>5, <2>2, <2>3 DEF ReadRow, ToHome
    <2> QED BY <1>1, <1>2, <1>3, <2>4, <2>5, <2>6, GoesOn
  <1> QED BY <1>4, <1>5

(* An edit goes on to be saved with a text that has it.                    *)
LEMMA ApplyStep ==
  ASSUME RequestsOK, NEW r \in Requests, request[r] # Idle, request[r].pc \in Loading,
         NEW text \in Texts, Apply(r, text), starts' = starts, excused \subseteq excused'
  PROVE  /\ \E w : Onward(r, w) /\ w # Idle /\ w.pc = "saveEdit" /\ w.text = text \cup {request[r].id}
         /\ shared' = text \cup {request[r].id} /\ shared' \in Texts
  <1>1. PICK q, pc : q = request[r] /\ pc = "saveEdit" OBVIOUS
  <1>2. q \in Rows /\ q \in Record /\ q # Idle /\ q.pc \in Loading /\ pc \in Steps BY <1>1, BusyRows DEF Steps
  <1>3. q.id \in Edits BY <1>2, IdTyped
  <1>4. PICK new \in Texts : new = text \cup {q.id} BY <1>3 DEF Texts
  <1>5. PICK w : ToText(w, q, pc, new) BY DEF ToText
  <1>6. SameRequest(w, q) /\ w.pc = pc /\ w.text = new BY <1>2, <1>5, WithText
  <1>7. w \in Rows BY <1>1, <1>2, <1>6 DEF Rows, FolderSteps, DocumentSteps, Loading, CommentSteps, SameRequest
  <1>8. shared' = new /\ Goes(r, w) BY <1>1, <1>4, <1>5 DEF Apply, ToText
  <1>9. Onward(r, w) /\ w # Idle BY <1>1, <1>2, <1>6, <1>7, <1>8, GoesOn
  <1> QED BY <1>1, <1>4, <1>6, <1>8, <1>9

LEMMA OpenTextStep ==
  ASSUME TypeOK, RequestsOK, NEW r \in Requests, request[r] # Idle, request[r].pc \in Loading,
         OpenText(r), starts' = starts, excused \subseteq excused'
  PROVE  \E w : /\ Onward(r, w) /\ w # Idle
                /\ \/ shared = None /\ shared' = shared /\ w.pc = "loadText"
                   \/ /\ shared # None /\ w.pc = "saveEdit" /\ w.text = shared \cup {request[r].id}
                      /\ shared' = w.text /\ shared' \in Texts
  <1>1. PICK q, pc : q = request[r] /\ pc = "loadText" OBVIOUS
  <1>2. q \in Rows /\ q \in Record /\ q # Idle /\ q.pc \in Loading /\ pc \in Steps
    BY <1>1, BusyRows DEF Steps, Loading
  <1>3. CASE shared = None
    <2>1. PICK w : w = [q EXCEPT !.pc = pc] OBVIOUS
    <2>2. SameRequest(w, q) /\ w.pc = pc BY <1>2, <2>1, WithStep
    <2>3. w \in Rows BY <1>1, <1>2, <2>2 DEF Rows, FolderSteps, DocumentSteps, Loading, CommentSteps, SameRequest
    <2>4. shared' = shared /\ Goes(r, w) BY <1>1, <1>3, <2>1 DEF OpenText
    <2>5. Onward(r, w) /\ w # Idle BY <1>1, <1>2, <2>2, <2>3, <2>4, GoesOn
    <2> QED BY <1>1, <1>3, <2>2, <2>4, <2>5
  <1>4. CASE shared # None
    <2>1. PICK text \in Texts : text = shared BY <1>4 DEF TypeOK
    <2>2. Apply(r, text) BY <1>4, <2>1 DEF OpenText
    <2>3. /\ \E w : Onward(r, w) /\ w # Idle /\ w.pc = "saveEdit" /\ w.text = text \cup {request[r].id}
          /\ shared' = text \cup {request[r].id} /\ shared' \in Texts
      BY <2>2, ApplyStep
    <2> QED BY <1>4, <2>1, <2>3
  <1> QED BY <1>3, <1>4

(* An edit that is allowed goes on to the text.                            *)
LEMMA CheckAuthorStep ==
  ASSUME TypeOK, RequestsOK, NEW r \in Requests, CheckAuthor(r)
  PROVE  \/ (Onward(r, Idle) /\ shared' = shared)
         \/ \E w : /\ Onward(r, w) /\ w # Idle
                   /\ \/ shared' = shared /\ w.pc = "checkFolder"
                      \/ shared = None /\ shared' = shared /\ w.pc = "loadText"
                      \/ /\ shared # None /\ w.pc = "saveEdit" /\ w.text = shared \cup {request[r].id}
                         /\ shared' = w.text /\ shared' \in Texts
  <1>1. PICK q, pc : q = request[r] /\ pc = "checkFolder" OBVIOUS
  <1>2. q \in Rows /\ q \in Record /\ q # Idle /\ q.pc = "checkAuthor" /\ pc \in Steps
    BY <1>1, BusyRows DEF CheckAuthor, At, Steps, Loading
  <1>3. starts' = starts /\ excused \subseteq excused' BY DEF CheckAuthor, history
  <1>4. CASE Matches(author, request[r].by)
    <2>1. OpenText(r) BY <1>4 DEF CheckAuthor
    <2>2. request[r].pc \in Loading BY <1>1, <1>2 DEF Loading
    <2> QED BY <1>1, <1>2, <1>3, <1>4, <2>1, <2>2, OpenTextStep
  <1>5. CASE ~Matches(author, request[r].by)
    <2>1. PICK w : w = [q EXCEPT !.pc = pc] OBVIOUS
    <2>2. SameRequest(w, q) /\ w.pc = pc BY <1>2, <2>1, WithStep
    <2>3. w \in Rows BY <1>1, <1>2, <2>2 DEF Rows, FolderSteps, DocumentSteps, Loading, CommentSteps, SameRequest
    <2>4. (Goes(r, Idle) \/ Goes(r, w)) /\ shared' = shared BY <1>1, <1>5, <2>1 DEF CheckAuthor
    <2>5. CASE Goes(r, Idle) BY <1>1, <1>2, <1>3, <2>4, <2>5, Ends
    <2>6. CASE Goes(r, w)
      <3>1. Onward(r, w) /\ w # Idle BY <1>1, <1>2, <1>3, <2>2, <2>3, <2>6, GoesOn
      <3> QED BY <1>1, <2>2, <2>4, <3>1
    <2> QED BY <2>4, <2>5, <2>6
  <1> QED BY <1>4, <1>5

LEMMA CheckFolderStep ==
  ASSUME TypeOK, RequestsOK, NEW r \in Requests, CheckFolder(r)
  PROVE  \E w : /\ Onward(r, w) /\ w # Idle
                /\ \/ shared' = shared /\ w.pc = "nextFolder"
                   \/ shared = None /\ shared' = shared /\ w.pc = "loadText"
                   \/ /\ shared # None /\ w.pc = "saveEdit" /\ w.text = shared \cup {request[r].id}
                      /\ shared' = w.text /\ shared' \in Texts
  <1>1. PICK q, pc : q = request[r] /\ pc = "nextFolder" OBVIOUS
  <1>2. q \in Rows /\ q \in Record /\ q # Idle /\ q.pc = "checkFolder" /\ pc \in Steps
    BY <1>1, BusyRows DEF CheckFolder, At, Steps, Loading
  <1>3. starts' = starts /\ excused \subseteq excused' BY DEF CheckFolder, history
  <1>4. CASE Exists(request[r].at) /\ Matches(folder[request[r].at].owner, request[r].by)
    <2>1. OpenText(r) BY <1>4 DEF CheckFolder
    <2>2. request[r].pc \in Loading BY <1>1, <1>2 DEF Loading
    <2> QED BY <1>1, <1>2, <1>3, <2>1, <2>2, OpenTextStep
  <1>5. CASE ~(Exists(request[r].at) /\ Matches(folder[request[r].at].owner, request[r].by))
    <2>1. PICK w : w = [q EXCEPT !.pc = pc] OBVIOUS
    <2>2. SameRequest(w, q) /\ w.pc = pc BY <1>2, <2>1, WithStep
    <2>3. w \in Rows BY <1>1, <1>2, <2>2 DEF Rows, FolderSteps, DocumentSteps, Loading, CommentSteps, SameRequest
    <2>4. Goes(r, w) /\ shared' = shared BY <1>1, <1>5, <2>1 DEF CheckFolder
    <2>5. Onward(r, w) /\ w # Idle BY <1>1, <1>2, <1>3, <2>2, <2>3, <2>4, GoesOn
    <2> QED BY <1>1, <2>2, <2>4, <2>5
  <1> QED BY <1>4, <1>5

LEMMA NextFolderStep ==
  ASSUME TypeOK, RequestsOK, NEW r \in Requests, NextFolder(r)
  PROVE  \/ Onward(r, Idle)
         \/ \E w : Onward(r, w) /\ w # Idle /\ w.pc = "checkFolder"
  <1>1. PICK q, pc : q = request[r] /\ pc = "checkFolder" OBVIOUS
  <1>2. q \in Rows /\ q \in Record /\ q # Idle /\ q.pc = "nextFolder" /\ pc \in Steps
    BY <1>1, BusyRows DEF NextFolder, At, Steps, Loading
  <1>3. starts' = starts /\ excused \subseteq excused' BY DEF NextFolder, history
  <1>4. PICK there : there = {f \in Folders : Exists(f)} OBVIOUS
  <1>5. PICK found : found = IF q.up # None THEN {q.up} \cap there ELSE {f \in there : \A g \in there : f <= g} OBVIOUS
  <1>6. PICK f : f = CHOOSE g \in found : TRUE OBVIOUS
  <1>7. Goes(r, IF found = {} THEN Idle ELSE [request[r] EXCEPT !.pc = "checkFolder", !.at = f, !.up = folder[f].parent])
    BY <1>1, <1>4, <1>5, <1>6 DEF NextFolder
  <1>8. CASE found = {} BY <1>1, <1>2, <1>3, <1>7, <1>8, Ends
  <1>9. CASE found # {}
    <2>1. f \in found BY <1>6, <1>9
    <2>2. f \in Folders /\ folder[f] # None BY <1>4, <1>5, <2>1 DEF Exists
    <2>3. folder[f].parent \in Folders \cup {None} BY <2>2 DEF TypeOK, FolderRow
    <2>4. PICK at \in Folders \cup {None}, up \in Folders \cup {None} : at = f /\ up = folder[f].parent BY <2>2, <2>3
    <2>5. PICK w : ToParent(w, q, pc, at, up) BY DEF ToParent
    <2>6. SameRequest(w, q) /\ w.pc = pc BY <1>2, <2>5, WithParent
    <2>7. w \in Rows BY <1>1, <1>2, <2>6 DEF Rows, FolderSteps, DocumentSteps, Loading, CommentSteps, SameRequest
    <2>8. Goes(r, w) BY <1>1, <1>7, <1>9, <2>4, <2>5 DEF ToParent
    <2> QED BY <1>1, <1>2, <1>3, <2>6, <2>7, <2>8, GoesOn
  <1> QED BY <1>8, <1>9

LEMMA LoadTextStep ==
  ASSUME TypeOK, RequestsOK, NEW r \in Requests, LoadText(r)
  PROVE  \/ Onward(r, Idle)
         \/ doc # None /\ \E w : Onward(r, w) /\ w # Idle /\ w.pc = "shareText" /\ w.text = doc.text
  <1>1. PICK q, pc : q = request[r] /\ pc = "shareText" OBVIOUS
  <1>2. q \in Rows /\ q \in Record /\ q # Idle /\ q.pc = "loadText" /\ pc \in Steps
    BY <1>1, BusyRows DEF LoadText, At, Steps, Loading
  <1>3. starts' = starts /\ excused \subseteq excused' BY DEF LoadText, history
  <1>4. CASE doc = None
    <2>1. Goes(r, Idle) BY <1>4 DEF LoadText
    <2> QED BY <1>1, <1>2, <1>3, <2>1, Ends
  <1>5. CASE doc # None
    <2>1. PICK text \in Texts : text = doc.text BY <1>5 DEF TypeOK, DocumentRow
    <2>2. PICK w : ToText(w, q, pc, text) BY DEF ToText
    <2>3. SameRequest(w, q) /\ w.pc = pc /\ w.text = text BY <1>2, <2>2, WithText
    <2>4. w \in Rows BY <1>1, <1>2, <2>3 DEF Rows, FolderSteps, DocumentSteps, Loading, CommentSteps, SameRequest
    <2>5. Goes(r, w) BY <1>1, <1>5, <2>1, <2>2 DEF LoadText, ToText
    <2>6. Onward(r, w) /\ w # Idle BY <1>1, <1>2, <1>3, <2>3, <2>4, <2>5, GoesOn
    <2> QED BY <1>1, <1>5, <2>1, <2>3, <2>6
  <1> QED BY <1>4, <1>5

LEMMA ShareTextStep ==
  ASSUME RequestsOK, NEW r \in Requests, ShareText(r)
  PROVE  /\ \E w : Onward(r, w) /\ w # Idle /\ w.pc = "saveEdit" /\ w.text = request[r].text \cup {request[r].id}
         /\ shared' = request[r].text \cup {request[r].id} /\ shared' \in Texts
  <1>1. PICK q : q = request[r] OBVIOUS
  <1>2. q \in Rows /\ q \in Record /\ q # Idle /\ q.pc = "shareText"
    BY <1>1, BusyRows DEF ShareText, At
  <1>3. PICK text \in Texts : text = q.text BY <1>2, IdTyped
  <1>4. starts' = starts /\ excused \subseteq excused' BY DEF ShareText
  <1>5. Apply(r, text) BY <1>1, <1>3 DEF ShareText
  <1>6. request[r].pc \in Loading BY <1>1, <1>2 DEF Loading
  <1> QED BY <1>1, <1>2, <1>3, <1>4, <1>5, <1>6, ApplyStep

LEMMA CheckReaderStep ==
  ASSUME RequestsOK, NEW r \in Requests, CheckReader(r)
  PROVE  \/ Onward(r, Idle)
         \/ \E w : Onward(r, w) /\ w # Idle /\ w.pc \in {"saveComment", "deleteComment"}
  <1>1. PICK q, pc : q = request[r] /\ pc = IF q.op = "drop" THEN "deleteComment" ELSE "saveComment" OBVIOUS
  <1>2. q \in Rows /\ q \in Record /\ q # Idle /\ q.pc = "checkReader" /\ pc \in Steps
    BY <1>1, BusyRows DEF CheckReader, At, Steps, CommentSteps
  <1>3. starts' = starts /\ excused \subseteq excused' BY DEF CheckReader, history
  <1>4. PICK w : w = [q EXCEPT !.pc = pc] OBVIOUS
  <1>5. SameRequest(w, q) /\ w.pc = pc /\ w.at = q.at BY <1>2, <1>4, WithStep
  <1>6. w \in Rows BY <1>1, <1>2, <1>5 DEF Rows, FolderSteps, DocumentSteps, Loading, CommentSteps, SameRequest
  <1>7. Goes(r, Idle) \/ Goes(r, w) BY <1>1, <1>4 DEF CheckReader
  <1>8. CASE Goes(r, Idle) BY <1>1, <1>2, <1>3, <1>8, Ends
  <1>9. CASE Goes(r, w)
    <2>1. Onward(r, w) /\ w # Idle BY <1>1, <1>2, <1>3, <1>5, <1>6, <1>9, GoesOn
    <2> QED BY <1>1, <1>5, <2>1
  <1> QED BY <1>7, <1>8, <1>9

(* The steps that are the last of their request.                           *)
LEMMA LastStep ==
  ASSUME NEW r \in Requests,
         \/ OwnFolder(r) \/ SaveFolder(r) \/ SaveVersion(r) \/ DeleteDocument(r)
         \/ SaveComment(r) \/ DeleteComment(r) \/ Fail(r)
  PROVE  Onward(r, Idle)
  <1>1. request[r] # Idle /\ Goes(r, Idle) /\ starts' = starts /\ excused \subseteq excused'
    BY DEF OwnFolder, SaveFolder, SaveVersion, DeleteDocument, SaveComment, DeleteComment, Fail, At, history
  <1> QED BY <1>1, Ends

(* A request begins with a row of its step.                                *)
LEMMA Asked ==
  ASSUME RequestsOK, starts < MaxStarts,
         NEW op \in Ops, NEW pc \in First, NEW by \in Users \cup {None}, NEW about \in Subjects,
         NEW to \in Folders \cup {None}
  PROVE  LET w == Request(op, pc, by, about, to)
         IN  /\ w \in Record /\ w # Idle /\ w.op = op /\ w.pc = pc /\ w.by = by /\ w.about = about /\ w.to = to
             /\ w.id = starts + 1
  <1>1. starts + 1 \in Edits BY BoundAssumption DEF RequestsOK, Edits
  <1>2. pc \in Steps BY DEF First, Steps, FolderSteps, DocumentSteps, Loading, CommentSteps
  <1>3. Request(op, pc, by, about, to) \in Record BY <1>1, <1>2 DEF Request, Record, Texts
  <1> QED BY <1>3, NotIdle DEF Request

LEMMA AskedFolder ==
  ASSUME RequestsOK, starts < MaxStarts, NEW op \in {"move", "retitle"}, NEW f \in Folders, NEW to \in Folders \cup {None}
  PROVE  LET w == [Request(op, "findFolder", None, Folder(f), to) EXCEPT !.at = f]
         IN  /\ w \in Record /\ w # Idle /\ w.op = op /\ w.pc = "findFolder" /\ w.by = None /\ w.about = Folder(f)
             /\ w.at = f /\ w.to = to /\ w.id = starts + 1
  <1>1. starts + 1 \in Edits BY BoundAssumption DEF RequestsOK, Edits
  <1>2. "findFolder" \in Steps /\ op \in Ops /\ Folder(f) \in Subjects
    BY DEF Steps, FolderSteps, Ops, Subjects
  <1>3. PICK w : w = [op |-> op, pc |-> "findFolder", by |-> None, about |-> Folder(f), to |-> to, id |-> starts + 1,
                      text |-> {}, home |-> None, at |-> f, up |-> None]
    OBVIOUS
  <1>4. w \in Record BY <1>1, <1>2, <1>3 DEF Record, Texts
  <1>5. w = [Request(op, "findFolder", None, Folder(f), to) EXCEPT !.at = f] BY <1>3 DEF Request
  <1>6. w # Idle BY <1>4, NotIdle
  <1>7. /\ w.op = op /\ w.pc = "findFolder" /\ w.by = None /\ w.about = Folder(f)
        /\ w.at = f /\ w.to = to /\ w.id = starts + 1
    BY <1>3
  <1> QED BY <1>4, <1>5, <1>6, <1>7

LEMMA Started ==
  ASSUME RequestsOK, NEW r \in Requests, NEW w \in Rows, w # Idle, w.id = starts + 1, w.pc \in First,
         w.op = "write" => expected = {}, w.op = "move" => w.pc = "findFolder",
         w.op \in {"rewrite", "rename", "refile"} => w.pc = "findDocument",
         w.pc = "checkReader" => w.about \notin removed,
         Starts(r, w)
  PROVE  Begins(r, w) /\ shared' = shared
BY DEF Starts, Begins, Goes, Counts, rows

LEMMA AskStep ==
  ASSUME RequestsOK, NEW r \in Requests, Ask(r)
  PROVE  \E w : /\ Begins(r, w)
                /\ \/ shared' = shared
                   \/ shared' = None /\ (Unanswered # {} => <<"shared">> \in excused')
  <1>1. starts < MaxStarts
    BY DEF Ask, CreateFolder, UpdateFolder, CreateDocument, UpdateDocument, RemoveDocument, Edit, AddComment, ChangeComment,
           Starts, Counts
  <1>2. CASE CreateFolder(r)
    <2>1. PICK u \in Users, p \in Folders \cup {None} : Starts(r, Request("create", "findParent", u, <<"new">>, p))
      BY <1>2 DEF CreateFolder
    <2>2. PICK op, pc, about : op = "create" /\ pc = "findParent" /\ about = <<"new">> OBVIOUS
    <2>3. op \in Ops /\ pc \in First /\ about \in Subjects BY <2>2 DEF Ops, First, Subjects
    <2>4. PICK w : w = Request(op, pc, u, about, p) OBVIOUS
    <2>5. /\ w \in Record /\ w # Idle /\ w.op = op /\ w.pc = pc /\ w.by = u /\ w.about = about /\ w.id = starts + 1
      BY <1>1, <2>3, <2>4, Asked
    <2>6. w \in Rows BY <2>2, <2>5 DEF Rows, FolderSteps, DocumentSteps, Loading, CommentSteps
    <2>7. Starts(r, w) BY <2>1, <2>2, <2>4
    <2> QED BY <2>2, <2>3, <2>5, <2>6, <2>7, Started
  <1>3. CASE UpdateFolder(r)
    <2>1. PICK op \in {"move", "retitle"}, f \in Folders, p \in Folders \cup {None} :
            Starts(r, [Request(op, "findFolder", None, Folder(f), p) EXCEPT !.at = f])
      BY <1>3 DEF UpdateFolder
    <2>2. PICK w : w = [Request(op, "findFolder", None, Folder(f), p) EXCEPT !.at = f] OBVIOUS
    <2>3. /\ w \in Record /\ w # Idle /\ w.op = op /\ w.pc = "findFolder" /\ w.about = Folder(f) /\ w.at = f
          /\ w.id = starts + 1
      BY <1>1, <2>2, AskedFolder
    <2>4. w \in Rows BY <2>3 DEF Rows, FolderSteps, DocumentSteps, Loading, CommentSteps
    <2>5. Starts(r, w) BY <2>1, <2>2
    <2>6. w.pc \in First BY <2>3 DEF First
    <2> QED BY <2>3, <2>4, <2>5, <2>6, Started
  <1>4. CASE CreateDocument(r)
    <2>1. PICK u \in Users, p \in Folders \cup {None} :
            expected = {} /\ Starts(r, Request("write", "findParent", u, <<"text">>, p))
      BY <1>4 DEF CreateDocument
    <2>2. PICK op, pc, about : op = "write" /\ pc = "findParent" /\ about = <<"text">> OBVIOUS
    <2>3. op \in Ops /\ pc \in First /\ about \in Subjects BY <2>2 DEF Ops, First, Subjects
    <2>4. PICK w : w = Request(op, pc, u, about, p) OBVIOUS
    <2>5. /\ w \in Record /\ w # Idle /\ w.op = op /\ w.pc = pc /\ w.by = u /\ w.about = about /\ w.id = starts + 1
      BY <1>1, <2>3, <2>4, Asked
    <2>6. w \in Rows BY <2>2, <2>5 DEF Rows, FolderSteps, DocumentSteps, Loading, CommentSteps
    <2>7. Starts(r, w) BY <2>1, <2>2, <2>4
    <2> QED BY <2>1, <2>2, <2>3, <2>5, <2>6, <2>7, Started
  <1>5. CASE UpdateDocument(r)
    <2>1. PICK op \in {"rewrite", "rename", "refile"}, p \in Folders \cup {None} :
            Starts(r, Request(op, "findDocument", None, <<"text">>, p))
      BY <1>5 DEF UpdateDocument
    <2>2. PICK pc, about, by : pc = "findDocument" /\ about = <<"text">> /\ by = None OBVIOUS
    <2>3. op \in Ops /\ pc \in First /\ about \in Subjects /\ by \in Users \cup {None} BY <2>2 DEF Ops, First, Subjects
    <2>4. PICK w : w = Request(op, pc, by, about, p) OBVIOUS
    <2>5. /\ w \in Record /\ w # Idle /\ w.op = op /\ w.pc = pc /\ w.about = about /\ w.id = starts + 1
      BY <1>1, <2>3, <2>4, Asked
    <2>6. w \in Rows BY <2>2, <2>5 DEF Rows, FolderSteps, DocumentSteps, Loading, CommentSteps
    <2>7. Starts(r, w) BY <2>1, <2>2, <2>4
    <2> QED BY <2>2, <2>3, <2>5, <2>6, <2>7, Started
  <1>6. CASE RemoveDocument(r)
    <2>1. PICK op, pc, about, by, p :
            op = "remove" /\ pc = "deleteDocument" /\ about = <<"document">> /\ by = None /\ p = None
      OBVIOUS
    <2>2. op \in Ops /\ pc \in First /\ about \in Subjects /\ by \in Users \cup {None} /\ p \in Folders \cup {None}
      BY <2>1 DEF Ops, First, Subjects
    <2>3. PICK w : w = Request(op, pc, by, about, p) OBVIOUS
    <2>4. /\ w \in Record /\ w # Idle /\ w.op = op /\ w.pc = pc /\ w.about = about /\ w.id = starts + 1
      BY <1>1, <2>2, <2>3, Asked
    <2>5. w \in Rows BY <2>1, <2>4 DEF Rows, FolderSteps, DocumentSteps, Loading, CommentSteps
    <2>6. /\ request[r] = Idle /\ starts < MaxStarts /\ starts' = starts + 1 /\ Goes(r, w)
          /\ shared' = None /\ excused \subseteq excused' /\ (Unanswered # {} => <<"shared">> \in excused')
          /\ UNCHANGED <<rows, timers, expected, answered, removed>>
      BY <1>6, <2>1, <2>3 DEF RemoveDocument, Counts
    <2>7. Begins(r, w) BY <2>1, <2>2, <2>4, <2>5, <2>6 DEF Begins, Goes
    <2> QED BY <2>6, <2>7
  <1>7. CASE Edit(r)
    <2>1. PICK u \in Users \cup {None} : Starts(r, Request("edit", "readRow", u, <<"text">>, None)) BY <1>7 DEF Edit
    <2>2. PICK op, pc, about, p : op = "edit" /\ pc = "readRow" /\ about = <<"text">> /\ p = None OBVIOUS
    <2>3. op \in Ops /\ pc \in First /\ about \in Subjects /\ p \in Folders \cup {None} BY <2>2 DEF Ops, First, Subjects
    <2>4. PICK w : w = Request(op, pc, u, about, p) OBVIOUS
    <2>5. /\ w \in Record /\ w # Idle /\ w.op = op /\ w.pc = pc /\ w.by = u /\ w.about = about /\ w.id = starts + 1
      BY <1>1, <2>3, <2>4, Asked
    <2>6. w \in Rows BY <2>2, <2>5 DEF Rows, FolderSteps, DocumentSteps, Loading, CommentSteps
    <2>7. Starts(r, w) BY <2>1, <2>2, <2>4
    <2> QED BY <2>2, <2>3, <2>5, <2>6, <2>7, Started
  <1>8. CASE AddComment(r)
    <2>1. PICK u \in Users, c \in Comments :
            Comment(c) \notin removed /\ Starts(r, Request("add", "checkReader", u, Comment(c), None))
      BY <1>8 DEF AddComment
    <2>2. PICK op, pc, about, p : op = "add" /\ pc = "checkReader" /\ about = Comment(c) /\ p = None OBVIOUS
    <2>3. op \in Ops /\ pc \in First /\ about \in Subjects /\ p \in Folders \cup {None} BY <2>2 DEF Ops, First, Subjects
    <2>4. PICK w : w = Request(op, pc, u, about, p) OBVIOUS
    <2>5. /\ w \in Record /\ w # Idle /\ w.op = op /\ w.pc = pc /\ w.by = u /\ w.about = about /\ w.id = starts + 1
      BY <1>1, <2>3, <2>4, Asked
    <2>6. w \in Rows BY <2>2, <2>5 DEF Rows, FolderSteps, DocumentSteps, Loading, CommentSteps
    <2>7. Starts(r, w) BY <2>1, <2>2, <2>4
    <2> QED BY <2>1, <2>2, <2>3, <2>5, <2>6, <2>7, Started
  <1>9. CASE ChangeComment(r)
    <2>1. PICK op \in {"change", "drop"}, u \in Users, c \in Comments :
            Starts(r, Request(op, "findComment", u, Comment(c), None))
      BY <1>9 DEF ChangeComment
    <2>2. PICK pc, about, p : pc = "findComment" /\ about = Comment(c) /\ p = None OBVIOUS
    <2>3. op \in Ops /\ pc \in First /\ about \in Subjects /\ p \in Folders \cup {None} BY <2>2 DEF Ops, First, Subjects
    <2>4. PICK w : w = Request(op, pc, u, about, p) OBVIOUS
    <2>5. /\ w \in Record /\ w # Idle /\ w.op = op /\ w.pc = pc /\ w.by = u /\ w.about = about /\ w.id = starts + 1
      BY <1>1, <2>3, <2>4, Asked
    <2>6. w \in Rows BY <2>2, <2>5 DEF Rows, FolderSteps, DocumentSteps, Loading, CommentSteps
    <2>7. Starts(r, w) BY <2>1, <2>2, <2>4
    <2> QED BY <2>2, <2>3, <2>5, <2>6, <2>7, Started
  <1> QED BY <1>2, <1>3, <1>4, <1>5, <1>6, <1>7, <1>8, <1>9 DEF Ask

-----------------------------------------------------------------------------
(***************************************************************************)
(* The requests in progress, and the timers of the shared text.            *)
(***************************************************************************)
LEMMA OnwardBusy ==
  ASSUME RequestsOK, NEW r \in Requests, NEW w, Onward(r, w)
  PROVE  /\ request'[r] = w /\ r \in Busy
         /\ \A s \in Requests : s # r => request'[s] = request[s]
         /\ Busy' \subseteq Busy
         /\ \A s \in Busy' : /\ request'[s].about = request[s].about /\ request'[s].id = request[s].id
                             /\ request'[s].by = request[s].by /\ request'[s].op = request[s].op
  <1>1. request'[r] = w /\ \A s \in Requests : s # r => request'[s] = request[s] BY DEF RequestsOK, Onward
  <1>2. r \in Busy /\ Busy' \subseteq Busy BY <1>1 DEF Busy, Onward
  <1>3. ASSUME NEW s \in Busy'
        PROVE  /\ request'[s].about = request[s].about /\ request'[s].id = request[s].id
               /\ request'[s].by = request[s].by /\ request'[s].op = request[s].op
    BY <1>1 DEF Busy, Onward, SameRequest
  <1> QED BY <1>1, <1>2, <1>3

LEMMA BeginsBusy ==
  ASSUME RequestsOK, NEW r \in Requests, NEW w, Begins(r, w)
  PROVE  /\ request'[r] = w /\ w # Idle /\ r \notin Busy /\ r \in Busy'
         /\ \A s \in Requests : s # r => request'[s] = request[s]
         /\ Busy' = Busy \cup {r}
BY DEF RequestsOK, Begins, Busy

LEMMA OnwardRequests == ASSUME RequestsOK, NEW r \in Requests, NEW w, Onward(r, w) PROVE RequestsOK'
  <1>1. /\ Busy' \subseteq Busy /\ \A s \in Busy' : request'[s].id = request[s].id BY OnwardBusy
  <1>2. request' \in [Requests -> {Idle} \cup Rows] /\ starts' = starts BY DEF RequestsOK, Onward
  <1> QED BY <1>1, <1>2 DEF RequestsOK

LEMMA BeginsRequests == ASSUME RequestsOK, NEW r \in Requests, NEW w, Begins(r, w) PROVE RequestsOK'
  <1>1. /\ request'[r] = w /\ Busy' = Busy \cup {r} /\ r \notin Busy
        /\ \A s \in Busy : request'[s] = request[s]
    BY BeginsBusy DEF Busy
  <1>2. request' \in [Requests -> {Idle} \cup Rows] /\ starts' = starts + 1 /\ w.id = starts + 1
    BY DEF RequestsOK, Begins
  <1>3. starts \in Nat /\ starts' \in 0..MaxStarts BY <1>2, BoundAssumption DEF RequestsOK, Begins
  <1>4. \A s \in Busy : request[s].id <= starts /\ request[s].id \in Nat
    <2>1. ASSUME NEW s \in Busy PROVE request[s] \in Record BY BusyRows DEF Busy
    <2>2. ASSUME NEW s \in Busy PROVE request[s].id \in Edits BY <2>1, IdTyped
    <2> QED BY <2>2, BoundAssumption DEF RequestsOK, Edits
  <1>5. \A s \in Busy' : request'[s].id <= starts' BY <1>1, <1>2, <1>3, <1>4
  <1>6. ASSUME NEW s \in Busy', NEW t \in Busy', s # t PROVE request'[s].id # request'[t].id
    <2>1. CASE s \in Busy /\ t \in Busy BY <1>1, <1>6, <2>1 DEF RequestsOK
    <2>2. CASE s = r BY <1>1, <1>2, <1>3, <1>4, <1>6, <2>2
    <2>3. CASE t = r BY <1>1, <1>2, <1>3, <1>4, <1>6, <2>3
    <2> QED BY <1>1, <2>1, <2>2, <2>3
  <1> QED BY <1>2, <1>3, <1>5, <1>6 DEF RequestsOK

LEMMA OnwardCrossed ==
  ASSUME RequestsOK, CrossedOK, NEW r \in Requests, NEW w, Onward(r, w) PROVE CrossedOK'
  <1>1. /\ Busy' \subseteq Busy /\ \A s \in Busy' : request'[s].about = request[s].about BY OnwardBusy
  <1>2. excused \subseteq excused' BY DEF Onward
  <1> QED BY <1>1, <1>2 DEF CrossedOK

LEMMA BeginsCrossed ==
  ASSUME RequestsOK, CrossedOK, NEW r \in Requests, NEW w, Begins(r, w) PROVE CrossedOK'
  <1>1. /\ request'[r] = w /\ Busy' = Busy \cup {r} /\ r \notin Busy
        /\ \A s \in Busy : request'[s] = request[s]
    BY BeginsBusy DEF Busy
  <1>2. /\ excused \subseteq excused'
        /\ w.about # <<"document">> /\ (\E s \in Busy : request[s].about = w.about) => w.about \in excused'
    BY DEF Begins
  <1> QED BY <1>1, <1>2 DEF CrossedOK

LEMMA LoadingFinite == ASSUME RequestsOK PROVE IsFiniteSet(LoadingIds) /\ Cardinality(LoadingIds) \in Nat
  <1>1. IsFiniteSet(Edits) BY FS_Interval, BoundAssumption DEF Edits
  <1>2. LoadingIds \subseteq Edits BY BusyRows, IdTyped DEF LoadingIds, Busy
  <1>3. IsFiniteSet(LoadingIds) BY <1>1, <1>2, FS_Subset
  <1> QED BY <1>3, FS_CardinalityType

LEMMA TimersStay ==
  ASSUME RequestsOK, RequestsOK', TimersOK, LoadingIds' \subseteq LoadingIds, timers' \in Nat, timers' <= timers,
         starts' \in Nat, starts <= starts'
  PROVE  TimersOK'
  <1>1. IsFiniteSet(LoadingIds) /\ Cardinality(LoadingIds) \in Nat BY LoadingFinite
  <1>2. Cardinality(LoadingIds') <= Cardinality(LoadingIds) /\ Cardinality(LoadingIds') \in Nat
    BY <1>1, FS_Subset, FS_CardinalityType
  <1>3. timers \in Nat /\ timers + Cardinality(LoadingIds) <= starts /\ starts \in Nat BY DEF TimersOK, RequestsOK
  <1>4. timers' <= starts' /\ timers' + Cardinality(LoadingIds') <= starts' BY <1>1, <1>2, <1>3
  <1> QED BY <1>4 DEF TimersOK

LEMMA OnwardTimers ==
  ASSUME RequestsOK, TimersOK, NEW r \in Requests, NEW w, Onward(r, w), timers' = timers,
         w # Idle /\ w.pc \in Loading => request[r].pc \in Loading
  PROVE  TimersOK'
  <1>1. /\ request'[r] = w /\ Busy' \subseteq Busy
        /\ \A s \in Requests : s # r => request'[s] = request[s]
        /\ \A s \in Busy' : request'[s].id = request[s].id
    BY OnwardBusy
  <1>2. ASSUME NEW s \in Busy', request'[s].pc \in Loading PROVE request[s].pc \in Loading
    BY <1>1, <1>2 DEF Busy
  <1>3. LoadingIds' \subseteq LoadingIds BY <1>1, <1>2 DEF LoadingIds
  <1>4. timers' \in Nat /\ starts' \in Nat /\ starts' = starts BY DEF TimersOK, Onward, RequestsOK
  <1> QED BY <1>3, <1>4, TimersStay, OnwardRequests DEF TimersOK

LEMMA BeginsTimers ==
  ASSUME RequestsOK, TimersOK, NEW r \in Requests, NEW w, Begins(r, w) PROVE TimersOK'
  <1>1. /\ request'[r] = w /\ Busy' = Busy \cup {r} /\ r \notin Busy
        /\ \A s \in Busy : request'[s] = request[s]
    BY BeginsBusy DEF Busy
  <1>2. starts' = starts + 1 /\ w.id = starts + 1 /\ timers' = timers BY DEF Begins
  <1>3. IsFiniteSet(LoadingIds) /\ Cardinality(LoadingIds) \in Nat BY LoadingFinite
  <1>4. LoadingIds' \subseteq LoadingIds \cup {starts + 1} BY <1>1, <1>2 DEF LoadingIds
  <1>5. PICK more : more = LoadingIds \cup {starts + 1} OBVIOUS
  <1>6. IsFiniteSet(more) /\ Cardinality(more) \in Nat /\ Cardinality(more) <= Cardinality(LoadingIds) + 1
    <2>1. PICK S, n : S = LoadingIds /\ n = starts + 1 OBVIOUS
    <2>2. IsFiniteSet(S) BY <1>3, <2>1
    <2>3. IsFiniteSet(S \cup {n}) /\ Cardinality(S \cup {n}) = IF n \in S THEN Cardinality(S) ELSE Cardinality(S) + 1
      BY <2>2, FS_AddElement
    <2>4. more = S \cup {n} BY <1>5, <2>1
    <2>5. IsFiniteSet(more) /\ Cardinality(more) \in Nat BY <2>3, <2>4, FS_CardinalityType
    <2> QED BY <1>3, <2>1, <2>3, <2>4, <2>5
  <1>7. IsFiniteSet(LoadingIds') /\ Cardinality(LoadingIds') <= Cardinality(more)
    BY <1>4, <1>5, <1>6, FS_Subset
  <1>8. Cardinality(LoadingIds') \in Nat BY <1>7, FS_CardinalityType
  <1>9. timers \in Nat /\ timers + Cardinality(LoadingIds) <= starts /\ starts \in Nat BY DEF TimersOK, RequestsOK
  <1>10. timers' <= starts' /\ timers' + Cardinality(LoadingIds') <= starts' BY <1>2, <1>3, <1>6, <1>7, <1>8, <1>9
  <1> QED BY <1>2, <1>9, <1>10 DEF TimersOK

(* An edit that shares its text sets a timer and is done loading.          *)
LEMMA ShareTimers == ASSUME RequestsOK, TimersOK, NEW r \in Requests, ShareText(r) PROVE TimersOK'
  <1>1. PICK w : Onward(r, w) /\ w # Idle /\ w.pc = "saveEdit" BY ShareTextStep
  <1>2. PICK id : id = request[r].id OBVIOUS
  <1>3. /\ request'[r] = w /\ Busy' \subseteq Busy /\ r \in Busy
        /\ \A s \in Requests : s # r => request'[s] = request[s]
        /\ \A s \in Busy' : request'[s].id = request[s].id
    BY <1>1, OnwardBusy
  <1>4. request[r].pc \in Loading BY DEF ShareText, At, Loading
  <1>5. id \in LoadingIds BY <1>2, <1>3, <1>4 DEF LoadingIds
  <1>6. ASSUME NEW s \in Busy', request'[s].pc \in Loading
        PROVE  s # r /\ request[s].pc \in Loading /\ request'[s].id = request[s].id
    <2>1. s # r BY <1>1, <1>3, <1>6 DEF Loading
    <2> QED BY <1>3, <1>6, <2>1 DEF Busy
  <1>7. LoadingIds' \subseteq LoadingIds \ {id}
    <2>1. ASSUME NEW s \in Busy', request'[s].pc \in Loading PROVE request'[s].id \in LoadingIds \ {id}
      <3>1. request[s].id # id BY <1>2, <1>3, <1>6, <2>1 DEF RequestsOK
      <3> QED BY <1>3, <1>6, <2>1, <3>1 DEF LoadingIds
    <2> QED BY <2>1 DEF LoadingIds
  <1>8. IsFiniteSet(LoadingIds) /\ Cardinality(LoadingIds) \in Nat BY LoadingFinite
  <1>9. PICK rest : rest = LoadingIds \ {id} OBVIOUS
  <1>10. IsFiniteSet(rest) /\ Cardinality(rest) = Cardinality(LoadingIds) - 1
    BY <1>5, <1>8, <1>9, FS_RemoveElement
  <1>11. IsFiniteSet(LoadingIds') /\ Cardinality(LoadingIds') <= Cardinality(rest)
    BY <1>7, <1>9, <1>10, FS_Subset
  <1>12. Cardinality(LoadingIds') \in Nat /\ Cardinality(rest) \in Nat BY <1>10, <1>11, FS_CardinalityType
  <1>13. timers \in Nat /\ timers + Cardinality(LoadingIds) <= starts /\ starts \in Nat BY DEF TimersOK, RequestsOK
  <1>14. timers' = timers + 1 /\ starts' = starts BY DEF ShareText
  <1>15. timers' <= starts' /\ timers' + Cardinality(LoadingIds') <= starts' BY <1>8, <1>10, <1>11, <1>12, <1>13, <1>14
  <1> QED BY <1>13, <1>14, <1>15 DEF TimersOK

(* Whatever is handled goes on, and none begins to load again.             *)
LEMMA HandleStep ==
  ASSUME TypeOK, RequestsOK, NEW r \in Requests, Handle(r)
  PROVE  \E w : Onward(r, w) /\ (w # Idle /\ w.pc \in Loading => request[r].pc \in Loading)
  <1>1. CASE NewFolder(r) BY <1>1, NewFolderStep DEF Loading
  <1>2. CASE FindFolder(r) BY <1>2, FindFolderStep DEF Loading
  <1>3. CASE NewDocument(r) BY <1>3, NewDocumentStep DEF Loading
  <1>4. CASE OwnDocument(r) BY <1>4, OwnDocumentStep DEF Loading
  <1>5. CASE FindDocument(r) BY <1>5, FindDocumentStep DEF Loading
  <1>6. CASE SaveDocument(r) BY <1>6, SaveDocumentStep DEF Loading
  <1>7. CASE ReadRow(r) BY <1>7, ReadRowStep DEF Loading, ReadRow, At
  <1>8. CASE CheckAuthor(r) BY <1>8, CheckAuthorStep DEF Loading, CheckAuthor, At
  <1>9. CASE CheckFolder(r) BY <1>9, CheckFolderStep DEF Loading, CheckFolder, At
  <1>10. CASE NextFolder(r) BY <1>10, NextFolderStep DEF Loading, NextFolder, At
  <1>11. CASE LoadText(r) BY <1>11, LoadTextStep DEF Loading, LoadText, At
  <1>12. CASE ShareText(r) BY <1>12, ShareTextStep DEF Loading
  <1>13. CASE SaveEdit(r) BY <1>13, SaveEditStep DEF Loading
  <1>14. CASE FindComment(r) BY <1>14, FindCommentStep DEF Loading
  <1>15. CASE CheckReader(r) BY <1>15, CheckReaderStep DEF Loading
  <1>16. CASE OwnFolder(r) \/ SaveFolder(r) \/ SaveVersion(r) \/ DeleteDocument(r) \/ SaveComment(r) \/ DeleteComment(r)
               \/ Fail(r) BY <1>16, LastStep
  <1>17. CASE FindParent(r) BY <1>17, FindParentStep DEF Loading
  <1> QED BY <1>1, <1>2, <1>3, <1>4, <1>5, <1>6, <1>7, <1>8, <1>9, <1>10, <1>11, <1>12, <1>13, <1>14, <1>15, <1>16, <1>17
    DEF Handle

LEMMA HandleRequests ==
  ASSUME TypeOK, RequestsOK, CrossedOK, TimersOK, NEW r \in Requests, Handle(r)
  PROVE  RequestsOK' /\ CrossedOK' /\ TimersOK'
  <1>1. PICK w : Onward(r, w) /\ (w # Idle /\ w.pc \in Loading => request[r].pc \in Loading) BY HandleStep
  <1>2. RequestsOK' /\ CrossedOK' BY <1>1, OnwardRequests, OnwardCrossed
  <1>3. ShareText(r) \/ timers' = timers
    BY DEF Handle, FindParent, NewFolder, OwnFolder, FindFolder, SaveFolder, NewDocument, OwnDocument, FindDocument, SaveDocument,
           SaveVersion, DeleteDocument, ReadRow, CheckAuthor, CheckFolder, NextFolder, LoadText, SaveEdit, FindComment,
           CheckReader, SaveComment, DeleteComment, Fail
  <1>4. TimersOK' BY <1>1, <1>3, OnwardTimers, ShareTimers
  <1> QED BY <1>2, <1>4

(* Between the steps of the requests none of them goes on.                 *)
LEMMA OthersRequests ==
  ASSUME RequestsOK, CrossedOK, TimersOK, UNCHANGED request, excused \subseteq excused',
         \/ starts' = starts /\ (timers' = timers \/ (timers > 0 /\ timers' = timers - 1))
         \/ Counts /\ timers' = timers
  PROVE  RequestsOK' /\ CrossedOK' /\ TimersOK'
  <1>1. Busy' = Busy /\ LoadingIds' = LoadingIds BY DEF Busy, LoadingIds
  <1>2. starts' \in 0..MaxStarts /\ starts \in Nat /\ starts <= starts' BY BoundAssumption DEF RequestsOK, Counts
  <1>3. \A r \in Busy : request[r].id \in Nat
    <2>1. ASSUME NEW r \in Busy PROVE request[r] \in Record BY BusyRows DEF Busy
    <2>2. ASSUME NEW r \in Busy PROVE request[r].id \in Edits BY <2>1, IdTyped
    <2> QED BY <2>2 DEF Edits
  <1>4. RequestsOK' BY <1>1, <1>2, <1>3 DEF RequestsOK
  <1>5. CrossedOK' BY <1>1 DEF CrossedOK
  <1>6. timers' \in Nat /\ timers' <= timers BY DEF TimersOK
  <1>7. TimersOK' BY <1>1, <1>2, <1>4, <1>6, TimersStay
  <1> QED BY <1>4, <1>5, <1>7

LEMMA RequestsKept ==
  ASSUME TypeOK, RequestsOK, CrossedOK, TimersOK, [Next]_vars PROVE RequestsOK' /\ CrossedOK' /\ TimersOK'
  <1>1. CASE \E r \in Requests : Ask(r)
    <2>1. PICK r \in Requests : Ask(r) BY <1>1
    <2>2. PICK w : Begins(r, w) BY <2>1, AskStep
    <2> QED BY <2>2, BeginsRequests, BeginsCrossed, BeginsTimers
  <1>2. CASE \E r \in Requests : Handle(r) BY <1>2, HandleRequests
  <1>3. CASE \E f \in Folders : RemoveFolder(f) BY <1>3, OthersRequests DEF RemoveFolder
  <1>4. CASE Expire BY <1>4, OthersRequests DEF Expire
  <1>5. CASE UNCHANGED vars BY <1>5, OthersRequests DEF vars, history
  <1> QED BY <1>1, <1>2, <1>3, <1>4, <1>5 DEF Next

-----------------------------------------------------------------------------
(***************************************************************************)
(* The rows fit together.                                                  *)
(***************************************************************************)
DocumentTyped ==
  /\ doc \in {None} \cup DocumentRow
  /\ author \in Users \cup {None} /\ versions \in SUBSET Texts
  /\ doc = None => author = None /\ versions = {} /\ \A c \in Comments : comment[c] = None
  /\ comment \in [Comments -> Users \cup {None}]

FoldersTyped ==
  /\ folder \in [Folders -> {None} \cup FolderRow]
  /\ \A f \in Folders : folder[f] # None /\ folder[f].parent # None => folder[folder[f].parent] # None

DocumentFiled == doc # None /\ doc.folder # None => folder[doc.folder] # None

SharedTyped == shared \in {None} \cup Texts /\ (shared # None => timers > 0)

LEMMA TypeParts ==
  /\ TypeOK <=> DocumentTyped /\ FoldersTyped /\ DocumentFiled /\ SharedTyped /\ timers \in 0..MaxStarts
  /\ TypeOK' <=> DocumentTyped' /\ FoldersTyped' /\ DocumentFiled' /\ SharedTyped' /\ timers' \in 0..MaxStarts
BY DEF TypeOK, DocumentTyped, FoldersTyped, DocumentFiled, SharedTyped

(* A folder that is written has a parent that is there.                    *)
LEMMA FolderSet ==
  ASSUME FoldersTyped, NEW f \in Folders, NEW row \in FolderRow, folder' = [folder EXCEPT ![f] = row],
         row.parent # None => folder[row.parent] # None
  PROVE  /\ FoldersTyped' /\ folder'[f] = row /\ row # None
         /\ \A g \in Folders : g # f => folder'[g] = folder[g]
         /\ \A g \in Folders : folder[g] # None => folder'[g] # None
  <1>1. row # None BY NoneAssumption
  <1>2. folder \in [Folders -> {None} \cup FolderRow] BY DEF FoldersTyped
  <1>3. folder' \in [Folders -> {None} \cup FolderRow] /\ folder'[f] = row /\ \A g \in Folders : g # f => folder'[g] = folder[g]
    BY <1>2
  <1>4. \A g \in Folders : folder[g] # None => folder'[g] # None BY <1>1, <1>3
  <1>5. ASSUME NEW g \in Folders, folder'[g] # None, folder'[g].parent # None PROVE folder'[folder'[g].parent] # None
    <2>1. PICK p : p = folder'[g].parent OBVIOUS
    <2>2. folder[p] # None BY <1>3, <1>5, <2>1 DEF FoldersTyped
    <2>3. p \in Folders BY <1>3, <1>5, <2>1 DEF FolderRow
    <2> QED BY <1>4, <2>1, <2>2, <2>3
  <1> QED BY <1>1, <1>3, <1>4, <1>5 DEF FoldersTyped

LEMMA StillFiled ==
  ASSUME TypeOK, UNCHANGED doc, \A g \in Folders : folder[g] # None => folder'[g] # None
  PROVE  DocumentFiled'
BY DEF TypeOK, DocumentFiled, DocumentRow

LEMMA NewFolderTyped == ASSUME TypeOK, RequestsOK, NEW r \in Requests, NewFolder(r) PROVE FoldersTyped' /\ DocumentFiled'
  <1>1. PICK f \in Folders :
          /\ folder[f] = None
          /\ folder' = [folder EXCEPT ![f] =
               [owner |-> None, parent |-> request[r].up]]
    BY DEF NewFolder
  <1>2. request[r] \in Record BY BusyRows DEF NewFolder, At
  <1>3. PICK p : p = request[r].up OBVIOUS
  <1>4. p \in Folders \cup {None} /\ (p # None => folder[p] # None) BY <1>2, <1>3 DEF NewFolder, Refers, Exists, Record
  <1>5. PICK row : row = [owner |-> None, parent |-> p] OBVIOUS
  <1>6. row \in FolderRow /\ row.parent = p BY <1>4, <1>5 DEF FolderRow
  <1>7. folder' = [folder EXCEPT ![f] = row] BY <1>1, <1>3, <1>5
  <1>8. FoldersTyped BY TypeParts
  <1>9. FoldersTyped' /\ \A g \in Folders : folder[g] # None => folder'[g] # None
    BY <1>4, <1>6, <1>7, <1>8, FolderSet
  <1> QED BY <1>9, StillFiled DEF NewFolder

LEMMA OwnFolderTyped == ASSUME TypeOK, RequestsOK, NEW r \in Requests, OwnFolder(r) PROVE FoldersTyped' /\ DocumentFiled'
  <1>1. PICK q, f : q = request[r] /\ f = q.at OBVIOUS
  <1>2. q \in Rows /\ q \in Record /\ q.pc = "ownFolder" BY <1>1, BusyRows DEF OwnFolder, At
  <1>3. f \in Folders /\ q.by \in Users BY <1>1, <1>2 DEF Rows
  <1>4. folder \in [Folders -> {None} \cup FolderRow] /\ folder[f] # None BY <1>1 DEF OwnFolder, Exists, TypeOK
  <1>5. folder[f] \in FolderRow BY <1>3, <1>4
  <1>6. PICK old, row : old = folder[f] /\ row = [old EXCEPT !.owner = q.by] OBVIOUS
  <1>7. old = [owner |-> old.owner, parent |-> old.parent] /\ old.parent \in Folders \cup {None}
    BY <1>5, <1>6 DEF FolderRow
  <1>8. row = [owner |-> q.by, parent |-> old.parent] BY <1>6, <1>7
  <1>9. row \in FolderRow /\ row.parent = old.parent BY <1>3, <1>7, <1>8 DEF FolderRow
  <1>10. folder' = [folder EXCEPT ![f] = row] BY <1>1, <1>6 DEF OwnFolder
  <1>11. row.parent # None => folder[row.parent] # None BY <1>3, <1>4, <1>6, <1>9 DEF TypeOK
  <1>12. FoldersTyped BY TypeParts
  <1>13. FoldersTyped' /\ \A g \in Folders : folder[g] # None => folder'[g] # None
    BY <1>3, <1>9, <1>10, <1>11, <1>12, FolderSet
  <1> QED BY <1>13, StillFiled DEF OwnFolder

LEMMA SaveFolderTyped == ASSUME TypeOK, RequestsOK, NEW r \in Requests, SaveFolder(r) PROVE FoldersTyped' /\ DocumentFiled'
  <1>1. PICK q, f : q = request[r] /\ f = q.at OBVIOUS
  <1>2. q \in Rows /\ q \in Record /\ q.pc = "saveFolder" BY <1>1, BusyRows DEF SaveFolder, At
  <1>3. f \in Folders /\ q.up \in Folders \cup {None} BY <1>1, <1>2 DEF Rows, Record
  <1>4. PICK old : old = IF Exists(f) THEN folder[f] ELSE [owner |-> None, parent |-> None] OBVIOUS
  <1>5. old \in FolderRow /\ (old.parent # None => folder[old.parent] # None)
    <2>1. CASE Exists(f)
      <3>1. folder[f] \in FolderRow BY <1>3, <2>1 DEF Exists, TypeOK
      <3> QED BY <1>3, <1>4, <2>1, <3>1 DEF Exists, TypeOK
    <2>2. CASE ~Exists(f) BY <1>4, <2>2 DEF FolderRow
    <2> QED BY <2>1, <2>2
  <1>6. PICK p : p = IF q.op = "move" THEN q.up ELSE old.parent OBVIOUS
  <1>7. p \in Folders \cup {None} /\ (p # None => folder[p] # None)
    <2>1. q.op = "move" => Refers(q.up) BY <1>1 DEF SaveFolder
    <2> QED BY <1>3, <1>5, <1>6, <2>1 DEF Refers, Exists, FolderRow
  <1>8. PICK row : row = IF q.op = "move" THEN [old EXCEPT !.parent = q.up] ELSE old OBVIOUS
  <1>9. row \in FolderRow /\ row.parent = p
    <2>1. old = [owner |-> old.owner, parent |-> old.parent] /\ old.owner \in Users \cup {None} BY <1>5 DEF FolderRow
    <2>2. row = [owner |-> old.owner, parent |-> p] BY <1>6, <1>8, <2>1
    <2> QED BY <1>7, <2>1, <2>2 DEF FolderRow
  <1>10. folder' = [folder EXCEPT ![f] = row] BY <1>1, <1>4, <1>8 DEF SaveFolder
  <1>11. FoldersTyped BY TypeParts
  <1>12. FoldersTyped' /\ \A g \in Folders : folder[g] # None => folder'[g] # None
    BY <1>3, <1>7, <1>9, <1>10, <1>11, FolderSet
  <1> QED BY <1>12, StillFiled DEF SaveFolder

(* The document that a step writes.                                        *)
LEMMA DocumentSet ==
  ASSUME DocumentTyped, NEW row \in DocumentRow, doc' = row, author' \in Users \cup {None}, versions' \in SUBSET Texts,
         comment' \in [Comments -> Users \cup {None}]
  PROVE  DocumentTyped' /\ doc' # None
BY NoneAssumption DEF DocumentTyped

LEMMA NoDocumentTyped == ASSUME NoDocument PROVE DocumentTyped' /\ DocumentFiled' /\ doc' = None
BY DEF NoDocument, DocumentTyped, DocumentFiled

LEMMA NewDocumentTyped ==
  ASSUME TypeOK, RequestsOK, NEW r \in Requests, NewDocument(r) PROVE DocumentTyped' /\ DocumentFiled'
  <1>1. PICK q, f : q = request[r] /\ f = q.up OBVIOUS
  <1>2. q \in Rows /\ q \in Record BY <1>1, BusyRows DEF NewDocument, At
  <1>3. f \in Folders \cup {None} /\ (f # None => folder[f] # None)
    BY <1>1, <1>2 DEF NewDocument, Refers, Exists, Record
  <1>4. {q.id} \in Texts BY <1>2, IdTyped
  <1>5. PICK row : row = [text |-> {q.id}, folder |-> f] OBVIOUS
  <1>6. row \in DocumentRow /\ row.folder = f BY <1>3, <1>4, <1>5 DEF DocumentRow
  <1>7. doc' = row /\ UNCHANGED <<author, versions, comment, folder>> BY <1>1, <1>5 DEF NewDocument
  <1>8. DocumentTyped /\ DocumentTyped' BY <1>6, <1>7, TypeParts, DocumentSet DEF DocumentTyped
  <1> QED BY <1>3, <1>6, <1>7, <1>8 DEF DocumentFiled

(* The document's row is saved with a text and a folder that is there.     *)
LEMMA SavedTyped ==
  ASSUME TypeOK, doc # None, NEW text \in Texts, NEW f \in Folders \cup {None},
         f # None => f = doc.folder \/ folder[f] # None,
         doc' = [text |-> text, folder |-> f], UNCHANGED <<author, versions, comment, folder>>
  PROVE  DocumentTyped' /\ DocumentFiled'
  <1>1. PICK row : row = [text |-> text, folder |-> f] OBVIOUS
  <1>2. row \in DocumentRow /\ row.folder = f /\ doc' = row BY <1>1 DEF DocumentRow
  <1>3. DocumentTyped BY TypeParts
  <1>4. DocumentTyped' BY <1>2, <1>3, DocumentSet DEF DocumentTyped
  <1>5. f # None => folder[f] # None BY DEF TypeOK
  <1> QED BY <1>2, <1>4, <1>5 DEF DocumentFiled

LEMMA SaveDocumentTyped ==
  ASSUME TypeOK, RequestsOK, NEW r \in Requests, SaveDocument(r) PROVE DocumentTyped' /\ DocumentFiled'
  <1>1. PICK q, f, text : q = request[r] /\ f = (IF q.op = "refile" THEN q.up ELSE doc.folder) /\ text = q.text OBVIOUS
  <1>2. q \in Rows /\ q \in Record BY <1>1, BusyRows DEF SaveDocument, At
  <1>3. doc # None /\ (q.op = "refile" /\ q.up # None => folder[q.up] # None) /\ doc' = [text |-> text, folder |-> f]
    BY <1>1 DEF SaveDocument, Refers, Exists
  <1>4. text \in Texts BY <1>1, <1>2, IdTyped
  <1>5. f \in Folders \cup {None} BY <1>1, <1>2, <1>3 DEF TypeOK, DocumentRow, Record
  <1>6. f # None => f = doc.folder \/ folder[f] # None BY <1>1, <1>3
  <1>7. UNCHANGED <<author, versions, comment, folder>> BY DEF SaveDocument
  <1> QED BY <1>3, <1>4, <1>5, <1>6, <1>7, SavedTyped

LEMMA SaveEditTyped ==
  ASSUME TypeOK, RequestsOK, NEW r \in Requests, SaveEdit(r) PROVE DocumentTyped' /\ DocumentFiled'
  <1>1. PICK q, f, text : q = request[r] /\ f = (IF q.home = None THEN doc.folder ELSE q.home) /\ text = q.text OBVIOUS
  <1>2. q \in Rows /\ q \in Record BY <1>1, BusyRows DEF SaveEdit, At
  <1>3. doc # None /\ (q.home # None => folder[q.home] # None) /\ doc' = [text |-> text, folder |-> f]
    BY <1>1 DEF SaveEdit, Refers, Exists
  <1>4. text \in Texts BY <1>1, <1>2, IdTyped
  <1>5. f \in Folders \cup {None} BY <1>1, <1>2, <1>3 DEF TypeOK, DocumentRow, Record
  <1>6. f # None => f = doc.folder \/ folder[f] # None BY <1>1, <1>3
  <1>7. UNCHANGED <<author, versions, comment, folder>> BY DEF SaveEdit
  <1> QED BY <1>3, <1>4, <1>5, <1>6, <1>7, SavedTyped

LEMMA OwnDocumentTyped == ASSUME TypeOK, RequestsOK, NEW r \in Requests, OwnDocument(r) PROVE DocumentTyped'
  <1>1. PICK q : q = request[r] OBVIOUS
  <1>2. q \in Rows /\ q.pc = "ownDocument" BY <1>1, BusyRows DEF OwnDocument, At
  <1>3. q.by \in Users BY <1>2 DEF Rows
  <1>4. doc # None /\ author' = q.by /\ UNCHANGED <<doc, versions, comment>> BY <1>1 DEF OwnDocument
  <1> QED BY <1>3, <1>4 DEF TypeOK, DocumentTyped

LEMMA SaveVersionTyped == ASSUME TypeOK, RequestsOK, NEW r \in Requests, SaveVersion(r) PROVE DocumentTyped'
  <1>1. request[r] \in Record BY BusyRows DEF SaveVersion, At
  <1>2. request[r].text \in Texts BY <1>1, IdTyped
  <1>3. doc # None /\ versions' = versions \cup {request[r].text} /\ UNCHANGED <<doc, author, comment>> BY DEF SaveVersion
  <1> QED BY <1>2, <1>3 DEF TypeOK, DocumentTyped

LEMMA SaveCommentTyped == ASSUME TypeOK, RequestsOK, NEW r \in Requests, SaveComment(r) PROVE DocumentTyped'
  <1>1. PICK q : q = request[r] OBVIOUS
  <1>2. q \in Rows /\ q.pc = "saveComment" BY <1>1, BusyRows DEF SaveComment, At
  <1>3. PICK c \in Comments : q.about = Comment(c) /\ q.by \in Users BY <1>2 DEF Rows, CommentSteps
  <1>4. q.about[2] = c BY <1>3 DEF Comment
  <1>5. doc # None /\ comment' = [comment EXCEPT ![c] = q.by] /\ UNCHANGED <<doc, author, versions>>
    BY <1>1, <1>4 DEF SaveComment
  <1> QED BY <1>3, <1>5 DEF TypeOK, DocumentTyped

LEMMA DeleteCommentTyped == ASSUME TypeOK, RequestsOK, NEW r \in Requests, DeleteComment(r) PROVE DocumentTyped'
  <1>1. PICK q : q = request[r] OBVIOUS
  <1>2. q \in Rows /\ q.pc = "deleteComment" BY <1>1, BusyRows DEF DeleteComment, At
  <1>3. PICK c \in Comments : q.about = Comment(c) BY <1>2 DEF Rows, CommentSteps
  <1>4. q.about[2] = c BY <1>3 DEF Comment
  <1>5. comment' = [comment EXCEPT ![c] = None] /\ UNCHANGED <<doc, author, versions>>
    BY <1>1, <1>4 DEF DeleteComment
  <1> QED BY <1>5 DEF TypeOK, DocumentTyped

(* The folders inside of one are removed with all that are inside of them. *)
LEMMA InsideClosed ==
  ASSUME NEW f \in Folders
  PROVE  /\ f \in Inside(f) /\ Inside(f) \subseteq Folders
         /\ \A g \in Folders : Exists(g) /\ folder[g].parent \in Inside(f) => g \in Inside(f)
  <1>1. f \in Inside(f) /\ Inside(f) \subseteq Folders BY DEF Inside
  <1>2. ASSUME NEW g \in Folders, Exists(g), folder[g].parent \in Inside(f) PROVE g \in Inside(f)
    <2>1. PICK p \in Folders : p = folder[g].parent /\ p \in Inside(f) BY <1>1, <1>2
    <2>2. ASSUME NEW S \in SUBSET Folders, f \in S,
                 \A h \in Folders : Exists(h) /\ folder[h].parent \in S => h \in S
          PROVE  g \in S
      BY <1>2, <2>1, <2>2 DEF Inside
    <2> QED BY <2>2 DEF Inside
  <1> QED BY <1>1, <1>2

LEMMA RemoveFolderTyped ==
  ASSUME TypeOK, NEW f \in Folders, RemoveFolder(f) PROVE DocumentTyped' /\ FoldersTyped' /\ DocumentFiled'
  <1>1. PICK gone : gone = Inside(f) OBVIOUS
  <1>2. folder' = [g \in Folders |-> IF g \in gone THEN None ELSE folder[g]] BY <1>1 DEF RemoveFolder
  <1>3. \A g \in Folders : Exists(g) /\ folder[g].parent \in gone => g \in gone BY <1>1, InsideClosed
  <1>4. folder \in [Folders -> {None} \cup FolderRow] BY DEF TypeOK
  <1>5. folder' \in [Folders -> {None} \cup FolderRow] BY <1>2, <1>4
  <1>6. ASSUME NEW g \in Folders, folder'[g] # None, folder'[g].parent # None PROVE folder'[folder'[g].parent] # None
    <2>1. g \notin gone /\ folder'[g] = folder[g] /\ folder[g] # None BY <1>2, <1>6
    <2>2. PICK p : p = folder[g].parent OBVIOUS
    <2>3. g # None BY NoneAssumption
    <2>4. p \notin gone BY <1>3, <2>1, <2>2, <2>3 DEF Exists
    <2>5. p \in Folders /\ folder[p] # None
      <3>1. folder[g] \in FolderRow BY <1>4, <2>1
      <3>2. p # None BY <1>6, <2>1, <2>2
      <3>3. p \in Folders BY <2>2, <3>1, <3>2 DEF FolderRow
      <3> QED BY <2>1, <2>2, <3>2, <3>3 DEF TypeOK
    <2>6. folder'[p] = folder[p] BY <1>2, <2>4, <2>5
    <2> QED BY <2>1, <2>2, <2>5, <2>6
  <1>7. FoldersTyped' BY <1>5, <1>6 DEF FoldersTyped
  <1>8. CASE doc # None /\ doc.folder \in gone
    <2>1. NoDocument BY <1>1, <1>8 DEF RemoveFolder
    <2> QED BY <1>7, <2>1, NoDocumentTyped
  <1>9. CASE ~(doc # None /\ doc.folder \in gone)
    <2>1. UNCHANGED <<doc, author, versions, comment>> BY <1>1, <1>9 DEF RemoveFolder
    <2>2. DocumentTyped' BY <2>1 DEF TypeOK, DocumentTyped
    <2>3. ASSUME doc # None, doc.folder # None PROVE folder'[doc.folder] # None
      <3>1. doc.folder \in Folders /\ folder[doc.folder] # None BY <2>3 DEF TypeOK, DocumentRow
      <3> QED BY <1>2, <1>9, <2>3, <3>1
    <2>4. DocumentFiled' BY <2>1, <2>3 DEF DocumentFiled
    <2> QED BY <1>7, <2>2, <2>4
  <1> QED BY <1>8, <1>9

(* The shared text is of its type and has a timer.                         *)
LEMMA SharedKept ==
  ASSUME TypeOK, RequestsOK, NEW r \in Requests, Ask(r) \/ CheckAuthor(r) \/ CheckFolder(r) \/ ShareText(r)
  PROVE  SharedTyped'
  <1>1. shared \in {None} \cup Texts /\ (shared # None => timers > 0) /\ timers \in Nat BY DEF TypeOK
  <1>2. CASE Ask(r) BY <1>1, <1>2, AskStep DEF SharedTyped, Begins
  <1>3. CASE CheckAuthor(r)
    <2>1. timers' = timers BY <1>3 DEF CheckAuthor
    <2> QED BY <1>1, <1>3, <2>1, CheckAuthorStep DEF SharedTyped
  <1>4. CASE CheckFolder(r)
    <2>1. timers' = timers BY <1>4 DEF CheckFolder
    <2> QED BY <1>1, <1>4, <2>1, CheckFolderStep DEF SharedTyped
  <1>5. CASE ShareText(r)
    <2>1. timers' = timers + 1 BY <1>5 DEF ShareText
    <2> QED BY <1>1, <1>5, <2>1, ShareTextStep DEF SharedTyped
  <1> QED BY <1>2, <1>3, <1>4, <1>5

(* The steps that only read.                                               *)
OnlyReads(r) ==
  FindParent(r) \/ FindFolder(r) \/ FindDocument(r) \/ ReadRow(r) \/ NextFolder(r) \/ LoadText(r) \/ FindComment(r) \/ CheckReader(r)

LEMMA ReadsOnly ==
  ASSUME NEW r \in Requests, OnlyReads(r)
  PROVE  UNCHANGED <<doc, author, versions, comment, folder, shared, timers, starts, expected, answered, removed, excused>>
BY DEF OnlyReads, FindParent, FindFolder, FindDocument, ReadRow, NextFolder, LoadText, FindComment, CheckReader, rows, history

LEMMA ChecksOnly ==
  ASSUME NEW r \in Requests, CheckAuthor(r) \/ CheckFolder(r)
  PROVE  UNCHANGED <<doc, author, versions, comment, folder, timers, starts, expected, answered, removed, excused>>
BY DEF CheckAuthor, CheckFolder, rows, history

LEMMA HandleTyped ==
  ASSUME TypeOK, RequestsOK, NEW r \in Requests, Handle(r), timers' \in 0..MaxStarts PROVE TypeOK'
  <1>1. DocumentTyped /\ FoldersTyped /\ DocumentFiled /\ SharedTyped BY TypeParts
  <1>2. UNCHANGED <<doc, author, versions, comment>> => DocumentTyped' BY <1>1 DEF DocumentTyped
  <1>3. UNCHANGED folder => FoldersTyped' BY <1>1 DEF FoldersTyped
  <1>4. UNCHANGED <<doc, folder>> => DocumentFiled' BY <1>1 DEF DocumentFiled
  <1>5. UNCHANGED <<shared, timers>> => SharedTyped' BY <1>1 DEF SharedTyped
  <1>6. SUFFICES DocumentTyped' /\ FoldersTyped' /\ DocumentFiled' /\ SharedTyped' BY TypeParts
  <1>7. CASE NewFolder(r) BY <1>2, <1>3, <1>4, <1>5, <1>7, NewFolderTyped DEF NewFolder
  <1>8. CASE OwnFolder(r) BY <1>2, <1>3, <1>4, <1>5, <1>8, OwnFolderTyped DEF OwnFolder
  <1>9. CASE SaveFolder(r) BY <1>2, <1>3, <1>4, <1>5, <1>9, SaveFolderTyped DEF SaveFolder
  <1>10. CASE NewDocument(r) BY <1>2, <1>3, <1>4, <1>5, <1>10, NewDocumentTyped DEF NewDocument
  <1>11. CASE OwnDocument(r) BY <1>2, <1>3, <1>4, <1>5, <1>11, OwnDocumentTyped DEF OwnDocument
  <1>12. CASE SaveDocument(r) BY <1>2, <1>3, <1>4, <1>5, <1>12, SaveDocumentTyped DEF SaveDocument
  <1>13. CASE SaveVersion(r) BY <1>2, <1>3, <1>4, <1>5, <1>13, SaveVersionTyped DEF SaveVersion
  <1>14. CASE SaveEdit(r) BY <1>2, <1>3, <1>4, <1>5, <1>14, SaveEditTyped DEF SaveEdit
  <1>15. CASE SaveComment(r) BY <1>2, <1>3, <1>4, <1>5, <1>15, SaveCommentTyped DEF SaveComment
  <1>16. CASE DeleteComment(r) BY <1>2, <1>3, <1>4, <1>5, <1>16, DeleteCommentTyped DEF DeleteComment
  <1>17. CASE DeleteDocument(r) BY <1>2, <1>3, <1>4, <1>5, <1>17, NoDocumentTyped DEF DeleteDocument
  <1>18. CASE OnlyReads(r) BY <1>2, <1>3, <1>4, <1>5, <1>18, ReadsOnly
  <1>19. CASE CheckAuthor(r) \/ CheckFolder(r) BY <1>2, <1>3, <1>4, <1>19, ChecksOnly, SharedKept
  <1>20. CASE ShareText(r) BY <1>2, <1>3, <1>4, <1>20, SharedKept DEF ShareText, rows
  <1>21. CASE Fail(r) BY <1>2, <1>3, <1>4, <1>5, <1>21 DEF Fail, rows
  <1> QED BY <1>7, <1>8, <1>9, <1>10, <1>11, <1>12, <1>13, <1>14, <1>15, <1>16, <1>17, <1>18, <1>19, <1>20, <1>21 DEF Handle, OnlyReads

LEMMA TypeKept == ASSUME TypeOK, RequestsOK, CrossedOK, TimersOK, [Next]_vars PROVE TypeOK'
  <1>1. timers' \in 0..MaxStarts BY RequestsKept, BoundAssumption DEF RequestsOK, TimersOK
  <1>2. DocumentTyped /\ FoldersTyped /\ DocumentFiled /\ SharedTyped BY TypeParts
  <1>3. UNCHANGED <<doc, author, versions, comment, folder>> => DocumentTyped' /\ FoldersTyped' /\ DocumentFiled'
    BY <1>2 DEF DocumentTyped, FoldersTyped, DocumentFiled
  <1>4. UNCHANGED <<shared, timers>> => SharedTyped' BY <1>2 DEF SharedTyped
  <1>5. CASE \E r \in Requests : Ask(r)
    <2>1. PICK r \in Requests : Ask(r) BY <1>5
    <2>2. UNCHANGED rows BY <2>1, AskStep DEF Begins
    <2>3. SharedTyped' BY <2>1, SharedKept
    <2> QED BY <1>1, <1>3, <2>2, <2>3, TypeParts DEF rows
  <1>6. CASE \E r \in Requests : Handle(r) BY <1>1, <1>6, HandleTyped
  <1>7. CASE \E f \in Folders : RemoveFolder(f)
    <2>1. PICK f \in Folders : RemoveFolder(f) BY <1>7
    <2>2. SharedTyped' BY <1>4, <2>1 DEF RemoveFolder
    <2> QED BY <1>1, <2>1, <2>2, RemoveFolderTyped, TypeParts
  <1>8. CASE Expire
    <2>1. SharedTyped' /\ UNCHANGED rows BY <1>8 DEF Expire, SharedTyped
    <2> QED BY <1>1, <1>3, <2>1, TypeParts DEF rows
  <1>9. CASE UNCHANGED vars BY <1>1, <1>3, <1>4, <1>9, TypeParts DEF vars, rows
  <1> QED BY <1>5, <1>6, <1>7, <1>8, <1>9 DEF Next

-----------------------------------------------------------------------------
(***************************************************************************)
(* The shared text has what was answered.                                  *)
(***************************************************************************)
Applied == {"saveEdit", "version"}

LEMMA OnwardShared ==
  ASSUME RequestsOK, NEW r \in Requests, NEW w, Onward(r, w),
         <<"shared">> \notin excused' =>
           /\ shared' # None => answered' \subseteq shared'
           /\ \A s \in Unanswered : s # r => shared' # None /\ request[s].id \in shared'
           /\ w # Idle /\ w.op = "edit" /\ w.pc \in Applied => shared' # None /\ w.id \in shared'
  PROVE  SharedOK'
  <1>1. /\ request'[r] = w /\ Busy' \subseteq Busy
        /\ \A s \in Requests : s # r => request'[s] = request[s]
    BY OnwardBusy
  <1>2. ASSUME NEW s \in Unanswered', s # r PROVE s \in Unanswered /\ request'[s] = request[s]
    BY <1>1, <1>2 DEF Unanswered, Busy
  <1>3. ASSUME r \in Unanswered' PROVE w # Idle /\ w.op = "edit" /\ w.pc \in Applied
    BY <1>1, <1>3 DEF Unanswered, Busy, Applied
  <1> QED BY <1>1, <1>2, <1>3 DEF SharedOK

(* A step that leaves the shared text as it is.                            *)
LEMMA QuietShared ==
  ASSUME RequestsOK, SharedOK, NEW r \in Requests, NEW w, Onward(r, w), UNCHANGED <<shared, answered>>,
         w # Idle /\ w.op = "edit" /\ w.pc \in Applied => request[r].pc \in Applied
  PROVE  SharedOK'
  <1>1. <<"shared">> \notin excused' => <<"shared">> \notin excused BY DEF Onward
  <1>2. ASSUME w # Idle, w.op = "edit", w.pc \in Applied PROVE r \in Unanswered /\ w.id = request[r].id
    BY <1>2 DEF Onward, SameRequest, Unanswered, Busy, Applied
  <1> QED BY <1>1, <1>2, OnwardShared DEF SharedOK

LEMMA HandleShared ==
  ASSUME TypeOK, RequestsOK, SharedOK, NEW r \in Requests, Handle(r) PROVE SharedOK'
  <1>1. \A w : Onward(r, w) => (<<"shared">> \notin excused' => <<"shared">> \notin excused) BY DEF Onward
  <1>2. CASE OwnFolder(r) \/ SaveFolder(r) \/ DeleteDocument(r) \/ SaveComment(r) \/ DeleteComment(r) \/ Fail(r)
    <2>1. Onward(r, Idle) BY <1>2, LastStep
    <2>2. UNCHANGED <<shared, answered>>
      BY <1>2 DEF OwnFolder, SaveFolder, DeleteDocument, SaveComment, DeleteComment, Fail, history
    <2> QED BY <2>1, <2>2, QuietShared
  <1>3. CASE NewFolder(r)
    <2>1. PICK w : Onward(r, w) /\ w # Idle /\ w.pc = "ownFolder" BY <1>3, NewFolderStep
    <2> QED BY <1>3, <2>1, QuietShared DEF NewFolder, history, Applied
  <1>4. CASE NewDocument(r)
    <2>1. PICK w : Onward(r, w) /\ w # Idle /\ w.pc = "ownDocument" BY <1>4, NewDocumentStep
    <2> QED BY <1>4, <2>1, QuietShared DEF NewDocument, Applied
  <1>5. CASE OwnDocument(r)
    <2>1. PICK w : Onward(r, w) /\ w # Idle BY <1>5, OwnDocumentStep
    <2>2. w.op # "edit"
      <3>1. request[r] \in Rows /\ request[r].pc = "ownDocument" BY <1>5, BusyRows DEF OwnDocument, At
      <3>2. request[r].op = "write" BY <3>1 DEF Rows
      <3> QED BY <2>1, <3>2 DEF Onward, SameRequest
    <2> QED BY <1>5, <2>1, <2>2, QuietShared DEF OwnDocument
  <1>6. CASE SaveDocument(r)
    <2>1. PICK w : Onward(r, w) /\ w # Idle BY <1>6, SaveDocumentStep
    <2>2. w.op # "edit"
      <3>1. request[r] \in Rows /\ request[r].pc = "saveDocument" BY <1>6, BusyRows DEF SaveDocument, At
      <3>2. request[r].op \in {"rewrite", "rename", "refile"} BY <3>1 DEF Rows
      <3> QED BY <2>1, <3>2 DEF Onward, SameRequest
    <2> QED BY <1>6, <2>1, <2>2, QuietShared DEF SaveDocument
  <1>7. CASE SaveEdit(r)
    <2>1. PICK w : Onward(r, w) /\ w # Idle BY <1>7, SaveEditStep
    <2> QED BY <1>7, <2>1, QuietShared DEF SaveEdit, At, Applied
  <1>8. CASE OnlyReads(r)
    <2>1. \E w : Onward(r, w) /\ (w # Idle => w.pc \notin Applied)
      <3>1. CASE FindFolder(r) BY <3>1, FindFolderStep DEF Applied
      <3>2. CASE FindDocument(r) BY <3>2, FindDocumentStep DEF Applied
      <3>3. CASE ReadRow(r) BY <3>3, ReadRowStep DEF Applied
      <3>4. CASE NextFolder(r) BY <3>4, NextFolderStep DEF Applied
      <3>5. CASE LoadText(r) BY <3>5, LoadTextStep DEF Applied
      <3>6. CASE FindComment(r) BY <3>6, FindCommentStep DEF Applied
      <3>7. CASE CheckReader(r) BY <3>7, CheckReaderStep DEF Applied
      <3>8. CASE FindParent(r) BY <3>8, FindParentStep DEF Applied
      <3> QED BY <1>8, <3>1, <3>2, <3>3, <3>4, <3>5, <3>6, <3>7, <3>8 DEF OnlyReads
    <2> QED BY <1>8, <2>1, ReadsOnly, QuietShared
  <1>9. CASE CheckAuthor(r) \/ CheckFolder(r)
    <2>1. PICK w : /\ Onward(r, w)
                   /\ \/ shared' = shared /\ (w # Idle => w.pc \notin Applied)
                      \/ /\ shared # None /\ shared' \in Texts /\ shared' = shared \cup {request[r].id} /\ w # Idle
      BY <1>9, CheckAuthorStep, CheckFolderStep DEF Applied
    <2>2. UNCHANGED <<answered, excused>> BY <1>9, ChecksOnly
    <2>3. CASE shared' = shared /\ (w # Idle => w.pc \notin Applied) BY <2>1, <2>2, <2>3, QuietShared
    <2>4. CASE shared # None /\ shared' \in Texts /\ shared' = shared \cup {request[r].id} /\ w # Idle
      <3>1. shared' # None BY <2>4, NoneAssumption
      <3>2. w.id \in shared' BY <2>1, <2>4 DEF Onward, SameRequest
      <3> QED BY <2>1, <2>2, <2>4, <3>1, <3>2, OnwardShared DEF SharedOK
    <2> QED BY <2>1, <2>3, <2>4
  <1>10. CASE ShareText(r)
    <2>1. PICK w : Onward(r, w) /\ w # Idle BY <1>10, ShareTextStep
    <2>2. shared' = request[r].text \cup {request[r].id} /\ shared' \in Texts BY <1>10, ShareTextStep
    <2>3. shared' # None BY <2>2, NoneAssumption
    <2>4. w.id \in shared' BY <2>1, <2>2 DEF Onward, SameRequest
    <2>5. answered' = {} /\ (<<"shared">> \notin excused' => Unanswered = {}) BY <1>10 DEF ShareText
    <2> QED BY <2>1, <2>3, <2>4, <2>5, OnwardShared
  <1>11. CASE SaveVersion(r)
    <2>1. Onward(r, Idle) BY <1>11, LastStep
    <2>2. shared' = shared /\ excused' = excused
          /\ answered' = IF request[r].op = "edit" THEN answered \cup {request[r].id} ELSE answered
      BY <1>11 DEF SaveVersion
    <2>3. request[r].op = "edit" => r \in Unanswered BY <1>11 DEF SaveVersion, At, Unanswered, Busy
    <2> QED BY <2>1, <2>2, <2>3, OnwardShared DEF SharedOK
  <1> QED BY <1>2, <1>3, <1>4, <1>5, <1>6, <1>7, <1>8, <1>9, <1>10, <1>11 DEF Handle, OnlyReads

LEMMA SharedStays == ASSUME TypeOK, RequestsOK, SharedOK, [Next]_vars PROVE SharedOK'
  <1>1. ASSUME UNCHANGED <<shared, answered, excused, request>> PROVE SharedOK'
    BY <1>1 DEF SharedOK, Unanswered, Busy
  <1>2. CASE \E r \in Requests : Ask(r)
    <2>1. PICK r \in Requests : Ask(r) BY <1>2
    <2>2. PICK w : /\ Begins(r, w)
                   /\ \/ shared' = shared
                      \/ shared' = None /\ (Unanswered # {} => <<"shared">> \in excused')
      BY <2>1, AskStep
    <2>3. /\ request'[r] = w /\ Busy' = Busy \cup {r} /\ r \notin Busy
          /\ \A s \in Busy : request'[s] = request[s]
      BY <2>2, BeginsBusy DEF Busy
    <2>4. w.pc \notin Applied /\ answered' = answered /\ excused \subseteq excused' BY <2>2 DEF Begins, First, Applied
    <2>5. Unanswered' \subseteq Unanswered /\ \A s \in Unanswered' : request'[s].id = request[s].id
      BY <2>3, <2>4 DEF Unanswered, Applied
    <2> QED BY <2>2, <2>4, <2>5 DEF SharedOK
  <1>3. CASE \E r \in Requests : Handle(r) BY <1>3, HandleShared
  <1>4. CASE \E f \in Folders : RemoveFolder(f)
    <2>1. UNCHANGED <<shared, answered, request>> /\ excused \subseteq excused' BY <1>4 DEF RemoveFolder
    <2> QED BY <2>1 DEF SharedOK, Unanswered, Busy
  <1>5. CASE Expire BY <1>5 DEF Expire, SharedOK, Unanswered, Busy
  <1>6. CASE UNCHANGED vars BY <1>1, <1>6 DEF vars, history
  <1> QED BY <1>2, <1>3, <1>4, <1>5, <1>6 DEF Next

-----------------------------------------------------------------------------
(***************************************************************************)
(* Every text is a version.                                                *)
(***************************************************************************)
Writing == {"ownDocument", "version"}

LEMMA OnwardVersions ==
  ASSUME RequestsOK, VersionsOK, NEW r \in Requests, NEW w, Onward(r, w),
         doc' # None /\ <<"versions">> \notin excused' =>
           \/ doc'.text \in versions'
           \/ w # Idle /\ w.pc \in Writing /\ w.text = doc'.text
           \/ /\ doc # None /\ doc'.text = doc.text /\ versions \subseteq versions'
              /\ ~(request[r].pc \in Writing /\ request[r].text = doc.text)
  PROVE  VersionsOK'
  <1>1. /\ request'[r] = w /\ r \in Busy
        /\ \A s \in Requests : s # r => request'[s] = request[s]
    BY OnwardBusy
  <1>2. SUFFICES ASSUME doc' # None, <<"versions">> \notin excused', doc'.text \notin versions'
                 PROVE  \E s \in Busy' : request'[s].pc \in Writing /\ request'[s].text = doc'.text
    BY DEF VersionsOK, Writing
  <1>3. CASE w # Idle /\ w.pc \in Writing /\ w.text = doc'.text BY <1>1, <1>3 DEF Busy
  <1>4. CASE /\ doc # None /\ doc'.text = doc.text /\ versions \subseteq versions'
             /\ ~(request[r].pc \in Writing /\ request[r].text = doc.text)
    <2>1. <<"versions">> \notin excused BY <1>2 DEF Onward
    <2>2. PICK s \in Busy : request[s].pc \in Writing /\ request[s].text = doc.text
      BY <1>2, <1>4, <2>1 DEF VersionsOK, Writing
    <2>3. s # r BY <1>4, <2>2
    <2> QED BY <1>1, <1>4, <2>2, <2>3 DEF Busy
  <1> QED BY <1>2, <1>3, <1>4

LEMMA HandleVersions ==
  ASSUME TypeOK, RequestsOK, VersionsOK, NEW r \in Requests, Handle(r) PROVE VersionsOK'
  <1>1. ASSUME NEW w, Onward(r, w), UNCHANGED <<doc, versions>>, request[r].pc \notin Writing PROVE VersionsOK'
    BY <1>1, OnwardVersions
  <1>2. CASE NewFolder(r)
    <2>1. PICK w : Onward(r, w) BY <1>2, NewFolderStep
    <2> QED BY <1>1, <1>2, <2>1 DEF NewFolder, At, Writing
  <1>3. CASE OwnFolder(r) \/ SaveFolder(r) \/ SaveComment(r) \/ DeleteComment(r)
    <2>1. Onward(r, Idle) BY <1>3, LastStep
    <2> QED BY <1>1, <1>3, <2>1 DEF OwnFolder, SaveFolder, SaveComment, DeleteComment, At, Writing
  <1>4. CASE OnlyReads(r) \/ CheckAuthor(r) \/ CheckFolder(r)
    <2>1. \E w : Onward(r, w) BY <1>4, HandleStep DEF Handle, OnlyReads
    <2>2. request[r].pc \notin Writing
      BY <1>4 DEF OnlyReads, FindParent, FindFolder, FindDocument, ReadRow, NextFolder, LoadText, FindComment, CheckReader,
                  CheckAuthor, CheckFolder, At, Writing
    <2> QED BY <1>1, <1>4, <2>1, <2>2, ReadsOnly, ChecksOnly
  <1>5. CASE ShareText(r)
    <2>1. PICK w : Onward(r, w) BY <1>5, ShareTextStep
    <2> QED BY <1>1, <1>5, <2>1 DEF ShareText, At, Writing, rows
  <1>6. CASE NewDocument(r)
    <2>1. PICK w : Onward(r, w) /\ w # Idle /\ w.pc = "ownDocument" /\ w.text = {request[r].id} BY <1>6, NewDocumentStep
    <2>2. PICK text, f : doc' = [text |-> text, folder |-> f] /\ text = {request[r].id} BY <1>6 DEF NewDocument
    <2>3. doc'.text = w.text BY <2>1, <2>2
    <2> QED BY <2>1, <2>3, OnwardVersions DEF Writing
  <1>7. CASE SaveDocument(r)
    <2>1. PICK w : Onward(r, w) /\ w # Idle /\ w.pc = "version" /\ w.text = request[r].text BY <1>7, SaveDocumentStep
    <2>2. PICK text, f : doc' = [text |-> text, folder |-> f] /\ text = request[r].text BY <1>7 DEF SaveDocument
    <2>3. doc'.text = w.text BY <2>1, <2>2
    <2> QED BY <2>1, <2>3, OnwardVersions DEF Writing
  <1>8. CASE SaveEdit(r)
    <2>1. PICK w : Onward(r, w) /\ w # Idle /\ w.pc = "version" /\ w.text = request[r].text BY <1>8, SaveEditStep
    <2>2. PICK text, f : doc' = [text |-> text, folder |-> f] /\ text = request[r].text BY <1>8 DEF SaveEdit
    <2>3. doc'.text = w.text BY <2>1, <2>2
    <2> QED BY <2>1, <2>3, OnwardVersions DEF Writing
  <1>9. CASE OwnDocument(r)
    <2>1. PICK w : Onward(r, w) /\ w # Idle /\ w.pc = "version" /\ w.text = request[r].text BY <1>9, OwnDocumentStep
    <2>2. UNCHANGED <<doc, versions>> BY <1>9 DEF OwnDocument
    <2> QED BY <2>1, <2>2, OnwardVersions DEF Writing
  <1>10. CASE SaveVersion(r)
    <2>1. Onward(r, Idle) BY <1>10, LastStep
    <2>2. doc' = doc /\ versions' = versions \cup {request[r].text} BY <1>10 DEF SaveVersion
    <2> QED BY <2>1, <2>2, OnwardVersions
  <1>11. CASE DeleteDocument(r)
    <2>1. Onward(r, Idle) BY <1>11, LastStep
    <2>2. doc' = None BY <1>11 DEF DeleteDocument, NoDocument
    <2> QED BY <2>1, <2>2, OnwardVersions
  <1>12. CASE Fail(r)
    <2>1. Onward(r, Idle) BY <1>12, LastStep
    <2>2. UNCHANGED <<doc, versions>> /\ excused' = excused \cup Spoiled(request[r]) BY <1>12 DEF Fail, rows
    <2>3. request[r].pc \in Writing => <<"versions">> \in excused' BY <2>2 DEF Spoiled, Writing
    <2> QED BY <2>1, <2>2, <2>3, OnwardVersions
  <1> QED BY <1>2, <1>3, <1>4, <1>5, <1>6, <1>7, <1>8, <1>9, <1>10, <1>11, <1>12 DEF Handle, OnlyReads

LEMMA VersionsKept == ASSUME TypeOK, RequestsOK, VersionsOK, [Next]_vars PROVE VersionsOK'
  <1>1. ASSUME UNCHANGED <<doc, versions, request>>, excused \subseteq excused' PROVE VersionsOK'
    BY <1>1 DEF VersionsOK, Busy
  <1>2. CASE \E r \in Requests : Ask(r)
    <2>1. PICK r \in Requests : Ask(r) BY <1>2
    <2>2. PICK w : Begins(r, w) BY <2>1, AskStep
    <2>3. Busy' = Busy \cup {r} /\ \A s \in Busy : request'[s] = request[s]
      BY <2>2, BeginsBusy DEF Busy
    <2>4. UNCHANGED <<doc, versions>> /\ excused \subseteq excused' BY <2>2 DEF Begins, rows
    <2> QED BY <2>3, <2>4 DEF VersionsOK
  <1>3. CASE \E r \in Requests : Handle(r) BY <1>3, HandleVersions
  <1>4. CASE \E f \in Folders : RemoveFolder(f)
    <2>1. request' = request /\ excused \subseteq excused' /\ (doc' = None \/ UNCHANGED <<doc, versions>>)
      BY <1>4 DEF RemoveFolder, NoDocument
    <2> QED BY <1>1, <2>1 DEF VersionsOK
  <1>5. CASE Expire BY <1>1, <1>5 DEF Expire, rows
  <1>6. CASE UNCHANGED vars BY <1>1, <1>6 DEF vars, rows, history
  <1> QED BY <1>2, <1>3, <1>4, <1>5, <1>6 DEF Next

-----------------------------------------------------------------------------
(***************************************************************************)
(* What was removed stays removed.                                         *)
(***************************************************************************)
LEMMA OnwardRemoved ==
  ASSUME RequestsOK, RemovedOK, NEW r \in Requests, NEW w, Onward(r, w), removed' = removed,
         \A f \in Folders : Folder(f) \in removed \ excused' => folder'[f] = None,
         \A c \in Comments : Comment(c) \in removed \ excused' => comment'[c] = None,
         w # Idle /\ Late(w) /\ w.about \in removed => w.about \in excused'
  PROVE  RemovedOK'
  <1>1. /\ request'[r] = w /\ Busy' \subseteq Busy
        /\ \A s \in Requests : s # r => request'[s] = request[s]
    BY OnwardBusy
  <1>2. excused \subseteq excused' BY DEF Onward
  <1>3. ASSUME NEW s \in Busy', Late(request'[s]), request'[s].about \in removed'
        PROVE  request'[s].about \in excused'
    BY <1>1, <1>2, <1>3 DEF RemovedOK, Busy, Late
  <1> QED BY <1>3 DEF RemovedOK, RemovedStaysRemoved, Late

LEMMA HandleRemoved ==
  ASSUME TypeOK, RequestsOK, CrossedOK, RemovedOK, NEW r \in Requests, Handle(r) PROVE RemovedOK'
  <1>1. \A w : Onward(r, w) => excused \subseteq excused' BY DEF Onward
  <1>2. ASSUME NEW w, Onward(r, w), UNCHANGED <<folder, comment, removed>>,
               w # Idle /\ Late(w) /\ w.about \in removed => w.about \in excused'
        PROVE  RemovedOK'
    BY <1>1, <1>2, OnwardRemoved DEF RemovedOK, RemovedStaysRemoved
  <1>3. request[r] # Idle /\ Late(request[r]) /\ request[r].about \in removed => request[r].about \in excused
    BY DEF RemovedOK, Busy, Late
  <1>4. CASE NewFolder(r)
    <2>1. PICK f \in Folders : \E row : Folder(f) \notin removed /\ folder' = [folder EXCEPT ![f] = row]
      BY <1>4 DEF NewFolder
    <2>2. PICK w : Onward(r, w) /\ w # Idle /\ w.pc = "ownFolder" BY <1>4, NewFolderStep
    <2>3. \A g \in Folders : g # f => folder'[g] = folder[g] BY <2>1 DEF TypeOK
    <2>4. UNCHANGED <<comment, removed, excused>> BY <1>4 DEF NewFolder, history
    <2> QED BY <2>1, <2>2, <2>3, <2>4, OnwardRemoved DEF RemovedOK, RemovedStaysRemoved, Late
  <1>5. CASE OwnFolder(r)
    <2>1. PICK f : f = request[r].at OBVIOUS
    <2>2. request[r] \in Rows /\ request[r].pc = "ownFolder" BY <1>5, BusyRows DEF OwnFolder, At
    <2>3. f \in Folders BY <2>1, <2>2 DEF Rows
    <2>4. folder' = [folder EXCEPT ![f].owner = request[r].by] /\ folder[f] # None BY <1>5, <2>1 DEF OwnFolder, Exists
    <2>5. Onward(r, Idle) BY <1>5, LastStep
    <2>6. UNCHANGED <<comment, removed, excused>> BY <1>5 DEF OwnFolder
    <2>7. \A g \in Folders : g # f => folder'[g] = folder[g] BY <2>4 DEF TypeOK
    <2>8. Folder(f) \notin removed \ excused BY <2>3, <2>4 DEF RemovedOK, RemovedStaysRemoved
    <2>9. \A g \in Folders : Folder(g) \in removed \ excused' => folder'[g] = None
      BY <2>6, <2>7, <2>8 DEF RemovedOK, RemovedStaysRemoved
    <2> QED BY <2>5, <2>6, <2>9, OnwardRemoved DEF RemovedOK, RemovedStaysRemoved
  <1>6. CASE SaveFolder(r)
    <2>1. PICK f, row : /\ f = request[r].at
                        /\ folder' = [folder EXCEPT ![f] = row]
      BY <1>6 DEF SaveFolder
    <2>2. request[r] \in Rows /\ request[r].pc = "saveFolder" /\ request[r] # Idle BY <1>6, BusyRows DEF SaveFolder, At
    <2>3. f \in Folders /\ request[r].about = Folder(f) BY <2>1, <2>2 DEF Rows
    <2>4. Onward(r, Idle) BY <1>6, LastStep
    <2>5. UNCHANGED <<comment, removed, excused>> BY <1>6 DEF SaveFolder, history
    <2>6. \A g \in Folders : g # f => folder'[g] = folder[g] BY <2>1 DEF TypeOK
    <2>7. Folder(f) \notin removed \ excused BY <1>3, <2>2, <2>3 DEF Late
    <2>8. \A g \in Folders : Folder(g) \in removed \ excused' => folder'[g] = None
      BY <2>5, <2>6, <2>7 DEF RemovedOK, RemovedStaysRemoved
    <2> QED BY <2>4, <2>5, <2>8, OnwardRemoved DEF RemovedOK, RemovedStaysRemoved
  <1>7. CASE SaveComment(r)
    <2>1. request[r] \in Rows /\ request[r].pc = "saveComment" /\ request[r] # Idle BY <1>7, BusyRows DEF SaveComment, At
    <2>2. PICK c \in Comments : request[r].about = Comment(c) BY <2>1 DEF Rows, CommentSteps
    <2>3. request[r].about[2] = c BY <2>2 DEF Comment
    <2>4. comment' = [comment EXCEPT ![c] = request[r].by] BY <1>7, <2>3 DEF SaveComment
    <2>5. Onward(r, Idle) BY <1>7, LastStep
    <2>6. UNCHANGED <<folder, removed, excused>> BY <1>7 DEF SaveComment, history
    <2>7. \A d \in Comments : d # c => comment'[d] = comment[d] BY <2>4 DEF TypeOK
    <2>8. Comment(c) \notin removed \ excused BY <1>3, <2>1, <2>2 DEF Late
    <2>9. \A d \in Comments : Comment(d) \in removed \ excused' => comment'[d] = None
      BY <2>6, <2>7, <2>8 DEF RemovedOK, RemovedStaysRemoved
    <2> QED BY <2>5, <2>6, <2>9, OnwardRemoved DEF RemovedOK, RemovedStaysRemoved
  <1>8. CASE DeleteComment(r)
    <2>1. request[r] \in Rows /\ request[r].pc = "deleteComment" BY <1>8, BusyRows DEF DeleteComment, At
    <2>2. PICK c \in Comments : request[r].about = Comment(c) BY <2>1 DEF Rows, CommentSteps
    <2>3. request[r].about[2] = c BY <2>2 DEF Comment
    <2>4. comment' = [comment EXCEPT ![c] = None] /\ removed' = removed \cup {Comment(c)}
      BY <1>8, <2>2, <2>3 DEF DeleteComment
    <2>5. Onward(r, Idle) BY <1>8, LastStep
    <2>6. UNCHANGED <<folder, excused>> BY <1>8 DEF DeleteComment
    <2>7. /\ request'[r] = Idle /\ Busy' \subseteq Busy /\ r \in Busy
          /\ \A s \in Requests : s # r => request'[s] = request[s]
      BY <2>5, OnwardBusy
    <2>8. ASSUME NEW s \in Busy', Late(request'[s]), request'[s].about \in removed'
          PROVE  request'[s].about \in excused'
      <3>1. s # r /\ s \in Busy /\ request'[s] = request[s] BY <2>7 DEF Busy
      <3>2. CASE request[s].about \in removed BY <2>6, <2>8, <3>1, <3>2 DEF RemovedOK, Late
      <3>3. CASE request[s].about = Comment(c) BY <2>2, <2>6, <2>7, <3>1, <3>3 DEF CrossedOK, Comment
      <3> QED BY <2>4, <2>8, <3>1, <3>2, <3>3
    <2>9. \A d \in Comments : comment'[d] # None => d # c /\ comment'[d] = comment[d] BY <2>4 DEF TypeOK
    <2>10. RemovedStaysRemoved'
      BY <2>4, <2>6, <2>9 DEF RemovedOK, RemovedStaysRemoved, Comment, Folder
    <2> QED BY <2>8, <2>10 DEF RemovedOK, Late
  <1>9. CASE DeleteDocument(r)
    <2>1. Onward(r, Idle) BY <1>9, LastStep
    <2>2. UNCHANGED <<folder, removed, excused>> /\ \A c \in Comments : comment'[c] = None
      BY <1>9 DEF DeleteDocument, NoDocument, history
    <2> QED BY <2>1, <2>2, OnwardRemoved DEF RemovedOK, RemovedStaysRemoved
  <1>10. CASE SaveVersion(r) \/ Fail(r)
    <2>1. Onward(r, Idle) BY <1>10, LastStep
    <2>2. UNCHANGED <<folder, comment, removed>> BY <1>10 DEF SaveVersion, Fail, rows
    <2> QED BY <1>2, <2>1, <2>2
  <1>11. CASE NewDocument(r) \/ OwnDocument(r) \/ SaveDocument(r) \/ SaveEdit(r) \/ ShareText(r)
    <2>1. \E w : Onward(r, w) /\ w # Idle /\ ~Late(w)
      BY <1>11, NewDocumentStep, OwnDocumentStep, SaveDocumentStep, SaveEditStep, ShareTextStep DEF Late
    <2>2. UNCHANGED <<folder, comment, removed>>
      BY <1>11 DEF NewDocument, OwnDocument, SaveDocument, SaveEdit, ShareText, rows
    <2> QED BY <1>2, <2>1, <2>2
  <1>12. CASE CheckAuthor(r) \/ CheckFolder(r)
    <2>1. \E w : Onward(r, w) /\ (w # Idle => ~Late(w)) BY <1>12, CheckAuthorStep, CheckFolderStep DEF Late
    <2> QED BY <1>2, <1>12, <2>1, ChecksOnly
  <1>13. CASE FindFolder(r)
    <2>1. request[r] \in Rows /\ request[r].pc = "findFolder" BY <1>13, BusyRows DEF FindFolder, At
    <2>2. PICK f \in Folders : f = request[r].at /\ request[r].about = Folder(f) BY <2>1 DEF Rows
    <2>3. \E w : Onward(r, w) /\ (w # Idle => folder[f] # None /\ w.about = Folder(f))
      BY <1>13, <2>2, FindFolderStep DEF Exists, Onward, SameRequest
    <2>4. UNCHANGED <<folder, comment, removed, excused>> BY <1>13, ReadsOnly DEF OnlyReads
    <2> QED BY <1>2, <2>3, <2>4 DEF RemovedOK, RemovedStaysRemoved
  <1>14. CASE FindComment(r)
    <2>1. request[r] \in Rows /\ request[r].pc = "findComment" BY <1>14, BusyRows DEF FindComment, At
    <2>2. PICK c \in Comments : request[r].about = Comment(c) /\ request[r].by \in Users BY <2>1 DEF Rows, CommentSteps
    <2>3. request[r].about[2] = c BY <2>2 DEF Comment
    <2>4. \E w : Onward(r, w) /\ (w # Idle => comment[c] = request[r].by /\ w.about = Comment(c))
      BY <1>14, <2>2, <2>3, FindCommentStep DEF Onward, SameRequest
    <2>5. UNCHANGED <<folder, comment, removed, excused>> BY <1>14, ReadsOnly DEF OnlyReads
    <2>6. request[r].by # None BY <2>2, NoneAssumption
    <2> QED BY <1>2, <2>4, <2>5, <2>6 DEF RemovedOK, RemovedStaysRemoved
  <1>15. CASE CheckReader(r)
    <2>1. \E w : Onward(r, w) BY <1>15, CheckReaderStep
    <2>2. PICK w : Onward(r, w) BY <2>1
    <2>3. Late(request[r]) BY <1>15 DEF CheckReader, At, Late
    <2>4. w # Idle => w.about = request[r].about BY <2>2 DEF Onward, SameRequest
    <2>5. UNCHANGED <<folder, comment, removed, excused>> BY <1>15, ReadsOnly DEF OnlyReads
    <2>6. request[r] # Idle BY <2>2 DEF Onward
    <2> QED BY <1>2, <1>3, <2>2, <2>3, <2>4, <2>5, <2>6
  <1>17. CASE FindParent(r)
    <2>1. \E w : Onward(r, w) /\ (w # Idle => w.op = request[r].op /\ (Late(w) => w.op = "move"))
      BY <1>17, FindParentStep DEF Late
    <2>2. PICK w : Onward(r, w) /\ (w # Idle => w.op = request[r].op /\ (Late(w) => w.op = "move")) BY <2>1
    <2>3. request[r].op = "move" => Late(request[r]) BY <1>17 DEF FindParent, At, Late
    <2>4. w # Idle => w.about = request[r].about BY <2>2 DEF Onward, SameRequest
    <2>5. UNCHANGED <<folder, comment, removed, excused>> BY <1>17, ReadsOnly DEF OnlyReads
    <2>6. request[r] # Idle BY <2>2 DEF Onward
    <2> QED BY <1>2, <1>3, <2>2, <2>3, <2>4, <2>5, <2>6
  <1>16. CASE FindDocument(r) \/ ReadRow(r) \/ NextFolder(r) \/ LoadText(r)
    <2>1. \E w : Onward(r, w) /\ (w # Idle => ~Late(w))
      BY <1>16, FindDocumentStep, ReadRowStep, NextFolderStep, LoadTextStep DEF Late
    <2> QED BY <1>2, <1>16, <2>1, ReadsOnly DEF OnlyReads
  <1> QED BY <1>4, <1>5, <1>6, <1>7, <1>8, <1>9, <1>10, <1>11, <1>12, <1>13, <1>14, <1>15, <1>16, <1>17 DEF Handle

LEMMA RemovedKept == ASSUME TypeOK, RequestsOK, CrossedOK, RemovedOK, [Next]_vars PROVE RemovedOK'
  <1>1. ASSUME UNCHANGED <<folder, comment, removed, request>>, excused \subseteq excused' PROVE RemovedOK'
    BY <1>1 DEF RemovedOK, RemovedStaysRemoved, Busy
  <1>2. CASE \E r \in Requests : Ask(r)
    <2>1. PICK r \in Requests : Ask(r) BY <1>2
    <2>2. PICK w : Begins(r, w) BY <2>1, AskStep
    <2>3. request'[r] = w /\ Busy' = Busy \cup {r} /\ \A s \in Busy : request'[s] = request[s]
      BY <2>2, BeginsBusy DEF Busy
    <2>4. UNCHANGED <<folder, comment, removed>> /\ excused \subseteq excused' BY <2>2 DEF Begins, rows
    <2>5. Late(w) => w.about \notin removed BY <2>2 DEF Begins, First, Late
    <2> QED BY <2>3, <2>4, <2>5 DEF RemovedOK, RemovedStaysRemoved, Late
  <1>3. CASE \E r \in Requests : Handle(r) BY <1>3, HandleRemoved
  <1>4. CASE \E f \in Folders : RemoveFolder(f)
    <2>1. PICK f \in Folders : RemoveFolder(f) BY <1>4
    <2>2. PICK gone : gone = Inside(f) OBVIOUS
    <2>3. /\ folder' = [g \in Folders |-> IF g \in gone THEN None ELSE folder[g]]
          /\ removed' = removed \cup {Folder(g) : g \in gone}
          /\ excused' = excused \cup {Folder(request[r].at) : r \in {s \in Busy : request[s].op \in {"move", "retitle"} /\ request[s].pc # "findFolder"}}
          /\ request' = request /\ \A c \in Comments : comment'[c] \in {None, comment[c]}
      BY <2>1, <2>2 DEF RemoveFolder, NoDocument
    <2>4. RemovedStaysRemoved'
      <3>1. ASSUME NEW g \in Folders, Folder(g) \in removed' \ excused' PROVE folder'[g] = None
        BY <2>3, <3>1 DEF RemovedOK, RemovedStaysRemoved, Folder
      <3>2. ASSUME NEW c \in Comments, Comment(c) \in removed' \ excused' PROVE comment'[c] = None
        BY <2>3, <3>2 DEF RemovedOK, RemovedStaysRemoved, Folder, Comment
      <3> QED BY <3>1, <3>2 DEF RemovedStaysRemoved
    <2>5. ASSUME NEW s \in Busy, Late(request[s]), request[s].about \in removed' PROVE request[s].about \in excused'
      <3>1. request[s] \in Rows BY BusyRows DEF Busy
      <3>2. CASE request[s].pc \in {"findParent", "saveFolder"}
        <4>1. request[s].op \in {"move", "retitle"} BY <2>5, <3>1, <3>2 DEF Rows, Late
        <4>2. request[s].about = Folder(request[s].at) BY <3>1, <4>1 DEF Rows
        <4> QED BY <2>3, <3>2, <4>1, <4>2
      <3>3. CASE request[s].pc \notin {"findParent", "saveFolder"}
        <4>1. \E c \in Comments : request[s].about = Comment(c) BY <2>5, <3>1, <3>3 DEF Rows, Late, CommentSteps
        <4>2. request[s].about \in removed BY <2>3, <2>5, <4>1 DEF Comment, Folder
        <4> QED BY <2>3, <2>5, <4>2 DEF RemovedOK, Late
      <3> QED BY <3>2, <3>3
    <2>6. Busy' = Busy BY <2>3 DEF Busy
    <2> QED BY <2>3, <2>4, <2>5, <2>6 DEF RemovedOK, Late
  <1>5. CASE Expire BY <1>1, <1>5 DEF Expire, rows
  <1>6. CASE UNCHANGED vars BY <1>1, <1>6 DEF vars, rows, history
  <1> QED BY <1>2, <1>3, <1>4, <1>5, <1>6 DEF Next

-----------------------------------------------------------------------------
(***************************************************************************)
(* The text is the one the answers told.                                   *)
(***************************************************************************)
TextSteps == {"newDocument", "saveDocument", "shareText", "saveEdit"}
WritesText(q) == q.pc \in TextSteps \/ (q.pc = "findParent" /\ q.op \in {"write", "refile"})

(* A step that writes a text is about the text, and alone in that.         *)
LEMMA Writers ==
  ASSUME NEW q \in Rows, q.about # <<"text">>
  PROVE  ~WritesText(q) /\ q.pc \notin {"version", "ownDocument"}
BY DEF Rows, WritesText, TextSteps, Loading

LEMMA Alone ==
  ASSUME RequestsOK, CrossedOK, NEW r \in Busy, NEW s \in Busy, s # r,
         request[r].about = <<"text">>, <<"text">> \notin excused
  PROVE  ~WritesText(request[s])
  <1>1. request[s].about # <<"text">>
    <2>1. SUFFICES ASSUME request[s].about = <<"text">> PROVE FALSE OBVIOUS
    <2> QED BY <2>1 DEF CrossedOK
  <1>2. request[s] \in Rows BY BusyRows DEF Busy
  <1> QED BY <1>1, <1>2, Writers

(* Unless an edit is to be saved the shared text is the row's.             *)
LEMMA Settled ==
  ASSUME RequestsOK, CrossedOK, TextOK, NEW r \in Busy, request[r].about = <<"text">>, request[r].pc # "saveEdit",
         <<"text">> \notin excused, shared # None, doc # None
  PROVE  shared = doc.text
  <1>1. SUFFICES ASSUME NEW s \in Busy, request[s].pc = "saveEdit" PROVE FALSE BY DEF TextOK
  <1>2. s # r BY <1>1
  <1> QED BY <1>1, <1>2, Alone DEF WritesText, TextSteps

LEMMA OnwardText ==
  ASSUME RequestsOK, CrossedOK, TextOK, NEW r \in Requests, NEW w, Onward(r, w), request[r].about = <<"text">>,
         <<"text">> \notin excused' =>
           /\ doc' # None => doc'.text = expected'
           /\ w # Idle => ReadText(w)'
           /\ shared' # None /\ doc' # None => shared' = doc'.text \/ (w # Idle /\ w.pc = "saveEdit")
  PROVE  TextOK'
  <1>1. /\ request'[r] = w /\ r \in Busy /\ Busy' \subseteq Busy
        /\ \A s \in Requests : s # r => request'[s] = request[s]
    BY OnwardBusy
  <1>2. SUFFICES ASSUME <<"text">> \notin excused'
                 PROVE  /\ doc' # None => doc'.text = expected'
                        /\ \A s \in Busy' : ReadText(request[s])'
                        /\ shared' # None /\ doc' # None => shared' = doc'.text \/ \E s \in Busy' : request'[s].pc = "saveEdit"
    BY DEF TextOK
  <1>3. <<"text">> \notin excused BY <1>2 DEF Onward
  <1>4. ASSUME NEW s \in Busy' PROVE ReadText(request[s])'
    <2>1. CASE s = r
      <3>1. w # Idle BY <1>1, <2>1 DEF Busy
      <3> QED BY <1>1, <1>2, <2>1, <3>1 DEF ReadText
    <2>2. CASE s # r
      <3>1. s \in Busy /\ request'[s] = request[s] BY <1>1, <2>2 DEF Busy
      <3>2. ~WritesText(request[s]) BY <1>1, <1>3, <2>2, <3>1, Alone
      <3>3. request[s] \in Rows BY <3>1, BusyRows DEF Busy
      <3> QED BY <3>1, <3>2, <3>3 DEF ReadText, WritesText, TextSteps, Rows
    <2> QED BY <2>1, <2>2
  <1>5. w # Idle => r \in Busy' BY <1>1 DEF Busy
  <1> QED BY <1>1, <1>2, <1>4, <1>5

(* A request about something else leaves the text alone.                   *)
LEMMA QuietText ==
  ASSUME RequestsOK, TextOK, NEW r \in Requests, NEW w, Onward(r, w), request[r].about # <<"text">>,
         UNCHANGED <<shared, expected>>, doc' \in {doc, None}
  PROVE  TextOK'
  <1>1. /\ request'[r] = w /\ r \in Busy /\ Busy' \subseteq Busy
        /\ \A s \in Requests : s # r => request'[s] = request[s]
    BY OnwardBusy
  <1>2. ~WritesText(request[r])
    <2>1. request[r] \in Rows BY <1>1, BusyRows DEF Busy
    <2> QED BY <2>1, Writers
  <1>3. w # Idle => w \in Rows /\ ~WritesText(w)
    <2>1. w # Idle => w \in Rows /\ w.about # <<"text">> BY DEF Onward, SameRequest
    <2> QED BY <2>1, Writers
  <1>4. SUFFICES ASSUME <<"text">> \notin excused'
                 PROVE  /\ doc' # None => doc'.text = expected'
                        /\ \A s \in Busy' : ReadText(request[s])'
                        /\ shared' # None /\ doc' # None => shared' = doc'.text \/ \E s \in Busy' : request'[s].pc = "saveEdit"
    BY DEF TextOK
  <1>5. <<"text">> \notin excused BY <1>4 DEF Onward
  <1>6. ASSUME NEW s \in Busy' PROVE ReadText(request[s])'
    <2>1. CASE s = r
      <3>1. w # Idle BY <1>1, <2>1 DEF Busy
      <3> QED BY <1>1, <1>3, <2>1, <3>1 DEF ReadText, WritesText, TextSteps, Rows
    <2>2. CASE s # r
      <3>1. s \in Busy /\ request'[s] = request[s] BY <1>1, <2>2 DEF Busy
      <3>2. ReadText(request[s]) BY <1>5, <3>1 DEF TextOK
      <3> QED BY <3>1, <3>2 DEF ReadText
    <2> QED BY <2>1, <2>2
  <1>7. \A s \in Busy : request[s].pc = "saveEdit" => s \in Busy' /\ request'[s].pc = "saveEdit"
    BY <1>1, <1>2 DEF Busy, WritesText, TextSteps
  <1> QED BY <1>5, <1>6, <1>7 DEF TextOK

LEMMA OthersText ==
  ASSUME TextOK, UNCHANGED <<request, expected>>, shared' \in {shared, None}, doc' \in {doc, None}, excused \subseteq excused'
  PROVE  TextOK'
BY DEF TextOK, ReadText, Busy

LEMMA BeginsText ==
  ASSUME RequestsOK, TextOK, NEW r \in Requests, NEW w, Begins(r, w), shared' \in {shared, None}
  PROVE  TextOK'
  <1>1. request'[r] = w /\ Busy' = Busy \cup {r} /\ r \notin Busy /\ \A s \in Busy : request'[s] = request[s]
    BY BeginsBusy DEF Busy
  <1>2. UNCHANGED <<doc, expected>> /\ excused \subseteq excused' BY DEF Begins, rows
  <1>3. /\ w.pc \in First /\ (w.op = "write" => expected = {})
        /\ w.op \in {"rewrite", "rename", "refile"} => w.pc = "findDocument"
    BY DEF Begins
  <1>4. ReadText(w)' BY <1>1, <1>2, <1>3 DEF ReadText, First
  <1>5. SUFFICES ASSUME <<"text">> \notin excused PROVE TextOK' BY <1>2 DEF TextOK
  <1>6. ASSUME NEW s \in Busy' PROVE ReadText(request[s])'
    <2>1. CASE s = r BY <1>1, <1>4, <2>1 DEF ReadText
    <2>2. CASE s # r
      <3>1. s \in Busy /\ request'[s] = request[s] BY <1>1, <2>2
      <3>2. ReadText(request[s]) BY <1>5, <3>1 DEF TextOK
      <3> QED BY <1>2, <3>1, <3>2 DEF ReadText
    <2> QED BY <2>1, <2>2
  <1> QED BY <1>1, <1>2, <1>5, <1>6 DEF TextOK

LEMMA AboutText ==
  ASSUME RequestsOK, NEW r \in Requests, request[r] # Idle
  PROVE  /\ request[r].pc \in {"newDocument", "ownDocument", "findDocument", "saveDocument", "version", "saveEdit"} \cup Loading
              => request[r].about = <<"text">>
         /\ request[r].pc \in FolderSteps \cup CommentSteps \cup {"deleteDocument"} => request[r].about # <<"text">>
         /\ request[r].op \in {"create", "move"} => request[r].about # <<"text">>
         /\ request[r].op \in {"write", "refile"} => request[r].about = <<"text">>
  <1>1. request[r] \in Rows BY BusyRows
  <1> QED BY <1>1 DEF Rows, FolderSteps, CommentSteps, Folder, Comment

LEMMA HandleText ==
  ASSUME TypeOK, RequestsOK, CrossedOK, NothingYet, TextOK, NEW r \in Requests, Handle(r) PROVE TextOK'
  <1> DEFINE unspoiled == <<"text">> \notin excused
  <1>1. PICK v : Onward(r, v) BY HandleStep
  <1>2. r \in Busy /\ request[r] # Idle /\ excused \subseteq excused' BY <1>1, OnwardBusy DEF Onward
  <1>3. unspoiled => ReadText(request[r]) /\ (doc # None => doc.text = expected) BY <1>2 DEF TextOK
  <1>4. ASSUME request[r].about = <<"text">>, request[r].pc # "saveEdit"
        PROVE  unspoiled /\ shared # None /\ doc # None => shared = doc.text
    BY <1>2, <1>4, Settled
  <1>5. ASSUME NEW w, Onward(r, w), request[r].about = <<"text">>, request[r].pc # "saveEdit",
               UNCHANGED <<doc, shared, expected>>, unspoiled /\ w # Idle => ReadText(w)'
        PROVE  TextOK'
    BY <1>2, <1>3, <1>4, <1>5, OnwardText
  <1>6. CASE NewDocument(r)
    <2>1. PICK w : Onward(r, w) /\ w # Idle /\ w.pc = "ownDocument" BY <1>6, NewDocumentStep
    <2>2. request[r].pc = "newDocument" /\ request[r].about = <<"text">> BY <1>2, <1>6, AboutText DEF NewDocument, At
    <2>3. PICK f : doc' = [text |-> {request[r].id}, folder |-> f] BY <1>6 DEF NewDocument
    <2>4. doc'.text = expected' /\ shared' = shared BY <1>6, <2>3 DEF NewDocument
    <2>5. unspoiled => shared = None
      <3>1. request[r] \in Rows BY <1>2, BusyRows
      <3>2. request[r].op = "write" BY <2>2, <3>1 DEF Rows
      <3> QED BY <1>3, <2>2, <3>2 DEF ReadText, NothingYet
    <2>6. ReadText(w)' BY <2>1 DEF ReadText
    <2> QED BY <1>2, <2>1, <2>2, <2>4, <2>5, <2>6, OnwardText
  <1>7. CASE OwnDocument(r)
    <2>1. PICK w : Onward(r, w) /\ w # Idle /\ w.pc = "version" BY <1>7, OwnDocumentStep
    <2>2. request[r].pc = "ownDocument" /\ request[r].about = <<"text">> BY <1>2, <1>7, AboutText DEF OwnDocument, At
    <2>3. UNCHANGED <<doc, shared, expected>> BY <1>7 DEF OwnDocument
    <2>4. ReadText(w)' BY <2>1 DEF ReadText
    <2> QED BY <1>5, <2>1, <2>2, <2>3, <2>4
  <1>8. CASE FindDocument(r)
    <2>1. PICK w : Onward(r, w) /\ (w # Idle => /\ w.pc \in {"findParent", "saveDocument"}
                                                /\ w.op \in {"rewrite", "rename", "refile"}
                                                /\ w.op # "rewrite" => w.text = doc.text)
      BY <1>8, FindDocumentStep
    <2>2. request[r].pc = "findDocument" /\ request[r].about = <<"text">> BY <1>2, <1>8, AboutText DEF FindDocument, At
    <2>3. UNCHANGED <<doc, shared, expected>> BY <1>8, ReadsOnly DEF OnlyReads
    <2>4. w # Idle => ReadText(w)' BY <2>1, <2>3 DEF ReadText
    <2> QED BY <1>5, <2>1, <2>2, <2>3, <2>4
  <1>9. CASE SaveDocument(r)
    <2>1. PICK w : Onward(r, w) /\ w # Idle /\ w.pc = "version" BY <1>9, SaveDocumentStep
    <2>2. request[r].pc = "saveDocument" /\ request[r].about = <<"text">> BY <1>2, <1>9, AboutText DEF SaveDocument, At
    <2>3. PICK q : q = request[r] OBVIOUS
    <2>4. PICK f : doc' = [text |-> q.text, folder |-> f] BY <1>9, <2>3 DEF SaveDocument
    <2>5. /\ doc # None /\ shared' = shared
          /\ expected' = IF q.op = "rewrite" THEN q.text ELSE expected
          /\ excused' = IF q.op = "rewrite" /\ shared # None THEN excused \cup {<<"text">>} ELSE excused
      BY <1>9, <2>3 DEF SaveDocument
    <2>6. doc'.text = q.text BY <2>4
    <2>7. ReadText(w)' BY <2>1 DEF ReadText
    <2>8. CASE q.op = "rewrite" BY <1>2, <2>1, <2>2, <2>5, <2>6, <2>7, <2>8, OnwardText
    <2>9. CASE q.op # "rewrite"
      <3>1. unspoiled => q.text = doc.text
        <4>1. q \in Rows BY <1>2, <2>3, BusyRows
        <4>2. q.op \in {"rename", "refile"} BY <2>2, <2>3, <2>9, <4>1 DEF Rows
        <4> QED BY <1>3, <2>2, <2>3, <2>5, <4>2 DEF ReadText
      <3>2. unspoiled => doc'.text = expected' /\ (shared' # None => shared' = doc'.text)
        BY <1>3, <1>4, <2>2, <2>5, <2>6, <2>9, <3>1
      <3> QED BY <1>2, <2>1, <2>2, <2>7, <3>2, OnwardText
    <2> QED BY <2>8, <2>9
  <1>10. CASE SaveVersion(r)
    <2>1. Onward(r, Idle) BY <1>10, LastStep
    <2>2. request[r].pc = "version" /\ request[r].about = <<"text">> BY <1>2, <1>10, AboutText DEF SaveVersion, At
    <2>3. UNCHANGED <<doc, shared, expected>> BY <1>10 DEF SaveVersion
    <2> QED BY <1>5, <2>1, <2>2, <2>3
  <1>11. CASE ReadRow(r) \/ NextFolder(r)
    <2>1. PICK w : Onward(r, w) /\ (w # Idle => w.pc \in {"checkAuthor", "checkFolder"})
      BY <1>11, ReadRowStep, NextFolderStep
    <2>2. request[r].pc \in Loading /\ request[r].pc # "saveEdit" BY <1>11 DEF ReadRow, NextFolder, At, Loading
    <2>3. request[r].about = <<"text">> BY <1>2, <2>2, AboutText
    <2>4. UNCHANGED <<doc, shared, expected>> BY <1>11, ReadsOnly DEF OnlyReads
    <2>5. w # Idle => ReadText(w)' BY <2>1 DEF ReadText
    <2> QED BY <1>5, <2>1, <2>2, <2>3, <2>4, <2>5
  <1>12. CASE LoadText(r)
    <2>1. PICK w : Onward(r, w) /\ (w # Idle => w.pc = "shareText" /\ w.text = doc.text) BY <1>12, LoadTextStep
    <2>2. request[r].pc \in Loading /\ request[r].pc # "saveEdit" BY <1>12 DEF LoadText, At, Loading
    <2>3. request[r].about = <<"text">> BY <1>2, <2>2, AboutText
    <2>4. UNCHANGED <<doc, shared, expected>> BY <1>12, ReadsOnly DEF OnlyReads
    <2>5. w # Idle => ReadText(w)' BY <2>1, <2>4 DEF ReadText
    <2> QED BY <1>5, <2>1, <2>2, <2>3, <2>4, <2>5
  <1>13. CASE CheckAuthor(r) \/ CheckFolder(r)
    <2>1. PICK w : /\ Onward(r, w)
                   /\ \/ shared' = shared /\ (w # Idle => w.pc \in {"checkFolder", "nextFolder", "loadText"})
                      \/ /\ shared # None /\ w # Idle /\ w.pc = "saveEdit" /\ w.text = shared \cup {request[r].id}
                         /\ shared' = w.text
      <3>1. CASE CheckAuthor(r) BY <3>1, CheckAuthorStep
      <3>2. CASE CheckFolder(r) BY <3>2, CheckFolderStep
      <3> QED BY <1>13, <3>1, <3>2
    <2>2. request[r].pc \in Loading /\ request[r].pc # "saveEdit" BY <1>13 DEF CheckAuthor, CheckFolder, At, Loading
    <2>3. request[r].about = <<"text">> BY <1>2, <2>2, AboutText
    <2>4. UNCHANGED <<doc, expected>> BY <1>13, ChecksOnly
    <2>5. CASE shared' = shared /\ (w # Idle => w.pc \in {"checkFolder", "nextFolder", "loadText"})
      <3>1. w # Idle => ReadText(w)' BY <2>5 DEF ReadText
      <3> QED BY <1>5, <2>1, <2>2, <2>3, <2>4, <2>5, <3>1
    <2>6. CASE /\ shared # None /\ w # Idle /\ w.pc = "saveEdit" /\ w.text = shared \cup {request[r].id}
               /\ shared' = w.text
      <3>1. w.id = request[r].id BY <2>1, <2>6 DEF Onward, SameRequest
      <3>2. unspoiled /\ doc # None => w.text = doc.text \cup {w.id} BY <1>4, <2>2, <2>3, <2>6, <3>1
      <3>3. unspoiled => ReadText(w)' BY <2>4, <2>6, <3>2 DEF ReadText
      <3> QED BY <1>2, <1>3, <2>1, <2>3, <2>4, <2>6, <3>3, OnwardText
    <2> QED BY <2>1, <2>5, <2>6
  <1>14. CASE ShareText(r)
    <2>1. /\ \E w : Onward(r, w) /\ w # Idle /\ w.pc = "saveEdit" /\ w.text = request[r].text \cup {request[r].id}
          /\ shared' = request[r].text \cup {request[r].id}
      BY <1>14, ShareTextStep
    <2>2. PICK w : Onward(r, w) /\ w # Idle /\ w.pc = "saveEdit" /\ w.text = request[r].text \cup {request[r].id} BY <2>1
    <2>3. request[r].pc = "shareText" /\ request[r].pc \in Loading BY <1>14 DEF ShareText, At, Loading
    <2>4. request[r].about = <<"text">> BY <1>2, <2>3, AboutText
    <2>5. UNCHANGED <<doc, expected>> BY <1>14 DEF ShareText, rows
    <2>6. w.id = request[r].id BY <2>2 DEF Onward, SameRequest
    <2>7. unspoiled /\ doc # None => w.text = doc.text \cup {w.id} BY <1>3, <2>2, <2>3, <2>6 DEF ReadText
    <2>8. unspoiled => ReadText(w)' BY <2>1, <2>2, <2>5, <2>7 DEF ReadText
    <2> QED BY <1>2, <1>3, <2>2, <2>4, <2>5, <2>8, OnwardText
  <1>15. CASE SaveEdit(r)
    <2>1. PICK w : Onward(r, w) /\ w # Idle /\ w.pc = "version" BY <1>15, SaveEditStep
    <2>2. request[r].pc = "saveEdit" /\ request[r].about = <<"text">> BY <1>2, <1>15, AboutText DEF SaveEdit, At
    <2>3. PICK q : q = request[r] OBVIOUS
    <2>4. PICK f : doc' = [text |-> q.text, folder |-> f] BY <1>15, <2>3 DEF SaveEdit
    <2>5. doc # None /\ shared' = shared /\ expected' = expected \cup {q.id} BY <1>15, <2>3 DEF SaveEdit
    <2>6. doc'.text = q.text BY <2>4
    <2>7. ReadText(w)' BY <2>1 DEF ReadText
    <2>8. unspoiled => q.text = doc.text \cup {q.id} /\ doc.text = expected /\ (shared # None => shared = q.text)
      BY <1>3, <2>2, <2>3, <2>5 DEF ReadText
    <2>9. unspoiled => doc'.text = expected' /\ (shared' # None => shared' = doc'.text) BY <2>5, <2>6, <2>8
    <2> QED BY <1>2, <2>1, <2>2, <2>7, <2>9, OnwardText
  <1>16. CASE Fail(r)
    <2>1. Onward(r, Idle) BY <1>16, LastStep
    <2>2. UNCHANGED <<doc, shared, expected>> /\ excused' = excused \cup Spoiled(request[r]) BY <1>16 DEF Fail, rows
    <2>3. CASE request[r].about # <<"text">> BY <2>1, <2>2, <2>3, QuietText
    <2>4. CASE request[r].about = <<"text">> /\ request[r].pc = "saveEdit"
      <3>1. <<"text">> \in excused' BY <2>2, <2>4 DEF Spoiled
      <3> QED BY <3>1 DEF TextOK
    <2>5. CASE request[r].about = <<"text">> /\ request[r].pc # "saveEdit" BY <1>5, <2>1, <2>2, <2>5
    <2> QED BY <2>3, <2>4, <2>5
  <1>17. CASE \/ NewFolder(r) \/ OwnFolder(r) \/ FindFolder(r) \/ SaveFolder(r)
              \/ DeleteDocument(r) \/ FindComment(r) \/ CheckReader(r) \/ SaveComment(r) \/ DeleteComment(r)
    <2>1. request[r].pc \in FolderSteps \cup CommentSteps \cup {"deleteDocument"}
      BY <1>17 DEF NewFolder, OwnFolder, FindFolder, SaveFolder, DeleteDocument, FindComment, CheckReader, SaveComment,
                   DeleteComment, At, FolderSteps, CommentSteps
    <2>2. request[r].about # <<"text">> BY <1>2, <2>1, AboutText
    <2>3. UNCHANGED <<shared, expected>> /\ doc' \in {doc, None}
      BY <1>17 DEF NewFolder, OwnFolder, FindFolder, SaveFolder, DeleteDocument, FindComment, CheckReader, SaveComment,
                   DeleteComment, NoDocument, rows, history
    <2> QED BY <1>1, <2>2, <2>3, QuietText
  <1>18. CASE FindParent(r)
    <2>1. PICK w : /\ Onward(r, w)
                   /\ w # Idle => /\ w.text = request[r].text /\ w.op = request[r].op
                                  /\ w.op \in {"create", "move", "write", "refile"}
                                  /\ w.op = "create" => w.pc = "newFolder"
                                  /\ w.op = "move" => w.pc = "saveFolder"
                                  /\ w.op = "write" => w.pc = "newDocument"
                                  /\ w.op = "refile" => w.pc = "saveDocument"
      BY <1>18, FindParentStep
    <2>2. request[r] \in Rows /\ request[r].pc = "findParent" BY <1>2, <1>18, BusyRows DEF FindParent, At
    <2>3. request[r].op \in {"create", "move", "write", "refile"} BY <2>2 DEF Rows
    <2>4. UNCHANGED <<doc, shared, expected>> BY <1>18, ReadsOnly DEF OnlyReads
    <2>5. CASE request[r].about # <<"text">> BY <2>1, <2>4, <2>5, QuietText
    <2>6. CASE request[r].about = <<"text">>
      <3>1. request[r].op \in {"write", "refile"} BY <1>2, <2>3, <2>6, AboutText
      <3>2. unspoiled /\ w # Idle => ReadText(w)' BY <1>3, <2>1, <2>2, <2>4, <3>1 DEF ReadText
      <3> QED BY <1>5, <2>1, <2>2, <2>4, <2>6, <3>2
    <2> QED BY <2>5, <2>6
  <1> QED BY <1>6, <1>7, <1>8, <1>9, <1>10, <1>11, <1>12, <1>13, <1>14, <1>15, <1>16, <1>17, <1>18 DEF Handle

LEMMA TextStays ==
  ASSUME TypeOK, RequestsOK, CrossedOK, NothingYet, TextOK, [Next]_vars PROVE TextOK'
  <1>1. CASE \E r \in Requests : Ask(r)
    <2>1. PICK r \in Requests : Ask(r) BY <1>1
    <2>2. PICK w : Begins(r, w) /\ shared' \in {shared, None} BY <2>1, AskStep
    <2> QED BY <2>2, BeginsText
  <1>2. CASE \E r \in Requests : Handle(r) BY <1>2, HandleText
  <1>3. CASE \E f \in Folders : RemoveFolder(f)
    <2>1. UNCHANGED <<request, expected, shared>> /\ doc' \in {doc, None} /\ excused \subseteq excused'
      BY <1>3 DEF RemoveFolder, NoDocument
    <2> QED BY <2>1, OthersText
  <1>4. CASE Expire
    <2>1. UNCHANGED <<request, expected, doc>> /\ shared' = None /\ excused \subseteq excused' BY <1>4 DEF Expire, rows
    <2> QED BY <2>1, OthersText
  <1>5. CASE UNCHANGED vars BY <1>5, OthersText DEF vars, rows, history
  <1> QED BY <1>1, <1>2, <1>3, <1>4, <1>5 DEF Next

-----------------------------------------------------------------------------
(***************************************************************************)
(* Before the document was made there is nothing of it.                    *)
(***************************************************************************)
LEMMA OnwardNothing ==
  ASSUME RequestsOK, NothingYet, NEW r \in Requests, NEW w, Onward(r, w),
         expected' = {} => /\ expected = {} /\ doc' \in {doc, None} /\ shared' \in {shared, None}
                           /\ w # Idle => w.pc # "shareText"
  PROVE  NothingYet'
  <1>1. /\ request'[r] = w /\ Busy' \subseteq Busy
        /\ \A s \in Requests : s # r => request'[s] = request[s]
    BY OnwardBusy
  <1> QED BY <1>1 DEF NothingYet, Busy

LEMMA HandleNothing ==
  ASSUME TypeOK, RequestsOK, NothingYet, NEW r \in Requests, Handle(r) PROVE NothingYet'
  <1>1. PICK v : Onward(r, v) BY HandleStep
  <1>2. r \in Busy BY <1>1, OnwardBusy
  <1>3. CASE NewDocument(r)
    <2>1. expected' # {} BY <1>3 DEF NewDocument
    <2> QED BY <2>1 DEF NothingYet
  <1>4. CASE SaveDocument(r)
    <2>1. PICK w : Onward(r, w) /\ w # Idle /\ w.pc = "version" BY <1>4, SaveDocumentStep
    <2>2. doc # None /\ expected # {} BY <1>4 DEF SaveDocument, NothingYet
    <2>3. request[r] \in Rows /\ request[r].pc = "saveDocument" BY <1>4, BusyRows DEF SaveDocument, At
    <2>4. request[r].op = "rewrite" => request[r].text # {} BY <2>3 DEF Rows
    <2>5. expected' # {} BY <1>4, <2>2, <2>4 DEF SaveDocument
    <2> QED BY <2>5 DEF NothingYet
  <1>5. CASE SaveEdit(r)
    <2>1. expected' # {} BY <1>5 DEF SaveEdit
    <2> QED BY <2>1 DEF NothingYet
  <1>6. CASE ShareText(r)
    <2>1. expected # {} /\ expected' = expected BY <1>2, <1>6 DEF ShareText, At, NothingYet
    <2> QED BY <2>1 DEF NothingYet
  <1>7. CASE CheckAuthor(r) \/ CheckFolder(r)
    <2>1. PICK w : /\ Onward(r, w) /\ (w # Idle => w.pc # "shareText")
                   /\ shared' = shared \/ shared # None
      <3>1. CASE CheckAuthor(r) BY <3>1, CheckAuthorStep
      <3>2. CASE CheckFolder(r) BY <3>2, CheckFolderStep
      <3> QED BY <1>7, <3>1, <3>2
    <2>2. UNCHANGED <<doc, expected>> BY <1>7, ChecksOnly
    <2> QED BY <2>1, <2>2, OnwardNothing DEF NothingYet
  <1>8. CASE LoadText(r)
    <2>1. PICK w : Onward(r, w) /\ (w # Idle => doc # None) BY <1>8, LoadTextStep
    <2>2. UNCHANGED <<doc, shared, expected>> BY <1>8, ReadsOnly DEF OnlyReads
    <2> QED BY <2>1, <2>2, OnwardNothing DEF NothingYet
  <1>9. CASE FindParent(r) \/ FindFolder(r) \/ FindDocument(r) \/ ReadRow(r) \/ NextFolder(r) \/ FindComment(r) \/ CheckReader(r)
    <2>1. PICK w : Onward(r, w) /\ (w # Idle => w.pc # "shareText")
      BY <1>9, FindParentStep, FindFolderStep, FindDocumentStep, ReadRowStep, NextFolderStep, FindCommentStep, CheckReaderStep
    <2>2. UNCHANGED <<doc, shared, expected>> BY <1>9, ReadsOnly DEF OnlyReads
    <2> QED BY <2>1, <2>2, OnwardNothing
  <1>10. CASE NewFolder(r) \/ OwnDocument(r)
    <2>1. PICK w : Onward(r, w) /\ w # Idle /\ w.pc # "shareText" BY <1>10, NewFolderStep, OwnDocumentStep
    <2>2. UNCHANGED <<doc, shared, expected>> BY <1>10 DEF NewFolder, OwnDocument, history
    <2> QED BY <2>1, <2>2, OnwardNothing
  <1>11. CASE OwnFolder(r) \/ SaveFolder(r) \/ SaveVersion(r) \/ DeleteDocument(r) \/ SaveComment(r) \/ DeleteComment(r)
              \/ Fail(r)
    <2>1. Onward(r, Idle) BY <1>11, LastStep
    <2>2. UNCHANGED <<shared, expected>> /\ doc' \in {doc, None}
      BY <1>11 DEF OwnFolder, SaveFolder, SaveVersion, DeleteDocument, NoDocument, SaveComment, DeleteComment, Fail,
                   rows, history
    <2> QED BY <2>1, <2>2, OnwardNothing
  <1> QED BY <1>3, <1>4, <1>5, <1>6, <1>7, <1>8, <1>9, <1>10, <1>11 DEF Handle

LEMMA NothingStays == ASSUME TypeOK, RequestsOK, NothingYet, [Next]_vars PROVE NothingYet'
  <1>1. ASSUME UNCHANGED <<request, expected>>, shared' \in {shared, None}, doc' \in {doc, None} PROVE NothingYet'
    BY <1>1 DEF NothingYet, Busy
  <1>2. CASE \E r \in Requests : Ask(r)
    <2>1. PICK r \in Requests : Ask(r) BY <1>2
    <2>2. PICK w : Begins(r, w) /\ shared' \in {shared, None} BY <2>1, AskStep
    <2>3. request'[r] = w /\ Busy' = Busy \cup {r} /\ \A s \in Busy : request'[s] = request[s]
      BY <2>2, BeginsBusy DEF Busy
    <2>4. w.pc # "shareText" /\ UNCHANGED <<doc, expected>> BY <2>2 DEF Begins, First, rows
    <2> QED BY <2>2, <2>3, <2>4 DEF NothingYet
  <1>3. CASE \E r \in Requests : Handle(r) BY <1>3, HandleNothing
  <1>4. CASE \E f \in Folders : RemoveFolder(f) BY <1>1, <1>4 DEF RemoveFolder, NoDocument
  <1>5. CASE Expire BY <1>1, <1>5 DEF Expire, rows
  <1>6. CASE UNCHANGED vars BY <1>1, <1>6 DEF vars, rows, history
  <1> QED BY <1>2, <1>3, <1>4, <1>5, <1>6 DEF Next

-----------------------------------------------------------------------------
(***************************************************************************)
(* What holds of every execution.                                          *)
(***************************************************************************)
LEMMA InitInv == Init => DocumentsInv
  <1> SUFFICES ASSUME Init PROVE DocumentsInv OBVIOUS
  <1>1. Busy = {} BY DEF Init, Busy
  <1>2. LoadingIds = {} /\ Unanswered = {} BY <1>1 DEF LoadingIds, Unanswered
  <1>3. Cardinality(LoadingIds) = 0 BY <1>2, FS_EmptySet
  <1>4. 0 \in 0..MaxStarts BY BoundAssumption
  <1>5. TypeOK BY <1>4 DEF Init, TypeOK
  <1>6. RequestsOK BY <1>1, <1>4 DEF Init, RequestsOK
  <1>7. TimersOK BY <1>3 DEF Init, TimersOK
  <1>8. CrossedOK /\ VersionsOK /\ NothingYet BY <1>1 DEF Init, CrossedOK, VersionsOK, NothingYet
  <1>10. SharedOK BY <1>2 DEF Init, SharedOK
  <1>11. TextOK BY <1>1 DEF Init, TextOK
  <1>12. RemovedOK BY <1>1 DEF Init, RemovedOK, RemovedStaysRemoved
  <1> QED BY <1>5, <1>6, <1>7, <1>8, <1>10, <1>11, <1>12 DEF DocumentsInv

LEMMA NextInv == DocumentsInv /\ [Next]_vars => DocumentsInv'
  <1> SUFFICES ASSUME DocumentsInv, [Next]_vars PROVE DocumentsInv' OBVIOUS
  <1>1. /\ TypeOK /\ RequestsOK /\ TimersOK /\ CrossedOK /\ SharedOK /\ VersionsOK
        /\ NothingYet /\ TextOK /\ RemovedOK
    BY DEF DocumentsInv
  <1>2. RequestsOK' /\ CrossedOK' /\ TimersOK' BY <1>1, RequestsKept
  <1>3. TypeOK' BY <1>1, TypeKept
  <1>5. SharedOK' BY <1>1, SharedStays
  <1>6. VersionsOK' BY <1>1, VersionsKept
  <1>7. NothingYet' BY <1>1, NothingStays
  <1>8. TextOK' BY <1>1, TextStays
  <1>9. RemovedOK' BY <1>1, RemovedKept
  <1> QED BY <1>2, <1>3, <1>5, <1>6, <1>7, <1>8, <1>9 DEF DocumentsInv

(* DocsService: the rows, the shared text, the timers and what the         *)
(* requests in progress have read of them fit together in every state, for *)
(* any number of requests.                                                 *)
THEOREM DocumentsCorrect == Spec => []DocumentsInv
  <1>1. Init => DocumentsInv BY InitInv
  <1>2. DocumentsInv /\ [Next]_vars => DocumentsInv' BY NextInv
  <1> QED BY <1>1, <1>2, PTL DEF Spec

(* saveVersion and the foreign keys: documents, folders and comments point *)
(* to what is there, and the text of a document nobody works on is one of  *)
(* its versions, whatever crossed, unless its request failed in between.   *)
THEOREM DocumentsFitTogether == Spec => []Consistent
  <1>1. DocumentsInv => Consistent
    <2> SUFFICES ASSUME DocumentsInv PROVE Consistent OBVIOUS
    <2>1. TypeOK /\ RequestsOK /\ VersionsOK BY DEF DocumentsInv
    <2>2. \A r \in Busy : request[r].pc \in {"ownDocument", "version"} => request[r].about = <<"text">>
      <3>1. ASSUME NEW r \in Busy PROVE request[r] \in Rows BY <2>1, BusyRows DEF Busy
      <3> QED BY <3>1 DEF Rows
    <2>3. VersionsKeepUp BY <2>1, <2>2 DEF VersionsOK, VersionsKeepUp
    <2> QED BY <2>1, <2>3 DEF Consistent
  <1> QED BY <1>1, DocumentsCorrect, PTL

(* getYDoc and applyOps: the shared text has every edit that was answered  *)
(* since it was loaded, whatever edits cross, unless two edits loaded it   *)
(* at once or it was dropped under an edit.                                *)
THEOREM AnswersStayShared == Spec => []SharedTextGrows
  <1>1. DocumentsInv => SharedTextGrows BY DEF DocumentsInv, SharedOK, SharedTextGrows
  <1> QED BY <1>1, DocumentsCorrect, PTL

(* applyOps and updateDocument: the row has the text the answers told      *)
(* whenever nothing is in progress and nothing spoiled it.                 *)
THEOREM RowKeepsText == Spec => []TextKept
  <1>1. DocumentsInv => TextKept BY DEF DocumentsInv, TextOK, TextKept
  <1> QED BY <1>1, DocumentsCorrect, PTL

(* removeFolder and removeDocumentComment: a folder with all inside of it, *)
(* or a comment, stays removed, unless a change of it had already been     *)
(* found.                                                                  *)
THEOREM RemovedForGood == Spec => []RemovedStaysRemoved
  <1>1. DocumentsInv => RemovedStaysRemoved BY DEF DocumentsInv, RemovedOK
  <1> QED BY <1>1, DocumentsCorrect, PTL

=============================================================================
