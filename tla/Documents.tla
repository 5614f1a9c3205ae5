------------------------------- MODULE Documents -------------------------------
(***************************************************************************)
(* DocsService, DocsGateway and DocPermissionService (src/src/modules/     *)
(* docs): a document that is edited together, its versions and comments,   *)
(* and the folders whose owners may edit what is in them.                  *)
(*                                                                         *)
(* An edit is applied to a shared text that the process keeps for 30       *)
(* minutes after it was first loaded, and the row is saved from it; the    *)
(* other updates write the row and know nothing of the shared text.        *)
(*                                                                         *)
(* A text is the set of the edits that went into it, deletions like        *)
(* insertions.  Titles, stars, cursors, the search vector, mentions and    *)
(* listings are left out.                                                  *)
(*                                                                         *)
(* Of what changes a document or a folder only edits are checked for       *)
(* permission: PATCH and DELETE serve whoever is signed in, so their user  *)
(* is left out.                                                            *)
(***************************************************************************)
EXTENDS Integers, FiniteSets

CONSTANTS
  Users,
  Folders,    \* ids of folders, ordered: a query without a condition finds the least
  Comments,   \* ids of comments
  Requests,   \* requests the server can have in progress at once
  MaxStarts,  \* bound: requests of a run
  None

Folder(f) == <<"folder", f>>
Comment(c) == <<"comment", c>>

Edits == 1..MaxStarts
Texts == SUBSET Edits
DocumentRow == [text : Texts, folder : Folders \cup {None}]
FolderRow == [owner : Users \cup {None}, parent : Folders \cup {None}]

ASSUME FolderAssumption == Folders \subseteq Nat
ASSUME NoneAssumption ==
  None \notin Users \cup Folders \cup DocumentRow \cup FolderRow /\ \A text \in Texts : text # None
ASSUME BoundAssumption == MaxStarts \in Nat

VARIABLES
  doc,      \* the row of the document, its text and folder
  author,   \* the one member of the document, its administrator
  versions, \* the texts of its versions
  shared,   \* the text of the Y.Doc the process keeps, if any
  timers,   \* timers that are to drop it
  comment,  \* the author of each comment
  folder,   \* the row of each folder, its owner the one member it has
  request,  \* the requests in progress
  starts,   \* requests begun so far
  expected, \* history: the text as the answers told it
  answered, \* history: edits answered since the shared text was loaded
  removed,  \* history: comments and folders that were removed
  excused   \* history: what two requests or a failure spoiled

rows == <<doc, author, versions, comment, folder>>
history == <<expected, answered, removed, excused>>
vars == <<rows, shared, timers, request, starts, history>>

Idle == [pc |-> "idle"]

\* The next step pc of a request of user by; id tells the edit, about what it changes, to a folder
\* it names.  text, home, at and up are what it has read: a text, the document's folder, the folder
\* it is looking at and the parent of that one, or the folder it is to be put into.
Request(op, pc, by, about, to) ==
  [op |-> op, pc |-> pc, by |-> by, about |-> about, to |-> to, id |-> starts + 1,
   text |-> {}, home |-> None, at |-> None, up |-> None]

(* The rows, the shared text and the timers are of their types; only a     *)
(* document has an author and versions, and its folder is there.           *)
TypeOK ==
  /\ doc \in {None} \cup DocumentRow
  /\ author \in Users \cup {None} /\ versions \in SUBSET Texts
  /\ doc = None => author = None /\ versions = {} /\ \A c \in Comments : comment[c] = None
  /\ shared \in {None} \cup Texts /\ timers \in 0..MaxStarts /\ (shared # None => timers > 0)
  /\ comment \in [Comments -> Users \cup {None}]
  /\ folder \in [Folders -> {None} \cup FolderRow]
  /\ \A f \in Folders : folder[f] # None /\ folder[f].parent # None => folder[folder[f].parent] # None
  /\ doc # None /\ doc.folder # None => folder[doc.folder] # None

Init ==
  /\ doc = None /\ author = None /\ versions = {} /\ shared = None /\ timers = 0
  /\ comment = [c \in Comments |-> None] /\ folder = [f \in Folders |-> None]
  /\ request = [r \in Requests |-> Idle] /\ starts = 0
  /\ expected = {} /\ answered = {} /\ removed = {} /\ excused = {}

-----------------------------------------------------------------------------
(* How a request begins, goes on and ends *)

Busy == {r \in Requests : request[r] # Idle}
At(r, pc) == request[r] # Idle /\ request[r].pc = pc
Goes(r, q) == request' = [request EXCEPT ![r] = q]
Exists(f) == f # None /\ folder[f] # None

Counts == starts < MaxStarts /\ starts' = starts + 1

Starts(r, q) ==
  /\ request[r] = Idle /\ Counts
  /\ Goes(r, q)
  /\ excused' = IF \E s \in Busy : request[s].about = q.about THEN excused \cup {q.about} ELSE excused
  /\ UNCHANGED <<rows, shared, timers, expected, answered, removed>>

\* What is spoiled when a request ends before its last step.
Spoiled(q) ==
  CASE q.pc = "saveEdit" -> {<<"text">>}
    [] q.pc \in {"version", "ownDocument"} -> {<<"versions">>}
    [] q.pc = "ownFolder" -> {Folder(q.at)}
    [] OTHER -> {}

\* A query fails, a key refuses a row, or an operation of an edit has an illegal position.
Fail(r) ==
  /\ request[r] # Idle
  /\ Goes(r, Idle)
  /\ excused' = excused \cup Spoiled(request[r])
  /\ UNCHANGED <<rows, shared, timers, starts, expected, answered, removed>>

\* Edits applied to the shared text whose answer is outstanding.
Unanswered == {r \in Busy : request[r].op = "edit" /\ request[r].pc \in {"saveEdit", "version"}}

-----------------------------------------------------------------------------
(* createFolder, moveFolder and updateFolder, removeFolder *)

CreateFolder(r) == \E u \in Users, p \in Folders \cup {None} : Starts(r, Request("create", "findParent", u, <<"new">>, p))

\* What follows the lookup of a folder that a request names.
Found == [create |-> "newFolder", move |-> "saveFolder", write |-> "newDocument", refile |-> "saveDocument"]

\* A folder that is not found is no folder, except that a document is not refiled into it.
FindParent(r) ==
  /\ At(r, "findParent")
  /\ LET q == request[r]
     IN Goes(r, IF q.op = "refile" /\ ~Exists(q.to) THEN Idle
                ELSE [q EXCEPT !.pc = Found[q.op], !.up = IF Exists(q.to) THEN q.to ELSE None])
  /\ UNCHANGED <<rows, shared, timers, starts, history>>

\* A folder found above can be gone when it is referred to, and the row is refused then.
Refers(f) == f # None => Exists(f)

NewFolder(r) ==
  /\ At(r, "newFolder") /\ Refers(request[r].up)
  /\ \E f \in {g \in Folders : Folder(g) \notin removed} :
       /\ folder[f] = None
       /\ folder' = [folder EXCEPT ![f] = [owner |-> None, parent |-> request[r].up]]
       /\ Goes(r, [request[r] EXCEPT !.pc = "ownFolder", !.at = f])
  /\ UNCHANGED <<doc, author, versions, comment, shared, timers, starts, history>>

OwnFolder(r) ==
  /\ At(r, "ownFolder") /\ Exists(request[r].at)
  /\ folder' = [folder EXCEPT ![request[r].at].owner = request[r].by]
  /\ Goes(r, Idle)
  /\ UNCHANGED <<doc, author, versions, comment, shared, timers, starts, expected, answered, removed, excused>>

\* updateFolder without a parent keeps the one the folder has.
UpdateFolder(r) ==
  \E f \in Folders :
    \/ \E p \in Folders \cup {None} : Starts(r, [Request("move", "findFolder", None, Folder(f), p) EXCEPT !.at = f])
    \/ Starts(r, [Request("retitle", "findFolder", None, Folder(f), None) EXCEPT !.at = f])

\* Mutant: a folder that cannot be found is made anew, not refused.
FindFolder_Wrong(r) ==
  /\ At(r, "findFolder")
  /\ Goes(r, [request[r] EXCEPT !.pc = "saveFolder"])
  /\ UNCHANGED <<rows, shared, timers, starts, history>>

FindFolder(r) ==
  /\ At(r, "findFolder")
  /\ LET q == request[r]
     IN Goes(r, IF ~Exists(q.at) THEN Idle
                ELSE [q EXCEPT !.pc = IF q.op = "move" /\ q.to # None THEN "findParent" ELSE "saveFolder"])
  /\ UNCHANGED <<rows, shared, timers, starts, history>>

\* A folder that was removed meanwhile is inserted again, without a member.
SaveFolder(r) ==
  /\ At(r, "saveFolder")
  /\ LET q == request[r]
         row == IF Exists(q.at) THEN folder[q.at] ELSE [owner |-> None, parent |-> None]
     IN /\ q.op = "move" => Refers(q.up)
        /\ folder' = [folder EXCEPT ![q.at] = IF q.op = "move" THEN [row EXCEPT !.parent = q.up] ELSE row]
  /\ Goes(r, Idle)
  /\ UNCHANGED <<doc, author, versions, comment, shared, timers, starts, history>>

\* The folders that are f or below it: the least set that has f and the children of its folders.
Inside(f) ==
  {g \in Folders : \A S \in SUBSET Folders :
     f \in S /\ (\A h \in Folders : Exists(h) /\ folder[h].parent \in S => h \in S) => g \in S}

NoDocument ==
  /\ doc' = None /\ author' = None /\ versions' = {}
  /\ comment' = [c \in Comments |-> None]

\* One statement, which the foreign keys carry on to the folders and documents inside.
RemoveFolder(f) ==
  /\ Exists(f) /\ Counts
  /\ folder' = [g \in Folders |-> IF g \in Inside(f) THEN None ELSE folder[g]]
  /\ removed' = removed \cup {Folder(g) : g \in Inside(f)}
  /\ excused' = excused \cup {Folder(request[r].at) : r \in {s \in Busy : request[s].op \in {"move", "retitle"} /\ request[s].pc # "findFolder"}}
  /\ IF doc # None /\ doc.folder \in Inside(f) THEN NoDocument ELSE UNCHANGED <<doc, author, versions, comment>>
  /\ UNCHANGED <<shared, timers, request, expected, answered>>

-----------------------------------------------------------------------------
(* createDocument, updateDocument, removeDocument *)

CreateDocument(r) ==
  \E u \in Users, f \in Folders \cup {None} :
    /\ expected = {} /\ \A s \in Busy : request[s].about # <<"text">>
    /\ Starts(r, Request("write", "findParent", u, <<"text">>, f))

NewDocument(r) ==
  /\ At(r, "newDocument") /\ Refers(request[r].up)
  /\ LET q == request[r]
     IN /\ doc' = [text |-> {q.id}, folder |-> q.up]
        /\ expected' = {q.id}
        /\ Goes(r, [q EXCEPT !.pc = "ownDocument", !.text = {q.id}])
  /\ UNCHANGED <<author, versions, comment, folder, shared, timers, starts, answered, removed, excused>>

OwnDocument(r) ==
  /\ At(r, "ownDocument") /\ doc # None
  /\ author' = request[r].by
  /\ Goes(r, [request[r] EXCEPT !.pc = "version"])
  /\ UNCHANGED <<doc, versions, comment, folder, shared, timers, starts, expected, answered, removed, excused>>

\* A new text, another title, or another folder: the rest is written as it was loaded.
UpdateDocument(r) ==
  \/ \E op \in {"rewrite", "rename"} : Starts(r, Request(op, "findDocument", None, <<"text">>, None))
  \/ \E f \in Folders \cup {None} : Starts(r, Request("refile", "findDocument", None, <<"text">>, f))

FindDocument(r) ==
  /\ At(r, "findDocument")
  /\ LET q == request[r]
     IN Goes(r, IF doc = None THEN Idle
                ELSE [q EXCEPT !.pc = IF q.op = "refile" /\ q.to # None THEN "findParent" ELSE "saveDocument",
                               !.text = IF q.op = "rewrite" THEN {q.id} ELSE doc.text])
  /\ UNCHANGED <<rows, shared, timers, starts, history>>

\* A row that was removed meanwhile cannot be inserted again, its search vector is missing.
SaveDocument(r) ==
  /\ At(r, "saveDocument") /\ doc # None
  /\ LET q == request[r]
     IN /\ q.op = "refile" => Refers(q.up)
        /\ doc' = [text |-> q.text, folder |-> IF q.op = "refile" THEN q.up ELSE doc.folder]
        /\ expected' = IF q.op = "rewrite" THEN q.text ELSE expected
        /\ excused' = IF q.op = "rewrite" /\ shared # None THEN excused \cup {<<"text">>} ELSE excused
        /\ Goes(r, [q EXCEPT !.pc = "version"])
  /\ UNCHANGED <<author, versions, comment, folder, shared, timers, starts, answered, removed>>

\* Mutant: only an edit leaves a version.
SaveVersion_Wrong(r) ==
  /\ At(r, "version") /\ doc # None
  /\ versions' = IF request[r].op \in {"write", "edit"} THEN versions \cup {request[r].text} ELSE versions
  /\ answered' = IF request[r].op = "edit" THEN answered \cup {request[r].id} ELSE answered
  /\ Goes(r, Idle)
  /\ UNCHANGED <<doc, author, comment, folder, shared, timers, starts, expected, removed, excused>>

\* The last step of createDocument, updateDocument and applyOps.
SaveVersion(r) ==
  /\ At(r, "version") /\ doc # None
  /\ versions' = versions \cup {request[r].text}
  /\ answered' = IF request[r].op = "edit" THEN answered \cup {request[r].id} ELSE answered
  /\ Goes(r, Idle)
  /\ UNCHANGED <<doc, author, comment, folder, shared, timers, starts, expected, removed, excused>>

\* The shared text is dropped before the row is.
RemoveDocument(r) ==
  /\ request[r] = Idle /\ Counts
  /\ Goes(r, Request("remove", "deleteDocument", None, <<"document">>, None))
  /\ shared' = None
  /\ excused' = IF Unanswered # {} THEN excused \cup {<<"shared">>} ELSE excused
  /\ UNCHANGED <<rows, timers, expected, answered, removed>>

DeleteDocument(r) ==
  /\ At(r, "deleteDocument")
  /\ NoDocument
  /\ Goes(r, Idle)
  /\ UNCHANGED <<folder, shared, timers, starts, history>>

-----------------------------------------------------------------------------
(* applyOps, getUserPermission and getYDoc *)

\* The gateway takes whatever user the message names, or none.
Edit(r) == \E u \in Users \cup {None} : Starts(r, Request("edit", "readRow", u, <<"text">>, None))

ReadRow(r) ==
  /\ At(r, "readRow")
  /\ Goes(r, IF doc = None THEN Idle
             ELSE [request[r] EXCEPT !.pc = "checkAuthor", !.home = doc.folder, !.at = doc.folder])
  /\ UNCHANGED <<rows, shared, timers, starts, history>>

\* Mutant: the edit goes into a copy of the text that is shared.
Apply_Wrong(r, text) ==
  /\ shared' = IF shared = None THEN text ELSE shared
  /\ Goes(r, [request[r] EXCEPT !.pc = "saveEdit", !.text = text \cup {request[r].id}])

\* The edit goes into text, which is the shared one from then on, and its row is saved next.
Apply(r, text) ==
  /\ shared' = text \cup {request[r].id}
  /\ Goes(r, [request[r] EXCEPT !.pc = "saveEdit", !.text = shared'])

\* An allowed edit takes the shared text, or has to load it.
OpenText(r) ==
  IF shared # None THEN Apply(r, shared)
  ELSE Goes(r, [request[r] EXCEPT !.pc = "loadText"]) /\ UNCHANGED shared

\* The query for the member that is u: without an id it has no condition, and finds any member.
Matches(member, u) == member # None /\ (u = None \/ member = u)

CheckAuthor(r) ==
  /\ At(r, "checkAuthor")
  /\ IF Matches(author, request[r].by) THEN OpenText(r)
     ELSE /\ Goes(r, IF request[r].at = None THEN Idle ELSE [request[r] EXCEPT !.pc = "checkFolder"])
          /\ UNCHANGED shared
  /\ UNCHANGED <<rows, timers, starts, history>>

CheckFolder(r) ==
  /\ At(r, "checkFolder")
  /\ IF Exists(request[r].at) /\ Matches(folder[request[r].at].owner, request[r].by) THEN OpenText(r)
     ELSE Goes(r, [request[r] EXCEPT !.pc = "nextFolder"]) /\ UNCHANGED shared
  /\ UNCHANGED <<rows, timers, starts, history>>

\* The document came with its folder's id alone, without a parent: then, and above every folder
\* without a parent, the query has no condition and finds the first of all folders.
NextFolder(r) ==
  /\ At(r, "nextFolder")
  /\ LET q == request[r]
         there == {f \in Folders : Exists(f)}
         found == IF q.up # None THEN {q.up} \cap there ELSE {f \in there : \A g \in there : f <= g}
     IN Goes(r, IF found = {} THEN Idle
                ELSE LET f == CHOOSE g \in found : TRUE
                     IN [q EXCEPT !.pc = "checkFolder", !.at = f, !.up = folder[f].parent])
  /\ UNCHANGED <<rows, shared, timers, starts, history>>

LoadText(r) ==
  /\ At(r, "loadText")
  /\ Goes(r, IF doc = None THEN Idle ELSE [request[r] EXCEPT !.pc = "shareText", !.text = doc.text])
  /\ UNCHANGED <<rows, shared, timers, starts, history>>

\* The loaded text takes the place of one that was shared meanwhile.
ShareText(r) ==
  /\ At(r, "shareText")
  /\ Apply(r, request[r].text)
  /\ timers' = timers + 1
  /\ answered' = {}
  /\ excused' = IF shared # None \/ Unanswered # {} THEN excused \cup {<<"shared">>} ELSE excused
  /\ UNCHANGED <<rows, starts, expected, removed>>

\* Mutant: the row keeps the text it was read with.
SaveEdit_Wrong(r) ==
  /\ At(r, "saveEdit") /\ doc # None
  /\ LET q == request[r]
     IN /\ Refers(q.home)
        /\ doc' = [text |-> doc.text, folder |-> IF q.home = None THEN doc.folder ELSE q.home]
        /\ expected' = expected \cup {q.id}
        /\ Goes(r, [q EXCEPT !.pc = "version", !.text = doc.text])
  /\ UNCHANGED <<author, versions, comment, folder, shared, timers, starts, answered, removed, excused>>

\* The row gets the shared text, and the folder it was read with.
SaveEdit(r) ==
  /\ At(r, "saveEdit") /\ doc # None
  /\ LET q == request[r]
     IN /\ Refers(q.home)
        /\ doc' = [text |-> q.text, folder |-> IF q.home = None THEN doc.folder ELSE q.home]
        /\ expected' = expected \cup {q.id}
        /\ Goes(r, [q EXCEPT !.pc = "version"])
  /\ UNCHANGED <<author, versions, comment, folder, shared, timers, starts, answered, removed, excused>>

\* A timer drops the text that is shared when it ends, be it the one it was set for or a later one.
Expire ==
  /\ timers > 0
  /\ timers' = timers - 1
  /\ shared' = None
  /\ excused' = IF Unanswered # {} THEN excused \cup {<<"shared">>} ELSE excused
  /\ UNCHANGED <<rows, request, starts, expected, answered, removed>>

-----------------------------------------------------------------------------
(* addDocumentComment, updateDocumentComment, removeDocumentComment *)

AddComment(r) ==
  \E u \in Users, c \in Comments :
    /\ comment[c] = None /\ Comment(c) \notin removed /\ \A s \in Busy : request[s].about # Comment(c)
    /\ Starts(r, Request("add", "checkReader", u, Comment(c), None))

ChangeComment(r) ==
  \E op \in {"change", "drop"}, u \in Users, c \in Comments : Starts(r, Request(op, "findComment", u, Comment(c), None))

FindComment(r) ==
  /\ At(r, "findComment")
  /\ Goes(r, IF comment[request[r].about[2]] # request[r].by THEN Idle ELSE [request[r] EXCEPT !.pc = "checkReader"])
  /\ UNCHANGED <<rows, shared, timers, starts, history>>

\* ensureDocumentReadable: of the folders only the document's own counts.
Reads(u) == doc # None /\ (author = u \/ (Exists(doc.folder) /\ folder[doc.folder].owner = u))

CheckReader(r) ==
  /\ At(r, "checkReader")
  /\ Goes(r, IF ~Reads(request[r].by) THEN Idle
             ELSE [request[r] EXCEPT !.pc = IF request[r].op = "drop" THEN "deleteComment" ELSE "saveComment"])
  /\ UNCHANGED <<rows, shared, timers, starts, history>>

\* A comment that was removed meanwhile is inserted again.
SaveComment(r) ==
  /\ At(r, "saveComment") /\ doc # None
  /\ comment' = [comment EXCEPT ![request[r].about[2]] = request[r].by]
  /\ Goes(r, Idle)
  /\ UNCHANGED <<doc, author, versions, folder, shared, timers, starts, history>>

DeleteComment(r) ==
  /\ At(r, "deleteComment")
  /\ comment' = [comment EXCEPT ![request[r].about[2]] = None]
  /\ removed' = removed \cup {request[r].about}
  /\ Goes(r, Idle)
  /\ UNCHANGED <<doc, author, versions, folder, shared, timers, starts, expected, answered, excused>>

-----------------------------------------------------------------------------
Ask(r) ==
  \/ CreateFolder(r) \/ UpdateFolder(r)
  \/ CreateDocument(r) \/ UpdateDocument(r) \/ RemoveDocument(r) \/ Edit(r)
  \/ AddComment(r) \/ ChangeComment(r)

Handle(r) ==
  \/ FindParent(r) \/ NewFolder(r) \/ OwnFolder(r) \/ FindFolder(r) \/ SaveFolder(r)
  \/ NewDocument(r) \/ OwnDocument(r) \/ FindDocument(r) \/ SaveDocument(r) \/ SaveVersion(r) \/ DeleteDocument(r)
  \/ ReadRow(r) \/ CheckAuthor(r) \/ CheckFolder(r) \/ NextFolder(r) \/ LoadText(r) \/ ShareText(r) \/ SaveEdit(r)
  \/ FindComment(r) \/ CheckReader(r) \/ SaveComment(r) \/ DeleteComment(r)
  \/ Fail(r)

Next ==
  \/ \E r \in Requests : Ask(r) \/ Handle(r)
  \/ \E f \in Folders : RemoveFolder(f)
  \/ Expire

Spec == Init /\ [][Next]_vars

-----------------------------------------------------------------------------
(* Properties *)

(* getYDoc and applyOps: from the time it was loaded to the time it is     *)
(* dropped, the shared text has every edit that was answered, also where   *)
(* edits cross; unless two first edits loaded it at once, or it was        *)
(* dropped under an edit.                                                  *)
SharedTextGrows == shared # None /\ <<"shared">> \notin excused => answered \subseteq shared

(* applyOps and updateDocument: when nothing is in progress the row has    *)
(* the text the answers told; unless requests that write it crossed, an    *)
(* edit failed after it went into the shared text, or a new text was       *)
(* written while an older one was shared.                                  *)
TextKept ==
  doc # None /\ <<"text">> \notin excused /\ (\A r \in Busy : request[r].about # <<"text">>) => doc.text = expected

(* saveVersion: when nothing is in progress the text of the document is    *)
(* one of its versions, whatever crossed; unless its request failed in     *)
(* between.                                                                *)
VersionsKeepUp ==
  doc # None /\ <<"versions">> \notin excused /\ (\A r \in Busy : request[r].about # <<"text">>) => doc.text \in versions

(* saveVersion and the foreign keys: the rows fit together, and the text   *)
(* of a document that is left alone is one of its versions.                *)
Consistent == TypeOK /\ VersionsKeepUp

(* "Folder permission (inheritance)", doc-permission.service.ts:36: where   *)
(* nothing failed and nothing crossed, a user whose edit is let through    *)
(* for a folder owns the folder of the document or one above it.           *)
GrantInherited ==
  \A r \in Busy :
    /\ excused = {}
    /\ request[r].op = "edit" /\ request[r].pc \in {"loadText", "shareText", "saveEdit"}
    /\ request[r].by # None /\ request[r].home # None
    => request[r].home \in Inside(request[r].at)

(* removeFolder, removeDocumentComment: what was removed does not come     *)
(* back; unless a change of it had been found before it was removed.       *)
RemovedStaysRemoved ==
  /\ \A f \in Folders : Folder(f) \in removed \ excused => folder[f] = None
  /\ \A c \in Comments : Comment(c) \in removed \ excused => comment[c] = None
=============================================================================
