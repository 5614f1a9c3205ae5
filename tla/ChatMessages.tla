---------------------------- MODULE ChatMessages ----------------------------
(***************************************************************************)
(* ChatService (src/src/modules/chat): the messages of a channel, their    *)
(* threads, their search index and what is attached to them, query by      *)
(* query.                                                                  *)
(*                                                                         *)
(* editMessage and deleteMessage load a message with its files and its     *)
(* link preview and save all of it an await later: every column that       *)
(* differs from the row by then is written back, what is attached is made  *)
(* to agree with what was loaded.  Rows are never removed: a deleted       *)
(* message is one that says so.                                            *)
(*                                                                         *)
(* Messages of a DM room go through the same code and have no threads.     *)
(* A message is a text or a file; captions of files, who writes, quotes     *)
(* (replyTo), times and wording are left out, and so are the broadcasts:   *)
(* the gateway sends what the service returns.                             *)
(***************************************************************************)
EXTENDS Integers, FiniteSets

CONSTANTS Messages, Contents, Calls, None

ASSUME NoneAssumption == None \notin Messages \cup Contents \cup Calls
ASSUME FiniteAssumption == IsFiniteSet(Messages) /\ IsFiniteSet(Calls)

VARIABLES
  row,       \* the row of each message
  search,    \* the text message_search has for it
  fetching,  \* messages whose link preview is being fetched
  call,      \* the requests in progress
  uncounted, \* history: replies posted by sendChannelMessage, which counts none
  raced      \* history: messages written while another call was at work on
             \* them, or that a failed call left half written

history == <<uncounted, raced>>
vars == <<row, search, fetching, call, history>>

NoRow == [posted |-> FALSE]

Row(parent, content) ==
  [posted |-> TRUE, parent |-> parent, content |-> content, deleted |-> FALSE, threadCount |-> 0, parts |-> {}]

RowRecord ==
  [posted : {TRUE}, parent : Messages \cup {None}, content : Contents \cup {None}, deleted : BOOLEAN,
   threadCount : Nat, parts : SUBSET {"file", "preview"}]

Idle == [phase |-> "idle"]

\* A request about the message m; row is what it will save, file whether a file comes with it.
Call(op, phase, m, r, file) == [op |-> op, phase |-> phase, message |-> m, row |-> r, file |-> file]

CallRecord ==
  [op : {"send", "reply", "edit", "delete"},
   phase : {"count", "link", "index", "reindex", "unindex", "save"},
   message : Messages, row : RowRecord, file : BOOLEAN]

(* Rows, index and requests are of their types; only posted messages are   *)
(* replied to, indexed or waiting for a preview.                           *)
TypeOK ==
  /\ row \in [Messages -> {NoRow} \cup RowRecord]
  /\ search \in [Messages -> Contents \cup {None}]
  /\ call \in [Calls -> {Idle} \cup CallRecord]
  /\ \A m \in Messages : row[m].posted /\ row[m].parent # None => row[row[m].parent].posted
  /\ \A m \in Messages : search[m] # None \/ m \in fetching => row[m].posted
  /\ uncounted \subseteq Messages /\ fetching \subseteq Messages
  /\ raced \subseteq Messages

Init ==
  /\ row = [m \in Messages |-> NoRow]
  /\ search = [m \in Messages |-> None]
  /\ fetching = {}
  /\ call = [c \in Calls |-> Idle]
  /\ uncounted = {} /\ raced = {}

Goto(c, phase) == call' = [call EXCEPT ![c].phase = phase]

Done(c) == call' = [call EXCEPT ![c] = Idle]

\* The request c has loaded m, or has more to do on it.
AtWork(c, m) ==
  call[c].phase \in {"link", "index", "reindex", "unindex", "save"} /\ call[c].message = m

\* The history raced after c, or None for no request, has written m.
Crossed(c, m) == IF \E d \in Calls \ {c} : AtWork(d, m) THEN raced \cup {m} ELSE raced
-----------------------------------------------------------------------------
(***************************************************************************)
(* Sending.  An operator whose name ends in _Wrong is a plausible slip in  *)
(* the definition after it, used by mutants only.                          *)
(***************************************************************************)
\* A text may have a link, whose preview is fetched behind the request.
Fetch(m) == fetching' \in {fetching, fetching \cup {m}}

\* Rows stay, and so do their parents: a message is checked for what it
\* answers and inserted in one action.
Post(c, op, phase, m, r, file) ==
  /\ call[c].phase = "idle" /\ ~row[m].posted
  /\ row' = [row EXCEPT ![m] = r]
  /\ call' = [call EXCEPT ![c] = Call(op, phase, m, r, file)]
  /\ UNCHANGED <<search, raced>>

\* sendChannelMessage posts into the channel or into a thread, but not into
\* a thread inside a thread.
Open(p) == p # None => row[p].posted /\ row[p].parent = None

\* A long text becomes a file.
SendText(c, m, p, b) ==
  /\ Open(p)
  /\ Post(c, "send", "index", m, Row(p, b), FALSE)
  /\ Fetch(m)
  /\ uncounted' = IF p = None THEN uncounted ELSE uncounted \cup {m}

SendFile(c, m, p) ==
  /\ Open(p)
  /\ Post(c, "send", "link", m, Row(p, None), TRUE)
  /\ uncounted' = IF p = None THEN uncounted ELSE uncounted \cup {m}
  /\ UNCHANGED fetching

\* sendThreadMessage: the parent is loaded without its own parent, so that
\* "parent.threadParent" is undefined, and any message may get a thread.
\* b is None for a file.
SendReply(c, m, p, b) ==
  /\ row[p].posted
  /\ Post(c, "reply", "count", m, Row(p, b), b = None)
  /\ UNCHANGED <<fetching, uncounted>>

\* increment is one UPDATE, on whatever the row holds.
Counted(c) == row[call[c].row.parent].threadCount + 1

Count(c) ==
  /\ call[c].phase = "count"
  /\ row' = [row EXCEPT ![call[c].row.parent].threadCount = Counted(c)]
  /\ raced' = Crossed(c, call[c].row.parent)
  /\ IF call[c].file THEN Goto(c, "link") ELSE Done(c)
  /\ UNCHANGED <<search, fetching, uncounted>>

LinkFile(c) ==
  /\ call[c].phase = "link"
  /\ row' = [row EXCEPT ![call[c].message].parts = @ \cup {"file"}]
  /\ raced' = Crossed(c, call[c].message)
  /\ Done(c)
  /\ UNCHANGED <<search, fetching, uncounted>>

\* indexChannelMessage: a message without text has returned before.
Index(c) ==
  /\ call[c].phase = "index"
  /\ search' = [search EXCEPT ![call[c].message] = call[c].row.content]
  /\ raced' = Crossed(c, call[c].message)
  /\ Done(c)
  /\ UNCHANGED <<row, fetching, uncounted>>

\* The preview has arrived and is saved ...
Preview(m) ==
  /\ m \in fetching
  /\ fetching' = fetching \ {m}
  /\ row' = [row EXCEPT ![m].parts = @ \cup {"preview"}]
  /\ raced' = Crossed(None, m)
  /\ UNCHANGED <<search, call, uncounted>>

\* ... or there is none.
NoPreview(m) ==
  /\ m \in fetching
  /\ fetching' = fetching \ {m}
  /\ UNCHANGED <<row, search, call, history>>
-----------------------------------------------------------------------------
(***************************************************************************)
(* Editing and deleting.                                                   *)
(***************************************************************************)
Edited_Wrong(m, b) == [row[m] EXCEPT !.content = b, !.deleted = FALSE]

Edited(m, b) == [row[m] EXCEPT !.content = b]

\* A deleted message may still be edited.
BeginEdit(c, m, b) ==
  /\ call[c].phase = "idle" /\ row[m].posted
  /\ call' = [call EXCEPT ![c] = Call("edit", "reindex", m, Edited(m, b), FALSE)]
  /\ UNCHANGED <<row, search, fetching, history>>

Reindexed_Wrong(c) == call[c].row.content

\* updateSearchIndex writes the row that is there, and adds none.
Reindexed(c) == IF search[call[c].message] = None THEN None ELSE call[c].row.content

Reindex(c) ==
  /\ call[c].phase = "reindex"
  /\ search' = [search EXCEPT ![call[c].message] = Reindexed(c)]
  /\ raced' = Crossed(c, call[c].message)
  /\ Goto(c, "save")
  /\ UNCHANGED <<row, fetching, uncounted>>

Erased_Wrong(m) == [row[m] EXCEPT !.deleted = TRUE, !.content = None, !.parts = {}]

Erased_Reset_Wrong(m) == [row[m] EXCEPT !.deleted = TRUE, !.content = None, !.threadCount = 0]

Erased(m) == [row[m] EXCEPT !.deleted = TRUE, !.content = None, !.parts = @ \ {"file"}]

BeginDelete(c, m) ==
  /\ call[c].phase = "idle" /\ row[m].posted
  /\ call' = [call EXCEPT ![c] = Call("delete", "unindex", m, Erased(m), FALSE)]
  /\ UNCHANGED <<row, search, fetching, history>>

Unindex(c) ==
  /\ call[c].phase = "unindex"
  /\ search' = [search EXCEPT ![call[c].message] = None]
  /\ raced' = Crossed(c, call[c].message)
  /\ Goto(c, "save")
  /\ UNCHANGED <<row, fetching, uncounted>>

\* save of the loaded message: an edit brings back what it loaded, a delete
\* takes all files there are.
Save(c) ==
  /\ call[c].phase = "save"
  /\ LET m == call[c].message IN
     /\ row' = [row EXCEPT ![m] = call[c].row]
     /\ raced' = Crossed(c, m)
  /\ Done(c)
  /\ UNCHANGED <<search, fetching, uncounted>>

\* PostgreSQL fails the request where it stands: what it had written stays.
Fail(c) ==
  /\ call[c].phase # "idle"
  /\ Done(c)
  /\ raced' = CASE call[c].phase = "count" -> raced \cup {call[c].row.parent}
                 [] call[c].phase \in {"index", "save"} -> raced \cup {call[c].message}
                 [] OTHER -> raced
  /\ UNCHANGED <<row, search, fetching, uncounted>>

Next ==
  \/ \E c \in Calls :
       \/ \E m \in Messages :
            \/ \E p \in Messages \cup {None} :
                 SendFile(c, m, p) \/ \E b \in Contents : SendText(c, m, p, b)
            \/ \E p \in Messages, b \in Contents \cup {None} : SendReply(c, m, p, b)
            \/ \E b \in Contents : BeginEdit(c, m, b)
            \/ BeginDelete(c, m)
       \/ Count(c) \/ LinkFile(c) \/ Index(c)
       \/ Reindex(c) \/ Unindex(c) \/ Save(c)
       \/ Fail(c)
  \/ \E m \in Messages : Preview(m) \/ NoPreview(m)

Spec == Init /\ [][Next]_vars
-----------------------------------------------------------------------------
(***************************************************************************)
(* Properties.                                                             *)
(***************************************************************************)
Replies(p) == {m \in Messages : row[m].posted /\ row[m].parent = p}

\* Calls that have posted a reply to p and not counted it.
Counting(p) == {c \in Calls : call[c].phase = "count" /\ call[c].row.parent = p}

(* A thread never shows more replies than it has; it shows all that were   *)
(* counted, unless a save brought an old count back or a request failed    *)
(* before it counted.                                                      *)
ThreadsCounted ==
  \A p \in Messages : row[p].posted =>
    LET counted == row[p].threadCount + Cardinality(Counting(p)) IN
    /\ counted <= Cardinality(Replies(p) \ uncounted)
    /\ p \notin raced => counted = Cardinality(Replies(p) \ uncounted)

(* sendThreadMessage, deleteMessage and restoreMessage: the rows fit       *)
(* together and the count of a thread fits its replies.                    *)
Consistent == TypeOK /\ ThreadsCounted

(* What was deleted stays deleted, also when it is edited afterwards,      *)
(* unless an edit had loaded it before.                                    *)
DeletedStaysDeleted ==
  [][\A m \in Messages : row[m].posted /\ row[m].deleted => row'[m].deleted \/ m \in raced']_vars

(* A search finds a message by the text it has, and no deleted message,    *)
(* once the requests about it are done.                                    *)
SearchMatches ==
  \A m \in Messages \ raced :
    search[m] # None /\ (\A c \in Calls : ~AtWork(c, m)) =>
      search[m] = row[m].content /\ ~row[m].deleted

(* A message loses its file only by being deleted, and its link preview    *)
(* not even then, unless a save had loaded it without.                     *)
AttachmentsStay ==
  [][\A m \in Messages : row[m].posted =>
       \A x \in row[m].parts \ row'[m].parts :
         m \in raced' \/ (x = "file" /\ row'[m].deleted)]_vars

(* "Threads inside threads cannot be created" (chat.service.ts:968).       *)
NoNestedThreads ==
  \A m \in Messages : row[m].posted /\ row[m].parent # None => row[row[m].parent].parent = None
=============================================================================
