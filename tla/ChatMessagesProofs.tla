-------------------------- MODULE ChatMessagesProofs --------------------------
(***************************************************************************)
(* ChatMessages keeps its invariants, and no step breaks its promises, for *)
(* any number of messages, texts and requests.                             *)
(***************************************************************************)
EXTENDS ChatMessages, FiniteSetTheorems, TLAPS

\* Requests that will save a message they have loaded.
Loads(q) == q.phase \in {"reindex", "unindex", "save"}

\* A request is about a message that is there, and knows where it was posted.
CallOK(q) ==
  q.phase # "idle" =>
    /\ row[q.message].posted
    /\ q.row.parent = row[q.message].parent
    /\ q.phase = "count" => q.row.parent \in Messages /\ row[q.row.parent].posted
    /\ q.phase = "reindex" => q.op = "edit"
    /\ q.phase = "unindex" => q.op = "delete"
    /\ q.phase = "save" => q.op \in {"edit", "delete"}

CallsOK == \A c \in Calls : CallOK(call[c])

\* What q has loaded of r is still there, but for what q itself changes.
Fits(q, r) ==
  /\ Loads(q) => q.row.threadCount = r.threadCount
  /\ Loads(q) /\ q.op = "edit" => q.row.deleted = r.deleted /\ q.row.parts = r.parts
  /\ Loads(q) /\ q.op = "delete" => q.row.deleted = TRUE /\ q.row.parts = r.parts \ {"file"}
  /\ q.phase = "index" => q.row.content = r.content /\ r.deleted = FALSE

Current(q) == q.phase # "idle" /\ q.message \notin raced => Fits(q, row[q.message])

LoadedCurrent == \A c \in Calls : Current(call[c])

\* The number of replies that are counted or about to be.
Countable(p) == Cardinality(Replies(p) \ uncounted)

\* Also the count that a save may bring back is within the replies.
Within(q) ==
  Loads(q) => q.row.threadCount + Cardinality(Counting(q.message)) <= Countable(q.message)

LoadedCounts == \A c \in Calls : Within(call[c])

UncountedPosted == \A m \in uncounted : row[m].posted

\* The index has the text that is there, or the one that is about to be saved.
Indexed(m) == search[m] = row[m].content /\ row[m].deleted = FALSE

Saving(c, m) == call[c].phase = "save" /\ call[c].message = m

Agrees(m) == m \notin raced /\ search[m] # None => Indexed(m) \/ \E c \in Calls : Saving(c, m)

IndexAgrees == \A m \in Messages : Agrees(m)

Ahead(q) ==
  q.phase = "save" /\ q.message \notin raced /\ search[q.message] # None =>
    search[q.message] = q.row.content /\ q.row.deleted = FALSE

IndexAhead == \A c \in Calls : Ahead(call[c])

IInv ==
  /\ TypeOK /\ CallsOK
  /\ LoadedCurrent /\ LoadedCounts
  /\ UncountedPosted /\ ThreadsCounted
  /\ IndexAgrees /\ IndexAhead

-----------------------------------------------------------------------------
(***************************************************************************)
(* Types, and the sets that are counted.                                   *)
(***************************************************************************)
(* A message is posted when it has a row.                                  *)
LEMMA RowTypes ==
  ASSUME TypeOK, NEW m \in Messages
  PROVE  /\ row[m] = NoRow \/ row[m] \in RowRecord
         /\ row[m].posted <=> row[m] \in RowRecord
         /\ row[m].posted => /\ row[m].parent \in Messages \cup {None}
                             /\ row[m].deleted \in BOOLEAN
                             /\ row[m].threadCount \in Nat
                             /\ row[m].content \in Contents \cup {None}
                             /\ row[m].parts \subseteq {"file", "preview"}
         /\ search[m] # None \/ m \in fetching => row[m].posted
         /\ row[m].posted /\ row[m].parent # None => row[row[m].parent].posted
  <1>1. row[m] = NoRow \/ row[m] \in RowRecord BY DEF TypeOK
  <1>2. NoRow.posted = FALSE BY DEF NoRow
  <1>3. \A r \in RowRecord : r.posted = TRUE /\ r.parent \in Messages \cup {None}
          /\ r.deleted \in BOOLEAN /\ r.threadCount \in Nat /\ r.content \in Contents \cup {None}
          /\ r.parts \subseteq {"file", "preview"}
    BY DEF RowRecord
  <1>4. search[m] # None \/ m \in fetching => row[m].posted BY DEF TypeOK
  <1>5. row[m].posted /\ row[m].parent # None => row[row[m].parent].posted BY DEF TypeOK
  <1> QED BY <1>1, <1>2, <1>3, <1>4, <1>5

LEMMA CallTypes ==
  ASSUME TypeOK, NEW c \in Calls
  PROVE  /\ call[c] = Idle \/ call[c] \in CallRecord
         /\ call[c].phase # "idle" <=> call[c] \in CallRecord
         /\ call[c].phase # "idle" => /\ call[c].message \in Messages /\ call[c].row \in RowRecord
                                      /\ call[c].row.parent \in Messages \cup {None}
                                      /\ call[c].row.threadCount \in Nat
  <1>1. call[c] = Idle \/ call[c] \in CallRecord BY DEF TypeOK
  <1>2. Idle.phase = "idle" BY DEF Idle
  <1>3. \A q \in CallRecord : q.phase # "idle" /\ q.message \in Messages /\ q.row \in RowRecord
    BY DEF CallRecord
  <1>4. \A r \in RowRecord : r.parent \in Messages \cup {None} /\ r.threadCount \in Nat
    BY DEF RowRecord
  <1> QED BY <1>1, <1>2, <1>3, <1>4

(* Only finitely many replies and requests are counted.                    *)
LEMMA Finite ==
  ASSUME NEW p
  PROVE  /\ IsFiniteSet(Replies(p) \ uncounted) /\ IsFiniteSet(Counting(p))
         /\ Countable(p) \in Nat /\ Cardinality(Counting(p)) \in Nat
  <1>1. Replies(p) \ uncounted \subseteq Messages BY DEF Replies
  <1>2. Counting(p) \subseteq Calls BY DEF Counting
  <1>3. IsFiniteSet(Messages) /\ IsFiniteSet(Calls) BY FiniteAssumption
  <1>4. IsFiniteSet(Replies(p) \ uncounted) BY <1>1, <1>3, FS_Subset
  <1>5. IsFiniteSet(Counting(p)) BY <1>2, <1>3, FS_Subset
  <1> QED BY <1>4, <1>5, FS_CardinalityType DEF Countable

LEMMA FinitePrimed ==
  ASSUME NEW p
  PROVE  (IsFiniteSet(Replies(p) \ uncounted) /\ Countable(p) \in Nat /\ Cardinality(Counting(p)) \in Nat)'
  <1>1. (Replies(p) \ uncounted)' \subseteq Messages BY DEF Replies
  <1>2. Counting(p)' \subseteq Calls BY DEF Counting
  <1>3. IsFiniteSet(Messages) /\ IsFiniteSet(Calls) BY FiniteAssumption
  <1>4. IsFiniteSet((Replies(p) \ uncounted)') BY <1>1, <1>3, FS_Subset
  <1>5. IsFiniteSet(Counting(p)') BY <1>2, <1>3, FS_Subset
  <1> QED BY <1>4, <1>5, FS_CardinalityType DEF Countable

(* What ThreadsCounted says of one message.                                *)
Fair(p) ==
  row[p].posted =>
    /\ row[p].threadCount + Cardinality(Counting(p)) <= Countable(p)
    /\ p \notin raced => row[p].threadCount + Cardinality(Counting(p)) = Countable(p)

LEMMA ThreadsAre == ThreadsCounted <=> \A p \in Messages : Fair(p)
  BY DEF ThreadsCounted, Fair, Countable

-----------------------------------------------------------------------------
(***************************************************************************)
(* A step of the request c, or of no request, that writes no message but m.*)
(***************************************************************************)
Wrote(m) == row'[m] # row[m] \/ search'[m] # search[m]

Step(c, m) ==
  /\ \A k \in Messages : row[k].posted => row'[k].posted /\ row'[k].parent = row[k].parent
  /\ \A k \in Messages : k # m => ~Wrote(k)
  /\ \A d \in Calls : d # c => call'[d] = call[d]
  /\ raced \subseteq raced'
  /\ \A d \in Calls : d # c /\ AtWork(d, m) => m \in raced' \/ ~Wrote(m)

(* Other requests are left in order: what was written under one of them    *)
(* has become raced.                                                       *)
LEMMA OthersKept ==
  ASSUME TypeOK, CallsOK, LoadedCurrent, IndexAhead, NEW c, NEW m \in Messages, Step(c, m),
         NEW d \in Calls, d # c
  PROVE  CallOK(call[d])' /\ Current(call[d])' /\ Ahead(call[d])'
  <1>1. PICK q : q = call[d] OBVIOUS
  <1>2. call'[d] = q BY <1>1 DEF Step
  <1>3. CallOK(q) /\ Current(q) /\ Ahead(q) BY <1>1 DEF CallsOK, LoadedCurrent, IndexAhead
  <1>4. q.phase # "idle" => q.message \in Messages BY <1>1, CallTypes
  <1>5. \A k \in Messages : row[k].posted => row'[k].posted /\ row'[k].parent = row[k].parent BY DEF Step
  <1>6. CallOK(q)' BY <1>3, <1>4, <1>5 DEF CallOK
  <1>7. CASE q.phase # "idle" /\ q.message = m /\ Wrote(m)
    <2>1. CASE AtWork(d, m)
      <3>1. m \in raced' BY <1>7, <2>1 DEF Step
      <3> QED BY <1>2, <1>6, <1>7, <3>1 DEF Current, Ahead, CallOK
    <2>2. CASE ~AtWork(d, m)
      <3>1. q.phase \notin {"link", "index", "reindex", "unindex", "save"} BY <1>1, <1>7, <2>2 DEF AtWork
      <3>2. Current(q)' /\ Ahead(q)' BY <3>1 DEF Current, Ahead, Fits, Loads
      <3> QED BY <1>2, <1>6, <3>2 DEF CallOK, Current, Ahead
    <2> QED BY <2>1, <2>2
  <1>8. CASE q.phase # "idle" /\ ~(q.message = m /\ Wrote(m))
    <2>1. row'[q.message] = row[q.message] /\ search'[q.message] = search[q.message]
      BY <1>4, <1>8 DEF Step, Wrote
    <2>2. raced \subseteq raced' BY DEF Step
    <2>3. Current(q)' BY <1>3, <2>1, <2>2 DEF Current
    <2>4. Ahead(q)' BY <1>3, <2>1, <2>2 DEF Ahead
    <2> QED BY <1>2, <1>6, <2>3, <2>4 DEF CallOK, Current, Ahead
  <1>9. CASE q.phase = "idle"
    <2>1. Current(q)' /\ Ahead(q)' BY <1>9 DEF Current, Ahead
    <2> QED BY <1>2, <1>6, <2>1 DEF CallOK, Current, Ahead
  <1> QED BY <1>7, <1>8, <1>9

(* The index of the other messages is left in order.                       *)
LEMMA IndexKept ==
  ASSUME IndexAgrees, NEW c, NEW m \in Messages, Step(c, m),
         c \in Calls /\ call[c].phase = "save" => call[c].message = m,
         NEW k \in Messages, k # m
  PROVE  Agrees(k)'
  <1>1. row'[k] = row[k] /\ search'[k] = search[k] /\ raced \subseteq raced' BY DEF Step, Wrote
  <1>2. Agrees(k) BY DEF IndexAgrees
  <1>3. ASSUME NEW d \in Calls, Saving(d, k) PROVE Saving(d, k)'
    <2>1. d # c BY <1>3 DEF Saving
    <2>2. call'[d] = call[d] BY <2>1 DEF Step
    <2> QED BY <1>3, <2>2 DEF Saving
  <1>4. Indexed(k) => Indexed(k)' BY <1>1 DEF Indexed
  <1> QED BY <1>1, <1>2, <1>3, <1>4 DEF Agrees

(* And that of m, when neither it nor a save is touched.                   *)
LEMMA IndexStays ==
  ASSUME IndexAgrees, NEW c, NEW m \in Messages, Step(c, m),
         c \in Calls => call[c].phase # "save",
         search'[m] = search[m], row[m].posted => row'[m].content = row[m].content /\ row'[m].deleted = row[m].deleted,
         TypeOK
  PROVE  IndexAgrees'
  <1>1. \A k \in Messages : k # m => Agrees(k)' BY IndexKept
  <1>2. Agrees(m) /\ (search[m] # None => row[m].posted) BY RowTypes DEF IndexAgrees
  <1>3. ASSUME NEW d \in Calls, Saving(d, m) PROVE Saving(d, m)'
    <2>1. d # c BY <1>3 DEF Saving
    <2>2. call'[d] = call[d] BY <2>1 DEF Step
    <2> QED BY <1>3, <2>2 DEF Saving
  <1>4. raced \subseteq raced' BY DEF Step
  <1>5. search[m] # None /\ Indexed(m) => Indexed(m)' BY <1>2 DEF Indexed
  <1>6. Agrees(m)' BY <1>2, <1>3, <1>4, <1>5 DEF Agrees
  <1> QED BY <1>1, <1>6 DEF IndexAgrees

-----------------------------------------------------------------------------
(***************************************************************************)
(* Steps that post nothing and count nothing.                              *)
(***************************************************************************)
Posts == ~ \A k \in Messages : row'[k].posted => row[k].posted

Counts(c) == c \in Calls /\ (call[c].phase = "count" \/ call'[c].phase = "count")

LEMMA CountableKept ==
  ASSUME NEW c, NEW m, Step(c, m), ~Posts, uncounted' = uncounted, NEW p
  PROVE  Countable(p)' = Countable(p)
  <1>1. \A k \in Messages : row'[k].posted => row[k].posted BY DEF Posts
  <1>2. \A k \in Messages : row[k].posted => row'[k].posted /\ row'[k].parent = row[k].parent BY DEF Step
  <1>3. Replies(p)' = Replies(p) BY <1>1, <1>2 DEF Replies
  <1> QED BY <1>3 DEF Countable

LEMMA CountingKept ==
  ASSUME NEW c, NEW m, Step(c, m), ~Counts(c), NEW p
  PROVE  Counting(p)' = Counting(p)
  <1>1. \A d \in Calls : d # c => call'[d] = call[d] BY DEF Step
  <1>2. c \in Calls => call[c].phase # "count" /\ call'[c].phase # "count" BY DEF Counts
  <1> QED BY <1>1, <1>2 DEF Counting

(* The bounds hold where nothing is written.                               *)
LEMMA FairKept ==
  ASSUME ThreadsCounted, NEW c, NEW m \in Messages, Step(c, m), NEW p \in Messages,
         Countable(p)' = Countable(p), Counting(p)' = Counting(p),
         row[p].posted => row'[p].threadCount = row[p].threadCount, row'[p].posted => row[p].posted
  PROVE  Fair(p)'
  <1>1. Fair(p) /\ raced \subseteq raced' BY ThreadsAre DEF Step
  <1> QED BY <1>1 DEF Fair

LEMMA WithinKept ==
  ASSUME TypeOK, LoadedCounts, NEW c, NEW m, Step(c, m), NEW d \in Calls, call'[d] = call[d],
         \A p \in Messages : Countable(p)' = Countable(p) /\ Counting(p)' = Counting(p)
  PROVE  Within(call[d])'
  <1>1. Within(call[d]) BY DEF LoadedCounts
  <1>2. CASE Loads(call[d])
    <2>1. call[d].message \in Messages BY <1>2, CallTypes DEF Loads
    <2> QED BY <1>1, <2>1 DEF Within, Loads
  <1>3. CASE ~Loads(call[d]) BY <1>3 DEF Within, Loads
  <1> QED BY <1>2, <1>3

(* What is left to show of a step.                                         *)
LEMMA Assembled ==
  ASSUME IInv, TypeOK', NEW c, NEW m \in Messages, Step(c, m),
         c \in Calls => CallOK(call[c])' /\ Current(call[c])' /\ Ahead(call[c])',
         IndexAgrees', UncountedPosted',
         \A p \in Messages : Fair(p)', \A d \in Calls : Within(call[d])'
  PROVE  IInv'
  <1>1. ASSUME NEW d \in Calls PROVE CallOK(call[d])' /\ Current(call[d])' /\ Ahead(call[d])'
    <2>1. CASE d = c BY <2>1
    <2>2. CASE d # c BY <2>2, OthersKept DEF IInv
    <2> QED BY <2>1, <2>2
  <1>2. CallsOK' BY <1>1 DEF CallsOK
  <1>3. LoadedCurrent' BY <1>1 DEF LoadedCurrent
  <1>4. IndexAhead' BY <1>1 DEF IndexAhead
  <1>5. LoadedCounts' BY DEF LoadedCounts
  <1>6. ThreadsCounted' BY DEF ThreadsCounted, Fair, Countable
  <1> QED BY <1>2, <1>3, <1>4, <1>5, <1>6 DEF IInv

(* ... that posts and counts nothing.                                      *)
LEMMA QuietAssembled ==
  ASSUME IInv, TypeOK', NEW c, NEW m \in Messages, Step(c, m),
         ~Posts, uncounted' = uncounted, ~Counts(c),
         c \in Calls => CallOK(call[c])' /\ Current(call[c])' /\ Ahead(call[c])',
         c \in Calls /\ Loads(call[c])' =>
           call'[c].row.threadCount + Cardinality(Counting(call'[c].message)) <= Countable(call'[c].message),
         IndexAgrees',
         row'[m].threadCount # row[m].threadCount => Fair(m)'
  PROVE  IInv'
  <1>1. \A p \in Messages : Countable(p)' = Countable(p) /\ Counting(p)' = Counting(p)
    BY CountableKept, CountingKept
  <1>2. UncountedPosted' BY DEF UncountedPosted, Step, IInv, TypeOK
  <1>3. ASSUME NEW p \in Messages PROVE Fair(p)'
    <2>1. row'[p].posted => row[p].posted BY DEF Posts
    <2>2. p # m => row'[p] = row[p] BY DEF Step, Wrote
    <2>3. CASE row'[p].threadCount = row[p].threadCount
      BY <1>1, <2>1, <2>3, FairKept DEF IInv
    <2>4. CASE row'[p].threadCount # row[p].threadCount BY <2>2, <2>4
    <2> QED BY <2>3, <2>4
  <1>4. ASSUME NEW d \in Calls PROVE Within(call[d])'
    <2>1. CASE d = c
      <3>1. CASE Loads(call[c])'
        <4>1. CallOK(call[c])' /\ call[c]' \in CallRecord BY <2>1, <3>1, CallTypes DEF Loads, TypeOK, CallRecord, Idle
        <4> QED BY <1>1, <2>1, <3>1, <4>1 DEF Within, CallRecord
      <3>2. CASE ~Loads(call[c])' BY <2>1, <3>2 DEF Within
      <3> QED BY <3>1, <3>2
    <2>2. CASE d # c
      <3>1. call'[d] = call[d] BY <2>2 DEF Step
      <3> QED BY <1>1, <3>1, WithinKept DEF IInv
    <2> QED BY <2>1, <2>2
  <1> QED BY <1>2, <1>3, <1>4, Assembled

-----------------------------------------------------------------------------
(***************************************************************************)
(* What the actions assign.                                                *)
(***************************************************************************)
LEMMA CallSet ==
  ASSUME TypeOK, NEW c \in Calls, NEW q, call' = [call EXCEPT ![c] = q]
  PROVE  /\ call'[c] = q
         /\ \A d \in Calls : d # c => call'[d] = call[d]
         /\ q \in {Idle} \cup CallRecord => call' \in [Calls -> {Idle} \cup CallRecord]
  <1>1. call \in [Calls -> {Idle} \cup CallRecord] BY DEF TypeOK
  <1> QED BY <1>1

LEMMA RowSet ==
  ASSUME TypeOK, NEW m \in Messages, NEW r \in RowRecord, row' = [row EXCEPT ![m] = r],
         r.parent # None => row[r.parent].posted,
         row[m].posted => r.parent = row[m].parent
  PROVE  /\ row'[m] = r
         /\ \A k \in Messages : k # m => row'[k] = row[k]
         /\ \A k \in Messages : row[k].posted => row'[k].posted /\ row'[k].parent = row[k].parent
         /\ row[m].posted => ~Posts
         /\ row' \in [Messages -> {NoRow} \cup RowRecord]
         /\ \A k \in Messages : row'[k].posted /\ row'[k].parent # None => row'[row'[k].parent].posted
  <1>1. row \in [Messages -> {NoRow} \cup RowRecord] BY DEF TypeOK
  <1>2. row'[m] = r /\ \A k \in Messages : k # m => row'[k] = row[k] BY <1>1
  <1>3. row' \in [Messages -> {NoRow} \cup RowRecord] BY <1>1
  <1>4. r.posted /\ r.parent \in Messages \cup {None} BY DEF RowRecord
  <1>5. \A k \in Messages : row[k].posted => row'[k].posted /\ row'[k].parent = row[k].parent
    BY <1>2, <1>4
  <1>6. row[m].posted => ~Posts BY <1>2 DEF Posts
  <1>7. ASSUME NEW k \in Messages, row'[k].posted, row'[k].parent # None
        PROVE  row'[row'[k].parent].posted
    <2>1. CASE k = m BY <1>2, <1>4, <1>5, <1>7, <2>1
    <2>2. CASE k # m
      <3>1. row[k].posted /\ row[k].parent # None BY <1>2, <1>7, <2>2
      <3>2. row[k].parent \in Messages /\ row[row[k].parent].posted BY <3>1, RowTypes
      <3> QED BY <1>2, <1>5, <2>2, <3>2
    <2> QED BY <2>1, <2>2
  <1> QED BY <1>2, <1>3, <1>5, <1>6, <1>7

LEMMA SearchSet ==
  ASSUME TypeOK, NEW m \in Messages, NEW s \in Contents \cup {None}, search' = [search EXCEPT ![m] = s]
  PROVE  /\ search'[m] = s
         /\ \A k \in Messages : k # m => search'[k] = search[k]
         /\ search' \in [Messages -> Contents \cup {None}]
  <1>1. search \in [Messages -> Contents \cup {None}] BY DEF TypeOK
  <1> QED BY <1>1

(* A request that goes on keeps what it carries.                           *)
LEMMA GotoSet ==
  ASSUME TypeOK, NEW c \in Calls, call[c].phase # "idle",
         NEW phase \in {"count", "link", "index", "reindex", "unindex", "save"}, Goto(c, phase)
  PROVE  /\ call'[c] \in CallRecord /\ call'[c].phase = phase
         /\ call'[c].op = call[c].op /\ call'[c].message = call[c].message /\ call'[c].row = call[c].row
         /\ \A d \in Calls : d # c => call'[d] = call[d]
         /\ call' \in [Calls -> {Idle} \cup CallRecord]
  <1>1. call[c] \in CallRecord BY CallTypes
  <1>2. PICK q : q = [call[c] EXCEPT !.phase = phase] OBVIOUS
  <1>3. /\ q \in CallRecord /\ q.phase = phase
        /\ q.op = call[c].op /\ q.message = call[c].message /\ q.row = call[c].row
    BY <1>1, <1>2 DEF CallRecord
  <1>4. call' = [call EXCEPT ![c] = q] BY <1>2 DEF Goto
  <1> QED BY <1>3, <1>4, CallSet

LEMMA DoneSet ==
  ASSUME TypeOK, NEW c \in Calls, Done(c)
  PROVE  /\ call'[c] = Idle /\ call'[c].phase = "idle"
         /\ \A d \in Calls : d # c => call'[d] = call[d]
         /\ call' \in [Calls -> {Idle} \cup CallRecord]
         /\ CallOK(call[c])' /\ Current(call[c])' /\ Ahead(call[c])' /\ Within(call[c])'
         /\ ~Loads(call[c])'
  <1>1. call' = [call EXCEPT ![c] = Idle] BY DEF Done
  <1>2. /\ call'[c] = Idle
        /\ \A d \in Calls : d # c => call'[d] = call[d]
        /\ call' \in [Calls -> {Idle} \cup CallRecord]
    BY <1>1, CallSet
  <1>3. call'[c].phase = "idle" BY <1>2 DEF Idle
  <1> QED BY <1>2, <1>3 DEF CallOK, Current, Ahead, Within, Loads

LEMMA CrossedSet ==
  ASSUME TypeOK, NEW c, NEW m \in Messages, raced' = Crossed(c, m)
  PROVE  /\ raced' \subseteq Messages /\ raced \subseteq raced'
         /\ \A d \in Calls : d # c /\ AtWork(d, m) => m \in raced'
  <1>1. raced \subseteq Messages BY DEF TypeOK
  <1> QED BY <1>1 DEF Crossed

(* What a step of a request does when it writes one message.               *)
LEMMA WriteStep ==
  ASSUME TypeOK, NEW c, NEW m \in Messages, NEW r \in RowRecord,
         row' = [row EXCEPT ![m] = r], row[m].posted, r.parent = row[m].parent,
         search' = search, raced' = Crossed(c, m), \A d \in Calls : d # c => call'[d] = call[d]
  PROVE  Step(c, m) /\ ~Posts /\ row'[m] = r /\ raced' \subseteq Messages
  <1>1. r.parent # None => row[r.parent].posted BY RowTypes
  <1>2. /\ row'[m] = r /\ ~Posts
        /\ \A k \in Messages : k # m => row'[k] = row[k]
        /\ \A k \in Messages : row[k].posted => row'[k].posted /\ row'[k].parent = row[k].parent
    BY <1>1, RowSet
  <1>3. /\ raced' \subseteq Messages /\ raced \subseteq raced'
        /\ \A d \in Calls : d # c /\ AtWork(d, m) => m \in raced'
    BY CrossedSet
  <1> QED BY <1>2, <1>3 DEF Step, Wrote

LEMMA WriteTyped ==
  ASSUME TypeOK, NEW m \in Messages, NEW r \in RowRecord,
         row' = [row EXCEPT ![m] = r], row[m].posted, r.parent = row[m].parent,
         search' = search, fetching' \subseteq fetching, uncounted' = uncounted,
         raced' \subseteq Messages, call' \in [Calls -> {Idle} \cup CallRecord]
  PROVE  TypeOK'
  <1>1. r.parent # None => row[r.parent].posted BY RowTypes
  <1>2. /\ row' \in [Messages -> {NoRow} \cup RowRecord]
        /\ \A k \in Messages : row[k].posted => row'[k].posted
        /\ \A k \in Messages : row'[k].posted /\ row'[k].parent # None => row'[row'[k].parent].posted
    BY <1>1, RowSet
  <1>3. search \in [Messages -> Contents \cup {None}] /\ fetching \subseteq Messages /\ uncounted \subseteq Messages
    BY DEF TypeOK
  <1>4. \A k \in Messages : search[k] # None \/ k \in fetching => row[k].posted BY DEF TypeOK
  <1> QED BY <1>2, <1>3, <1>4 DEF TypeOK

LEMMA IndexStep ==
  ASSUME TypeOK, NEW c, NEW m \in Messages, NEW s \in Contents \cup {None},
         search' = [search EXCEPT ![m] = s], row[m].posted, row' = row, raced' = Crossed(c, m),
         fetching' = fetching, uncounted' = uncounted,
         \A d \in Calls : d # c => call'[d] = call[d], call' \in [Calls -> {Idle} \cup CallRecord]
  PROVE  Step(c, m) /\ ~Posts /\ search'[m] = s /\ TypeOK'
  <1>1. /\ search'[m] = s
        /\ \A k \in Messages : k # m => search'[k] = search[k]
        /\ search' \in [Messages -> Contents \cup {None}]
    BY SearchSet
  <1>2. /\ raced' \subseteq Messages /\ raced \subseteq raced'
        /\ \A d \in Calls : d # c /\ AtWork(d, m) => m \in raced'
    BY CrossedSet
  <1>3. Step(c, m) /\ ~Posts BY <1>1, <1>2 DEF Step, Wrote, Posts
  <1>4. \A k \in Messages : search[k] # None \/ k \in fetching => row[k].posted BY DEF TypeOK
  <1>5. \A k \in Messages : search'[k] # None \/ k \in fetching' => row'[k].posted BY <1>1, <1>4
  <1>6. TypeOK' BY <1>1, <1>2, <1>5 DEF TypeOK
  <1> QED BY <1>1, <1>3, <1>6

-----------------------------------------------------------------------------
(***************************************************************************)
(* The steps of a request that write a message, its index or its files.    *)
(***************************************************************************)
(* What is known of a request that is not idle.                            *)
LEMMA Working ==
  ASSUME IInv, NEW c \in Calls, call[c].phase # "idle"
  PROVE  /\ TypeOK /\ call[c] \in CallRecord /\ CallOK(call[c])
         /\ call[c].message \in Messages /\ call[c].row \in RowRecord
         /\ row[call[c].message] \in RowRecord /\ row[call[c].message].posted
         /\ call[c].row.parent = row[call[c].message].parent
  <1>1. TypeOK BY DEF IInv
  <1>2. call[c] \in CallRecord /\ call[c].message \in Messages /\ call[c].row \in RowRecord
    BY <1>1, CallTypes
  <1>3. CallOK(call[c]) BY DEF IInv, CallsOK
  <1>4. row[call[c].message].posted /\ call[c].row.parent = row[call[c].message].parent
    BY <1>3 DEF CallOK
  <1> QED BY <1>1, <1>2, <1>3, <1>4, RowTypes

(* Adding to what is attached.                                             *)
LEMMA Attached ==
  ASSUME TypeOK, NEW m \in Messages, row[m].posted, NEW x \in {"file", "preview"},
         row' = [row EXCEPT ![m].parts = @ \cup {x}]
  PROVE  \E r \in RowRecord :
           /\ row' = [row EXCEPT ![m] = r]
           /\ r.parent = row[m].parent /\ r.content = row[m].content
           /\ r.deleted = row[m].deleted /\ r.threadCount = row[m].threadCount
           /\ row[m].parts \subseteq r.parts
  <1>1. row[m] \in RowRecord BY RowTypes
  <1>2. PICK r : r = [row[m] EXCEPT !.parts = @ \cup {x}] OBVIOUS
  <1>3. /\ r \in RowRecord
        /\ r.parent = row[m].parent /\ r.content = row[m].content
        /\ r.deleted = row[m].deleted /\ r.threadCount = row[m].threadCount
        /\ row[m].parts \subseteq r.parts
    BY <1>1, <1>2 DEF RowRecord
  <1>4. row' = [row EXCEPT ![m] = r] BY <1>2
  <1> QED BY <1>3, <1>4

LEMMA LinkFileInv == ASSUME IInv, NEW c \in Calls, LinkFile(c) PROVE IInv'
  <1>1. PICK m : m = call[c].message OBVIOUS
  <1>2. call[c].phase = "link" /\ Done(c) /\ UNCHANGED <<search, fetching, uncounted>> BY DEF LinkFile
  <1>3. TypeOK /\ m \in Messages /\ row[m].posted BY <1>1, <1>2, Working
  <1>4. row' = [row EXCEPT ![m].parts = @ \cup {"file"}] /\ raced' = Crossed(c, m)
    BY <1>1 DEF LinkFile
  <1>5. PICK r \in RowRecord :
          /\ row' = [row EXCEPT ![m] = r]
          /\ r.parent = row[m].parent /\ r.content = row[m].content
          /\ r.deleted = row[m].deleted /\ r.threadCount = row[m].threadCount
    BY <1>3, <1>4, Attached
  <1>6. /\ call'[c] = Idle /\ call'[c].phase = "idle"
        /\ \A d \in Calls : d # c => call'[d] = call[d]
        /\ call' \in [Calls -> {Idle} \cup CallRecord]
        /\ CallOK(call[c])' /\ Current(call[c])' /\ Ahead(call[c])' /\ Within(call[c])'
        /\ ~Loads(call[c])'
    BY <1>2, <1>3, DoneSet
  <1>7. Step(c, m) /\ ~Posts /\ row'[m] = r /\ raced' \subseteq Messages
    BY <1>2, <1>3, <1>4, <1>5, <1>6, WriteStep
  <1>8. TypeOK' BY <1>2, <1>3, <1>5, <1>6, <1>7, WriteTyped
  <1>9. IndexAgrees' BY <1>2, <1>3, <1>5, <1>7, IndexStays DEF IInv
  <1>10. ~Counts(c) BY <1>2, <1>6 DEF Counts
  <1> QED BY <1>2, <1>3, <1>5, <1>6, <1>7, <1>8, <1>9, <1>10, QuietAssembled

LEMMA PreviewInv == ASSUME IInv, NEW m \in Messages, Preview(m) PROVE IInv'
  <1>1. /\ m \in fetching /\ fetching' \subseteq fetching
        /\ row' = [row EXCEPT ![m].parts = @ \cup {"preview"}] /\ raced' = Crossed(None, m)
        /\ UNCHANGED <<search, call, uncounted>>
    BY DEF Preview
  <1>2. TypeOK BY DEF IInv
  <1>3. row[m].posted BY <1>1, <1>2, RowTypes
  <1>4. PICK r \in RowRecord :
          /\ row' = [row EXCEPT ![m] = r]
          /\ r.parent = row[m].parent /\ r.content = row[m].content
          /\ r.deleted = row[m].deleted /\ r.threadCount = row[m].threadCount
    BY <1>1, <1>2, <1>3, Attached
  <1>5. None \notin Calls BY NoneAssumption
  <1>6. call' \in [Calls -> {Idle} \cup CallRecord] BY <1>1, <1>2 DEF TypeOK
  <1>7. Step(None, m) /\ ~Posts /\ row'[m] = r /\ raced' \subseteq Messages
    BY <1>1, <1>2, <1>3, <1>4, WriteStep
  <1>8. TypeOK' BY <1>1, <1>2, <1>3, <1>4, <1>6, <1>7, WriteTyped
  <1>9. IndexAgrees' BY <1>1, <1>2, <1>4, <1>5, <1>7, IndexStays DEF IInv
  <1>10. ~Counts(None) BY <1>5 DEF Counts
  <1> QED BY <1>1, <1>4, <1>5, <1>7, <1>8, <1>9, <1>10, QuietAssembled

LEMMA IndexInv == ASSUME IInv, NEW c \in Calls, Index(c) PROVE IInv'
  <1>1. PICK m : m = call[c].message OBVIOUS
  <1>2. PICK s : s = call[c].row.content OBVIOUS
  <1>3. call[c].phase = "index" /\ Done(c) /\ UNCHANGED <<row, fetching, uncounted>> BY DEF Index
  <1>4. TypeOK /\ m \in Messages /\ row[m].posted /\ s \in Contents \cup {None}
    BY <1>1, <1>2, <1>3, Working DEF RowRecord
  <1>5. search' = [search EXCEPT ![m] = s] /\ raced' = Crossed(c, m) BY <1>1, <1>2 DEF Index
  <1>6. /\ call'[c] = Idle /\ call'[c].phase = "idle"
        /\ \A d \in Calls : d # c => call'[d] = call[d]
        /\ call' \in [Calls -> {Idle} \cup CallRecord]
        /\ CallOK(call[c])' /\ Current(call[c])' /\ Ahead(call[c])' /\ Within(call[c])'
        /\ ~Loads(call[c])'
    BY <1>3, <1>4, DoneSet
  <1>7. Step(c, m) /\ ~Posts /\ search'[m] = s /\ TypeOK' BY <1>3, <1>4, <1>5, <1>6, IndexStep
  <1>8. IndexAgrees'
    <2>1. \A k \in Messages : k # m => Agrees(k)' BY <1>3, <1>4, <1>7, IndexKept DEF IInv
    <2>2. ASSUME m \notin raced' PROVE Indexed(m)'
      <3>1. m \notin raced BY <2>2, <1>7 DEF Step
      <3>2. Current(call[c]) BY DEF IInv, LoadedCurrent
      <3>3. s = row[m].content /\ row[m].deleted = FALSE BY <1>1, <1>2, <1>3, <3>1, <3>2 DEF Current, Fits
      <3> QED BY <1>3, <1>7, <3>3 DEF Indexed
    <2>3. Agrees(m)' BY <2>2 DEF Agrees
    <2> QED BY <2>1, <2>3 DEF IndexAgrees
  <1>9. ~Counts(c) BY <1>3, <1>6 DEF Counts
  <1> QED BY <1>3, <1>4, <1>6, <1>7, <1>8, <1>9, QuietAssembled

-----------------------------------------------------------------------------
(***************************************************************************)
(* Editing and deleting.                                                   *)
(***************************************************************************)
(* A request that has changed the index and will save the row it carries.  *)
LEMMA TurnsToSave ==
  ASSUME IInv, NEW c \in Calls, call[c].phase \in {"reindex", "unindex"}, Goto(c, "save"),
         row' = row, uncounted' = uncounted, TypeOK', NEW m \in Messages, m = call[c].message, Step(c, m),
         m \notin raced' /\ search'[m] # None => search'[m] = call[c].row.content /\ call[c].row.deleted = FALSE
  PROVE  IInv'
  <1>1. TypeOK /\ call[c].phase # "idle" BY DEF IInv
  <1>2. /\ call'[c] \in CallRecord /\ call'[c].phase = "save"
        /\ call'[c].op = call[c].op /\ call'[c].message = m /\ call'[c].row = call[c].row
    BY <1>1, GotoSet
  <1>3. /\ CallOK(call[c]) /\ Current(call[c]) /\ Within(call[c])
    BY DEF IInv, CallsOK, LoadedCurrent, LoadedCounts
  <1>4. CallOK(call[c])' BY <1>1, <1>2, <1>3 DEF CallOK
  <1>5. raced \subseteq raced' BY DEF Step
  <1>6. Current(call[c])' BY <1>1, <1>2, <1>3, <1>5 DEF Current, Fits, Loads
  <1>7. Ahead(call[c])' BY <1>2 DEF Ahead
  <1>8. call'[c].row.threadCount + Cardinality(Counting(call'[c].message)) <= Countable(call'[c].message)
    BY <1>2, <1>3 DEF Within, Loads
  <1>9. ~Posts /\ ~Counts(c) BY <1>2 DEF Posts, Counts
  <1>10. IndexAgrees'
    <2>1. \A k \in Messages : k # m => Agrees(k)' BY <1>1, IndexKept DEF IInv
    <2>2. Saving(c, m)' BY <1>2 DEF Saving
    <2>3. Agrees(m)' BY <2>2 DEF Agrees
    <2> QED BY <2>1, <2>3 DEF IndexAgrees
  <1> QED BY <1>4, <1>6, <1>7, <1>8, <1>9, <1>10, QuietAssembled

LEMMA ReindexInv == ASSUME IInv, NEW c \in Calls, Reindex(c) PROVE IInv'
  <1>1. PICK m : m = call[c].message OBVIOUS
  <1>2. PICK s : s = Reindexed(c) OBVIOUS
  <1>3. call[c].phase = "reindex" /\ Goto(c, "save") /\ UNCHANGED <<row, fetching, uncounted>> BY DEF Reindex
  <1>4. /\ TypeOK /\ m \in Messages /\ row[m].posted /\ s \in Contents \cup {None}
        /\ s # None => search[m] # None /\ s = call[c].row.content
    BY <1>1, <1>2, <1>3, Working DEF RowRecord, Reindexed
  <1>5. search' = [search EXCEPT ![m] = s] /\ raced' = Crossed(c, m) BY <1>1, <1>2 DEF Reindex
  <1>6. (\A d \in Calls : d # c => call'[d] = call[d]) /\ call' \in [Calls -> {Idle} \cup CallRecord]
    BY <1>3, <1>4, GotoSet
  <1>7. Step(c, m) /\ ~Posts /\ search'[m] = s /\ TypeOK' BY <1>3, <1>4, <1>5, <1>6, IndexStep
  <1>8. ASSUME m \notin raced', search'[m] # None
        PROVE  search'[m] = call[c].row.content /\ call[c].row.deleted = FALSE
    <2>1. m \notin raced BY <1>8, <1>7 DEF Step
    <2>2. Agrees(m) /\ Current(call[c]) /\ CallOK(call[c])
      BY <1>4 DEF IInv, IndexAgrees, LoadedCurrent, CallsOK
    <2>3. ASSUME NEW d \in Calls, Saving(d, m) PROVE FALSE
      <3>1. d # c /\ AtWork(d, m) BY <1>3, <2>3 DEF Saving, AtWork
      <3>2. m \in raced' BY <1>4, <1>5, <3>1, CrossedSet
      <3> QED BY <1>8, <3>2
    <2>4. row[m].deleted = FALSE BY <1>4, <1>7, <1>8, <2>1, <2>2, <2>3 DEF Agrees, Indexed
    <2>5. call[c].row.deleted = row[m].deleted
      BY <1>1, <1>3, <2>1, <2>2 DEF Current, Fits, Loads, CallOK
    <2> QED BY <1>4, <1>7, <1>8, <2>4, <2>5
  <1> QED BY <1>1, <1>3, <1>4, <1>7, <1>8, TurnsToSave

LEMMA UnindexInv == ASSUME IInv, NEW c \in Calls, Unindex(c) PROVE IInv'
  <1>1. PICK m : m = call[c].message OBVIOUS
  <1>3. call[c].phase = "unindex" /\ Goto(c, "save") /\ UNCHANGED <<row, fetching, uncounted>> BY DEF Unindex
  <1>4. TypeOK /\ m \in Messages /\ row[m].posted BY <1>1, <1>3, Working
  <1>5. search' = [search EXCEPT ![m] = None] /\ raced' = Crossed(c, m) BY <1>1 DEF Unindex
  <1>6. (\A d \in Calls : d # c => call'[d] = call[d]) /\ call' \in [Calls -> {Idle} \cup CallRecord]
    BY <1>3, <1>4, GotoSet
  <1>7. Step(c, m) /\ ~Posts /\ search'[m] = None /\ TypeOK' BY <1>3, <1>4, <1>5, <1>6, IndexStep
  <1> QED BY <1>1, <1>3, <1>4, <1>7, TurnsToSave

(* A request that has just loaded m, and will write r over it.             *)
LEMMA Loaded ==
  ASSUME IInv, NEW c \in Calls, call[c].phase = "idle", NEW m \in Messages, row[m].posted,
         NEW op \in {"edit", "delete"}, NEW phase, phase = IF op = "edit" THEN "reindex" ELSE "unindex",
         NEW r \in RowRecord, r.parent = row[m].parent, r.threadCount = row[m].threadCount,
         op = "edit" => r.deleted = row[m].deleted /\ r.parts = row[m].parts,
         op = "delete" => r.deleted = TRUE /\ r.parts = row[m].parts \ {"file"},
         call' = [call EXCEPT ![c] = Call(op, phase, m, r, FALSE)],
         UNCHANGED <<row, search, fetching, history>>
  PROVE  IInv'
  <1>1. TypeOK /\ UNCHANGED <<uncounted, raced>> BY DEF IInv, history
  <1>2. PICK q : q = Call(op, phase, m, r, FALSE) OBVIOUS
  <1>3. op \in {"edit", "delete"} /\ phase \in {"reindex", "unindex"}
        /\ (phase = "reindex" <=> op = "edit") /\ (phase = "unindex" <=> op = "delete")
    OBVIOUS
  <1>4. q \in CallRecord /\ q.op = op /\ q.phase = phase /\ q.message = m /\ q.row = r
    BY <1>2, <1>3 DEF Call, CallRecord
  <1>5. call'[c] = q /\ (\A d \in Calls : d # c => call'[d] = call[d])
        /\ call' \in [Calls -> {Idle} \cup CallRecord]
    BY <1>1, <1>2, <1>4, CallSet
  <1>6. Step(c, m) /\ ~Posts /\ ~Counts(c)
    BY <1>1, <1>3, <1>4, <1>5 DEF Step, Wrote, Posts, Counts
  <1>7. TypeOK' BY <1>1, <1>5 DEF TypeOK
  <1>8. CallOK(q)' BY <1>3, <1>4 DEF CallOK
  <1>9. Current(q)' BY <1>3, <1>4 DEF Current, Fits, Loads
  <1>10. Ahead(q)' BY <1>3, <1>4 DEF Ahead
  <1>11. CallOK(call[c])' /\ Current(call[c])' /\ Ahead(call[c])'
    BY <1>5, <1>8, <1>9, <1>10 DEF CallOK, Current, Ahead
  <1>12. Fair(m) BY ThreadsAre DEF IInv
  <1>13. call'[c].row.threadCount + Cardinality(Counting(call'[c].message)) <= Countable(call'[c].message)
    BY <1>4, <1>5, <1>12 DEF Fair
  <1>14. IndexAgrees' BY <1>1, <1>6, IndexStays DEF IInv
  <1> QED BY <1>1, <1>6, <1>7, <1>11, <1>13, <1>14, QuietAssembled

LEMMA BeginEditInv ==
  ASSUME IInv, NEW c \in Calls, NEW m \in Messages, NEW b \in Contents, BeginEdit(c, m, b)
  PROVE  IInv'
  <1>1. /\ call[c].phase = "idle" /\ row[m].posted /\ UNCHANGED <<row, search, fetching, history>>
        /\ call' = [call EXCEPT ![c] = Call("edit", "reindex", m, Edited(m, b), FALSE)]
    BY DEF BeginEdit
  <1>2. row[m] \in RowRecord BY <1>1, RowTypes DEF IInv
  <1>3. PICK r : r = Edited(m, b) OBVIOUS
  <1>4. r = [row[m] EXCEPT !.content = b] BY <1>3 DEF Edited
  <1>5. r \in RowRecord BY <1>2, <1>4 DEF RowRecord
  <1>6. /\ r.parent = row[m].parent /\ r.threadCount = row[m].threadCount
        /\ r.deleted = row[m].deleted /\ r.parts = row[m].parts
    BY <1>2, <1>4 DEF RowRecord
  <1>7. /\ "edit" = "edit" => r.deleted = row[m].deleted /\ r.parts = row[m].parts
        /\ "edit" = "delete" => r.deleted = TRUE /\ r.parts = row[m].parts \ {"file"}
    BY <1>6
  <1>8. call' = [call EXCEPT ![c] = Call("edit", "reindex", m, r, FALSE)] BY <1>1, <1>3
  <1> QED BY <1>1, <1>5, <1>6, <1>7, <1>8, Loaded

LEMMA BeginDeleteInv ==
  ASSUME IInv, NEW c \in Calls, NEW m \in Messages, BeginDelete(c, m)
  PROVE  IInv'
  <1>1. /\ call[c].phase = "idle" /\ row[m].posted /\ UNCHANGED <<row, search, fetching, history>>
        /\ call' = [call EXCEPT ![c] = Call("delete", "unindex", m, Erased(m), FALSE)]
    BY DEF BeginDelete
  <1>2. row[m] \in RowRecord BY <1>1, RowTypes DEF IInv
  <1>3. PICK r : r = Erased(m) OBVIOUS
  <1>4. r = [row[m] EXCEPT !.deleted = TRUE, !.content = None, !.parts = @ \ {"file"}] BY <1>3 DEF Erased
  <1>5. r \in RowRecord BY <1>2, <1>4 DEF RowRecord
  <1>6. /\ r.parent = row[m].parent /\ r.threadCount = row[m].threadCount
        /\ r.deleted = TRUE /\ r.parts = row[m].parts \ {"file"}
    BY <1>2, <1>4 DEF RowRecord
  <1>7. /\ "delete" = "edit" => r.deleted = row[m].deleted /\ r.parts = row[m].parts
        /\ "delete" = "delete" => r.deleted = TRUE /\ r.parts = row[m].parts \ {"file"}
    BY <1>6
  <1>8. call' = [call EXCEPT ![c] = Call("delete", "unindex", m, r, FALSE)] BY <1>1, <1>3
  <1> QED BY <1>1, <1>5, <1>6, <1>7, <1>8, Loaded

LEMMA SaveInv == ASSUME IInv, NEW c \in Calls, Save(c) PROVE IInv'
  <1>1. PICK m : m = call[c].message OBVIOUS
  <1>2. PICK r : r = call[c].row OBVIOUS
  <1>3. call[c].phase = "save" /\ Done(c) /\ UNCHANGED <<search, fetching, uncounted>> BY DEF Save
  <1>4. TypeOK /\ m \in Messages /\ r \in RowRecord /\ row[m].posted /\ r.parent = row[m].parent
    BY <1>1, <1>2, <1>3, Working
  <1>5. row' = [row EXCEPT ![m] = r] /\ raced' = Crossed(c, m) BY <1>1, <1>2 DEF Save
  <1>6. /\ call'[c] = Idle /\ call'[c].phase = "idle"
        /\ \A d \in Calls : d # c => call'[d] = call[d]
        /\ call' \in [Calls -> {Idle} \cup CallRecord]
        /\ CallOK(call[c])' /\ Current(call[c])' /\ Ahead(call[c])' /\ Within(call[c])'
        /\ ~Loads(call[c])'
    BY <1>3, <1>4, DoneSet
  <1>7. Step(c, m) /\ ~Posts /\ row'[m] = r /\ raced' \subseteq Messages
    BY <1>3, <1>4, <1>5, <1>6, WriteStep
  <1>8. TypeOK' BY <1>3, <1>4, <1>5, <1>6, <1>7, WriteTyped
  <1>9. m \notin raced' => m \notin raced BY <1>7 DEF Step
  <1>10. IndexAgrees'
    <2>1. \A k \in Messages : k # m => Agrees(k)' BY <1>1, <1>4, <1>7, IndexKept DEF IInv
    <2>2. Ahead(call[c]) BY DEF IInv, IndexAhead
    <2>3. m \notin raced' /\ search'[m] # None => Indexed(m)'
      BY <1>1, <1>2, <1>3, <1>7, <1>9, <2>2 DEF Ahead, Indexed
    <2>4. Agrees(m)' BY <2>3 DEF Agrees
    <2> QED BY <2>1, <2>4 DEF IndexAgrees
  <1>11. ~Counts(c) BY <1>3, <1>6 DEF Counts
  <1>12. Fair(m)'
    <2>1. Countable(m)' = Countable(m) /\ Counting(m)' = Counting(m)
      BY <1>3, <1>4, <1>7, <1>11, CountableKept, CountingKept
    <2>2. r.threadCount + Cardinality(Counting(m)) <= Countable(m)
      BY <1>1, <1>2, <1>3 DEF IInv, LoadedCounts, Within, Loads
    <2>3. m \notin raced => r.threadCount = row[m].threadCount
      BY <1>1, <1>2, <1>3 DEF IInv, LoadedCurrent, Current, Fits, Loads
    <2>4. Fair(m) BY <1>4, ThreadsAre DEF IInv
    <2> QED BY <1>4, <1>7, <1>9, <2>1, <2>2, <2>3, <2>4 DEF Fair
  <1> QED BY <1>3, <1>4, <1>6, <1>7, <1>8, <1>10, <1>11, <1>12, QuietAssembled

-----------------------------------------------------------------------------
(***************************************************************************)
(* Counting a reply, and failing.                                          *)
(***************************************************************************)
(* What a save may bring back stays within the replies when a request      *)
(* starts to count only with a reply to be counted.                        *)
LEMMA WithinFollows ==
  ASSUME IInv, NEW c, NEW m, Step(c, m),
         \A p \in Messages : /\ Countable(p)' \in Nat /\ Cardinality(Counting(p))' \in Nat
                             /\ Cardinality(Counting(p))' + Countable(p)
                                  <= Countable(p)' + Cardinality(Counting(p)),
         c \in Calls => ~Loads(call[c])',
         NEW d \in Calls
  PROVE  Within(call[d])'
  <1>1. CASE d = c BY <1>1 DEF Within
  <1>2. CASE d # c /\ Loads(call[d])
    <2>1. call'[d] = call[d] BY <1>2 DEF Step
    <2>2. PICK p : p = call[d].message OBVIOUS
    <2>3. PICK t : t = call[d].row.threadCount OBVIOUS
    <2>4. p \in Messages /\ t \in Nat BY <1>2, <2>2, <2>3, CallTypes DEF Loads, IInv
    <2>5. t + Cardinality(Counting(p)) <= Countable(p) BY <1>2, <2>2, <2>3 DEF IInv, LoadedCounts, Within
    <2>6. Countable(p) \in Nat /\ Cardinality(Counting(p)) \in Nat BY Finite
    <2>7. t + Cardinality(Counting(p))' <= Countable(p)' BY <2>4, <2>5, <2>6
    <2>8. call'[d].message = p /\ call'[d].row.threadCount = t BY <2>1, <2>2, <2>3
    <2> QED BY <2>7, <2>8 DEF Within
  <1>3. CASE d # c /\ ~Loads(call[d])
    <2>1. call'[d] = call[d] BY <1>3 DEF Step
    <2> QED BY <1>3, <2>1 DEF Within, Loads
  <1> QED BY <1>1, <1>2, <1>3

(* A request that stops counting.                                          *)
LEMMA CountsNoMore ==
  ASSUME NEW c \in Calls, NEW m, Step(c, m), call[c].phase = "count", call'[c].phase # "count",
         NEW p, p = call[c].row.parent
  PROVE  /\ Cardinality(Counting(p))' = Cardinality(Counting(p)) - 1
         /\ \A k \in Messages : k # p => Counting(k)' = Counting(k)
  <1>1. \A d \in Calls : d # c => call'[d] = call[d] BY DEF Step
  <1>2. Counting(p)' = Counting(p) \ {c} BY <1>1 DEF Counting
  <1>3. c \in Counting(p) BY DEF Counting
  <1>4. Cardinality(Counting(p) \ {c}) = Cardinality(Counting(p)) - 1
    <2>1. PICK S : S = Counting(p) OBVIOUS
    <2>2. IsFiniteSet(S) /\ c \in S BY <1>3, <2>1, Finite
    <2>3. Cardinality(S \ {c}) = IF c \in S THEN Cardinality(S) - 1 ELSE Cardinality(S)
      BY <2>2, FS_RemoveElement
    <2> QED BY <2>1, <2>2, <2>3
  <1>5. \A k \in Messages : k # p => Counting(k)' = Counting(k) BY <1>1 DEF Counting
  <1> QED BY <1>2, <1>4, <1>5

LEMMA CountInv == ASSUME IInv, NEW c \in Calls, Count(c) PROVE IInv'
  <1>1. PICK p : p = call[c].row.parent OBVIOUS
  <1>2. /\ call[c].phase = "count" /\ UNCHANGED <<search, fetching, uncounted>>
        /\ Goto(c, "link") \/ Done(c)
    BY DEF Count
  <1>3. TypeOK /\ CallOK(call[c]) BY <1>2, Working
  <1>4. p \in Messages /\ row[p].posted BY <1>1, <1>2, <1>3 DEF CallOK
  <1>5. row[p] \in RowRecord /\ row[p].threadCount \in Nat BY <1>3, <1>4, RowTypes
  <1>6. PICK n : n = Counted(c) OBVIOUS
  <1>7. n = row[p].threadCount + 1 /\ n \in Nat BY <1>1, <1>5, <1>6 DEF Counted
  <1>8. PICK r : r = [row[p] EXCEPT !.threadCount = n] OBVIOUS
  <1>9. /\ r \in RowRecord /\ r.parent = row[p].parent /\ r.content = row[p].content
        /\ r.deleted = row[p].deleted /\ r.threadCount = n
    BY <1>5, <1>7, <1>8 DEF RowRecord
  <1>10. row' = [row EXCEPT ![p] = r] /\ raced' = Crossed(c, p) BY <1>1, <1>6, <1>8 DEF Count
  <1>11. /\ \A d \in Calls : d # c => call'[d] = call[d]
         /\ call' \in [Calls -> {Idle} \cup CallRecord]
         /\ call'[c].phase \in {"link", "idle"}
         /\ CallOK(call[c])'
    <2>1. CASE Done(c) BY <1>3, <2>1, DoneSet
    <2>2. CASE Goto(c, "link")
      <3>1. /\ call'[c].phase = "link"
            /\ call'[c].message = call[c].message /\ call'[c].row = call[c].row
            /\ \A d \in Calls : d # c => call'[d] = call[d]
            /\ call' \in [Calls -> {Idle} \cup CallRecord]
        BY <1>2, <1>3, <2>2, GotoSet
      <3>2. row[call[c].message].posted /\ call[c].message \in Messages
            /\ call[c].row.parent = row[call[c].message].parent
        BY <1>2, Working
      <3>3. row'[call[c].message].posted /\ row'[call[c].message].parent = row[call[c].message].parent
        BY <1>3, <1>4, <1>9, <1>10, <3>2, RowSet, RowTypes
      <3>4. CallOK(call[c])' BY <3>1, <3>2, <3>3 DEF CallOK
      <3> QED BY <3>1, <3>4
    <2> QED BY <1>2, <2>1, <2>2
  <1>12. Step(c, p) /\ ~Posts /\ row'[p] = r /\ raced' \subseteq Messages
    BY <1>2, <1>3, <1>4, <1>9, <1>10, <1>11, WriteStep
  <1>13. TypeOK' BY <1>2, <1>3, <1>4, <1>9, <1>10, <1>11, <1>12, WriteTyped
  <1>14. Current(call[c])' /\ Ahead(call[c])' /\ ~Loads(call[c])'
    BY <1>11 DEF Current, Fits, Ahead, Loads
  <1>15. IndexAgrees' BY <1>2, <1>3, <1>4, <1>9, <1>12, IndexStays DEF IInv
  <1>16. UncountedPosted' BY <1>2, <1>12 DEF UncountedPosted, Step, IInv, TypeOK
  <1>17. \A k \in Messages : Countable(k)' = Countable(k) BY <1>2, <1>12, CountableKept
  <1>18. /\ Cardinality(Counting(p))' = Cardinality(Counting(p)) - 1
         /\ \A k \in Messages : k # p => Counting(k)' = Counting(k)
    BY <1>1, <1>2, <1>11, <1>12, CountsNoMore
  <1>19. \A k \in Messages : Countable(k) \in Nat /\ Cardinality(Counting(k)) \in Nat BY Finite
  <1>20. ASSUME NEW k \in Messages PROVE Fair(k)'
    <2>1. CASE k = p
      <3>1. Fair(p) /\ raced \subseteq raced' BY <1>4, <1>12, ThreadsAre DEF IInv, Step
      <3> QED BY <1>4, <1>5, <1>7, <1>9, <1>12, <1>17, <1>18, <1>19, <2>1, <3>1 DEF Fair
    <2>2. CASE k # p
      <3>1. row'[k] = row[k] BY <1>12, <2>2 DEF Step, Wrote
      <3> QED BY <1>4, <1>12, <1>17, <1>18, <2>2, <3>1, FairKept DEF IInv
    <2> QED BY <2>1, <2>2
  <1>21. \A k \in Messages : /\ Countable(k)' \in Nat /\ Cardinality(Counting(k))' \in Nat
                             /\ Cardinality(Counting(k))' + Countable(k)
                                  <= Countable(k)' + Cardinality(Counting(k))
    <2>1. \A k \in Messages : Cardinality(Counting(k))' \in Nat BY FinitePrimed
    <2> QED BY <1>17, <1>18, <1>19, <2>1
  <1>22. \A d \in Calls : Within(call[d])' BY <1>12, <1>14, <1>21, WithinFollows
  <1> QED BY <1>4, <1>11, <1>12, <1>13, <1>14, <1>15, <1>16, <1>20, <1>22, Assembled

(* A failed request leaves what it had written; what it leaves undone is   *)
(* raced.                                                                  *)
LEMMA FailInv == ASSUME IInv, NEW c \in Calls, Fail(c) PROVE IInv'
  <1>1. PICK m : m = call[c].message OBVIOUS
  <1>2. PICK p : p = call[c].row.parent OBVIOUS
  <1>3. call[c].phase # "idle" /\ Done(c) /\ UNCHANGED <<row, search, fetching, uncounted>> BY DEF Fail
  <1>4. /\ TypeOK /\ CallOK(call[c]) /\ m \in Messages BY <1>1, <1>3, Working
  <1>5. call[c].phase = "count" => p \in Messages /\ row[p].posted BY <1>2, <1>4 DEF CallOK
  <1>6. /\ raced \subseteq raced' /\ raced' \subseteq raced \cup {m, p}
        /\ call[c].phase = "count" => p \in raced'
        /\ call[c].phase # "count" => raced' \subseteq raced \cup {m}
        /\ call[c].phase = "save" => m \in raced'
    <2>1. raced' = CASE call[c].phase = "count" -> raced \cup {p}
                     [] call[c].phase \in {"index", "save"} -> raced \cup {m}
                     [] OTHER -> raced
      BY <1>1, <1>2 DEF Fail
    <2>2. CASE call[c].phase = "count" BY <2>1, <2>2
    <2>3. CASE call[c].phase \in {"index", "save"} BY <2>1, <2>3
    <2>4. CASE call[c].phase \notin {"count", "index", "save"} BY <2>1, <2>4
    <2> QED BY <2>2, <2>3, <2>4
  <1>7. raced' \subseteq Messages
    <2>1. raced \subseteq Messages BY <1>4 DEF TypeOK
    <2> QED BY <2>1, <1>4, <1>5, <1>6
  <1>8. /\ call'[c] = Idle /\ call'[c].phase = "idle"
        /\ \A d \in Calls : d # c => call'[d] = call[d]
        /\ call' \in [Calls -> {Idle} \cup CallRecord]
        /\ CallOK(call[c])' /\ Current(call[c])' /\ Ahead(call[c])' /\ Within(call[c])'
        /\ ~Loads(call[c])'
    BY <1>3, <1>4, DoneSet
  <1>9. TypeOK' BY <1>3, <1>4, <1>7, <1>8 DEF TypeOK
  <1>10. Step(c, m) /\ ~Posts BY <1>3, <1>6, <1>8 DEF Step, Wrote, Posts
  <1>11. IndexAgrees'
    <2>1. CASE call[c].phase = "save"
      <3>1. Agrees(m)' BY <1>6, <2>1 DEF Agrees
      <3>2. \A k \in Messages : k # m => Agrees(k)' BY <1>1, <1>4, <1>10, IndexKept DEF IInv
      <3> QED BY <3>1, <3>2 DEF IndexAgrees
    <2>2. CASE call[c].phase # "save" BY <1>3, <1>4, <1>10, <2>2, IndexStays DEF IInv
    <2> QED BY <2>1, <2>2
  <1>12. CASE call[c].phase # "count"
    <2>1. ~Counts(c) BY <1>8, <1>12 DEF Counts
    <2> QED BY <1>3, <1>4, <1>8, <1>9, <1>10, <1>11, <2>1, QuietAssembled
  <1>13. CASE call[c].phase = "count"
    <2>1. \A k \in Messages : Countable(k)' = Countable(k) BY <1>3, <1>10, CountableKept
    <2>2. /\ Cardinality(Counting(p))' = Cardinality(Counting(p)) - 1
          /\ \A k \in Messages : k # p => Counting(k)' = Counting(k)
      BY <1>2, <1>8, <1>10, <1>13, CountsNoMore
    <2>3. \A k \in Messages : Countable(k) \in Nat /\ Cardinality(Counting(k)) \in Nat BY Finite
    <2>4. \A k \in Messages : Cardinality(Counting(k))' \in Nat BY FinitePrimed
    <2>5. ASSUME NEW k \in Messages PROVE Fair(k)'
      <3>1. CASE k = p
        <4>1. Fair(p) /\ row[p].threadCount \in Nat /\ p \in raced'
          BY <1>4, <1>5, <1>6, <1>13, ThreadsAre, RowTypes DEF IInv
        <4> QED BY <1>3, <1>5, <1>13, <2>1, <2>2, <2>3, <3>1, <4>1 DEF Fair
      <3>2. CASE k # p BY <1>3, <1>4, <1>10, <2>1, <2>2, <3>2, FairKept DEF IInv
      <3> QED BY <3>1, <3>2
    <2>6. \A k \in Messages : /\ Countable(k)' \in Nat /\ Cardinality(Counting(k))' \in Nat
                              /\ Cardinality(Counting(k))' + Countable(k)
                                   <= Countable(k)' + Cardinality(Counting(k))
      BY <2>1, <2>2, <2>3, <2>4
    <2>7. \A d \in Calls : Within(call[d])' BY <1>8, <1>10, <2>6, WithinFollows
    <2>8. UncountedPosted' BY <1>3 DEF UncountedPosted, IInv
    <2> QED BY <1>4, <1>8, <1>9, <1>10, <1>11, <2>5, <2>7, <2>8, Assembled
  <1> QED BY <1>12, <1>13

(* Nothing but fetching changes.                                           *)
LEMMA StillInv ==
  ASSUME IInv, UNCHANGED <<row, search, call, uncounted, raced>>, fetching' \subseteq fetching
  PROVE  IInv'
  <1>1. TypeOK' BY DEF IInv, TypeOK
  <1>2. CallsOK' BY DEF IInv, CallsOK, CallOK
  <1>3. LoadedCurrent' BY DEF IInv, LoadedCurrent, Current
  <1>4. LoadedCounts' BY DEF IInv, LoadedCounts, Within, Countable, Counting, Replies
  <1>5. UncountedPosted' BY DEF IInv, UncountedPosted
  <1>6. ThreadsCounted' BY DEF IInv, ThreadsCounted, Counting, Replies
  <1>7. IndexAgrees' BY DEF IInv, IndexAgrees, Agrees, Indexed, Saving
  <1>8. IndexAhead' BY DEF IInv, IndexAhead, Ahead
  <1> QED BY <1>1, <1>2, <1>3, <1>4, <1>5, <1>6, <1>7, <1>8 DEF IInv
-----------------------------------------------------------------------------
(***************************************************************************)
(* Sending.                                                                *)
(***************************************************************************)
(* A message that is not there has no replies, and nobody counts any.      *)
LEMMA NoReplies ==
  ASSUME IInv, NEW m \in Messages, ~row[m].posted
  PROVE  Replies(m) = {} /\ Counting(m) = {} /\ search[m] = None /\ m \notin uncounted /\ m \notin fetching
  <1>1. TypeOK /\ m # None BY NoneAssumption DEF IInv
  <1>2. ASSUME NEW k \in Replies(m) PROVE FALSE
    <2>1. k \in Messages /\ row[k].posted /\ row[k].parent = m BY <1>2 DEF Replies
    <2> QED BY <1>1, <2>1, RowTypes
  <1>3. ASSUME NEW c \in Counting(m) PROVE FALSE
    <2>1. c \in Calls /\ call[c].phase = "count" /\ call[c].row.parent = m BY <1>3 DEF Counting
    <2>2. CallOK(call[c]) BY <2>1 DEF IInv, CallsOK
    <2> QED BY <2>1, <2>2 DEF CallOK
  <1>4. search[m] = None /\ m \notin fetching BY <1>1, RowTypes
  <1>5. m \notin uncounted BY DEF IInv, UncountedPosted
  <1> QED BY <1>2, <1>3, <1>4, <1>5

(* What all sending has in common.                                         *)
LEMMA Posted ==
  ASSUME IInv, NEW c \in Calls, NEW m \in Messages, NEW p \in Messages \cup {None},
         p # None => row[p].posted, NEW b \in Contents \cup {None}, NEW op, NEW phase, NEW file \in BOOLEAN,
         <<op, phase>> \in {<<"send", "index">>, <<"send", "link">>, <<"reply", "count">>},
         Post(c, op, phase, m, Row(p, b), file), phase = "count" => p # None,
         fetching' \subseteq fetching \cup {m}, uncounted' \subseteq uncounted \cup {m}
  PROVE  /\ TypeOK' /\ Step(c, m)
         /\ row'[m].posted /\ row'[m].parent = p /\ row'[m].threadCount = 0
         /\ \A k \in Messages : k # m => row'[k] = row[k]
         /\ call'[c].phase = phase /\ call'[c].row.parent = p
         /\ CallOK(call[c])' /\ Current(call[c])' /\ Ahead(call[c])' /\ ~Loads(call[c])'
         /\ IndexAgrees' /\ UncountedPosted'
  <1>1. PICK r : r = Row(p, b) OBVIOUS
  <1>2. r \in RowRecord /\ r.posted /\ r.parent = p /\ r.content = b /\ r.deleted = FALSE /\ r.threadCount = 0
    BY <1>1 DEF Row, RowRecord
  <1>3. PICK q : q = Call(op, phase, m, r, file) OBVIOUS
  <1>4. op \in {"send", "reply"} /\ phase \in {"index", "link", "count"} OBVIOUS
  <1>5. q \in CallRecord /\ q.op = op /\ q.phase = phase /\ q.message = m /\ q.row = r
    BY <1>2, <1>3, <1>4 DEF Call, CallRecord
  <1>6. /\ call[c].phase = "idle" /\ ~row[m].posted
        /\ row' = [row EXCEPT ![m] = r] /\ call' = [call EXCEPT ![c] = q]
        /\ search' = search /\ raced' = raced
    BY <1>1, <1>3 DEF Post
  <1>7. TypeOK BY DEF IInv
  <1>8. /\ row'[m] = r
        /\ \A k \in Messages : k # m => row'[k] = row[k]
        /\ \A k \in Messages : row[k].posted => row'[k].posted /\ row'[k].parent = row[k].parent
        /\ row' \in [Messages -> {NoRow} \cup RowRecord]
        /\ \A k \in Messages : row'[k].posted /\ row'[k].parent # None => row'[row'[k].parent].posted
    BY <1>2, <1>6, <1>7, RowSet
  <1>9. call'[c] = q /\ (\A d \in Calls : d # c => call'[d] = call[d])
        /\ call' \in [Calls -> {Idle} \cup CallRecord]
    BY <1>5, <1>6, <1>7, CallSet
  <1>10. ASSUME NEW d \in Calls, AtWork(d, m) PROVE FALSE
    <2>1. CallOK(call[d]) /\ call[d].phase # "idle" /\ call[d].message = m
      BY <1>10 DEF IInv, CallsOK, AtWork
    <2> QED BY <1>6, <2>1 DEF CallOK
  <1>11. Step(c, m) BY <1>6, <1>8, <1>9, <1>10 DEF Step, Wrote
  <1>12. TypeOK'
    <2>1. /\ search \in [Messages -> Contents \cup {None}] /\ fetching \subseteq Messages
          /\ uncounted \subseteq Messages /\ raced \subseteq Messages
      BY <1>7 DEF TypeOK
    <2>2. \A k \in Messages : search[k] # None \/ k \in fetching => row[k].posted BY <1>7 DEF TypeOK
    <2>3. \A k \in Messages : search'[k] # None \/ k \in fetching' => row'[k].posted
      BY <1>2, <1>6, <1>8, <2>2
    <2> QED BY <1>6, <1>8, <1>9, <2>1, <2>3 DEF TypeOK
  <1>13. phase = "count" => p \in Messages /\ row'[p].posted BY <1>8
  <1>14. CallOK(q)' BY <1>2, <1>4, <1>5, <1>8, <1>13 DEF CallOK
  <1>15. Current(q)' BY <1>2, <1>4, <1>5, <1>8 DEF Current, Fits, Loads
  <1>16. Ahead(q)' /\ ~Loads(q) BY <1>4, <1>5 DEF Ahead, Loads
  <1>17. CallOK(call[c])' /\ Current(call[c])' /\ Ahead(call[c])' /\ ~Loads(call[c])'
    BY <1>9, <1>14, <1>15, <1>16 DEF CallOK, Current, Ahead, Loads
  <1>18. IndexAgrees' BY <1>6, <1>7, <1>11, IndexStays DEF IInv
  <1>19. UncountedPosted'
    <2>1. \A k \in uncounted : k \in Messages /\ row[k].posted BY <1>7 DEF IInv, UncountedPosted, TypeOK
    <2> QED BY <1>2, <1>8, <2>1 DEF UncountedPosted
  <1> QED BY <1>2, <1>5, <1>8, <1>9, <1>11, <1>12, <1>17, <1>18, <1>19

(* sendChannelMessage counts no reply: the message is not among those that *)
(* are.                                                                    *)
LEMMA Sent ==
  ASSUME IInv, NEW c \in Calls, NEW m \in Messages, NEW p \in Messages \cup {None}, Open(p),
         NEW b \in Contents \cup {None}, NEW phase \in {"index", "link"}, NEW file \in BOOLEAN,
         Post(c, "send", phase, m, Row(p, b), file),
         fetching' \subseteq fetching \cup {m},
         uncounted' = IF p = None THEN uncounted ELSE uncounted \cup {m}
  PROVE  IInv'
  <1>1. call[c].phase = "idle" /\ ~row[m].posted BY DEF Post
  <1>2. p # None => row[p].posted BY DEF Open
  <1>3. uncounted \subseteq uncounted' /\ uncounted' \subseteq uncounted \cup {m} /\ (p # None => m \in uncounted')
    OBVIOUS
  <1>4. PICK op : op = "send" OBVIOUS
  <1>5. <<op, phase>> \in {<<"send", "index">>, <<"send", "link">>, <<"reply", "count">>} BY <1>4
  <1>6. Post(c, op, phase, m, Row(p, b), file) BY <1>4
  <1>7. /\ TypeOK' /\ Step(c, m)
        /\ row'[m].posted /\ row'[m].parent = p /\ row'[m].threadCount = 0
        /\ \A k \in Messages : k # m => row'[k] = row[k]
        /\ call'[c].phase = phase
        /\ CallOK(call[c])' /\ Current(call[c])' /\ Ahead(call[c])' /\ ~Loads(call[c])'
        /\ IndexAgrees' /\ UncountedPosted'
    BY <1>2, <1>3, <1>5, <1>6, Posted
  <1>8. ~Counts(c) BY <1>1, <1>7 DEF Counts
  <1>9. \A k \in Messages : Counting(k)' = Counting(k) BY <1>7, <1>8, CountingKept
  <1>10. ASSUME NEW k \in Messages PROVE Countable(k)' = Countable(k)
    <2>1. k # None BY NoneAssumption
    <2>2. m \notin Replies(k) BY <1>1 DEF Replies
    <2>3. \A n \in Messages : n # m => (n \in Replies(k)' <=> n \in Replies(k)) BY <1>7 DEF Replies
    <2>4. m \in Replies(k)' => m \in uncounted' BY <1>3, <1>7, <2>1 DEF Replies
    <2>5. Replies(k) \subseteq Messages /\ Replies(k)' \subseteq Messages BY DEF Replies
    <2>6. (Replies(k) \ uncounted)' = Replies(k) \ uncounted BY <1>3, <2>2, <2>3, <2>4, <2>5
    <2> QED BY <2>6 DEF Countable
  <1>11. \A k \in Messages : Countable(k) \in Nat /\ Cardinality(Counting(k)) \in Nat BY Finite
  <1>12. ASSUME NEW k \in Messages PROVE Fair(k)'
    <2>1. CASE k = m
      <3>1. Replies(m) = {} /\ Counting(m) = {} BY <1>1, NoReplies
      <3>2. Countable(m) = 0 /\ Cardinality(Counting(m)) = 0 BY <3>1, FS_EmptySet DEF Countable
      <3> QED BY <1>7, <1>9, <1>10, <2>1, <3>2 DEF Fair
    <2>2. CASE k # m
      <3>1. row'[k] = row[k] BY <1>7, <2>2
      <3> QED BY <1>7, <1>9, <1>10, <3>1, FairKept DEF IInv
    <2> QED BY <2>1, <2>2
  <1>13. \A d \in Calls : Within(call[d])'
    <2>1. \A k \in Messages : /\ Countable(k)' \in Nat /\ Cardinality(Counting(k))' \in Nat
                              /\ Cardinality(Counting(k))' + Countable(k)
                                   <= Countable(k)' + Cardinality(Counting(k))
      BY <1>9, <1>10, <1>11
    <2> QED BY <1>7, <2>1, WithinFollows
  <1> QED BY <1>7, <1>12, <1>13, Assembled

LEMMA SendTextInv ==
  ASSUME IInv, NEW c \in Calls, NEW m \in Messages, NEW p \in Messages \cup {None}, NEW b \in Contents,
         SendText(c, m, p, b)
  PROVE  IInv'
  <1>1. Open(p) /\ Post(c, "send", "index", m, Row(p, b), FALSE)
        /\ uncounted' = IF p = None THEN uncounted ELSE uncounted \cup {m}
    BY DEF SendText
  <1>2. fetching' \subseteq fetching \cup {m} BY DEF SendText, Fetch
  <1> QED BY <1>1, <1>2, Sent

LEMMA SendFileInv ==
  ASSUME IInv, NEW c \in Calls, NEW m \in Messages, NEW p \in Messages \cup {None}, SendFile(c, m, p)
  PROVE  IInv'
  <1>1. Open(p) /\ Post(c, "send", "link", m, Row(p, None), TRUE)
        /\ uncounted' = IF p = None THEN uncounted ELSE uncounted \cup {m}
    BY DEF SendFile
  <1>2. fetching' \subseteq fetching \cup {m} BY DEF SendFile
  <1> QED BY <1>1, <1>2, Sent

(* sendThreadMessage: one reply more, and one request more that counts it. *)
LEMMA SendReplyInv ==
  ASSUME IInv, NEW c \in Calls, NEW m \in Messages, NEW p \in Messages, NEW b \in Contents \cup {None},
         SendReply(c, m, p, b)
  PROVE  IInv'
  <1>1. call[c].phase = "idle" /\ ~row[m].posted BY DEF SendReply, Post
  <1>2. row[p].posted /\ fetching' = fetching /\ uncounted' = uncounted BY DEF SendReply
  <1>3. PICK file \in BOOLEAN : Post(c, "reply", "count", m, Row(p, b), file) BY DEF SendReply
  <1>4. PICK op, phase : op = "reply" /\ phase = "count" OBVIOUS
  <1>5. <<op, phase>> \in {<<"send", "index">>, <<"send", "link">>, <<"reply", "count">>} BY <1>4
  <1>6. Post(c, op, phase, m, Row(p, b), file) BY <1>3, <1>4
  <1>7. p # None /\ p # m BY <1>1, <1>2, NoneAssumption
  <1>8. fetching' \subseteq fetching \cup {m} /\ uncounted' \subseteq uncounted \cup {m} BY <1>2
  <1>9. /\ TypeOK' /\ Step(c, m)
        /\ row'[m].posted /\ row'[m].parent = p /\ row'[m].threadCount = 0
        /\ \A k \in Messages : k # m => row'[k] = row[k]
        /\ call'[c].phase = phase /\ call'[c].row.parent = p
        /\ CallOK(call[c])' /\ Current(call[c])' /\ Ahead(call[c])' /\ ~Loads(call[c])'
        /\ IndexAgrees' /\ UncountedPosted'
    BY <1>2, <1>5, <1>6, <1>7, <1>8, Posted
  <1>10. \A d \in Calls : d # c => call'[d] = call[d] BY <1>9 DEF Step
  <1>11. Replies(m) = {} /\ Counting(m) = {} /\ m \notin uncounted BY <1>1, NoReplies
  <1>12. \A k \in Messages : k # p => Counting(k)' = Counting(k) /\ Replies(k)' = Replies(k)
    BY <1>1, <1>4, <1>9, <1>10 DEF Counting, Replies
  <1>13. Counting(p)' = Counting(p) \cup {c} /\ c \notin Counting(p)
    BY <1>1, <1>4, <1>9, <1>10 DEF Counting
  <1>14. Replies(p)' = Replies(p) \cup {m} /\ m \notin Replies(p) BY <1>1, <1>9 DEF Replies
  <1>15. (Replies(p) \ uncounted)' = (Replies(p) \ uncounted) \cup {m} BY <1>2, <1>11, <1>14
  <1>16. Cardinality(Counting(p))' = Cardinality(Counting(p)) + 1
    <2>1. PICK S : S = Counting(p) OBVIOUS
    <2>2. IsFiniteSet(S) /\ c \notin S BY <1>13, <2>1, Finite
    <2>3. Cardinality(S \cup {c}) = Cardinality(S) + 1 BY <2>2, FS_AddElement
    <2> QED BY <1>13, <2>1, <2>3
  <1>17. Countable(p)' = Countable(p) + 1
    <2>1. PICK S : S = Replies(p) \ uncounted OBVIOUS
    <2>2. IsFiniteSet(S) /\ m \notin S BY <1>14, <2>1, Finite
    <2>3. Cardinality(S \cup {m}) = Cardinality(S) + 1 BY <2>2, FS_AddElement
    <2> QED BY <1>15, <2>1, <2>3 DEF Countable
  <1>18. \A k \in Messages : k # p => Countable(k)' = Countable(k) BY <1>2, <1>12 DEF Countable
  <1>19. \A k \in Messages : Countable(k) \in Nat /\ Cardinality(Counting(k)) \in Nat BY Finite
  <1>20. ASSUME NEW k \in Messages PROVE Fair(k)'
    <2>1. CASE k = m
      <3>1. Countable(m) = 0 /\ Cardinality(Counting(m)) = 0 BY <1>11, FS_EmptySet DEF Countable
      <3> QED BY <1>7, <1>9, <1>12, <1>18, <2>1, <3>1 DEF Fair
    <2>2. CASE k = p
      <3>1. Fair(p) /\ raced \subseteq raced' /\ row[p].threadCount \in Nat
        BY <1>2, <1>9, ThreadsAre, RowTypes DEF IInv, Step
      <3>2. row'[p] = row[p] BY <1>7, <1>9
      <3> QED BY <1>2, <1>16, <1>17, <1>19, <2>2, <3>1, <3>2 DEF Fair
    <2>3. CASE k # m /\ k # p
      <3>1. row'[k] = row[k] BY <1>9, <2>3
      <3> QED BY <1>9, <1>12, <1>18, <2>3, <3>1, FairKept DEF IInv
    <2> QED BY <2>1, <2>2, <2>3
  <1>21. \A d \in Calls : Within(call[d])'
    <2>1. \A k \in Messages : /\ Countable(k)' \in Nat /\ Cardinality(Counting(k))' \in Nat
                              /\ Cardinality(Counting(k))' + Countable(k)
                                   <= Countable(k)' + Cardinality(Counting(k))
      BY <1>12, <1>16, <1>17, <1>18, <1>19
    <2> QED BY <1>9, <2>1, WithinFollows
  <1> QED BY <1>9, <1>20, <1>21, Assembled
-----------------------------------------------------------------------------
(***************************************************************************)
(* The theorems.                                                           *)
(***************************************************************************)
LEMMA InitInv == Init => IInv
  <1> SUFFICES ASSUME Init PROVE IInv OBVIOUS
  <1>1. \A m \in Messages : row[m] = NoRow /\ ~row[m].posted /\ search[m] = None BY DEF Init, NoRow
  <1>2. \A c \in Calls : call[c] = Idle /\ call[c].phase = "idle" BY DEF Init, Idle
  <1>3. TypeOK BY <1>1, <1>2 DEF Init, TypeOK
  <1>4. CallsOK /\ LoadedCurrent /\ LoadedCounts /\ IndexAhead
    BY <1>2 DEF CallsOK, CallOK, LoadedCurrent, Current, LoadedCounts, Within, Loads, IndexAhead, Ahead
  <1>5. UncountedPosted BY DEF Init, UncountedPosted
  <1>6. ThreadsCounted BY <1>1 DEF ThreadsCounted
  <1>7. IndexAgrees BY <1>1 DEF IndexAgrees, Agrees
  <1> QED BY <1>3, <1>4, <1>5, <1>6, <1>7 DEF IInv

LEMMA NextInv == IInv /\ [Next]_vars => IInv'
  <1> SUFFICES ASSUME IInv, [Next]_vars PROVE IInv' OBVIOUS
  <1>1. CASE UNCHANGED vars
    <2>1. UNCHANGED <<row, search, call, uncounted, raced>> /\ fetching' = fetching
      BY <1>1 DEF vars, history
    <2> QED BY <2>1, StillInv
  <1>2. ASSUME NEW c \in Calls, NEW m \in Messages, NEW p \in Messages \cup {None}, SendFile(c, m, p)
        PROVE  IInv'
    BY <1>2, SendFileInv
  <1>3. ASSUME NEW c \in Calls, NEW m \in Messages, NEW p \in Messages \cup {None}, NEW b \in Contents,
               SendText(c, m, p, b)
        PROVE  IInv'
    BY <1>3, SendTextInv
  <1>4. ASSUME NEW c \in Calls, NEW m \in Messages, NEW p \in Messages, NEW b \in Contents \cup {None},
               SendReply(c, m, p, b)
        PROVE  IInv'
    BY <1>4, SendReplyInv
  <1>5. ASSUME NEW c \in Calls, NEW m \in Messages, NEW b \in Contents, BeginEdit(c, m, b) PROVE IInv'
    BY <1>5, BeginEditInv
  <1>6. ASSUME NEW c \in Calls, NEW m \in Messages, BeginDelete(c, m) PROVE IInv'
    BY <1>6, BeginDeleteInv
  <1>7. ASSUME NEW c \in Calls, Count(c) PROVE IInv' BY <1>7, CountInv
  <1>8. ASSUME NEW c \in Calls, LinkFile(c) PROVE IInv' BY <1>8, LinkFileInv
  <1>9. ASSUME NEW c \in Calls, Index(c) PROVE IInv' BY <1>9, IndexInv
  <1>10. ASSUME NEW c \in Calls, Reindex(c) PROVE IInv' BY <1>10, ReindexInv
  <1>11. ASSUME NEW c \in Calls, Unindex(c) PROVE IInv' BY <1>11, UnindexInv
  <1>12. ASSUME NEW c \in Calls, Save(c) PROVE IInv' BY <1>12, SaveInv
  <1>13. ASSUME NEW c \in Calls, Fail(c) PROVE IInv' BY <1>13, FailInv
  <1>14. ASSUME NEW m \in Messages, Preview(m) PROVE IInv' BY <1>14, PreviewInv
  <1>15. ASSUME NEW m \in Messages, NoPreview(m) PROVE IInv'
    <2>1. UNCHANGED <<row, search, call, uncounted, raced>> /\ fetching' \subseteq fetching
      BY <1>15 DEF NoPreview, history
    <2> QED BY <2>1, StillInv
  <1> QED BY <1>1, <1>2, <1>3, <1>4, <1>5, <1>6, <1>7, <1>8, <1>9, <1>10, <1>11, <1>12, <1>13, <1>14, <1>15
       DEF Next

THEOREM Invariance == Spec => []IInv
  <1>1. Init => IInv BY InitInv
  <1>2. IInv /\ [Next]_vars => IInv' BY NextInv
  <1> QED BY <1>1, <1>2, PTL DEF Spec

(* The rows fit together, and a thread shows no more replies than it has:  *)
(* all of them, unless a save brought an old count back or a request       *)
(* failed before it counted.                                               *)
THEOREM ThreadsFit == Spec => []Consistent
  <1>1. IInv => Consistent BY DEF IInv, Consistent
  <1> QED BY <1>1, Invariance, PTL

(* A message that no request has raced on is found by the text it has, and *)
(* not at all once it is deleted.                                          *)
THEOREM SearchFits == Spec => []SearchMatches
  <1>1. IInv => SearchMatches
    <2> SUFFICES ASSUME IInv, NEW m \in Messages \ raced, search[m] # None, \A c \in Calls : ~AtWork(c, m)
                 PROVE  search[m] = row[m].content /\ ~row[m].deleted
      BY DEF SearchMatches
    <2>1. Agrees(m) BY DEF IInv, IndexAgrees
    <2>2. \A c \in Calls : ~Saving(c, m) BY DEF Saving, AtWork
    <2> QED BY <2>1, <2>2 DEF Agrees, Indexed
  <1> QED BY <1>1, Invariance, PTL

-----------------------------------------------------------------------------
(***************************************************************************)
(* What a step may do to a message that is there.                          *)
(***************************************************************************)
Keeps(m) == row'[m].deleted = row[m].deleted /\ row[m].parts \subseteq row'[m].parts

Deletes(m) == row'[m].deleted = TRUE /\ row[m].parts \ {"file"} \subseteq row'[m].parts

Gentle(m) == Keeps(m) \/ Deletes(m) \/ m \in raced'

(* A row that is written over another message, or not at all, is kept.     *)
LEMMA OthersGentle ==
  ASSUME TypeOK, NEW m \in Messages, NEW r, row' = [row EXCEPT ![m] = r], NEW k \in Messages, k # m
  PROVE  Gentle(k)
  <1>1. row'[k] = row[k] BY DEF TypeOK
  <1> QED BY <1>1 DEF Gentle, Keeps

LEMMA AttachGentle ==
  ASSUME TypeOK, NEW m \in Messages, row[m].posted, NEW x \in {"file", "preview"},
         row' = [row EXCEPT ![m].parts = @ \cup {x}], NEW k \in Messages
  PROVE  Gentle(k)
  <1>1. PICK r \in RowRecord :
          row' = [row EXCEPT ![m] = r] /\ r.deleted = row[m].deleted /\ row[m].parts \subseteq r.parts
    BY Attached
  <1>2. CASE k = m
    <2>1. row'[m] = r BY <1>1 DEF TypeOK
    <2> QED BY <1>1, <1>2, <2>1 DEF Gentle, Keeps
  <1>3. CASE k # m BY <1>1, <1>3, OthersGentle
  <1> QED BY <1>2, <1>3

LEMMA CountGentle ==
  ASSUME IInv, NEW c \in Calls, Count(c), NEW k \in Messages
  PROVE  Gentle(k)
  <1>1. PICK p : p = call[c].row.parent OBVIOUS
  <1>2. PICK n : n = Counted(c) OBVIOUS
  <1>3. call[c].phase = "count" BY DEF Count
  <1>4. p \in Messages /\ row[p].posted /\ TypeOK BY <1>1, <1>3, Working DEF CallOK
  <1>5. row[p] \in RowRecord BY <1>4, RowTypes
  <1>6. PICK r : r = [row[p] EXCEPT !.threadCount = n] OBVIOUS
  <1>7. r.deleted = row[p].deleted /\ r.parts = row[p].parts BY <1>5, <1>6 DEF RowRecord
  <1>8. row' = [row EXCEPT ![p] = r] BY <1>1, <1>2, <1>6 DEF Count
  <1>9. CASE k = p
    <2>1. row'[p] = r BY <1>4, <1>8 DEF TypeOK
    <2> QED BY <1>7, <1>9, <2>1 DEF Gentle, Keeps
  <1>10. CASE k # p BY <1>4, <1>8, <1>10, OthersGentle
  <1> QED BY <1>9, <1>10

LEMMA SaveGentle ==
  ASSUME IInv, NEW c \in Calls, Save(c), NEW k \in Messages
  PROVE  Gentle(k)
  <1>1. PICK m : m = call[c].message OBVIOUS
  <1>2. PICK r : r = call[c].row OBVIOUS
  <1>3. call[c].phase = "save" /\ row' = [row EXCEPT ![m] = r] /\ raced' = Crossed(c, m)
    BY <1>1, <1>2 DEF Save
  <1>4. TypeOK /\ m \in Messages BY <1>1, <1>3, Working
  <1>5. CASE k = m
    <2>1. row'[m] = r BY <1>3, <1>4 DEF TypeOK
    <2>2. raced \subseteq raced' BY <1>3, <1>4, CrossedSet
    <2>3. Current(call[c]) /\ CallOK(call[c]) BY DEF IInv, LoadedCurrent, CallsOK
    <2>4. call[c].op \in {"edit", "delete"} /\ Loads(call[c]) BY <1>3, <2>3 DEF CallOK, Loads
    <2>5. m \notin raced => Fits(call[c], row[m]) BY <1>1, <1>3, <2>3 DEF Current
    <2>6. CASE m \notin raced /\ call[c].op = "edit"
      <3>1. r.deleted = row[m].deleted /\ r.parts = row[m].parts BY <1>2, <2>4, <2>5, <2>6 DEF Fits
      <3> QED BY <1>5, <2>1, <3>1 DEF Gentle, Keeps
    <2>7. CASE m \notin raced /\ call[c].op = "delete"
      <3>1. r.deleted = TRUE /\ r.parts = row[m].parts \ {"file"} BY <1>2, <2>4, <2>5, <2>7 DEF Fits
      <3> QED BY <1>5, <2>1, <3>1 DEF Gentle, Deletes
    <2>8. CASE m \in raced BY <1>5, <2>2, <2>8 DEF Gentle
    <2> QED BY <2>4, <2>6, <2>7, <2>8
  <1>6. CASE k # m BY <1>3, <1>4, <1>6, OthersGentle
  <1> QED BY <1>5, <1>6

LEMMA NextGentle ==
  ASSUME IInv, [Next]_vars, NEW k \in Messages, row[k].posted
  PROVE  Gentle(k)
  <1>1. TypeOK BY DEF IInv
  <1>2. CASE row' = row BY <1>2 DEF Gentle, Keeps
  <1>3. ASSUME NEW c \in Calls, NEW op, NEW phase, NEW m \in Messages, NEW r, NEW file, Post(c, op, phase, m, r, file)
        PROVE  Gentle(k)
    <2>1. row' = [row EXCEPT ![m] = r] /\ k # m BY <1>3 DEF Post
    <2> QED BY <1>1, <2>1, OthersGentle
  <1>4. ASSUME NEW c \in Calls, NEW m \in Messages, NEW p \in Messages \cup {None}, SendFile(c, m, p)
        PROVE  Gentle(k)
    BY <1>3, <1>4 DEF SendFile
  <1>5. ASSUME NEW c \in Calls, NEW m \in Messages, NEW p \in Messages \cup {None}, NEW b \in Contents,
               SendText(c, m, p, b)
        PROVE  Gentle(k)
    BY <1>3, <1>5 DEF SendText
  <1>6. ASSUME NEW c \in Calls, NEW m \in Messages, NEW p \in Messages, NEW b \in Contents \cup {None},
               SendReply(c, m, p, b)
        PROVE  Gentle(k)
    BY <1>3, <1>6 DEF SendReply
  <1>7. ASSUME NEW c \in Calls, LinkFile(c) PROVE Gentle(k)
    <2>1. PICK m : m = call[c].message OBVIOUS
    <2>2. call[c].phase = "link" /\ row' = [row EXCEPT ![m].parts = @ \cup {"file"}] BY <1>7, <2>1 DEF LinkFile
    <2>3. m \in Messages /\ row[m].posted BY <2>1, <2>2, Working
    <2> QED BY <1>1, <2>2, <2>3, AttachGentle
  <1>8. ASSUME NEW m \in Messages, Preview(m) PROVE Gentle(k)
    <2>1. m \in fetching /\ row' = [row EXCEPT ![m].parts = @ \cup {"preview"}] BY <1>8 DEF Preview
    <2>2. row[m].posted BY <1>1, <2>1, RowTypes
    <2> QED BY <1>1, <2>1, <2>2, AttachGentle
  <1>9. ASSUME NEW c \in Calls, Count(c) PROVE Gentle(k) BY <1>9, CountGentle
  <1>10. ASSUME NEW c \in Calls, Save(c) PROVE Gentle(k) BY <1>10, SaveGentle
  <1>11. CASE UNCHANGED vars BY <1>2, <1>11 DEF vars
  <1>12. ASSUME NEW c \in Calls, Index(c) \/ Reindex(c) \/ Unindex(c) \/ Fail(c) PROVE row' = row
    BY <1>12 DEF Index, Reindex, Unindex, Fail
  <1>13. ASSUME NEW c \in Calls, NEW m \in Messages,
                NoPreview(m) \/ BeginDelete(c, m) \/ \E b \in Contents : BeginEdit(c, m, b)
         PROVE  row' = row
    BY <1>13 DEF NoPreview, BeginDelete, BeginEdit
  <1>14. ASSUME NEW m \in Messages, NoPreview(m) PROVE row' = row BY <1>14 DEF NoPreview
  <1> QED BY <1>2, <1>4, <1>5, <1>6, <1>7, <1>8, <1>9, <1>10, <1>11, <1>12, <1>13, <1>14 DEF Next

(* What was deleted stays deleted, unless an edit had loaded it before.    *)
THEOREM DeletedForGood == Spec => DeletedStaysDeleted
  <1>1. ASSUME IInv, [Next]_vars, NEW m \in Messages, row[m].posted /\ row[m].deleted
        PROVE  row'[m].deleted \/ m \in raced'
    <2>1. Gentle(m) BY <1>1, NextGentle
    <2> QED BY <1>1, <2>1 DEF Gentle, Keeps, Deletes
  <1>2. IInv /\ [Next]_vars =>
          [\A m \in Messages : row[m].posted /\ row[m].deleted => row'[m].deleted \/ m \in raced']_vars
    BY <1>1
  <1> QED BY <1>2, Invariance, PTL DEF Spec, DeletedStaysDeleted

(* A message loses its file only by being deleted, and its link preview    *)
(* not even then, unless a save had loaded it without.                     *)
THEOREM AttachmentsKept == Spec => AttachmentsStay
  <1>1. ASSUME IInv, [Next]_vars, NEW m \in Messages, row[m].posted, NEW x \in row[m].parts \ row'[m].parts
        PROVE  m \in raced' \/ (x = "file" /\ row'[m].deleted)
    <2>1. Gentle(m) BY <1>1, NextGentle
    <2> QED BY <1>1, <2>1 DEF Gentle, Keeps, Deletes
  <1>2. IInv /\ [Next]_vars =>
          [\A m \in Messages : row[m].posted =>
             \A x \in row[m].parts \ row'[m].parts : m \in raced' \/ (x = "file" /\ row'[m].deleted)]_vars
    BY <1>1
  <1> QED BY <1>2, Invariance, PTL DEF Spec, AttachmentsStay
==============================================================================
