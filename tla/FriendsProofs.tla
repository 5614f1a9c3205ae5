---------------------------- MODULE FriendsProofs ----------------------------
(***************************************************************************)
(* Theorems about Friends, for every number of users, rows and requests.   *)
(***************************************************************************)
EXTENDS Friends, TLAPS

Answers == {"accept", "remove", "cancel", "block"}

Steps == {"findMember", "insertMember", "notify", "findRow", "saveRow", "removeRow", "handled"}

Things == {Pair(u, v) : u, v \in Users} \cup {Row(k) : k \in Rows}

RequestRecord ==
  [op : Answers \cup {"send"}, pc : Steps,
   by : Users, whom : Users \cup {None}, row : Rows \cup {None},
   about : Things,
   seen : {None} \cup Member]

(* What each step of a request has established.                            *)
RequestOK(r) ==
  LET q == request[r]
  IN /\ q.pc \in {"findMember", "insertMember", "notify"} =>
          q.op = "send" /\ q.whom \in Users /\ q.by # q.whom /\ q.about = Pair(q.by, q.whom)
     /\ q.pc \in {"findMember", "insertMember"} => q.row = None
     /\ q.pc \in {"notify", "findRow", "saveRow", "removeRow", "handled"} => q.row \in used
     /\ q.pc \in {"findRow", "saveRow", "removeRow", "handled"} => q.op \in Answers /\ q.about = Row(q.row)
     /\ q.pc \in {"saveRow", "removeRow"} =>
          q.seen \in Member /\ q.seen # None /\ q.seen.requester # q.seen.recipient /\ Allowed(q.op, q.by, q.seen)
     /\ q.pc = "saveRow" => q.op \in {"accept", "block"}
     /\ q.pc = "removeRow" => q.op \in {"remove", "cancel"}
     /\ q.pc = "handled" => q.whom \in Users

RequestsOK ==
  /\ request \in [Requests -> {Idle} \cup RequestRecord]
  /\ \A r \in Busy : RequestOK(r)

(* Two requests about the same thing have crossed on it.                   *)
CrossedOK == \A r, s \in Busy : r # s /\ request[r].about = request[s].about => request[r].about \in crossed

(* What a request found is still there, but for crossed ones.              *)
SeenOK == \A r \in Busy : request[r].pc \in {"saveRow", "removeRow"} =>
            Row(request[r].row) \in crossed \/ member[request[r].row] = request[r].seen

(* A request about to insert a row is the first of its pair.               *)
FirstOK == \A r \in Requests : At(r, "insertMember") =>
             \/ request[r].about \in crossed
             \/ \A k \in Rows : Between(k) = {request[r].by, request[r].whom} => Row(k) \in crossed

(* A blocked row stays blocked until it is removed.                        *)
BlockedOK == \A k \in blocked : member[k] = None \/ member[k].status = "BLOCKED" \/ Row(k) \in crossed

(* The notice of a row is, or will be, its recipient's.                    *)
NoticeUserOK ==
  /\ \A k \in Rows : notice[k] # None =>
       k \in used /\ (Row(k) \in crossed \/ member[k] = None \/ member[k].recipient = notice[k].user)
  /\ \A r \in Requests : At(r, "notify") =>
       LET k == request[r].row
       IN Row(k) \in crossed \/ member[k] = None \/ member[k].recipient = request[r].whom

(* An unread notice about what was answered is about to be marked.         *)
IsRead(n) == n.read

NoticeMarked(k) ==
  \/ IsRead(notice[k])
  \/ member[k] # None /\ member[k].status = "PENDING"
  \/ k \in misled \/ Row(k) \in crossed
  \/ \E r \in Requests : At(r, "handled") /\ request[r].row = k /\ request[r].whom = notice[k].user

NoticesMarked == \A k \in Rows : notice[k] # None => NoticeMarked(k)

IInv ==
  /\ TypeOK /\ RequestsOK /\ CrossedOK
  /\ SeenOK /\ FirstOK /\ OneRelation
  /\ BlockedOK
  /\ NoticeUserOK /\ NoticesMarked

-----------------------------------------------------------------------------
(* A request in progress has a full record.                                *)
LEMMA Record ==
  ASSUME RequestsOK, NEW r \in Requests, request[r] # Idle
  PROVE  request[r] \in RequestRecord /\ r \in Busy /\ RequestOK(r)
BY DEF RequestsOK, Busy

(* Nothing in progress is idle.                                            *)
LEMMA NotIdle == \A q \in RequestRecord : q # Idle
<1>1. \A q \in RequestRecord : q.pc # "idle"
  BY DEF RequestRecord, Steps
<1>. QED
  BY <1>1 DEF Idle

(* What becomes of a request, and of no other.                             *)
LEMMA Moves ==
  ASSUME RequestsOK, NEW r \in Requests, NEW q \in RequestRecord \cup {Idle}, Goes(r, q)
  PROVE  /\ request' \in [Requests -> {Idle} \cup RequestRecord]
         /\ request'[r] = q
         /\ \A s \in Requests \ {r} : request'[s] = request[s]
BY DEF RequestsOK, Goes

(* A request that has found a row.                                         *)
Found(q, pc, m) == [q EXCEPT !.pc = pc, !.seen = m]

LEMMA FoundRow ==
  ASSUME NEW q \in RequestRecord, NEW pc \in Steps, NEW m \in {None} \cup Member,
         NEW n, n = Found(q, pc, m)
  PROVE  /\ n \in RequestRecord /\ n # Idle /\ n.pc = pc /\ n.seen = m /\ n.op = q.op /\ n.by = q.by
         /\ n.whom = q.whom /\ n.row = q.row /\ n.about = q.about
<1>1. n \in RequestRecord
  BY DEF RequestRecord, Found
<1>. QED
  BY <1>1, NotIdle DEF RequestRecord, Found

(* A request that has inserted the row k, and one that has answered and    *)
(* will mark the notice of u.                                              *)
Inserted(q, k) == [q EXCEPT !.pc = "notify", !.row = k]
Answered(q, u) == [q EXCEPT !.pc = "handled", !.whom = u]

LEMMA InsertedRow ==
  ASSUME NEW q \in RequestRecord, NEW k \in Rows, NEW n, n = Inserted(q, k)
  PROVE  /\ n \in RequestRecord /\ n # Idle /\ n.pc = "notify" /\ n.row = k /\ n.op = q.op /\ n.by = q.by
         /\ n.whom = q.whom /\ n.about = q.about
<1>1. n \in RequestRecord
  BY DEF RequestRecord, Steps, Inserted
<1>. QED
  BY <1>1, NotIdle DEF RequestRecord, Inserted

LEMMA AnsweredRow ==
  ASSUME NEW q \in RequestRecord, NEW u \in Users, NEW n, n = Answered(q, u)
  PROVE  /\ n \in RequestRecord /\ n # Idle /\ n.pc = "handled" /\ n.whom = u /\ n.op = q.op
         /\ n.by = q.by /\ n.row = q.row /\ n.about = q.about
<1>1. n \in RequestRecord
  BY DEF RequestRecord, Steps, Answered
<1>. QED
  BY <1>1, NotIdle DEF RequestRecord, Answered

(* Rows are told apart by what is said of them.                            *)
LEMMA Abouts ==
  /\ \A j, k : Row(j) = Row(k) => j = k
  /\ \A k, u, v : Row(k) # Pair(u, v)
BY DEF Row, Pair

(* A request that is left alone stays as it should be.                     *)
LEMMA StillOK ==
  ASSUME NEW s \in Requests, RequestOK(s), request'[s] = request[s], used \subseteq used'
  PROVE  RequestOK(s)'
BY DEF RequestOK, Allowed

(* A request that begins may cross one in progress, and changes no row.    *)
LEMMA StartsInv ==
  ASSUME IInv, NEW r \in Requests, NEW q \in RequestRecord, Starts(r, q),
         \/ /\ q.pc = "findMember" /\ q.op = "send" /\ q.whom \in Users /\ q.row = None
            /\ q.by # q.whom /\ q.about = Pair(q.by, q.whom)
         \/ q.pc = "findRow" /\ q.op \in Answers /\ q.row \in used /\ q.about = Row(q.row)
  PROVE  IInv'
<1>1. /\ request' \in [Requests -> {Idle} \cup RequestRecord]
      /\ request[r] = Idle /\ request'[r] = q /\ q # Idle
      /\ \A s \in Requests \ {r} : request'[s] = request[s]
  BY Moves, NotIdle DEF IInv, Starts
<1>2. /\ UNCHANGED <<member, used, notice, blocked, misled>>
      /\ crossed \subseteq crossed'
      /\ \A s \in Busy : request[s].about = q.about => q.about \in crossed'
      /\ Busy' = Busy \cup {r} /\ r \notin Busy
  BY <1>1 DEF Starts, Busy
<1>3. TypeOK'
  BY <1>2 DEF IInv, TypeOK
<1>4. RequestsOK'
  <2>1. RequestOK(r)'
    BY <1>1, <1>2 DEF RequestOK
  <2>2. ASSUME NEW s \in Busy PROVE RequestOK(s)'
    BY <1>1, <1>2, <2>2, StillOK DEF IInv, RequestsOK, Busy
  <2>. QED
    BY <1>1, <1>2, <2>1, <2>2 DEF RequestsOK
<1>5. CrossedOK'
  BY <1>1, <1>2 DEF IInv, CrossedOK, Busy
<1>6. SeenOK'
  BY <1>1, <1>2 DEF IInv, SeenOK, Busy
<1>7. FirstOK'
  BY <1>1, <1>2 DEF IInv, FirstOK, At, Between
<1>8. OneRelation'
  BY <1>2 DEF IInv, OneRelation, Together, Between
<1>9. BlockedOK'
  BY <1>2 DEF IInv, BlockedOK
<1>10. NoticeUserOK'
  BY <1>1, <1>2 DEF IInv, NoticeUserOK, At
<1>11. NoticesMarked'
  BY <1>1, <1>2 DEF IInv, NoticesMarked, NoticeMarked, At
<1>. QED
  BY <1>3, <1>4, <1>5, <1>6, <1>7, <1>8, <1>9, <1>10, <1>11 DEF IInv

(* sendMemberRequest begins.                                               *)
LEMMA SendInv ==
  ASSUME IInv, NEW r \in Requests, SendMemberRequest(r)
  PROVE  IInv'
<1>1. PICK u, v \in Users : u # v /\ Starts(r, Request("send", "findMember", u, v, None, Pair(u, v)))
  BY DEF SendMemberRequest
<1>2. Request("send", "findMember", u, v, None, Pair(u, v)) \in RequestRecord
  BY DEF Request, RequestRecord, Steps, Things
<1>. QED
  BY <1>1, <1>2, StartsInv DEF Request

(* An answer to a request begins.                                          *)
LEMMA AnswerInv ==
  ASSUME IInv, NEW r \in Requests, Answer(r)
  PROVE  IInv'
<1>1. PICK op \in Answers, u \in Users, k \in used : Starts(r, Request(op, "findRow", u, None, k, Row(k)))
  BY DEF Answer, Answers
<1>2. Request(op, "findRow", u, None, k, Row(k)) \in RequestRecord
  BY DEF Request, RequestRecord, Steps, Things, IInv, TypeOK
<1>. QED
  BY <1>1, <1>2, StartsInv DEF Request

(* A request that goes on or ends leaves the other ones as they were.      *)
LEMMA GoesOn ==
  ASSUME IInv, NEW r \in Busy, NEW q \in RequestRecord \cup {Idle}, Goes(r, q),
         used \subseteq used', q # Idle => RequestOK(r)',
         q # Idle => q.about = request[r].about, UNCHANGED crossed
  PROVE  RequestsOK' /\ CrossedOK'
<1>1. /\ request' \in [Requests -> {Idle} \cup RequestRecord]
      /\ request'[r] = q
      /\ \A s \in Requests \ {r} : request'[s] = request[s]
  BY Moves DEF IInv, Busy
<1>2. RequestsOK'
  <2>1. ASSUME NEW s \in Busy', s # r PROVE RequestOK(s)'
    BY <1>1, <2>1, StillOK DEF IInv, RequestsOK, Busy
  <2>. QED
    BY <1>1, <2>1 DEF RequestsOK, Busy
<1>3. CrossedOK'
  BY <1>1 DEF IInv, CrossedOK, Busy
<1>. QED
  BY <1>2, <1>3

(* A failure ends a request; a notice it did not mark is misled.           *)
LEMMA FailInv ==
  ASSUME IInv, NEW r \in Requests, Fail(r)
  PROVE  IInv'
<1>1. r \in Busy /\ RequestOK(r) /\ request[r] \in RequestRecord
  BY Record DEF Fail, IInv
<1>2. /\ request'[r] = Idle
      /\ \A s \in Requests \ {r} : request'[s] = request[s]
  BY Moves DEF Fail, IInv
<1>3. /\ UNCHANGED <<member, used, notice, crossed, blocked>>
      /\ misled' = IF At(r, "handled") THEN misled \cup {request[r].row} ELSE misled
  BY DEF Fail
<1>4. TypeOK'
  BY <1>1, <1>3 DEF IInv, TypeOK, At, RequestOK
<1>5. RequestsOK' /\ CrossedOK'
  BY <1>1, <1>3, GoesOn DEF Fail
<1>6. SeenOK' /\ FirstOK'
  BY <1>2, <1>3 DEF IInv, SeenOK, FirstOK, Busy, At, Between
<1>7. OneRelation' /\ BlockedOK'
  BY <1>3 DEF IInv, OneRelation, Together, Between, BlockedOK
<1>8. NoticeUserOK'
  BY <1>2, <1>3 DEF IInv, NoticeUserOK, At
<1>9. NoticesMarked'
  <2>1. ASSUME NEW k \in Rows, NEW s \in Requests, At(s, "handled"), request[s].row = k,
               request[s].whom = notice[k].user
        PROVE  k \in misled' \/ (At(s, "handled")' /\ request'[s] = request[s])
    <3>1. CASE s = r
      BY <1>3, <2>1, <3>1
    <3>2. CASE s # r
      BY <1>2, <2>1, <3>2 DEF At
    <3>. QED
      BY <3>1, <3>2
  <2>. QED
    BY <1>3, <2>1 DEF IInv, NoticesMarked, NoticeMarked
<1>. QED
  BY <1>4, <1>5, <1>6, <1>7, <1>8, <1>9 DEF IInv

(* A search finds no row of the pair but crossed ones when it goes on.     *)
LEMMA FindMemberInv ==
  ASSUME IInv, NEW r \in Requests, FindMember(r)
  PROVE  IInv'
<1>. DEFINE q == [request[r] EXCEPT !.pc = "insertMember"]
            found == \E k \in Rows : Between(k) = {request[r].by, request[r].whom}
<1>1. r \in Busy /\ RequestOK(r) /\ request[r] \in RequestRecord /\ request[r].pc = "findMember"
  BY Record DEF FindMember, At, IInv
<1>2. Goes(r, IF found THEN Idle ELSE q) /\ UNCHANGED <<member, used, notice, crossed, blocked, misled>>
  BY DEF FindMember, history
<1>3. q \in RequestRecord /\ q.about = request[r].about /\ q # Idle
  BY <1>1, NotIdle DEF RequestRecord, Steps
<1>4. /\ request'[r] = IF found THEN Idle ELSE q
      /\ \A s \in Requests \ {r} : request'[s] = request[s]
  BY <1>2, <1>3, Moves DEF IInv
<1>5. TypeOK'
  BY <1>2 DEF IInv, TypeOK
<1>6. RequestsOK' /\ CrossedOK'
  <2>1. ~found => RequestOK(r)'
    BY <1>1, <1>2, <1>4 DEF RequestOK, RequestRecord, Steps
  <2>. QED
    BY <1>1, <1>2, <1>3, <2>1, GoesOn
<1>7. SeenOK'
  BY <1>2, <1>3, <1>4 DEF IInv, SeenOK, Busy, RequestRecord, Steps
<1>8. FirstOK'
  <2>1. ~found => ~\E k \in Rows : Between(k)' = {request'[r].by, request'[r].whom}
    BY <1>1, <1>2, <1>4 DEF Between, RequestRecord, Steps
  <2>. QED
    BY <1>2, <1>4, <2>1 DEF IInv, FirstOK, At, Between
<1>9. OneRelation' /\ BlockedOK'
  BY <1>2 DEF IInv, OneRelation, Together, Between, BlockedOK
<1>10. NoticeUserOK'
  BY <1>1, <1>2, <1>4 DEF IInv, NoticeUserOK, At, RequestRecord, Steps
<1>11. NoticesMarked'
  BY <1>1, <1>2, <1>4 DEF IInv, NoticesMarked, NoticeMarked, At
<1>. QED
  BY <1>5, <1>6, <1>7, <1>8, <1>9, <1>10, <1>11 DEF IInv

(* An answer that may be given holds the row as it is now.                 *)
LEMMA FindRowInv ==
  ASSUME IInv, NEW r \in Requests, FindRow(r)
  PROVE  IInv'
<1>. DEFINE m == member[request[r].row]
            pc == IF request[r].op \in {"accept", "block"} THEN "saveRow" ELSE "removeRow"
            allowed == m # None /\ Allowed(request[r].op, request[r].by, m)
<1>1. r \in Busy /\ RequestOK(r) /\ request[r] \in RequestRecord /\ request[r].pc = "findRow"
  BY Record DEF FindRow, At, IInv
<1>2. UNCHANGED <<member, used, notice, crossed, blocked, misled>>
  BY DEF FindRow, history
<1>3. m \in {None} \cup Member /\ (m # None => m.requester # m.recipient)
  BY <1>1 DEF RequestOK, IInv, TypeOK
<1>4. PICK n : n = Found(request[r], pc, m)
  OBVIOUS
<1>5. /\ n \in RequestRecord /\ n # Idle /\ n.pc = pc /\ n.seen = m /\ n.op = request[r].op
      /\ n.by = request[r].by /\ n.row = request[r].row /\ n.about = request[r].about
  <2>1. pc \in Steps /\ m \in {None} \cup Member /\ request[r] \in RequestRecord
    BY <1>1, <1>3 DEF Steps
  <2>. HIDE DEF pc, m
  <2>. QED
    BY <1>4, <2>1, FoundRow
<1>6. /\ Goes(r, IF allowed THEN n ELSE Idle)
      /\ request'[r] = Idle \/ (request'[r] = n /\ allowed)
      /\ \A s \in Requests \ {r} : request'[s] = request[s]
  <2>1. Goes(r, IF allowed THEN n ELSE Idle)
    BY <1>4 DEF FindRow, Found
  <2>. HIDE DEF allowed
  <2>. QED
    BY <1>5, <2>1, Moves DEF IInv
<1>7. TypeOK'
  BY <1>2 DEF IInv, TypeOK
<1>8. RequestsOK' /\ CrossedOK'
  <2>1. CASE allowed
    <3>1. request'[r] = n /\ Goes(r, n)
      BY <1>5, <1>6, <2>1, Moves DEF IInv
    <3>2. m \in Member /\ m # None /\ m.requester # m.recipient /\ Allowed(n.op, n.by, m)
      BY <1>3, <1>5, <2>1
    <3>3. n.row \in used' /\ n.op \in Answers /\ n.about = Row(n.row)
      BY <1>1, <1>2, <1>5 DEF RequestOK
    <3>4. RequestOK(r)'
      BY <1>5, <3>1, <3>2, <3>3 DEF RequestOK, Allowed, Answers
    <3>. QED
      BY <1>1, <1>2, <1>5, <3>1, <3>4, GoesOn
  <2>2. CASE ~allowed
    BY <1>1, <1>2, <1>6, <2>2, GoesOn
  <2>. QED
    BY <2>1, <2>2
<1>9. SeenOK'
  BY <1>2, <1>5, <1>6 DEF IInv, SeenOK, Busy
<1>10. FirstOK'
  BY <1>2, <1>5, <1>6 DEF IInv, FirstOK, At, Between
<1>11. OneRelation' /\ BlockedOK'
  BY <1>2 DEF IInv, OneRelation, Together, Between, BlockedOK
<1>12. NoticeUserOK'
  BY <1>2, <1>5, <1>6 DEF IInv, NoticeUserOK, At
<1>13. NoticesMarked'
  BY <1>1, <1>2, <1>6 DEF IInv, NoticesMarked, NoticeMarked, At
<1>. QED
  BY <1>7, <1>8, <1>9, <1>10, <1>11, <1>12, <1>13 DEF IInv

(* A row is inserted for the first request of its pair, or a crossed one.  *)
LEMMA InsertInv ==
  ASSUME IInv, NEW r \in Requests, InsertMember(r)
  PROVE  IInv'
<1>. DEFINE q == request[r]
<1>1. r \in Busy /\ RequestOK(r) /\ q \in RequestRecord /\ q.pc = "insertMember"
  BY Record DEF InsertMember, At, IInv
<1>2. q.op = "send" /\ q.by \in Users /\ q.whom \in Users /\ q.by # q.whom /\ q.about = Pair(q.by, q.whom)
  BY <1>1 DEF RequestOK, RequestRecord
<1>3. PICK k \in Rows : k = CHOOSE i \in Rows : i \notin used
  BY DEF InsertMember, IInv, TypeOK
<1>4. k \notin used /\ member[k] = None /\ notice[k] = None /\ k \notin blocked
  BY <1>3 DEF InsertMember, IInv, TypeOK, NoticeUserOK
<1>5. PICK m : m = [requester |-> q.by, recipient |-> q.whom, status |-> "PENDING"]
  OBVIOUS
<1>22. m \in Member /\ m.requester = q.by /\ m.recipient = q.whom /\ m.status = "PENDING"
  BY <1>2, <1>5 DEF Member, Status
<1>6. PICK n : n = Inserted(q, k)
  OBVIOUS
<1>7. /\ n \in RequestRecord /\ n # Idle /\ n.pc = "notify" /\ n.row = k /\ n.op = q.op /\ n.by = q.by
      /\ n.whom = q.whom /\ n.about = q.about
  BY <1>1, <1>6, InsertedRow
<1>8. /\ Goes(r, n) /\ used' = used \cup {k} /\ UNCHANGED <<notice, crossed, blocked, misled>>
      /\ member' = [member EXCEPT ![k] = m]
  BY <1>3, <1>5, <1>6 DEF InsertMember, history, Inserted
<1>9. /\ member'[k] = m /\ \A j \in Rows \ {k} : member'[j] = member[j]
      /\ member' \in [Rows -> {None} \cup Member]
  BY <1>8, <1>22 DEF IInv, TypeOK
<1>10. request'[r] = n /\ \A s \in Requests \ {r} : request'[s] = request[s]
  BY <1>7, <1>8, Moves DEF IInv
<1>11. ASSUME NEW s \in Busy PROVE request[s].row # k
  <2>1. request[s] \in RequestRecord /\ RequestOK(s)
    BY Record DEF IInv, Busy
  <2>. QED
    BY <1>4, <2>1, NoneAssumption DEF RequestOK, RequestRecord, Steps
<1>12. TypeOK'
  BY <1>2, <1>22, <1>8, <1>9 DEF IInv, TypeOK
<1>13. RequestsOK' /\ CrossedOK'
  <2>1. RequestOK(r)'
    BY <1>2, <1>7, <1>8, <1>10 DEF RequestOK
  <2>. QED
    BY <1>1, <1>7, <1>8, <2>1, GoesOn
<1>14. SeenOK'
  BY <1>7, <1>8, <1>9, <1>10, <1>11 DEF IInv, SeenOK, Busy
<1>15. /\ Between(k)' \in {{}, {q.by, q.whom}}
       /\ \A j \in Rows \ {k} : Between(j)' = Between(j)
  BY <1>5, <1>22, <1>9 DEF Between
<1>16. \A s \in Requests : At(s, "insertMember")' => s # r /\ At(s, "insertMember") /\ request'[s] = request[s]
  BY <1>7, <1>10 DEF At
<1>17. FirstOK'
  <2>1. ASSUME NEW s \in Requests, At(s, "insertMember"), s # r, {request[s].by, request[s].whom} = {q.by, q.whom}
        PROVE  request[s].about \in crossed
    <3>1. s \in Busy /\ request[s].about = q.about
      BY <1>2, <2>1, Record DEF At, RequestOK, IInv, Pair
    <3>. QED
      BY <1>1, <2>1, <3>1 DEF IInv, CrossedOK
  <2>2. ASSUME NEW s \in Requests, At(s, "insertMember"), s # r
        PROVE  {request[s].by, request[s].whom} # {}
    OBVIOUS
  <2>. QED
    BY <1>8, <1>15, <1>16, <2>1, <2>2 DEF IInv, FirstOK
<1>18. OneRelation'
  <2>1. ASSUME NEW j \in Rows, j # k, Between(j) = {q.by, q.whom}
        PROVE  <<"pair", {q.by, q.whom}>> \in crossed \/ Row(j) \in crossed
    BY <1>1, <1>2, <2>1 DEF IInv, FirstOK, At, Busy, Pair
  <2>2. \A i, j \in Rows : i # k /\ j # k /\ i # j /\ Between(i)' # {} /\ Between(i)' = Between(j)' => Together(i, j)'
    BY <1>8, <1>15 DEF IInv, OneRelation, Together
  <2>3. \A j \in Rows : j # k /\ Between(k)' # {} /\ Between(j)' = Between(k)' => Together(k, j)' /\ Together(j, k)'
    BY <1>8, <1>15, <2>1 DEF Together
  <2>. QED
    BY <2>2, <2>3 DEF OneRelation
<1>19. BlockedOK'
  BY <1>4, <1>8, <1>9 DEF IInv, BlockedOK, TypeOK
<1>20. NoticeUserOK'
  BY <1>4, <1>7, <1>8, <1>9, <1>10, <1>11, <1>22 DEF IInv, NoticeUserOK, At, Busy
<1>21. NoticesMarked'
  BY <1>1, <1>4, <1>8, <1>9, <1>10 DEF IInv, NoticesMarked, NoticeMarked, At
<1>. QED
  BY <1>12, <1>13, <1>14, <1>17, <1>18, <1>19, <1>20, <1>21 DEF IInv

(* A notice is its recipient's; one of an answered request is misled.      *)
LEMMA NotifyInv ==
  ASSUME IInv, NEW r \in Requests, Notify(r)
  PROVE  IInv'
<1>. PICK k : k = request[r].row
  OBVIOUS
<1>1. r \in Busy /\ RequestOK(r) /\ request[r] \in RequestRecord /\ request[r].pc = "notify"
  BY Record DEF Notify, At, IInv
<1>2. k \in used /\ k \in Rows /\ request[r].whom \in Users
  BY <1>1 DEF RequestOK, IInv, TypeOK
<1>3. Goes(r, Idle) /\ UNCHANGED <<member, used, crossed, blocked>>
  BY DEF Notify
<1>4. request'[r] = Idle /\ \A s \in Requests \ {r} : request'[s] = request[s]
  BY <1>3, Moves DEF IInv
<1>5. /\ notice' = [notice EXCEPT ![k] = [user |-> request[r].whom, read |-> FALSE]]
      /\ misled' = IF member[k] = None \/ member[k].status # "PENDING" \/ \E s \in Busy : request[s].about = Row(k)
                   THEN misled \cup {k} ELSE misled
  BY DEF Notify
<1>6. /\ notice'[k].user = request[r].whom /\ \A j \in Rows \ {k} : notice'[j] = notice[j]
      /\ notice' \in [Rows -> {None} \cup [user : Users, read : BOOLEAN]]
      /\ misled \subseteq misled' /\ misled' \subseteq misled \cup {k}
  BY <1>2, <1>5 DEF IInv, TypeOK
<1>7. TypeOK'
  BY <1>2, <1>3, <1>6 DEF IInv, TypeOK
<1>8. RequestsOK' /\ CrossedOK'
  BY <1>1, <1>3, GoesOn
<1>9. SeenOK' /\ FirstOK'
  BY <1>3, <1>4 DEF IInv, SeenOK, FirstOK, Busy, At, Between
<1>10. OneRelation' /\ BlockedOK'
  BY <1>3 DEF IInv, OneRelation, Together, Between, BlockedOK
<1>11. NoticeUserOK'
  BY <1>1, <1>2, <1>3, <1>4, <1>6 DEF IInv, NoticeUserOK, At, Busy
<1>12. NoticesMarked'
  <2>1. NoticeMarked(k)'
    <3>1. CASE member[k] = None \/ member[k].status # "PENDING"
      BY <1>2, <1>5, <1>6, <3>1 DEF NoticeMarked
    <3>2. CASE member[k] # None /\ member[k].status = "PENDING"
      BY <1>3, <3>2 DEF NoticeMarked
    <3>. QED
      BY <3>1, <3>2
  <2>2. ASSUME NEW j \in Rows, j # k, notice[j] # None PROVE NoticeMarked(j)'
    BY <1>1, <1>3, <1>4, <1>6, <2>2 DEF IInv, NoticesMarked, NoticeMarked, At
  <2>3. \A j \in Rows : j # k /\ notice'[j] # None => notice[j] # None
    BY <1>6
  <2>. QED
    BY <2>1, <2>2, <2>3 DEF NoticesMarked
<1>. QED
  BY <1>7, <1>8, <1>9, <1>10, <1>11, <1>12 DEF IInv

(* Rows of notices are marked, never unmarked.                             *)
LEMMA Marked ==
  ASSUME IInv, NEW ks \in SUBSET Rows, NEW u \in Users, MarkRead(ks, u)
  PROVE  /\ notice' \in [Rows -> {None} \cup [user : Users, read : BOOLEAN]]
         /\ \A k \in Rows : notice'[k] # None => notice[k] # None /\ notice'[k].user = notice[k].user
         /\ \A k \in Rows : notice[k] # None /\ IsRead(notice[k]) => IsRead(notice'[k])
         /\ \A k \in ks : notice[k] # None /\ notice[k].user = u => IsRead(notice'[k])
<1>. DEFINE Note == [user : Users, read : BOOLEAN]
            n(k) == [notice[k] EXCEPT !.read = TRUE]
            marks(k) == k \in ks /\ notice[k] # None /\ notice[k].user = u
<1>1. ASSUME NEW k \in Rows, notice[k] # None
      PROVE  n(k) \in Note /\ n(k).user = notice[k].user /\ IsRead(n(k))
  <2>1. notice[k] \in Note
    BY <1>1 DEF IInv, TypeOK
  <2>2. n(k) \in Note /\ n(k).user = notice[k].user /\ n(k).read = TRUE
    BY <2>1
  <2>. QED
    BY <2>2 DEF IsRead
<1>2. /\ notice \in [Rows -> {None} \cup Note]
      /\ notice' = [k \in Rows |-> IF marks(k) THEN n(k) ELSE notice[k]]
  BY DEF MarkRead, IInv, TypeOK
<1>. HIDE DEF n, Note
<1>3. ASSUME NEW k \in Rows
      PROVE  /\ notice'[k] \in {None} \cup Note
             /\ notice'[k] # None => notice[k] # None /\ notice'[k].user = notice[k].user
             /\ notice[k] # None /\ IsRead(notice[k]) => IsRead(notice'[k])
             /\ marks(k) => IsRead(notice'[k])
  BY <1>1, <1>2
<1>. QED
  BY <1>2, <1>3 DEF Note

(* A mark ends the wait of the notice for it.                              *)
LEMMA HandledInv ==
  ASSUME IInv, NEW r \in Requests, Handled(r)
  PROVE  IInv'
<1>. DEFINE k == request[r].row
            u == request[r].whom
<1>1. r \in Busy /\ RequestOK(r) /\ request[r] \in RequestRecord /\ request[r].pc = "handled"
  BY Record DEF Handled, At, IInv
<1>2. k \in Rows /\ u \in Users
  BY <1>1 DEF RequestOK, IInv, TypeOK
<1>3. Goes(r, Idle) /\ UNCHANGED <<member, used, crossed, blocked, misled>>
  BY DEF Handled, history
<1>4. request'[r] = Idle /\ \A s \in Requests \ {r} : request'[s] = request[s]
  BY <1>3, Moves DEF IInv
<1>5. /\ notice' \in [Rows -> {None} \cup [user : Users, read : BOOLEAN]]
      /\ \A j \in Rows : notice'[j] # None => notice[j] # None /\ notice'[j].user = notice[j].user
      /\ \A j \in Rows : notice[j] # None /\ IsRead(notice[j]) => IsRead(notice'[j])
      /\ notice[k] # None /\ notice[k].user = u => IsRead(notice'[k])
  BY <1>2, Marked DEF Handled
<1>6. TypeOK'
  BY <1>3, <1>5 DEF IInv, TypeOK
<1>7. RequestsOK' /\ CrossedOK'
  BY <1>1, <1>3, GoesOn
<1>8. SeenOK' /\ FirstOK'
  BY <1>3, <1>4 DEF IInv, SeenOK, FirstOK, Busy, At, Between
<1>9. OneRelation' /\ BlockedOK'
  BY <1>3 DEF IInv, OneRelation, Together, Between, BlockedOK
<1>10. NoticeUserOK'
  BY <1>3, <1>4, <1>5 DEF IInv, NoticeUserOK, At
<1>11. NoticesMarked'
  <2>1. ASSUME NEW j \in Rows, notice'[j] # None PROVE NoticeMarked(j)'
    <3>1. /\ NoticeMarked(j) /\ notice[j] # None /\ notice'[j].user = notice[j].user
          /\ IsRead(notice[j]) => IsRead(notice'[j])
      BY <1>5, <2>1 DEF IInv, NoticesMarked
    <3>2. ASSUME NEW s \in Requests, At(s, "handled"), request[s].row = j, request[s].whom = notice[j].user
          PROVE  NoticeMarked(j)'
      <4>1. CASE s = r
        BY <1>5, <3>1, <3>2, <4>1 DEF NoticeMarked
      <4>2. CASE s # r
        BY <1>4, <3>1, <3>2, <4>2 DEF At, NoticeMarked
      <4>. QED
        BY <4>1, <4>2
    <3>. QED
      BY <1>3, <3>1, <3>2 DEF NoticeMarked
  <2>. QED
    BY <2>1 DEF NoticesMarked
<1>. QED
  BY <1>6, <1>7, <1>8, <1>9, <1>10, <1>11 DEF IInv

(* Reading a notice is a mark too.                                         *)
LEMMA ReadInv ==
  ASSUME IInv, NEW u \in Users, ReadSome(u)
  PROVE  IInv'
<1>1. PICK ks \in SUBSET Rows : MarkRead(ks, u)
  BY DEF ReadSome
<1>2. UNCHANGED <<member, used, request, crossed, blocked, misled>>
  BY DEF ReadSome, history
<1>3. /\ notice' \in [Rows -> {None} \cup [user : Users, read : BOOLEAN]]
      /\ \A j \in Rows : notice'[j] # None => notice[j] # None /\ notice'[j].user = notice[j].user
      /\ \A j \in Rows : notice[j] # None /\ IsRead(notice[j]) => IsRead(notice'[j])
  BY <1>1, Marked
<1>4. TypeOK'
  BY <1>2, <1>3 DEF IInv, TypeOK
<1>5. RequestsOK' /\ CrossedOK' /\ SeenOK' /\ FirstOK'
  BY <1>2 DEF IInv, RequestsOK, RequestOK, Allowed, CrossedOK, SeenOK, FirstOK, Busy, At, Between
<1>6. OneRelation' /\ BlockedOK'
  BY <1>2 DEF IInv, OneRelation, Together, Between, BlockedOK
<1>7. NoticeUserOK' /\ NoticesMarked'
  BY <1>2, <1>3 DEF IInv, NoticeUserOK, NoticesMarked, NoticeMarked, At
<1>. QED
  BY <1>4, <1>5, <1>6, <1>7 DEF IInv
(* An answer that changes its row, and no other, to the same two users or  *)
(* to nothing leaves what is known of the rows, but for crossed ones.      *)
LEMMA ChangesInv ==
  ASSUME IInv, NEW r \in Busy, NEW k \in Rows, request[r].row = k, request[r].about = Row(k),
         NEW n \in RequestRecord \cup {Idle}, Goes(r, n), n # Idle => n.pc = "handled" /\ n.whom \in Users,
         \A j \in Rows \ {k} : member'[j] = member[j],
         Row(k) \in crossed \/ Between(k)' \in {{}, Between(k)},
         UNCHANGED crossed
  PROVE  /\ SeenOK' /\ FirstOK' /\ OneRelation'
         /\ \A s \in Requests \ {r} : request'[s] = request[s]
         /\ request'[r] = n
<1>1. /\ request'[r] = n
      /\ \A s \in Requests \ {r} : request'[s] = request[s]
  BY Moves DEF IInv, Busy
<1>2. \A j \in Rows \ {k} : Between(j)' = Between(j)
  BY DEF Between
<1>3. ASSUME NEW s \in Busy, s # r, request[s].pc \in {"saveRow", "removeRow"}, request[s].row = k
      PROVE  Row(k) \in crossed
  BY <1>3, Record DEF IInv, CrossedOK, RequestOK, Busy
<1>4. SeenOK'
  BY <1>1, <1>2, <1>3, Record DEF IInv, SeenOK, Busy, RequestOK, TypeOK
<1>5. FirstOK'
  BY <1>1, <1>2 DEF IInv, FirstOK, At
<1>6. OneRelation'
  BY <1>2 DEF IInv, OneRelation, Together
<1>. QED
  BY <1>1, <1>2, <1>4, <1>5, <1>6

(* A row is saved as accepted or blocked; its notice is about to be marked *)
(* by its recipient, or misled.                                            *)
LEMMA SaveRowInv ==
  ASSUME IInv, NEW r \in Requests, SaveRow(r)
  PROVE  IInv'
<1>. PICK q, k : q = request[r] /\ k = request[r].row
  OBVIOUS
<1>1. r \in Busy /\ RequestOK(r) /\ q \in RequestRecord /\ q.pc = "saveRow"
  BY Record DEF SaveRow, At, IInv
<1>2. /\ k \in used /\ k \in Rows /\ q.about = Row(k) /\ q.op \in {"accept", "block"} /\ q.by \in Users
      /\ q.seen \in Member /\ q.seen.requester # q.seen.recipient /\ Allowed(q.op, q.by, q.seen)
  BY <1>1 DEF RequestOK, RequestRecord, IInv, TypeOK
<1>3. PICK m : m = [q.seen EXCEPT !.status = IF q.op = "block" THEN "BLOCKED" ELSE "ACCEPTED"]
  OBVIOUS
<1>4. /\ m \in Member /\ m.requester = q.seen.requester /\ m.recipient = q.seen.recipient
      /\ m.status = IF q.op = "block" THEN "BLOCKED" ELSE "ACCEPTED"
  BY <1>2, <1>3 DEF Member, Status
<1>5. PICK n : n = IF q.op = "block" THEN Idle ELSE Answered(q, q.by)
  OBVIOUS
<1>6. /\ n \in RequestRecord \cup {Idle}
      /\ q.op = "block" => n = Idle
      /\ q.op = "accept" => /\ n # Idle /\ n.pc = "handled" /\ n.whom = q.by /\ n.op = q.op
                            /\ n.row = k /\ n.about = q.about
  BY <1>1, <1>2, <1>5, AnsweredRow
<1>7. /\ member' = [member EXCEPT ![k] = m] /\ Goes(r, n)
      /\ UNCHANGED <<used, notice, crossed>>
      /\ blocked' = IF q.op = "block" THEN blocked \cup {k} ELSE blocked
      /\ misled' = IF q.op = "block" THEN misled \cup {k} ELSE misled
  BY <1>3, <1>5 DEF SaveRow, Answered
<1>8. Row(k) \in crossed \/ member[k] = q.seen
  BY <1>1 DEF IInv, SeenOK
<1>9. member'[k] = m /\ \A j \in Rows \ {k} : member'[j] = member[j]
  BY <1>2, <1>7 DEF IInv, TypeOK
<1>10. Row(k) \in crossed \/ Between(k)' \in {{}, Between(k)}
  BY <1>1, <1>4, <1>8, <1>9, Record DEF Between, RequestOK, IInv
<1>11. /\ SeenOK' /\ FirstOK' /\ OneRelation'
       /\ \A s \in Requests \ {r} : request'[s] = request[s]
       /\ request'[r] = n
  <2>1. /\ request[r].row = k /\ request[r].about = Row(k)
        /\ n \in RequestRecord \cup {Idle} /\ Goes(r, n) /\ (n # Idle => n.pc = "handled" /\ n.whom \in Users)
        /\ Row(k) \in crossed \/ Between(k)' \in {{}, Between(k)}
        /\ UNCHANGED crossed
    BY <1>2, <1>4, <1>6, <1>7, <1>10
  <2>. QED
    BY <1>1, <1>2, <1>9, <2>1, ChangesInv
<1>12. TypeOK'
  BY <1>2, <1>4, <1>7, <1>9, <1>11 DEF IInv, TypeOK
<1>13. RequestsOK' /\ CrossedOK'
  <2>1. n # Idle => RequestOK(r)'
    BY <1>2, <1>6, <1>7, <1>11 DEF RequestOK, Answers
  <2>. QED
    BY <1>1, <1>6, <1>7, <1>2, <2>1, GoesOn
<1>14. BlockedOK'
  <2>1. q.op = "accept" /\ k \in blocked => Row(k) \in crossed
    BY <1>1, <1>2, <1>8, Record DEF IInv, BlockedOK, Allowed, RequestOK
  <2>. QED
    BY <1>2, <1>4, <1>7, <1>9, <1>11, <2>1 DEF IInv, BlockedOK, TypeOK
<1>15. NoticeUserOK'
  BY <1>1, <1>2, <1>4, <1>6, <1>7, <1>8, <1>9, <1>11, Record DEF IInv, NoticeUserOK, At, RequestOK
<1>16. NoticesMarked'
  <2>1. ASSUME notice[k] # None PROVE NoticeMarked(k)'
    <3>1. CASE q.op = "block" \/ Row(k) \in crossed
      BY <1>7, <3>1 DEF NoticeMarked
    <3>2. CASE q.op = "accept" /\ Row(k) \notin crossed
      <4>1. notice[k].user = q.by
        BY <1>1, <1>2, <1>8, <2>1, <3>2, Record DEF IInv, NoticeUserOK, Allowed, RequestOK
      <4>. QED
        BY <1>6, <1>7, <1>11, <3>2, <4>1 DEF NoticeMarked, At
    <3>. QED
      BY <1>2, <3>1, <3>2
  <2>2. ASSUME NEW j \in Rows, j # k, notice[j] # None PROVE NoticeMarked(j)'
    BY <1>1, <1>7, <1>11, <2>2 DEF IInv, NoticesMarked, NoticeMarked, At
  <2>. QED
    BY <1>7, <2>1, <2>2 DEF NoticesMarked
<1>. QED
  BY <1>11, <1>12, <1>13, <1>14, <1>15, <1>16 DEF IInv

(* A row is removed; its notice is about to be marked by its recipient, or *)
(* for him, or misled.                                                     *)
LEMMA RemoveRowInv ==
  ASSUME IInv, NEW r \in Requests, RemoveRow(r)
  PROVE  IInv'
<1>. PICK q, k : q = request[r] /\ k = request[r].row
  OBVIOUS
<1>1. r \in Busy /\ RequestOK(r) /\ q \in RequestRecord /\ q.pc = "removeRow"
  BY Record DEF RemoveRow, At, IInv
<1>2. /\ k \in used /\ k \in Rows /\ q.about = Row(k) /\ q.op \in {"remove", "cancel"} /\ q.by \in Users
      /\ q.seen \in Member /\ q.seen # None /\ Allowed(q.op, q.by, q.seen)
  BY <1>1 DEF RequestOK, RequestRecord, IInv, TypeOK
<1>3. PICK u : u = IF q.op = "cancel" THEN q.seen.recipient ELSE q.by
  OBVIOUS
<1>4. u \in Users
  BY <1>2, <1>3 DEF Member
<1>5. PICK n : n = Answered(q, u)
  OBVIOUS
<1>6. /\ n \in RequestRecord /\ n # Idle /\ n.pc = "handled" /\ n.whom = u /\ n.op = q.op
      /\ n.row = k /\ n.about = q.about
  BY <1>1, <1>4, <1>5, AnsweredRow
<1>7. /\ member' = [member EXCEPT ![k] = None] /\ Goes(r, n)
      /\ UNCHANGED <<used, notice, crossed, blocked>>
      /\ misled' = IF q.op = "remove" /\ q.by = q.seen.requester THEN misled \cup {k} ELSE misled
  BY <1>3, <1>5 DEF RemoveRow, Answered
<1>8. Row(k) \in crossed \/ member[k] = q.seen
  BY <1>1 DEF IInv, SeenOK
<1>9. member'[k] = None /\ Between(k)' = {} /\ \A j \in Rows \ {k} : member'[j] = member[j]
  BY <1>2, <1>7 DEF IInv, TypeOK, Between
<1>11. /\ SeenOK' /\ FirstOK' /\ OneRelation'
       /\ \A s \in Requests \ {r} : request'[s] = request[s]
       /\ request'[r] = n
  <2>1. /\ request[r].row = k /\ request[r].about = Row(k)
        /\ n \in RequestRecord \cup {Idle} /\ Goes(r, n) /\ (n # Idle => n.pc = "handled" /\ n.whom \in Users)
        /\ Row(k) \in crossed \/ Between(k)' \in {{}, Between(k)}
        /\ UNCHANGED crossed
    BY <1>2, <1>4, <1>6, <1>7, <1>9
  <2>. QED
    BY <1>1, <1>2, <1>9, <2>1, ChangesInv
<1>12. TypeOK'
  BY <1>2, <1>7, <1>9, <1>11 DEF IInv, TypeOK
<1>13. RequestsOK' /\ CrossedOK'
  <2>1. RequestOK(r)'
    BY <1>2, <1>4, <1>6, <1>7, <1>11 DEF RequestOK, Answers
  <2>. QED
    BY <1>1, <1>6, <1>7, <1>2, <2>1, GoesOn
<1>14. BlockedOK'
  BY <1>7, <1>9, <1>11 DEF IInv, BlockedOK, TypeOK
<1>15. NoticeUserOK'
  BY <1>1, <1>2, <1>6, <1>7, <1>9, <1>11, Record DEF IInv, NoticeUserOK, At, RequestOK
<1>16. NoticesMarked'
  <2>1. ASSUME notice[k] # None PROVE NoticeMarked(k)'
    <3>1. CASE Row(k) \in crossed \/ (q.op = "remove" /\ q.by = q.seen.requester)
      BY <1>7, <3>1 DEF NoticeMarked
    <3>2. CASE Row(k) \notin crossed /\ ~(q.op = "remove" /\ q.by = q.seen.requester)
      <4>1. member[k].recipient = u
        BY <1>2, <1>3, <1>8, <3>2 DEF Allowed
      <4>2. notice[k].user = u
        BY <1>2, <1>8, <2>1, <3>2, <4>1 DEF IInv, NoticeUserOK
      <4>. QED
        BY <1>6, <1>7, <1>11, <4>2 DEF NoticeMarked, At
    <3>. QED
      BY <3>1, <3>2
  <2>2. ASSUME NEW j \in Rows, j # k, notice[j] # None PROVE NoticeMarked(j)'
    BY <1>1, <1>7, <1>11, <2>2 DEF IInv, NoticesMarked, NoticeMarked, At
  <2>. QED
    BY <1>7, <2>1, <2>2 DEF NoticesMarked
<1>. QED
  BY <1>11, <1>12, <1>13, <1>14, <1>15, <1>16 DEF IInv
-----------------------------------------------------------------------------
LEMMA InitInv == Init => IInv
<1>. SUFFICES ASSUME Init PROVE IInv
  OBVIOUS
<1>1. TypeOK /\ OneRelation /\ BlockedOK
  BY DEF Init, TypeOK, OneRelation, Between, BlockedOK
<1>2. RequestsOK /\ CrossedOK /\ SeenOK /\ FirstOK
  BY DEF Init, RequestsOK, CrossedOK, SeenOK, FirstOK, Busy, At
<1>3. NoticeUserOK /\ NoticesMarked
  BY DEF Init, NoticeUserOK, NoticesMarked, At
<1>. QED
  BY <1>1, <1>2, <1>3 DEF IInv

LEMMA NextInv == IInv /\ [Next]_vars => IInv'
<1>. SUFFICES ASSUME IInv, [Next]_vars PROVE IInv'
  OBVIOUS
<1>1. ASSUME NEW r \in Requests,
             \/ SendMemberRequest(r) \/ FindMember(r) \/ InsertMember(r) \/ Notify(r)
             \/ Answer(r) \/ FindRow(r) \/ SaveRow(r) \/ RemoveRow(r) \/ Handled(r)
             \/ Fail(r)
      PROVE  IInv'
  BY <1>1, SendInv, FindMemberInv, InsertInv, NotifyInv, AnswerInv, FindRowInv, SaveRowInv,
     RemoveRowInv, HandledInv, FailInv
<1>2. ASSUME NEW u \in Users, ReadSome(u) PROVE IInv'
  BY <1>2, ReadInv
<1>3. CASE UNCHANGED vars
  <2>. USE <1>3 DEF vars, history
  <2>1. TypeOK' /\ OneRelation' /\ BlockedOK'
    BY DEF IInv, TypeOK, OneRelation, Together, Between, BlockedOK
  <2>2. RequestsOK' /\ CrossedOK' /\ SeenOK' /\ FirstOK'
    BY DEF IInv, RequestsOK, RequestOK, Allowed, CrossedOK, SeenOK, FirstOK, Busy, At, Between
  <2>3. NoticeUserOK' /\ NoticesMarked'
    BY DEF IInv, NoticeUserOK, NoticesMarked, NoticeMarked, At
  <2>. QED
    BY <2>1, <2>2, <2>3 DEF IInv
<1>. QED
  BY <1>1, <1>2, <1>3 DEF Next

(* The inductive invariant: a request that goes on without having crossed  *)
(* another one knows what the rows are, who is to have a notice, and that  *)
(* it is the first of its pair.                                            *)
THEOREM Invariance == Spec => []IInv
<1>. QED
  BY InitInv, NextInv, PTL DEF Spec

(* sendMemberRequest: whatever requests are in progress, two users are     *)
(* related by one row at most, but for those that crossed.                 *)
THEOREM Consistency == Spec => []Consistent
<1>1. IInv => Consistent
  BY DEF IInv, Consistent
<1>. QED
  BY <1>1, Invariance, PTL

(* blockMember: users who were blocked are not friends while the row is    *)
(* there, but for requests that crossed: the row stays blocked, and it is  *)
(* the only one of the two.                                                *)
THEOREM BlocksHold == Spec => []BlockHolds
<1>1. ASSUME IInv, NEW k \in blocked, NEW j \in Rows,
             Between(k) # {}, Between(j) = Between(k), member[j].status = "ACCEPTED"
      PROVE  Together(j, k)
  <2>1. k \in Rows /\ (member[k] = None \/ member[k].status = "BLOCKED" \/ Row(k) \in crossed)
    BY <1>1 DEF IInv, TypeOK, BlockedOK
  <2>2. CASE j = k
    BY <1>1, <2>1, <2>2 DEF Between, Together
  <2>3. CASE j # k
    BY <1>1, <2>1, <2>3 DEF IInv, OneRelation
  <2>. QED
    BY <2>2, <2>3
<1>2. IInv => BlockHolds
  BY <1>1 DEF BlockHolds
<1>. QED
  BY <1>2, Invariance, PTL

(* markFriendRequestHandled: an unread notice is about a request that can  *)
(* still be answered or is about to be marked, but for misled ones: who    *)
(* marks it asks for the notices of the user it was made for.              *)
THEOREM NoticesAreHandled == Spec => []NoticesHandled
<1>1. IInv => NoticesHandled
  <2>1. ASSUME IInv, NEW k \in Rows, notice[k] # None, NoticeMarked(k)
        PROVE  \/ IsRead(notice[k])
               \/ member[k] # None /\ member[k].status = "PENDING"
               \/ k \in misled \/ Row(k) \in crossed
               \/ \E r \in Busy : request[r].row = k
    BY <2>1 DEF NoticeMarked, At, Busy
  <2>. QED
    BY <2>1 DEF IInv, NoticesMarked, NoticesHandled, IsRead
<1>. QED
  BY <1>1, Invariance, PTL
=============================================================================
