-------------------------------- MODULE Friends --------------------------------
(***************************************************************************)
(* MembersService and NotificationService (src/src/modules/members and     *)
(* src/src/modules/notification): friend requests, friends, blocks, and    *)
(* the notices of requests.                                                *)
(*                                                                         *)
(* Two users are related by a row that one of them made, which is looked   *)
(* for in both directions and inserted an await later without a unique key *)
(* behind it.  The answers to a request find its row, save or remove it,   *)
(* and mark its notice as read in a third step.                            *)
(***************************************************************************)
EXTENDS Integers, FiniteSets

CONSTANTS
  Users,
  Rows,       \* ids of members rows
  Requests,   \* requests the server can have in progress at once
  MaxStarts,  \* bound: requests of a run
  None

ASSUME NoneAssumption == None \notin Rows
ASSUME BoundAssumption == MaxStarts \in Nat

VARIABLES
  member,   \* the members rows
  used,     \* ids given so far
  notice,   \* the notification of each request
  request,  \* the requests in progress
  starts,   \* requests begun so far
  crossed,  \* history: pairs asked for, and rows changed, by two requests at once
  blocked,  \* history: rows that were blocked
  misled    \* history: rows whose notice was made late or left alone

history == <<crossed, blocked, misled>>
vars == <<member, used, notice, request, starts, history>>

Idle == [pc |-> "idle"]

Status == {"PENDING", "ACCEPTED", "BLOCKED"}
Member == [requester : Users, recipient : Users, status : Status]
Pair(u, v) == <<"pair", {u, v}>>
Row(k) == <<"row", k>>

\* The two users of a row that is there: in either direction they are the same pair.
Between(k) == IF member[k] = None THEN {} ELSE {member[k].requester, member[k].recipient}

\* A request of user by; whom is the other user, row the row it is about and seen that row as found.
Request(op, pc, by, whom, row, about) ==
  [op |-> op, pc |-> pc, by |-> by, whom |-> whom, row |-> row, about |-> about, seen |-> None]

(* Rows, notices and requests are of their types, and nobody is asked by   *)
(* himself.                                                                *)
TypeOK ==
  /\ used \subseteq Rows
  /\ member \in [Rows -> {None} \cup Member]
  /\ \A k \in Rows : member[k] # None => k \in used /\ member[k].requester # member[k].recipient
  /\ notice \in [Rows -> {None} \cup [user : Users, read : BOOLEAN]]
  /\ blocked \subseteq used /\ misled \subseteq Rows

Init ==
  /\ member = [k \in Rows |-> None] /\ used = {}
  /\ notice = [k \in Rows |-> None]
  /\ request = [r \in Requests |-> Idle] /\ starts = 0
  /\ crossed = {} /\ blocked = {} /\ misled = {}

-----------------------------------------------------------------------------
Busy == {r \in Requests : request[r] # Idle}
At(r, pc) == request[r] # Idle /\ request[r].pc = pc
Goes(r, q) == request' = [request EXCEPT ![r] = q]

Starts(r, q) ==
  /\ request[r] = Idle /\ starts < MaxStarts
  /\ starts' = starts + 1
  /\ Goes(r, q)
  /\ crossed' = IF \E s \in Busy : request[s].about = q.about THEN crossed \cup {q.about} ELSE crossed
  /\ UNCHANGED <<member, used, notice, blocked, misled>>

\* A query fails and the request ends where it stands; the notice is not marked then.
Fail(r) ==
  /\ request[r] # Idle
  /\ Goes(r, Idle)
  /\ misled' = IF At(r, "handled") THEN misled \cup {request[r].row} ELSE misled
  /\ UNCHANGED <<member, used, notice, starts, crossed, blocked>>

-----------------------------------------------------------------------------
(* sendMemberRequest *)

SendMemberRequest(r) ==
  \E u, v \in Users : u # v /\ Starts(r, Request("send", "findMember", u, v, None, Pair(u, v)))

\* Mutant: only the requests of the same user are looked for.
FindMember_Wrong(r) ==
  /\ At(r, "findMember")
  /\ LET q == request[r]
     IN Goes(r, IF \E k \in Rows : member[k] # None /\ member[k].requester = q.by /\ member[k].recipient = q.whom
                THEN Idle ELSE [q EXCEPT !.pc = "insertMember"])
  /\ UNCHANGED <<member, used, notice, starts, history>>

\* Pending, accepted or blocked, a row in either direction refuses the request.
FindMember(r) ==
  /\ At(r, "findMember")
  /\ LET q == request[r]
     IN Goes(r, IF \E k \in Rows : Between(k) = {q.by, q.whom} THEN Idle ELSE [q EXCEPT !.pc = "insertMember"])
  /\ UNCHANGED <<member, used, notice, starts, history>>

InsertMember(r) ==
  /\ At(r, "insertMember") /\ used # Rows
  /\ LET k == CHOOSE i \in Rows : i \notin used
         q == request[r]
     IN /\ member' = [member EXCEPT ![k] = [requester |-> q.by, recipient |-> q.whom, status |-> "PENDING"]]
        /\ used' = used \cup {k}
        /\ Goes(r, [q EXCEPT !.pc = "notify", !.row = k])
  /\ UNCHANGED <<notice, starts, history>>

\* NotificationService.create, which may come after the request was answered.
Notify(r) ==
  /\ At(r, "notify")
  /\ LET k == request[r].row
     IN /\ notice' = [notice EXCEPT ![k] = [user |-> request[r].whom, read |-> FALSE]]
        /\ misled' = IF member[k] = None \/ member[k].status # "PENDING" \/ \E s \in Busy : request[s].about = Row(k)
                     THEN misled \cup {k} ELSE misled
  /\ Goes(r, Idle)
  /\ UNCHANGED <<member, used, starts, crossed, blocked>>

-----------------------------------------------------------------------------
(* acceptMemberRequest, removeMember, cancelMemberRequest, blockMember *)

Answer(r) ==
  \E op \in {"accept", "remove", "cancel", "block"}, u \in Users, k \in used :
    Starts(r, Request(op, "findRow", u, None, k, Row(k)))

\* Mutant: a request may be accepted whatever became of it.
Allowed_Wrong(op, u, m) ==
  CASE op = "accept" -> m.recipient = u
    [] op = "cancel" -> m.requester = u /\ m.status = "PENDING"
    [] OTHER -> u \in {m.requester, m.recipient}

Allowed(op, u, m) ==
  CASE op = "accept" -> m.recipient = u /\ m.status = "PENDING"
    [] op = "cancel" -> m.requester = u /\ m.status = "PENDING"
    [] OTHER -> u \in {m.requester, m.recipient}

FindRow(r) ==
  /\ At(r, "findRow")
  /\ LET q == request[r]
         m == member[q.row]
     IN Goes(r, IF m = None THEN Idle
                ELSE IF ~Allowed(q.op, q.by, m) THEN Idle
                ELSE [q EXCEPT !.pc = IF q.op \in {"accept", "block"} THEN "saveRow" ELSE "removeRow", !.seen = m])
  /\ UNCHANGED <<member, used, notice, starts, history>>

\* The row is saved as it was found but for its status; if it is gone it is inserted again.
SaveRow(r) ==
  /\ At(r, "saveRow")
  /\ LET q == request[r]
         blocks == q.op = "block"
     IN /\ member' = [member EXCEPT ![q.row] = [q.seen EXCEPT !.status = IF blocks THEN "BLOCKED" ELSE "ACCEPTED"]]
        /\ blocked' = IF blocks THEN blocked \cup {q.row} ELSE blocked
        /\ misled' = IF blocks THEN misled \cup {q.row} ELSE misled
        /\ Goes(r, IF blocks THEN Idle ELSE [q EXCEPT !.pc = "handled", !.whom = q.by])
  /\ UNCHANGED <<used, notice, starts, crossed>>

\* Mutant: who cancels a request has his own notices marked.
RemoveRow_Wrong(r) ==
  /\ At(r, "removeRow")
  /\ LET q == request[r]
     IN /\ member' = [member EXCEPT ![q.row] = None]
        /\ misled' = IF q.op = "remove" /\ q.by = q.seen.requester THEN misled \cup {q.row} ELSE misled
        /\ Goes(r, [q EXCEPT !.pc = "handled", !.whom = q.by])
  /\ UNCHANGED <<used, notice, starts, crossed, blocked>>

\* Who removes a request has his own notices marked, who cancels one the notices of its recipient.
RemoveRow(r) ==
  /\ At(r, "removeRow")
  /\ LET q == request[r]
     IN /\ member' = [member EXCEPT ![q.row] = None]
        /\ misled' = IF q.op = "remove" /\ q.by = q.seen.requester THEN misled \cup {q.row} ELSE misled
        /\ Goes(r, [q EXCEPT !.pc = "handled", !.whom = IF q.op = "cancel" THEN q.seen.recipient ELSE q.by])
  /\ UNCHANGED <<used, notice, starts, crossed, blocked>>

\* markRead and its like on the notices of ks that are user u's.
MarkRead(ks, u) ==
  notice' = [k \in Rows |-> IF k \in ks /\ notice[k] # None /\ notice[k].user = u THEN [notice[k] EXCEPT !.read = TRUE]
                            ELSE notice[k]]

\* markFriendRequestHandled
Handled(r) ==
  /\ At(r, "handled")
  /\ MarkRead({request[r].row}, request[r].whom)
  /\ Goes(r, Idle)
  /\ UNCHANGED <<member, used, starts, history>>

-----------------------------------------------------------------------------
(* markRead and markAllRead, one statement each *)

ReadSome(u) ==
  /\ \E k \in Rows : notice[k] # None /\ notice[k].user = u /\ ~notice[k].read
  /\ \/ MarkRead(Rows, u)
     \/ \E k \in Rows : MarkRead({k}, u)
  /\ UNCHANGED <<member, used, request, starts, history>>

-----------------------------------------------------------------------------
Next ==
  \/ \E r \in Requests :
       \/ SendMemberRequest(r) \/ FindMember(r) \/ InsertMember(r) \/ Notify(r)
       \/ Answer(r) \/ FindRow(r) \/ SaveRow(r) \/ RemoveRow(r) \/ Handled(r)
       \/ Fail(r)
  \/ \E u \in Users : ReadSome(u)

Spec == Init /\ [][Next]_vars

-----------------------------------------------------------------------------
(* Properties *)

\* Two rows of one pair that requests crossed on.
Together(j, k) == {<<"pair", Between(k)>>, Row(j), Row(k)} \cap crossed # {}

(* sendMemberRequest: two users are related by one row at most, so that    *)
(* what one of them answers or blocks is all there is between them; unless *)
(* both asked, or one asked twice, at once, or a row that was removed came *)
(* back through an answer that had found it before.                        *)
OneRelation ==
  \A j, k \in Rows : j # k /\ Between(j) # {} /\ Between(j) = Between(k) => Together(j, k)

(* sendMemberRequest, acceptMemberRequest and removeMember: the rows fit   *)
(* together, one for two users.                                            *)
Consistent == TypeOK /\ OneRelation

(* blockMember: users whose relation was blocked are not friends until one *)
(* of them has removed it and both agreed again; unless something else was *)
(* done to the relation, or asked for twice, at once.                      *)
BlockHolds ==
  \A k \in blocked, j \in Rows :
    Between(k) # {} /\ Between(j) = Between(k) /\ member[j].status = "ACCEPTED" => Together(j, k)

(* acceptMemberRequest, removeMember, cancelMemberRequest and              *)
(* markFriendRequestHandled: an unread notice is about a request that can  *)
(* still be answered; unless it was made after the answer, the request was *)
(* blocked or removed by its requester, answers crossed or one failed.     *)
NoticesHandled ==
  \A k \in Rows : notice[k] # None =>
    \/ notice[k].read
    \/ member[k] # None /\ member[k].status = "PENDING"
    \/ k \in misled \/ Row(k) \in crossed
    \/ \E r \in Busy : request[r].row = k
=============================================================================
