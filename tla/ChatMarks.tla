------------------------------- MODULE ChatMarks -------------------------------
(***************************************************************************)
(* ChatService and ChatGateway (src/src/modules/chat): what users leave    *)
(* beside the messages of ChatMessages - how far they have read, reactions,*)
(* saved and pinned messages, DM rooms - and channels with their callers.  *)
(*                                                                         *)
(* Each is a row that is looked for, and written an await later.  Where a  *)
(* unique key stands behind it (reads of channels and rooms, reactions,    *)
(* saves, pins) a second insert fails and ends its request; reads of       *)
(* threads and DM rooms have none.                                         *)
(*                                                                         *)
(* Time is the number of messages posted so far.  The database dates the   *)
(* messages and the server what was read: they are taken to have one       *)
(* clock, their skew is not modelled.  There is one open channel, with one *)
(* thread and one message to mark; the text of messages, preferences and   *)
(* listings are left out.                                                  *)
(***************************************************************************)
EXTENDS Integers, Sequences, FiniteSets

CONSTANTS
  Members,    \* members of the project
  Outsiders,  \* users who are not
  DmRooms,    \* ids of DM rooms
  Channels,   \* ids of channels made with a list of members
  Requests,   \* requests the server can have in progress at once
  Groups,     \* the sets of users a DM room may be asked for
  Asked,      \* the sets of users a channel may be asked for
  MaxPosts,   \* bound: messages of a run
  MaxStarts,  \* bound: requests of a run
  MaxSteps,   \* bound: messages and requests of a run together
  None

Everybody == Members \cup Outsiders

ASSUME GroupAssumption == \A g \in Groups \cup Asked : g \subseteq Everybody
ASSUME NoneAssumption == None \notin DmRooms \cup [asked : SUBSET Everybody, listed : SUBSET Members]
ASSUME BoundAssumption == MaxPosts \in Nat /\ MaxStarts \in Nat /\ MaxSteps \in Nat

Places == {"channel", "thread"} \cup DmRooms
Keyed == Places \ {"thread"}

\* A reaction and a saved message belong to a user, a pin to the message.
Marks == ({"reaction", "save"} \X Everybody) \cup {<<"pin">>}

VARIABLES
  clock,    \* messages posted so far
  posted,   \* the times at which each place got a message
  reads,    \* the rows that tell how far a user has read a place
  mark,     \* the id of the row of each mark, 0 for none
  serial,   \* rows of marks inserted so far
  told,     \* what the clients of a mark were last told
  room,     \* the participants of each DM room
  channel,  \* the private channels: who was asked for and who is listed
  callers,  \* who was let into the call of a private channel
  request,  \* the requests in progress
  starts,   \* requests begun so far
  askedAt, doneAt, \* history: when the last finished read of a place was asked for and done
  crossed,  \* history: what two requests were about at once, or one that failed
  early     \* history: callers let in before a channel listed its members

tables == <<posted, reads, mark, serial, told, room, channel, callers>>
history == <<askedAt, doneAt, crossed, early>>
vars == <<clock, tables, request, starts, history>>

Idle == [pc |-> "idle"]

\* A request of user by about what a user has read of a place, a mark, a room or a channel; row is
\* the row it found (0 for none), stamp the time it will write, since the time it was asked.
Request(op, pc, by, about) ==
  [op |-> op, pc |-> pc, by |-> by, about |-> about, row |-> 0, stamp |-> clock, since |-> clock]

(* Rows and requests are of their types, and what a unique key stands      *)
(* behind has one row at most.                                             *)
TypeOK ==
  /\ clock \in 0..MaxPosts /\ starts \in 0..MaxStarts
  /\ posted \in [Places -> SUBSET (1..MaxPosts)]
  /\ \A p \in Places, u \in Everybody :
       /\ reads[p][u] \in Seq(0..MaxPosts)
       /\ p \in Keyed => Len(reads[p][u]) <= 1
  /\ mark \in [Marks -> 0..serial] /\ told \in [Marks -> BOOLEAN]
  /\ room \in [DmRooms -> {None} \cup SUBSET Everybody]
  /\ channel \in [Channels -> {None} \cup [asked : SUBSET Everybody, listed : SUBSET Members]]
  /\ callers \subseteq Members \X Channels /\ early \subseteq callers

Init ==
  /\ clock = 0 /\ posted = [p \in Places |-> {}]
  /\ reads = [p \in Places |-> [u \in Everybody |-> << >>]]
  /\ mark = [k \in Marks |-> 0] /\ serial = 0 /\ told = [k \in Marks |-> FALSE]
  /\ room = [d \in DmRooms |-> None]
  /\ channel = [c \in Channels |-> None] /\ callers = {}
  /\ request = [r \in Requests |-> Idle] /\ starts = 0
  /\ askedAt = [p \in Places |-> [u \in Everybody |-> 0]] /\ doneAt = askedAt
  /\ crossed = {} /\ early = {}

-----------------------------------------------------------------------------
(* How a request begins, goes on and ends *)

Busy == {r \in Requests : request[r] # Idle}
At(r, pc) == request[r] # Idle /\ request[r].pc = pc
Goes(r, q) == request' = [request EXCEPT ![r] = q]

Starts(r, q) ==
  /\ request[r] = Idle /\ starts < MaxStarts /\ clock + starts < MaxSteps
  /\ starts' = starts + 1
  /\ Goes(r, q)
  /\ crossed' = IF \E s \in Busy : request[s].about = q.about THEN crossed \cup {q.about} ELSE crossed
  /\ UNCHANGED <<clock, tables, askedAt, doneAt, early>>

\* A query fails and the request ends where it stands.
Fail(r) ==
  /\ request[r] # Idle
  /\ Goes(r, Idle)
  /\ crossed' = crossed \cup {request[r].about}
  /\ UNCHANGED <<clock, tables, starts, askedAt, doneAt, early>>

-----------------------------------------------------------------------------
(* Messages, as far as reading them goes *)

\* A DM needs its participants; a reply in a thread is a message of the channel, too.
Post(p) ==
  /\ clock < MaxPosts /\ clock + starts < MaxSteps
  /\ p \in DmRooms => room[p] # None
  /\ clock' = clock + 1
  /\ posted' = [q \in Places |-> IF q = p \/ (p = "thread" /\ q = "channel") THEN posted[q] \cup {clock'} ELSE posted[q]]
  /\ UNCHANGED <<reads, mark, serial, told, room, channel, callers, request, starts, history>>

\* getChannelUnreadCount, getThreadUnreadCount, getDmUnreadCount: one for each row that may be found.
UnreadCounts(p, u) ==
  IF reads[p][u] = << >> THEN {Cardinality(posted[p])}
  ELSE {Cardinality({t \in posted[p] : t > reads[p][u][i]}) : i \in 1..Len(reads[p][u])}

-----------------------------------------------------------------------------
(* markChannelRead, markDmRead, markThreadRead *)

\* Nobody asks whether the user belongs there.
MarkRead(r) ==
  \E p \in Places, u \in Everybody :
    /\ p \in DmRooms => room[p] # None
    /\ Starts(r, Request("read", "findRead", u, <<"read", p, u>>))

\* The time is taken when the row was found; findOne returns any where there are two.
FindRead(r) ==
  /\ At(r, "findRead")
  /\ LET q == [request[r] EXCEPT !.pc = "saveRead", !.stamp = clock]
         rows == 1..Len(reads[q.about[2]][q.by])
     IN IF rows = {} THEN Goes(r, q) ELSE \E i \in rows : Goes(r, [q EXCEPT !.row = i])
  /\ UNCHANGED <<clock, tables, starts, history>>

\* Mutant: a row that is there is left as it is.
SaveRead_Wrong(r) ==
  /\ At(r, "saveRead")
  /\ LET q == request[r]
     IN /\ q.row = 0 => q.about[2] = "thread" \/ reads[q.about[2]][q.by] = << >>
        /\ reads' = IF q.row = 0 THEN [reads EXCEPT ![q.about[2]][q.by] = Append(@, q.stamp)] ELSE reads
        /\ askedAt' = [askedAt EXCEPT ![q.about[2]][q.by] = q.since]
        /\ doneAt' = [doneAt EXCEPT ![q.about[2]][q.by] = clock]
  /\ Goes(r, Idle)
  /\ UNCHANGED <<clock, posted, mark, serial, told, room, channel, callers, starts, crossed, early>>

\* The found row is updated, or one is inserted unless a unique key refuses it.
SaveRead(r) ==
  /\ At(r, "saveRead")
  /\ LET q == request[r]
     IN /\ q.row = 0 => q.about[2] = "thread" \/ reads[q.about[2]][q.by] = << >>
        /\ reads' = IF q.row = 0 THEN [reads EXCEPT ![q.about[2]][q.by] = Append(@, q.stamp)]
                    ELSE [reads EXCEPT ![q.about[2]][q.by][q.row] = q.stamp]
        /\ askedAt' = [askedAt EXCEPT ![q.about[2]][q.by] = q.since]
        /\ doneAt' = [doneAt EXCEPT ![q.about[2]][q.by] = clock]
  /\ Goes(r, Idle)
  /\ UNCHANGED <<clock, posted, mark, serial, told, room, channel, callers, starts, crossed, early>>

-----------------------------------------------------------------------------
(* toggleReaction, toggleSaveMessage, pinMessage, unpinMessage *)

Toggle(r) ==
  \E kind \in {"reaction", "save"}, u \in Everybody : Starts(r, Request("toggle", "findMark", u, <<kind, u>>))

Pin(r) == \E u \in Everybody : Starts(r, Request("pin", "findMark", u, <<"pin">>))
Unpin(r) == \E u \in Everybody : Starts(r, Request("unpin", "findMark", u, <<"pin">>))

\* A message pinned already is not pinned again, one that is not pinned is not unpinned.
FindMark(r) ==
  /\ At(r, "findMark")
  /\ LET q == request[r]
         there == mark[q.about] # 0
     IN Goes(r, IF q.op = IF there THEN "pin" ELSE "unpin" THEN Idle
                ELSE [q EXCEPT !.pc = IF there THEN "dropMark" ELSE "addMark", !.row = mark[q.about]])
  /\ UNCHANGED <<clock, tables, starts, history>>

\* A reaction is told after another look at its message, the others at once.
Tells(r, added) ==
  LET q == request[r]
  IN IF q.about[1] = "reaction" THEN Goes(r, [q EXCEPT !.pc = "tell", !.row = IF added THEN 1 ELSE 0]) /\ UNCHANGED told
     ELSE Goes(r, Idle) /\ told' = [told EXCEPT ![q.about] = added]

AddMark(r) ==
  /\ At(r, "addMark") /\ mark[request[r].about] = 0
  /\ mark' = [mark EXCEPT ![request[r].about] = serial + 1]
  /\ serial' = serial + 1
  /\ Tells(r, TRUE)
  /\ UNCHANGED <<clock, posted, reads, room, channel, callers, starts, history>>

\* Mutant: what was removed is told as added.
DropMark_Wrong(r) ==
  /\ At(r, "dropMark")
  /\ mark' = [mark EXCEPT ![request[r].about] = IF @ = request[r].row THEN 0 ELSE @]
  /\ Tells(r, TRUE)
  /\ UNCHANGED <<clock, posted, reads, serial, room, channel, callers, starts, history>>

\* The row that was found goes, if it is still there; a newer one stays.
DropMark(r) ==
  /\ At(r, "dropMark")
  /\ mark' = [mark EXCEPT ![request[r].about] = IF @ = request[r].row THEN 0 ELSE @]
  /\ Tells(r, FALSE)
  /\ UNCHANGED <<clock, posted, reads, serial, room, channel, callers, starts, history>>

TellReaction(r) ==
  /\ At(r, "tell")
  /\ told' = [told EXCEPT ![request[r].about] = request[r].row = 1]
  /\ Goes(r, Idle)
  /\ UNCHANGED <<clock, posted, reads, mark, serial, room, channel, callers, starts, history>>

-----------------------------------------------------------------------------
(* getOrCreateDmRoom *)

GetOrCreateDmRoom(r) == \E g \in Groups, u \in Everybody : u \in g /\ Starts(r, Request("room", "findRoom", u, <<"room", g>>))

FindRoom(r) ==
  /\ At(r, "findRoom")
  /\ Goes(r, IF \E d \in DmRooms : room[d] = request[r].about[2] THEN Idle
             ELSE [request[r] EXCEPT !.pc = "newRoom"])
  /\ UNCHANGED <<clock, tables, starts, history>>

NewRoom(r) ==
  /\ At(r, "newRoom") /\ \E d \in DmRooms : room[d] = None
  /\ room' = [room EXCEPT ![CHOOSE d \in DmRooms : room[d] = None] = request[r].about[2]]
  /\ Goes(r, Idle)
  /\ UNCHANGED <<clock, posted, reads, mark, serial, told, channel, callers, starts, history>>

-----------------------------------------------------------------------------
(* createChannel and getSfuChannelAccess *)

CreateChannel(r) ==
  \E g \in Asked, u \in Members : Starts(r, Request("channel", "newChannel", u, <<"channel", g>>))

NewChannel(r) ==
  /\ At(r, "newChannel") /\ \E c \in Channels : channel[c] = None
  /\ LET c == CHOOSE d \in Channels : channel[d] = None
         q == request[r]
     IN /\ channel' = [channel EXCEPT ![c] = [asked |-> {q.by} \cup q.about[2], listed |-> {}]]
        /\ Goes(r, [q EXCEPT !.pc = "list", !.row = c])
  /\ UNCHANGED <<clock, posted, reads, mark, serial, told, room, callers, starts, history>>

\* Of those asked for only the members of the project are listed.
ListMembers(r) ==
  /\ At(r, "list")
  /\ channel' = [channel EXCEPT ![request[r].row].listed = channel[request[r].row].asked \cap Members]
  /\ Goes(r, Idle)
  /\ UNCHANGED <<clock, posted, reads, mark, serial, told, room, callers, starts, history>>

\* Mutant: a member of the project needs nothing else.
SfuChannelAccess_Wrong(u, c) == channel[c] # None /\ u \in Members

\* A channel without listed members is open to the project.
SfuChannelAccess(u, c) ==
  channel[c] # None /\ u \in Members /\ (channel[c].listed = {} \/ u \in channel[c].listed)

JoinCall(u, c) ==
  /\ SfuChannelAccess(u, c) /\ <<u, c>> \notin callers
  /\ callers' = callers \cup {<<u, c>>}
  /\ early' = IF channel[c].listed = {} THEN early \cup {<<u, c>>} ELSE early
  /\ UNCHANGED <<clock, posted, reads, mark, serial, told, room, channel, request, starts, askedAt, doneAt, crossed>>

-----------------------------------------------------------------------------
Ask(r) == MarkRead(r) \/ Toggle(r) \/ Pin(r) \/ Unpin(r) \/ GetOrCreateDmRoom(r) \/ CreateChannel(r)

Handle(r) ==
  \/ FindRead(r) \/ SaveRead(r)
  \/ FindMark(r) \/ AddMark(r) \/ DropMark(r) \/ TellReaction(r)
  \/ FindRoom(r) \/ NewRoom(r)
  \/ NewChannel(r) \/ ListMembers(r)
  \/ Fail(r)

Next ==
  \/ \E r \in Requests : Ask(r) \/ Handle(r)
  \/ \E p \in Places : Post(p)
  \/ \E u \in Members, c \in Channels : JoinCall(u, c)

Spec == Init /\ [][Next]_vars

-----------------------------------------------------------------------------
(* Properties *)

Settled(about) == about \notin crossed /\ \A r \in Busy : request[r].about # about

(* markChannelRead, markDmRead, markThreadRead and the counts of unread    *)
(* messages: whichever row is found, what was there when the user last     *)
(* asked to mark the place as read is not counted, and what came after it  *)
(* was marked is; unless two marks of the user crossed there or one failed.*)
ReadMeansSeen ==
  \A p \in Places, u \in Everybody :
    Settled(<<"read", p, u>>) =>
      \A n \in UnreadCounts(p, u) :
        /\ n >= Cardinality({t \in posted[p] : t > doneAt[p][u]})
        /\ n <= Cardinality({t \in posted[p] : t > askedAt[p][u]})

(* toggleReaction, toggleSaveMessage, pinMessage, unpinMessage: what the   *)
(* clients were last told of a mark is what its row says; unless two       *)
(* requests changed it at once or one failed before it was told.           *)
MarksTold == \A k \in Marks : Settled(k) => (told[k] <=> mark[k] # 0)

(* getOrCreateDmRoom: a group of users has one room at most, so that their *)
(* messages are all in one; unless it was asked for twice at once.         *)
OneRoomPerGroup ==
  \A d, e \in DmRooms : d # e /\ room[d] # None /\ room[d] = room[e] => <<"room", room[d]>> \in crossed

(* createChannel and getSfuChannelAccess: in the call of a private channel *)
(* is nobody who was not asked for, but those who came before its members  *)
(* were listed.                                                            *)
CallersAsked == \A x \in callers \ early : x[1] \in channel[x[2]].asked

(* toggles, createChannel and getOrCreateDmRoom: the rows fit together, a  *)
(* group has one room and a private call those who were asked for.         *)
Consistent == TypeOK /\ OneRoomPerGroup /\ CallersAsked
=============================================================================
