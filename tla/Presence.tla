------------------------------ MODULE Presence ------------------------------
(***************************************************************************)
(* Who is online, and who is in which thread, huddle or call: the maps of  *)
(* ChatGateway (src/src/modules/chat/gateways/chat.gateway.ts) and the     *)
(* peers of the SFU's rooms, against sockets that open and close at any    *)
(* time.                                                                   *)
(*                                                                         *)
(* handleConnection and every message handler first await the user of the  *)
(* socket's token, so a socket may close, and its handleDisconnect run,    *)
(* before what it asked for takes effect.  A user may have several         *)
(* sockets, one for each tab or device.                                    *)
(*                                                                         *)
(* Init, Next, Spec and TypeOK carry the module's name: GatewayProofs has  *)
(* this module, SfuRooms and ChatMarks side by side.                       *)
(***************************************************************************)
EXTENDS Naturals, FiniteSets

CONSTANTS
  People, Sockets,
  Threads, Huddles, CallRooms,  \* what a user can be inside of
  UserOf,                       \* the user of each socket's token
  Statuses,                     \* what a user may say of themselves
  NoSocket,
  MaxAsked                      \* bound: handlers that wait at once

Venues == Threads \cup Huddles \cup CallRooms

ASSUME UserOfAssumption == UserOf \in [Sockets -> People]
ASSUME StatusesAssumption == {"online", "offline"} \subseteq Statuses
ASSUME MaxAskedAssumption == MaxAsked \in Nat
ASSUME NoSocketAssumption == NoSocket \notin Sockets

VARIABLES
  socket,       \* external: each socket, as the client and Socket.IO see it
  hello,        \* where handleConnection of each socket is
  onlineUsers,  \* the socket of each online user
  socketUsers,  \* the sockets with an entry in socketUsers
  userStatus,
  inside,       \* threadViewers, huddleParticipants and the rooms' peers
  asked,        \* handlers that wait for the user of their socket
  late          \* history: users with traces left after their socket closed

presenceVars == <<socket, hello, onlineUsers, socketUsers, userStatus, inside, asked, late>>

Handlers == [socket : Sockets, place : Venues, act : {"enter", "leave"}]

(* Every variable has its type; places hold users, never sockets.          *)
PresenceTypeOK ==
  /\ socket \in [Sockets -> {"new", "open", "closed"}]
  /\ hello \in [Sockets -> {"none", "verifying", "subscribing", "done"}]
  /\ onlineUsers \in [People -> Sockets \cup {NoSocket}]
  /\ socketUsers \subseteq Sockets
  /\ userStatus \in [People -> Statuses \cup {"unknown"}]
  /\ inside \in [Venues -> SUBSET People]
  /\ asked \subseteq Handlers
  /\ late \subseteq People

PresenceInit ==
  /\ socket = [s \in Sockets |-> "new"]
  /\ hello = [s \in Sockets |-> "none"]
  /\ onlineUsers = [u \in People |-> NoSocket]
  /\ socketUsers = {}
  /\ userStatus = [u \in People |-> "unknown"]
  /\ inside = [p \in Venues |-> {}]
  /\ asked = {}
  /\ late = {}
-----------------------------------------------------------------------------
(***************************************************************************)
(* Connecting and disconnecting.  An operator whose name ends in _Wrong is *)
(* a plausible slip in the definition after it, used by mutants only.      *)
(***************************************************************************)
\* A client connects: handleConnection starts to verify its token.
Connect(s) ==
  /\ socket[s] = "new"
  /\ socket' = [socket EXCEPT ![s] = "open"]
  /\ hello' = [hello EXCEPT ![s] = "verifying"]
  /\ UNCHANGED <<onlineUsers, socketUsers, userStatus, inside, asked, late>>

\* The token is good: the user is registered, whatever became of the socket.
Register(s) ==
  LET u == UserOf[s] IN
  /\ hello[s] = "verifying"
  /\ hello' = [hello EXCEPT ![s] = "subscribing"]
  /\ onlineUsers' = [onlineUsers EXCEPT ![u] = s]
  /\ socketUsers' = socketUsers \cup {s}
  /\ userStatus' = [userStatus EXCEPT ![u] = "online"]
  /\ late' = IF socket[s] = "open" THEN late ELSE late \cup {u}
  /\ UNCHANGED <<socket, inside, asked>>

\* The socket has joined the Socket.IO rooms of its DMs and channels.
Subscribed(s) ==
  /\ hello[s] = "subscribing"
  /\ hello' = [hello EXCEPT ![s] = "done"]
  /\ UNCHANGED <<socket, onlineUsers, socketUsers, userStatus, inside, asked, late>>

Left_Wrong(u) == [p \in Venues |-> IF p \in CallRooms THEN inside[p] ELSE inside[p] \ {u}]

\* handleDisconnect takes the user out of every thread, huddle and call.
Left(u) == [p \in Venues |-> inside[p] \ {u}]

Offline_Wrong(s) == onlineUsers

\* It takes the user offline even if another socket of the user is open.
Offline(s) == [onlineUsers EXCEPT ![UserOf[s]] = NoSocket]

\* handleDisconnect: a socket that was never registered leaves no trace to clean.
HandleDisconnect(s) ==
  LET u == UserOf[s] IN
  IF s \notin socketUsers
  THEN /\ late' = IF \E p \in Venues : u \in inside[p] THEN late \cup {u} ELSE late
       /\ UNCHANGED <<onlineUsers, socketUsers, userStatus, inside>>
  ELSE /\ socketUsers' = socketUsers \ {s}
       /\ onlineUsers' = Offline(s)
       /\ userStatus' = [userStatus EXCEPT ![u] = "offline"]
       /\ inside' = Left(u)
       /\ late' = late \ {u}

\* External: the client goes away.
Close(s) ==
  /\ socket[s] = "open"
  /\ socket' = [socket EXCEPT ![s] = "closed"]
  /\ HandleDisconnect(s)
  /\ UNCHANGED <<hello, asked>>

\* handleConnection fails: a bad token, or the database. It disconnects.
Refuse(s) ==
  /\ hello[s] \in {"verifying", "subscribing"}
  /\ hello' = [hello EXCEPT ![s] = "done"]
  /\ IF socket[s] = "open"
     THEN socket' = [socket EXCEPT ![s] = "closed"] /\ HandleDisconnect(s)
     ELSE UNCHANGED <<socket, onlineUsers, socketUsers, userStatus, inside, late>>
  /\ UNCHANGED asked

\* PATCH presence/status, by HTTP: no socket is needed.
SetUserPresence(u, status) ==
  /\ userStatus' = [userStatus EXCEPT ![u] = status]
  /\ UNCHANGED <<socket, hello, onlineUsers, socketUsers, inside, asked, late>>
-----------------------------------------------------------------------------
(***************************************************************************)
(* Entering and leaving: thread.open and thread.close, webrtc.join and     *)
(* webrtc.leave, sfu.join and sfu.leave.                                   *)
(***************************************************************************)
\* A message of an open socket: its handler awaits the user.
Receive(s, p, act) ==
  /\ socket[s] = "open" /\ Cardinality(asked) < MaxAsked
  /\ asked' = asked \cup {[socket |-> s, place |-> p, act |-> act]}
  /\ UNCHANGED <<socket, hello, onlineUsers, socketUsers, userStatus, inside, late>>

\* Who enters by a message of s.
Entrant(s) == UserOf[s]

\* The handler goes on, without another look at the socket.
Enter(r) ==
  /\ r \in asked /\ r.act = "enter"
  /\ asked' = asked \ {r}
  /\ inside' = [inside EXCEPT ![r.place] = @ \cup {Entrant(r.socket)}]
  /\ late' = IF socket[r.socket] = "open" THEN late ELSE late \cup {UserOf[r.socket]}
  /\ UNCHANGED <<socket, hello, onlineUsers, socketUsers, userStatus>>

Leave(r) ==
  /\ r \in asked /\ r.act = "leave"
  /\ asked' = asked \ {r}
  /\ inside' = [inside EXCEPT ![r.place] = @ \ {UserOf[r.socket]}]
  /\ UNCHANGED <<socket, hello, onlineUsers, socketUsers, userStatus, late>>

\* handleThreadOpen and handleThreadClose, of the viewers of a thread.
ThreadOpen(r) == r.place \in Threads /\ Enter(r)
ThreadClose(r) == r.place \in Threads /\ Leave(r)

\* handleWebrtcJoin and handleWebrtcLeave, of the participants of a huddle.
WebrtcJoin(r) == r.place \in Huddles /\ Enter(r)
WebrtcLeave(r) == r.place \in Huddles /\ Leave(r)

\* handleSfuJoin and handleSfuLeave, of the peers of a call.
SfuJoin(r) == r.place \in CallRooms /\ Enter(r)
SfuLeave(r) == r.place \in CallRooms /\ Leave(r)

\* The token is refused, or the user has no access to the channel.
Rejected(r) ==
  /\ r \in asked
  /\ asked' = asked \ {r}
  /\ UNCHANGED <<socket, hello, onlineUsers, socketUsers, userStatus, inside, late>>

\* sfu.host-kick: a host takes u out of a call.
Kick(c, u) ==
  /\ u \in inside[c]
  /\ inside' = [inside EXCEPT ![c] = @ \ {u}]
  /\ UNCHANGED <<socket, hello, onlineUsers, socketUsers, userStatus, asked, late>>

PresenceNext ==
  \/ \E s \in Sockets :
       \/ Connect(s) \/ Register(s) \/ Subscribed(s) \/ Close(s) \/ Refuse(s)
       \/ \E p \in Venues, act \in {"enter", "leave"} : Receive(s, p, act)
  \/ \E r \in asked :
       \/ ThreadOpen(r) \/ WebrtcJoin(r) \/ SfuJoin(r)
       \/ ThreadClose(r) \/ WebrtcLeave(r) \/ SfuLeave(r)
       \/ Rejected(r)
  \/ \E c \in CallRooms, u \in People : Kick(c, u)
  \/ \E u \in People, status \in Statuses : SetUserPresence(u, status)

PresenceSpec == PresenceInit /\ [][PresenceNext]_presenceVars
-----------------------------------------------------------------------------
(***************************************************************************)
(* Properties.                                                             *)
(***************************************************************************)
Online(u) == onlineUsers[u] # NoSocket

OpenSocket(u) == \E s \in Sockets : UserOf[s] = u /\ socket[s] = "open"

(* What is sent to onlineUsers[u] (offers, candidates, typing) goes to a   *)
(* socket of u itself that handleDisconnect will find: the two maps never  *)
(* disagree, however connects and disconnects of the user's sockets fall.  *)
RoutesAgree ==
  \A u \in People : Online(u) =>
    UserOf[onlineUsers[u]] = u /\ onlineUsers[u] \in socketUsers

(* Nobody is online, or in a thread, a huddle or a call, without an open   *)
(* socket, unless what put them there took effect after the socket closed, *)
(* or the socket closed before it was registered.                          *)
GhostsOnlyByRace ==
  \A u \in People : Online(u) \/ (\E p \in Venues : u \in inside[p]) =>
    OpenSocket(u) \/ u \in late

(* "Online user list" (chat.controller.ts:216): a user with an open,       *)
(* registered socket is on it.                                             *)
ConnectedAreListed ==
  \A s \in socketUsers : socket[s] = "open" => Online(UserOf[s])
=============================================================================
