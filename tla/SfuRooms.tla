------------------------------ MODULE SfuRooms ------------------------------
(***************************************************************************)
(* The SFU's rooms (src/src/modules/sfu): RoomService, TransportService,   *)
(* ProducerService, ConsumerService and SfuStore, as driven by the sfu.*   *)
(* handlers of ChatGateway, with the mediasoup worker of MediasoupService  *)
(* in its place as the life cycle WorkerLifecycle.                         *)
(*                                                                         *)
(* The store keeps flat maps of transports, producers and consumers, and   *)
(* each peer of a room keeps the set of the ids it owns.  An operation     *)
(* that needs mediasoup awaits it between its checks and its writes, so a  *)
(* peer may leave, be kicked or disconnect, a room may be deleted, and the *)
(* worker may die, while it waits.                                         *)
(*                                                                         *)
(* A transport, producer or consumer id is used once: the sets bound how   *)
(* many are ever requested.  What the code holds as object references (the *)
(* captured room and peer of a waiting operation) is modelled by call ids  *)
(* and by the set "attached".                                              *)
(***************************************************************************)
EXTENDS FiniteSets

CONSTANTS
  Rooms, Users,
  Transports, Producers, Consumers,  \* ids, each requested at most once
  Routers,                           \* mediasoup routers
  Calls,                             \* RoomState objects, one per life of a room
  NoCall, NoRouter, NoOp, NoId

Ids == Transports \cup Producers \cup Consumers

ASSUME IdAssumption ==
  /\ Transports \cap Producers = {}
  /\ Transports \cap Consumers = {}
  /\ Producers \cap Consumers = {}
  /\ NoId \notin Ids
ASSUME NullAssumption == NoCall \notin Calls /\ NoRouter \notin Routers

VARIABLES
  phase,       \* the worker's life cycle (WorkerLifecycle)
  rooms,       \* store.rooms: the RoomState object of each room id
  peers,       \* room.peers: who has joined
  callRouter,  \* room.router of each RoomState object
  routers,     \* mediasoup: routers that are open
  op,          \* the request each id was made for
  routing,     \* transports waiting for worker.createRouter
  pending,     \* ids waiting for mediasoup to create them
  attached,    \* ids whose captured peer was still in its room when they settled
  stored,      \* ids in store.transports, store.producers, store.consumers
  indexed,     \* ids in the sets of the peer that asked for them
  live,        \* ids that have a mediasoup object
  open,        \* ids whose mediasoup object is open
  routerOf,    \* the router a transport was made on
  overlapped,  \* history: calls two of whose router creations overlapped
  rejoined,    \* history: peers that joined again without leaving
  silenced     \* history: producers a host silenced

media == <<stored, indexed, live, open>>
waits == <<routing, pending, attached>>
sfuVars == <<phase, rooms, peers, callRouter, routers, op, waits, media, routerOf,
             overlapped, rejoined, silenced>>

Worker == INSTANCE WorkerLifecycle
Available == Worker!Available(phase)

MediaRequest == [room : Rooms, user : Users, call : Calls,
                 kind : {"send", "recv", "producer", "consumer"},
                 via : Transports \cup {NoId}, of : Producers \cup {NoId}]

ASSUME RequestAssumption == NoOp \notin MediaRequest

(* Every variable has its type.                                            *)
SfuTypeOK ==
  /\ Worker!TypeOK
  /\ rooms \in [Rooms -> Calls \cup {NoCall}]
  /\ peers \in [Rooms -> SUBSET Users]
  /\ callRouter \in [Calls -> Routers \cup {NoRouter}]
  /\ routers \subseteq Routers
  /\ op \in [Ids -> MediaRequest \cup {NoOp}]
  /\ routing \subseteq Transports
  /\ pending \subseteq Ids
  /\ attached \subseteq Ids
  /\ stored \subseteq Ids
  /\ indexed \subseteq Ids
  /\ live \subseteq Ids
  /\ open \subseteq live
  /\ routerOf \in [Transports -> Routers \cup {NoRouter}]
  /\ overlapped \subseteq Calls
  /\ rejoined \subseteq Rooms \X Users
  /\ silenced \subseteq Producers
-----------------------------------------------------------------------------
(***************************************************************************)
(* Operators whose name ends in _Wrong are plausible slips in the          *)
(* definition that follows them; only the mutants of PROJECT.json use them.*)
(***************************************************************************)
Requested(x) == op[x] # NoOp

Of(x, r, u) == Requested(x) /\ op[x].room = r /\ op[x].user = u

IndexOf_Wrong(r, u) == {x \in indexed \ Transports : Of(x, r, u)}

\* What the peer of u in r owns: peer.transports, peer.producers, peer.consumers.
IndexOf(r, u) == {x \in indexed : Of(x, r, u)}

\* mediasoup closes these with their transports and fires 'transportclose'.
RidingOn(ts) == {x \in open \ Transports : op[x].via \in ts}

\* Ids whose captured peer leaves its room while they wait.
Detached(rs, u) == {x \in routing \cup pending : \E r \in rs : Of(x, r, u)}

FreshCalls == {c \in Calls : /\ \A r \in Rooms : rooms[r] # c
                             /\ \A t \in routing : op[t].call # c}

\* ensureRoom
EnsureRoom(r) ==
  IF rooms[r] # NoCall
  THEN UNCHANGED <<rooms, callRouter, overlapped>>
  ELSE \E c \in FreshCalls : /\ rooms' = [rooms EXCEPT ![r] = c]
                             /\ callRouter' = [callRouter EXCEPT ![c] = NoRouter]
                             /\ overlapped' = overlapped \ {c}

SfuInit ==
  /\ Worker!Init
  /\ rooms = [r \in Rooms |-> NoCall]
  /\ peers = [r \in Rooms |-> {}]
  /\ callRouter = [c \in Calls |-> NoRouter]
  /\ routers = {}
  /\ op = [x \in Ids |-> NoOp]
  /\ routing = {} /\ pending = {} /\ attached = {}
  /\ stored = {} /\ indexed = {} /\ live = {} /\ open = {}
  /\ routerOf = [t \in Transports |-> NoRouter]
  /\ overlapped = {} /\ rejoined = {} /\ silenced = {}
-----------------------------------------------------------------------------
(***************************************************************************)
(* Joining and leaving.                                                    *)
(***************************************************************************)
\* joinRoom for a user the room does not have.
Join(r, u) ==
  /\ u \notin peers[r]
  /\ EnsureRoom(r)
  /\ peers' = [peers EXCEPT ![r] = @ \cup {u}]
  /\ UNCHANGED <<phase, routers, op, waits, media, routerOf, rejoined, silenced>>

\* joinRoom for a user the room has: _cleanupPeerResources returns at the
\* first live consumer, else producer, else transport, which it closes without
\* removing it from the store.  "before" are the fallback ids it met first.
Rejoin(r, u) ==
  LET mine(ids) == IndexOf(r, u) \cap ids
      firstLive(ids) == mine(ids) \cap stored \cap live
      dropped == mine(Consumers) \cup mine(Producers)
  IN
  /\ u \in peers[r]
  /\ \/ \E x \in firstLive(Consumers), before \in SUBSET (mine(Consumers) \ live) :
          /\ stored' = stored \ before
          /\ open' = open \ {x}
          /\ UNCHANGED indexed
     \/ /\ firstLive(Consumers) = {}
        /\ \E x \in firstLive(Producers), before \in SUBSET (mine(Producers) \ live) :
             /\ stored' = stored \ (mine(Consumers) \cup before)
             /\ open' = open \ {x}
             /\ indexed' = indexed \ mine(Consumers)
     \/ /\ firstLive(Consumers \cup Producers) = {}
        /\ \E t \in firstLive(Transports) :
             /\ stored' = stored \ (dropped \cup RidingOn({t}))
             /\ open' = open \ ({t} \cup RidingOn({t}))
             /\ indexed' = indexed \ (dropped \cup RidingOn({t}))
     \/ /\ firstLive(Ids) = {}
        /\ stored' = stored \ dropped
        /\ indexed' = indexed \ dropped
        /\ UNCHANGED open
  /\ rejoined' = rejoined \cup {<<r, u>>}
  /\ UNCHANGED <<phase, rooms, peers, callRouter, routers, op, waits, live, routerOf,
                 overlapped, silenced>>

\* leaveRoom deletes the room when its last peer has gone.
Emptied(rs, u) == {r \in rs : peers[r] = {u}}

\* leaveRoom for each room of rs: the peer's ids are closed and forgotten; the
\* last peer takes the room and its router with it.
LeaveRooms(rs, u) ==
  LET mine == UNION {IndexOf(r, u) : r \in rs}
      emptied == Emptied(rs, u)
      closing == {callRouter[rooms[r]] : r \in emptied} \ {NoRouter}
      closedT == (mine \cap Transports)
                   \cup {t \in open \cap Transports : routerOf[t] \in closing}
      gone == mine \cup RidingOn(closedT)
  IN
  /\ peers' = [r \in Rooms |-> IF r \in rs THEN peers[r] \ {u} ELSE peers[r]]
  /\ rooms' = [r \in Rooms |-> IF r \in emptied THEN NoCall ELSE rooms[r]]
  /\ routers' = routers \ closing
  /\ stored' = stored \ gone
  /\ indexed' = indexed \ gone
  /\ open' = open \ (gone \cup closedT)
  /\ attached' = attached \ Detached(rs, u)
  /\ rejoined' = rejoined \ (rs \X {u})
  /\ UNCHANGED <<phase, callRouter, op, routing, pending, live, routerOf, overlapped,
                 silenced>>

\* sfu.leave, and sfu.host-kick of u
LeaveCall(r, u) == u \in peers[r] /\ LeaveRooms({r}, u)

\* handleDisconnect: leaveUserFromAllRooms
Disconnect(u) ==
  LET joined == {r \in Rooms : u \in peers[r]}
  IN  joined # {} /\ LeaveRooms(joined, u)

\* An operation on a room its user has not joined fails, after ensureRoom.
RefusedNotJoined(r, u) ==
  /\ u \notin peers[r] /\ rooms[r] = NoCall
  /\ EnsureRoom(r)
  /\ UNCHANGED <<phase, peers, routers, op, waits, media, routerOf, rejoined, silenced>>
-----------------------------------------------------------------------------
(***************************************************************************)
(* Transports, producers and consumers: a request either is served at once *)
(* without mediasoup, or waits for it with its peer captured.              *)
(***************************************************************************)
\* The request is recorded; nothing but op, waits and media is touched.
Begin(x, r, u, k, t, p) ==
  /\ op[x] = NoOp
  /\ u \in peers[r]
  /\ op' = [op EXCEPT ![x] = [room |-> r, user |-> u, call |-> rooms[r],
                              kind |-> k, via |-> t, of |-> p]]
  /\ attached' = attached \cup {x}
  /\ UNCHANGED <<phase, rooms, peers, callRouter, routers, open, rejoined, silenced>>

\* Served in fallback: stored and indexed in the same step.
WithoutMedia(x) ==
  /\ stored' = stored \cup {x}
  /\ indexed' = indexed \cup {x}
  /\ UNCHANGED <<routing, pending, live>>

\* mediasoup is asked for the object; the rest is done by Created or MediaRejected.
AwaitMedia(x) ==
  /\ pending' = pending \cup {x}
  /\ live' = live \cup {x}
  /\ UNCHANGED <<routing, stored, indexed>>

RouterMissing_Wrong(c) == TRUE

\* ensureRoomRouter creates a router only for a room that has none.
RouterMissing(c) == callRouter[c] = NoRouter

\* createWebRtcTransport up to its first real await.
CreateTransport(t, r, u, dir) ==
  LET c == rooms[r] IN
  /\ Begin(t, r, u, dir, NoId, NoId)
  /\ \/ ~Available /\ WithoutMedia(t) /\ UNCHANGED <<routerOf, overlapped>>
     \/ /\ Available /\ RouterMissing(c)
        /\ routing' = routing \cup {t}
        /\ live' = live \cup {t}
        /\ overlapped' = overlapped \cup {k \in {c} : \E o \in routing : op[o].call = k}
        /\ UNCHANGED <<pending, stored, indexed, routerOf>>
     \/ /\ Available /\ ~RouterMissing(c)
        /\ AwaitMedia(t)
        /\ routerOf' = [routerOf EXCEPT ![t] = callRouter[c]]
        /\ UNCHANGED overlapped

\* worker.createRouter resolves: the captured room gets the router, whatever
\* it had, and the transport is asked of it.
RouterCreated(t, q) ==
  /\ t \in routing
  /\ q \notin routers /\ \A s \in Transports : routerOf[s] # q
  /\ callRouter' = [callRouter EXCEPT ![op[t].call] = q]
  /\ routers' = routers \cup {q}
  /\ routerOf' = [routerOf EXCEPT ![t] = q]
  /\ routing' = routing \ {t}
  /\ pending' = pending \cup {t}
  /\ UNCHANGED <<phase, rooms, peers, op, attached, media, overlapped, rejoined, silenced>>

\* ProducerService.produce.  A closed transport rejects the request, which
\* changes nothing.
Produce(p, t, r, u) ==
  /\ t \in stored /\ op[t].user = u /\ op[t].kind = "send"
  /\ Begin(p, r, u, "producer", t, NoId)
  /\ \/ Available /\ t \in open /\ AwaitMedia(p)
     \/ (~Available \/ t \notin live) /\ WithoutMedia(p)
  /\ UNCHANGED <<routerOf, overlapped>>

\* router.canConsume, and the same test by transport.consume.
CanConsume(t, p, c) ==
  /\ t \in open /\ p \in open
  /\ routerOf[op[p].via] = callRouter[c]
  /\ routerOf[t] = callRouter[c]

\* ConsumerService.consume
Consume(x, t, p, r, u) ==
  LET withMedia == Available /\ callRouter[rooms[r]] # NoRouter /\ t \in live IN
  /\ t \in stored /\ op[t].user = u /\ op[t].kind = "recv"
  /\ p \in stored /\ op[p].room = r
  /\ Begin(x, r, u, "consumer", t, p)
  /\ \/ withMedia /\ CanConsume(t, p, rooms[r]) /\ AwaitMedia(x)
     \/ ~withMedia /\ WithoutMedia(x)
  /\ UNCHANGED <<routerOf, overlapped>>

IndexedOnSettling_Wrong(x) == {}

\* The captured peer indexes the id; nobody sees that peer once it has left.
IndexedOnSettling(x) == IF x \in attached THEN {x} ELSE {}

\* mediasoup's answer to a transport, producer or consumer request.
Created(x) ==
  LET carried == IF x \in Transports THEN routerOf[x] \in routers ELSE op[x].via \in open IN
  /\ x \in pending
  /\ pending' = pending \ {x}
  /\ stored' = stored \cup {x}
  /\ indexed' = indexed \cup IndexedOnSettling(x)
  /\ open' = IF carried THEN open \cup {x} ELSE open
  /\ UNCHANGED <<phase, rooms, peers, callRouter, routers, op, routing, attached, live,
                 routerOf, overlapped, rejoined, silenced>>

\* mediasoup, or the creation of the router, rejects.
MediaRejected(x) ==
  /\ x \in routing \cup pending
  /\ routing' = routing \ {x}
  /\ pending' = pending \ {x}
  /\ UNCHANGED <<phase, rooms, peers, callRouter, routers, op, attached, media, routerOf,
                 overlapped, rejoined, silenced>>
-----------------------------------------------------------------------------
(***************************************************************************)
(* Closing producers.                                                      *)
(***************************************************************************)
ConsumersOf(ps) == {x \in stored \cap Consumers : op[x].of \in ps}

Ended_Wrong(ps) == (ps \cap open) \cup ConsumersOf(ps)

\* What the store forgets with the producers of ps.
Ended(ps) == ps \cup ConsumersOf(ps)

\* closeProducer by u in r, for each id of ps: the store forgets the producer
\* and its consumers; the indices touched are those of the peers of r.  What
\* becomes of "silenced" is left to the caller.
CloseProducers(ps, r, u) ==
  LET unindexed == {x \in ps : Of(x, r, u)} \cup {x \in ConsumersOf(ps) : op[x].room = r}
  IN
  /\ stored' = stored \ Ended(ps)
  /\ open' = open \ Ended(ps)
  /\ indexed' = indexed \ unindexed
  /\ UNCHANGED <<phase, rooms, peers, callRouter, routers, op, waits, live, routerOf,
                 overlapped, rejoined>>

\* sfu.close-producer: any joined user, any producer id.
CloseProducer(r, u, p) ==
  /\ u \in peers[r] /\ p \in stored
  /\ CloseProducers({p}, r, u)
  /\ UNCHANGED silenced

\* What u has asked for in r since it joined, and mediasoup is not still making.
AskedFor(r, u) == {p \in (attached \cap Producers) \ pending : Of(p, r, u)}

\* sfu.host-force-mute: closeUserProducers of the target.
ForceMute(r, u) ==
  /\ u \in peers[r]
  /\ CloseProducers(IndexOf(r, u) \cap Producers, r, u)
  /\ silenced' = silenced \cup AskedFor(r, u)

\* What the 'producerclose' handler of a consumer removes.
ForgottenOnNotice(x) == {x}

\* mediasoup tells an open consumer that its producer has closed.
ProducerClosed(x) ==
  /\ x \in open \cap Consumers /\ op[x].of \notin open
  /\ stored' = stored \ ForgottenOnNotice(x)
  /\ indexed' = indexed \ ForgottenOnNotice(x)
  /\ open' = open \ {x}
  /\ UNCHANGED <<phase, rooms, peers, callRouter, routers, op, waits, live, routerOf,
                 overlapped, rejoined, silenced>>
-----------------------------------------------------------------------------
(***************************************************************************)
(* The worker.                                                             *)
(***************************************************************************)
WorkerStep ==
  /\ Worker!ComeUp \/ Worker!GiveUp \/ Worker!Crash
  /\ UNCHANGED <<rooms, peers, callRouter, routers, op, waits, media, routerOf,
                 overlapped, rejoined, silenced>>

\* invalidateAllRouters: the rooms of the store lose their routers.
InvalidatedCalls == {rooms[r] : r \in Rooms} \ {NoCall}

\* The worker's exit reaches the server: mediasoup closes all its objects and
\* rejects all requests, then handleWorkerDied runs.
WorkerDied ==
  LET riders == open \ Transports IN
  /\ Worker!Notice
  /\ stored' = stored \ riders
  /\ indexed' = indexed \ riders
  /\ open' = {} /\ routers' = {}
  /\ routing' = {} /\ pending' = {}
  /\ callRouter' = [c \in Calls |->
                       IF c \in InvalidatedCalls THEN NoRouter ELSE callRouter[c]]
  /\ UNCHANGED <<rooms, peers, op, attached, live, routerOf, overlapped, rejoined, silenced>>

SfuNext ==
  \/ \E r \in Rooms, u \in Users :
       \/ Join(r, u) \/ Rejoin(r, u) \/ LeaveCall(r, u) \/ RefusedNotJoined(r, u)
       \/ ForceMute(r, u)
       \/ \E t \in Transports, dir \in {"send", "recv"} : CreateTransport(t, r, u, dir)
       \/ \E p \in Producers, t \in Transports : Produce(p, t, r, u)
       \/ \E x \in Consumers, t \in Transports, p \in Producers : Consume(x, t, p, r, u)
       \/ \E p \in Producers : CloseProducer(r, u, p)
  \/ \E u \in Users : Disconnect(u)
  \/ \E t \in Transports, q \in Routers : RouterCreated(t, q)
  \/ \E x \in Ids : Created(x) \/ MediaRejected(x)
  \/ \E x \in Consumers : ProducerClosed(x)
  \/ WorkerStep
  \/ WorkerDied

\* mediasoup delivers its notifications; nothing else need happen.
Fairness == \A x \in Consumers : WF_sfuVars(ProducerClosed(x))

SafetySpec == SfuInit /\ [][SfuNext]_sfuVars
SfuSpec == SafetySpec /\ Fairness
-----------------------------------------------------------------------------
(***************************************************************************)
(* Properties.                                                             *)
(***************************************************************************)
Joined(x) == op[x].user \in peers[op[x].room]

(* No transport, producer or consumer is left in the store when its peer   *)
(* leaves, is kicked or disconnects: what is stored is owned by a peer in  *)
(* the room, except for what a peer was still waiting for when it left.    *)
(* An id of a peer that left while waiting is stored and owned by nobody.  *)
OnlyRaceLeaks ==
  /\ \A x \in indexed : Joined(x)
  /\ \A x \in stored : x \in attached => x \in indexed

(* A room that is gone leaves no peer behind, and an operation that waits  *)
(* with an attached peer waits in a room that exists: the captured peer    *)
(* and room are the ones the store still has.                              *)
CapturedIsCurrent ==
  /\ \A r \in Rooms : rooms[r] = NoCall => peers[r] = {}
  /\ \A x \in routing \cup pending : x \in attached =>
       Joined(x) /\ op[x].call = rooms[op[x].room]

(* The inductive invariant behind the two: ids in use have been asked for, *)
(* and what mediasoup still works on will have an object.                  *)
KnownIds == \A x \in stored \cup indexed \cup routing \cup pending : Requested(x)

WaitersLive == routing \cup pending \subseteq live

SfuInv ==
  /\ SfuTypeOK
  /\ KnownIds
  /\ WaitersLive
  /\ OnlyRaceLeaks
  /\ CapturedIsCurrent

(* A producer or consumer that a peer owns has an open mediasoup object,   *)
(* unless the peer joined again without leaving: only                      *)
(* _cleanupPeerResources, which returns at the first live object it        *)
(* closes, leaves a closed one in the store and in the peer.  Consumers    *)
(* and producers whose transport belongs to another room are left aside.   *)
OnlyRejoinLeavesClosed ==
  \A x \in (indexed \cap stored \cap live) \ Transports :
    op[op[x].via].room = op[x].room =>
      x \in open \/ <<op[x].room, op[x].user>> \in rejoined

(* Everybody in a call is on one router, without which router.canConsume   *)
(* refuses and they cannot hear each other, unless two creations of the    *)
(* router overlapped: ensureRoomRouter tests room.router before an await   *)
(* and sets it afterwards.                                                 *)
OneRouterPerCall ==
  \A s, t \in indexed \cap open \cap Transports :
    op[s].room = op[t].room =>
      routerOf[s] = routerOf[t] \/ rooms[op[s].room] \in overlapped

(* The router a room of the store holds is open, so that ensureRoomRouter, *)
(* which trusts any router it finds, never hands out a dead one: whoever   *)
(* closes routers, the last peer leaving or the worker dying, also makes   *)
(* the rooms forget them.                                                  *)
RoomRouterOpen ==
  \A r \in Rooms : rooms[r] # NoCall =>
    callRouter[rooms[r]] \in routers \cup {NoRouter}

(* RoomService, the capture of rooms and peers by the handlers: the store  *)
(* has what the peers in its rooms own, no more, and operations wait with  *)
(* what the store has.                                                     *)
StoreSound == SfuTypeOK /\ OnlyRaceLeaks /\ CapturedIsCurrent

(* ensureRoomRouter, _cleanupPeerResources and the death of the worker:    *)
(* a call has one open router, and what its peers own is open.             *)
CallsSound == OneRouterPerCall /\ RoomRouterOpen /\ OnlyRejoinLeavesClosed

(* sfu.host-force-mute silences the target, from then on and through all   *)
(* that follows: whatever it had asked for when the host muted it is never *)
(* again in the store, where getUserMediaState and newcomers find it, nor  *)
(* open in mediasoup, where those who consume it hear it.  Not in the      *)
(* claim, because the code does not silence it, is what mediasoup was      *)
(* still making at the mute (produce stores and indexes it afterwards,     *)
(* without a look at the mute) and what the target left behind when it     *)
(* left the room while waiting, which closeUserProducers does not find.    *)
MuteSilences == silenced \cap (stored \cup open) = {}

(* The inductive invariant behind it: what is open is in the store, and    *)
(* what was silenced is not about to be created.                           *)
MuteInv ==
  /\ open \subseteq stored
  /\ silenced \cap pending = {}
  /\ \A p \in silenced : Requested(p)
  /\ MuteSilences

(* A consumer with media does not outlive its producer: once the producer  *)
(* is closed the consumer leaves the store, unless its peer joins again    *)
(* without leaving before the notice comes: _cleanupPeerResources then     *)
(* closes the consumer, and a closed one is told nothing more.             *)
ConsumersFollow ==
  \A x \in Consumers :
    (x \in open \cap stored /\ op[x].of \notin open)
      ~> (x \notin stored \/ <<op[x].room, op[x].user>> \in rejoined)

(* "Peer not joined" (producer.service.ts:35): a producer belongs to a     *)
(* user who is in the room.                                                *)
ProducerOwnerJoined == \A p \in stored \cap Producers : Joined(p)
=============================================================================
