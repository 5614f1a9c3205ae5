# Verification of the Fourier backend

TLA+ models, TLC runs and TLAPS proofs for the Fourier backend, a NestJS server
for teams: accounts and sessions, workspaces, teams, projects, issues, documents,
a calendar, chat over Socket.IO and calls through a mediasoup SFU. PostgreSQL
(TypeORM) holds the durable data, Redis the codes, refresh tokens and snapshots.
Paths are relative to the repository's root, where the server's code is `src/modules/`
(`src/src/modules/` in `PROJECT.json`).

## The system

Node runs one callback at a time. A handler is atomic between two awaits and
interleaves with every other handler at each await of real I/O (the database,
Redis, mail, the mediasoup process). That is the concurrency modelled everywhere:
one action for each stretch of code between two such awaits, with what the code
read before the await kept in a local variable.

| component | state | operations | hard behaviour | what makes it correct |
|---|---|---|---|---|
| `sfu/mediasoup.service` | flags, attempt counter, restart promise, worker | boot, died event, retry loop | a death during a restart, give-up, exits nobody has handled yet | one worker, no death lost, bounded recovery, boot completes |
| `sfu/{room,transport,producer,consumer}.service` | in-memory rooms, peers and flat maps of ids | join, rejoin, leave, kick, mute, create, produce, consume, close | room and peer captured before an await; two router creations; worker death in mid-request | nothing outlives its peer, one router per call, mute silences |
| `sfu/snapshot.service` | Redis snapshot per room | persist, delete, read | fire-and-forget writes, crash between memory and Redis | a snapshot never shows who has left |
| `chat/gateways/chat.gateway` | onlineUsers, socketUsers, threadViewers, userStatus, huddleParticipants | connect, disconnect, thread and huddle join/leave, sfu.* | several sockets of one user, join after disconnect | presence agrees with the sockets, no ghosts |
| `chat/chat.service` | channels, messages, threads, reads, pins, DM rooms | send, edit, delete, react, read, pin, save | find-then-create, counters beside rows | one DM room per pair, unread counts agree with reads |
| `verification`, `auth`, `users` | Redis codes, flags, counters, refresh tokens; users | send code, verify, sign up/in/out, refresh, reset | check-then-act on Redis keys, TTLs, mail failure after the keys are set | limits hold, sessions end with a reset |
| `team`, `workspace` | teams, members, custom roles, invites; workspaces and their seats | create, invite, accept, roles, remove, delete, settings; default workspace | check-then-save limits, concurrent invites, saves of deleted rows | one owner, bounded roles, seats follow the teams |
| `projects` | projects, members, favourites, the first channel and calendar | create, clone, add, role, remove, favourite, delete | some twenty saves without a transaction | what belongs to a member comes and goes with the membership |
| `calendar` | calendars and their members, categories, folders, events | create, update, switch off, default and personal calendars | count-then-insert, find-then-insert, rows saved whole | TEAM calendars bounded, a default category stays, access by role |
| `issues` | issues, subtasks, groups, progress, events of issues | create, update, status, progress, subtasks, remove; groups | read-modify-write of the parent's progress, a climb up the tree | the parent's progress is its children's mean, the calendar follows the dates |
| `docs` | folders, documents, versions, comments, Y.Doc cache with its timers | create, move, update, applyOps, comments, permission lookup | asynchronous cache fill, eviction under an edit | no answered edit lost, removed stays removed |
| `members`, `notification`, `mention` | members rows (requests, friends, blocks), notifications | request, accept, remove, cancel, block, read | crossed requests, answers to what is gone | one relation per pair, blocks hold, notices handled |
| `files`, `gcs`, `activity-log`, `support` | file rows and objects, log rows, mails | CRUD | single statements | |
| controllers, guards, DTOs, mappers, config, migrations | none | wiring | none | |

Interactions: `ChatGateway` calls the services of `sfu` and `chat.service`;
`MediasoupService` emits `sfu.worker.died` / `sfu.worker.ready` which the gateway
broadcasts; `SfuFacade` writes a snapshot after each change of a room; team,
project, issue and member services write notifications and read users.

## Modules

| module | models | instance and run | proofs |
|---|---|---|---|
| `WorkerLifecycle` | what the rest of the SFU may assume of the mediasoup worker: up, crashed, restarting, given up | abstract specification, implemented by `MediasoupWorker` | refinement proved there |
| `MediasoupWorker` | `MediasoupService`: boot, died event, joined restart loop, backoff, give-up | `MCMediasoupWorker`: `worker` | `GatewayProofs` |
| `SfuRooms` | rooms, peers, transports, producers and consumers across the awaits of mediasoup; composes `WorkerLifecycle` | `MCSfuRooms`: `rooms` | `GatewayProofs` |
| `Presence` | who is online, in a thread, in a huddle or in a call, in `ChatGateway` | `MCPresence`: `presence` | `GatewayProofs` |
| `ProofOfEmail` | what a verification promises: only a code that is out for an address and a purpose proves it | abstract specification, implemented by `EmailVerification` | refinement proved there |
| `VerifiedEmails` | the addresses, purposes and verified keys the next two modules share | extended by both | |
| `EmailVerification` | `VerificationService`, Redis command by Redis command | `MCEmailVerification`: `mail_codes` | `AuthProofs` |
| `Accounts` | `AuthService`, `UsersService`, `RefreshTokenService`, query by query | `MCAccounts`: `accounts` | `AuthProofs` |
| `TeamMembers` | `TeamService` and `WorkspaceService`, query by query: the default workspace, teams, members, invites, roles, seats | `MCTeamMembers`: `teams` | `TeamMembersProofs` |
| `ChatMessages` | sending, replying, editing and deleting in `ChatService`, query by query, with the search index, files and link previews | `MCChatMessages`: `messages` | `ChatMessagesProofs` |
| `ChatMarks` | how far users have read, reactions, saved and pinned messages and what clients are told of them, DM rooms, private channels and their callers | `MCChatMarks`: `marks` | `GatewayProofs` |
| `IssueTree` | `IssuesService`: the tree of issues, progress rolled up it, the calendar events of dated issues | `MCIssueTree`: `issues` | `IssueTreeProofs` |
| `Calendars` | `CalendarService`: calendars, members, categories, folders, events | extended by `ProjectMembers` | `ProjectsProofs` |
| `ProjectMembers` | `ProjectService` over `Calendars`: creating, cloning, members, roles, favourites, deletion | `MCProjectMembers`: `projects` | `ProjectsProofs` |
| `Documents` | `DocsService`, `DocsGateway`, `DocPermissionService`: the shared text, the row, versions, comments, folders, permissions | `MCDocuments`: `docs` | `DocumentsProofs` |
| `Friends` | `MembersService` and `NotificationService`: requests, friends, blocks and the notices of requests | `MCFriends`: `friends` | `FriendsProofs` |

Each module has one comment per action naming the method it stands for; the
`map` of `PROJECT.json` gives the lines. A definition that a comment calls a
"Mutant" is a slip somebody could make in the definition after it (a dropped
guard, an off-by-one, a missing reset). It is used by no specification: put in
place of the original it breaks the property `mutants` names.

### State and code

* **MediasoupWorker.** `mediasoupAvailable`, `worker`, `isRestarting`, `restartAttempts`
  and `restartTask` are the fields of `MediasoupService`; `loops` is the await each
  execution of the retry loop is at; `procs` and `diedEvents` are the worker
  processes and the exits nobody has handled yet; `waited` adds up the backoff.
  `boot`, `Listen` and `clientsTold`, `Announce` are the bootstrap of `main.ts` and
  the two broadcasts of the gateway.
* **SfuRooms.** `rooms`, `peers`, `stored` and `indexed` are the maps of `SfuStore` and
  the sets of each peer; `callRouter` is `room.router`, kept per room object, so
  that a later room of the same id is another object. An id stands for the
  transport, producer or consumer a request asks for: `op` is the request,
  `routing` and `pending` the await it is at, `attached` whether the peer it
  captured was still there when it settled. `live`, `open`, `routers` and `routerOf`
  belong to mediasoup.
* **Presence.** `onlineUsers`, `socketUsers`, `userStatus` and `inside` are the maps of the
  gateway; `hello` and `asked` hold the handlers that await a user; `late` remembers
  who got in after a close. `ThreadOpen`, `WebrtcJoin`, `SfuJoin` and their opposites
  are the six handlers, which have one shape.
* **EmailVerification.** `code`, `verified`, `cooldown` and `count` are the Redis keys,
  `req` the calls with what they have read; the rest is history.
* **Accounts.** One row per address (`registered`, `password`, `name`: the columns that
  whole-entity saves can overwrite), the refresh token (`session`), the verified
  key, and in `call` the requests with the row they loaded.
* **TeamMembers.** `workspace`, `team`, `member`, `custom`, `roles` and `invite` are the
  rows of their tables, `seats` the members of the workspace, and `call` the
  requests with the row they loaded and, in `row`, what became of it since. A
  run starts before the creator has a workspace; `getMyWorkspace(s)` and
  `createTeam` repair a missing seat. A team whose settings are saved after it was
  deleted comes back as an `orphan`, outside the workspace and without members;
  `home` tells whether a request loaded a team with its workspace.
* **ChatMessages.** `row` is the `message` table with the rows of the files and the
  link preview each message has (`parts`), `search` the `message_search` table,
  `fetching` the previews `createLinkPreviewAsync` is waiting for, and `call` the
  requests: the await each is at and, in `row`, the entity it will save.
  `uncounted` and `raced` are history.
* **ChatMarks.** `reads`, `mark`, `room` and `channel` are the read, reaction, saved, pin,
  DM room and channel tables; `clock` counts messages and stands for the time;
  `posted` are the times at which a place got one. `told` is what the last event
  of the gateway said of a mark and `callers` who passed `getSfuChannelAccess`.
  Where a unique key stands behind an insert, the second one ends its request.
  One clock stands for that of the process (`lastReadAt`) and that of the database
  (`createdAt`): the model cannot show what a skew between the two does. `MarkRead`
  takes anybody, as `markDmRead` does, which looks at no participants.
* **IssueTree.** `issue` and `event` are rows, `groups` counts the groups under the
  default name and `calendars` the issue calendars, which find-then-create makes. The
  walk up to the nearest group is one step whose outcome is left open, and a
  request about a group is one step, that of its last save. `request` holds the
  row a request loaded and changed in memory: a save writes all of it, over
  whatever the row is by then.
* **Calendars, ProjectMembers.** `project`, `role`, `calendar`, `attendees`, `category`,
  `event`, `channel` and `favorites` are tables of one project. `ProjectMembers`
  EXTENDS `Calendars`: the steps of `ProjectService` that call `CalendarService` are the
  actions of that module, with the request's `op` telling where to go on. `IssueDated`
  and what follows it make the calendar and the category of the issue board.
* **Documents.** `doc`, `author`, `versions`, `comment` and `folder` are rows, `shared` is the
  entry of the `Y.Doc` cache and `timers` the timeouts that will drop it. A text is
  the set of edits in it. Whoever edits is `by`, or `None` where the body names
  nobody; `Matches` has what a query does with an id that is missing, and `NextFolder`
  the query of `getUserPermission` as it is: without a condition where no parent is
  known. What changes a document or folder otherwise is asked for by anybody.
* **Friends.** `member` are the rows of the members table, looked for in both directions,
  `notice` the notification of each request. `seen` in a request is the row as
  found, which an answer saves whole.

In `Accounts` and every module from `TeamMembers` on a request may fail at any of
its awaits (`Fail`, or the insert a key refuses): what it has written stays, since
no service opens a transaction.

## Runs

TLC checks every run with two workers; each takes from a second to three minutes.

| run | bounds | shows |
|---|---|---|
| `worker` | three processes, two loops, limits and delays of the code | no death is lost, never two workers, recovery and boot end, `WorkerLifecycle` is implemented |
| `rooms` | one room, two users, two transports, one producer, one consumer, two routers, two calls | leaks only by the named races, one router per call, what a mute closed stays closed, a rejoin leaves only closed media |
| `presence` | two users, three sockets (the two of one user are interchangeable), one thread, one huddle, one call, one handler in progress at once | presence and sockets agree, ghosts only by two races |
| `mail_codes` | one address, both purposes, two calls, two codes, a limit of two | limit and codes hold unless calls overlap; a proof needs the right code |
| `accounts` | one address, two calls, two passwords, two names | lost updates and stale sessions only by named races |
| `teams` | one team, its creator and a user, two calls, two invitations as managers, two custom roles, a limit of one, from before there is a workspace | a team has its owner, at most the allowed roles and only seated members; an answered invite stays answered; roles change only by somebody's request |
| `messages` | two messages, two texts, two requests | reply counts, deletion, the search index and attachments |
| `issues` | three boards of up to three issues (a pair, a chain, a parent of two with an event), two requests, dates and progress of two values | progress is rolled up, events follow their issues, the board shows every issue, the climb ends, while groups come and go |
| `projects` | three boards (nothing, a project in use, a project whose calendar is off), an owner, a member and an outsider, two requests, a limit of two TEAM calendars | what belongs to members comes and goes with them, a calendar that was given a default category keeps one, the limit holds |
| `marks` | two members of the project and an outsider, two rooms, one private channel, two requests, at most four messages and requests together | unread counts agree with reads, clients with marks; one room per group; private calls |
| `docs` | a user beside edits that name none, two folders, one comment, two requests at once of four in all | shared text, row and versions agree with the answers; removed stays removed |
| `friends` | two users, three rows, two requests at once of five in all | one relation per pair, blocks hold, notices are handled |

In most runs one invariant collects several (`Supervised`, `StoreSound`, `CallsSound`,
`Consistent`): its parts are named, and stated one by one, in the module. Types
are a part of `Consistent` in the newer modules; in the others `TypeOK` is no longer
run, a theorem (`TypeCorrect`, `WorkersTyped`, `PresenceTyped`) states it.

Six further configurations are kept for instances outside these runs, to be
checked with `tlc -config X.cfg M`:

| configuration | module | outcome |
|---|---|---|
| `MCSfuNotices.cfg` | `MCSfuRooms` | passes: under fairness `ConsumersFollow`, consumers follow their producers; one router and one call |
| `MCSfuGhost.cfg` | `MCSfuRooms` | violates `ProducerOwnerJoined`, see "Observations" |
| `MCPresenceTabs.cfg` | `MCPresence` | violates `ConnectedAreListed` |
| `MCPasswordLost.cfg` | `MCAccounts` | violates `PasswordSticks` |
| `MCChatNested.cfg` | `MCChatMessages` | violates `NoNestedThreads` |
| `MCDocumentsInherited.cfg` | `MCDocuments` | violates `GrantInherited` with one request at a time |

**Why the bounds are enough to be of use.** Every hazard listed needs at most two
overlapping operations on one object, and each instance has two (in `rooms` the
second one is a departure, a mute or the death of the worker, which need no
request). Two routers give a first transport and its rival; three sockets give
one user two tabs and another user one; two passwords and two names tell old
from new; a limit of one or two is reached and passed by two calls. Where a
property needs a history the number of requests is bounded instead of their
kind: four in `docs` (a creation, an edit that loads the text, and two that
cross), five in `friends` (a request, its answer, a block, and two that cross),
two on a board that is already there in `issues` and `projects`. Three issues give
a chain on which the roll-up climbs twice; two folders a walk that finds the
wrong one. What `docs` checks is about texts, whoever wrote them: one user, whose
permission a request may have, lack (after a creation that failed half way) or
leave out, tells its outcomes apart, and the configuration about the permission
itself has two users. A second room, address or team only adds an independent copy, except
where one is named above for that reason. The theorems below do not depend on
these bounds.

**Deadlock** is checked except where the system may stop: after the supervisor
has given up, when no more sockets or requests are to come (identifiers of
sockets, invites and mediasoup objects are used once, requests are bounded), or
when every entry in a bounded set is used up.

**Fairness.** Four properties are temporal in the sense of "eventually". `OutageEnds` and
`BootCompletes` assume that Node runs what is due: timers fire, promises that
have settled continue, the died event is delivered, and mediasoup answers a
`createWorker` one way or the other. Processes need never die or stay up.
`RequestsEnd` (`issues`) assumes that every query of a request that has begun is
answered; nobody has to ask for anything, and the property is about boards on
which no cycle of parents is ever made (`updateIssue` does not refuse one, and
the climb would then go round for ever). `ConsumersFollow` assumes that mediasoup
delivers the `producerclose` of a consumer it knows. All other specifications are
safety specifications: a request may wait for ever.

## What is proved

Proofs are for every value of the constants, under the assumptions named beside
them in each module (non-empty sets, sentinels outside the sets they mark, a
positive limit, finitely many calls where something is counted). Every invariant
that a run checks is a theorem, and so is every action property.

Each proof has the same shape: an inductive invariant (`IInv`, `SupervisorInv`,
`SfuInv` with `CallsInv`, `PresenceInv`, `MarksInv`, `DocumentsInv`, `ProjectsInv`,
`IssuesInv`), which TLC has checked on the run's instance first, a lemma per action,
and theorems that follow from it. What is in an inductive invariant beyond the
properties is nearly always the same thing: *what a request has read is still so,
unless it was raced for*. The properties say what rows look like when nobody is at
them; only the requests in progress can spoil that, so the proof has to know what
each of them is about to write.

* **GatewayProofs** has four parts. *MediasoupWorker*: `SupervisorInv` says where each loop can be for each value of
  the flags: `isRestarting` holds exactly while one loop is past its first line,
  `restartTask` names it, and at most the process being created runs beside
  none. From it: `WorkersTyped`, `SingleWorker`, `DeathHandled`, `RestartBacked`,
  `ClientsInformed`, `FallbackFinal`; the refinement of `WorkerLifecycle`
  (`LifecycleSafety`), step by step. `OutageBounded` is the bound on the time waited
  in an outage: the delays are a recursive function, so it needs induction over
  the attempts, which `SetInduction` gives as a statement about sets of naturals
  (the library's induction theorems take an operator, which no installed prover
  instantiates). `OutageCapped` is its arithmetic by multiplication.
  *SfuRooms*: types (`TypeCorrect`); that every id in the flat maps belongs to a joined
  peer or to a request that was pending when its peer left; and that captured
  objects are current until then. One action at a time, over a lemma for what
  `LeaveRooms` removes. A second invariant, `CallsInv`, is about routers: a
  transport that waits for one keeps its call without a router and waits alone,
  unless creations of it overlapped; an open transport is on its call's router;
  what a peer owns was asked for in the call its room is in; and what waits for
  mediasoup rides an open transport of its user, unless the peer joined again.
  From it `CallsStaySound` (`CallsSound`). A third, `MuteInv`, carries what a mute closed
  (`silenced`) through every later step: it is stored nowhere, open nowhere, and no
  pending request will make it. `MuteIsSilent` (`MuteSilences`) is its theorem; a
  produce that was still pending at the mute is not in the claim, because the code
  does not silence it.
  *Presence*: a name in `onlineUsers` is a registered
  socket of that user; whoever is listed without an open socket came by a race. The
  strengthening says the same of each place separately, by whether the entrant was
  open. *ChatMarks*: `MarksInv` says of a request that nothing crossed that the row
  it found is the last of its user and place, that the mark it drops is the one it
  saw, that the group it opens a room for has none, and that between a change of a
  reaction and its news there is a request that will tell it; and of the one row of
  a user and place that its time lies between the last question and the last
  answer. From it `MarksFit` (`Consistent`), `UnreadCountsFit` (`ReadMeansSeen`, by the
  monotonicity of cardinalities) and `ClientsKnowMarks` (`MarksTold`).
* **AuthProofs** has two parts. *EmailVerification*: a stored count never passes the
  limit, whoever else counts (`VerificationTypeCorrect`); the limit holds without overlap
  (the count is what was granted, and what a call has read is still current);
  mailed codes work on undisturbed slots; `ProofOfEmail` is implemented. *Accounts*:
  types; no lost update unless the row was raced for (the carried columns are those
  of the row); sessions follow the password.
* **TeamMembersProofs.** `IInv` says of a request that the row it holds is there, and
  has the role it was loaded with, unless it knows better; that only a renaming
  holds the row of the creator; and that whoever is about to lose the seat is in no
  team or is named by a race. Of the rows it says that a team without its owner's
  row is one nobody but its maker has heard of, and that only a contested invite is
  answered by two requests. Theorems `RowsFit`, `SomebodyManages`, `MembersHaveSeats` and
  the action property `RolesChangeWhenAsked`.
* **ChatMessagesProofs.** `IInv` adds that the row a request loaded is current unless
  it was raced for, that the reply count a save may bring back is within the
  replies of the thread, that a reply which is not yet counted has been posted, and
  that the search index agrees with the row or is ahead of a save that is on its
  way. Theorems `ThreadsFit`, `SearchFits` and, of every step, `DeletedForGood` and
  `AttachmentsKept`.
* **ProjectsProofs.** `ProjectsInv` has a part per hazard. `LimitOK`: one creation at a time
  counts on room for its TEAM calendar, and while it does there is room. `CategoriesOK`: a
  calendar has its default category or a request in hand that will make it
  (`Promised`), unless it is `bare`: made by `ensureDefaultCalendar` or for the issue
  board, which give it none, left by a creation that failed, or saved again after
  it was gone. What a category is saved with agrees with the row. `MembershipOK`: of
  a user who is not excused (`crossed`) at most one request speaks, and `Stage` says for
  each await of that request what the user has by then: no seat but no calendar either
  before a seat is given, no calendar after the switching-off, no event after the
  purge, a seat exactly for those on the list while a project is made. The
  property itself speaks of quiet states only and says nothing of these. A lemma per
  action and part, over frames (what a request keeps of a user it is not about).
  Theorems `ProjectStaysConsistent` (`Consistent`), `CalendarsKeepTheirCategory`
  (`CategoriesStay`), `MembersAreFollowed` (`MembershipFollows`).
* **DocumentsProofs.** `DocumentsInv` says of a request what it has read of the text
  it will write: a rename holds the row's text, an edit the row's text with the edit
  in it (`ReadText`), unless another request about the same text was at work
  (`CrossedOK`). Every answered edit is in the shared text (`SharedOK`); the text of the row is a version or
  about to become one (`VersionsOK`); no request that is not excused would put back
  what was removed (`RemovedOK`). Each timer was set by an edit of its own, which
  bounds their number (`TimersOK`). Theorems `DocumentsFitTogether` (`Consistent`) and, of
  every step, `AnswersStayShared` (`SharedTextGrows`), `RowKeepsText` (`TextKept`) and
  `RemovedForGood` (`RemovedStaysRemoved`). `Inside`, what lies in a folder, is the
  least set closed under the parent relation: no recursion stands in the way.
* **IssueTreeProofs.** `IssuesInv` says of each request what it is at each of its awaits
  (`Fits`) and, unless another request wrote the issue or one of its subtasks since
  it was loaded (`stale`), that what it holds is the row but for what it is about
  to change (`Agrees`): a roll-up about to be saved holds the mean of the subtasks as
  they are. Of each issue it says that its progress is right or a request is climbing at it
  (`RolledOK`), and that its event is right, is the only one and is there, or which
  request is about to move, link or make it (`FollowedOK`); an event about to be linked
  is known to one request (`LinksOK`). The properties speak of quiet states, and
  without requests nothing is left of these alternatives. Theorems `IssuesInvariant`,
  `BoardIsComplete` (`Consistent`), `ProgressIsRolledUp` (`ProgressRolledUp`) and
  `EventsFollowTheirIssues` (`EventFollowsIssue`). Neither the mean (a count of points)
  nor the board (`Shown`, the least set closed under subtasks) is recursive.
* **FriendsProofs.** `IInv` adds that the row a request has seen is current, and a row
  about to be inserted the first of its pair, unless something crossed it; that a
  blocked row stays blocked until it is removed; and that an unread notice of what
  was answered is about to be marked. Theorems `Consistency`, `BlocksHold`, `NoticesAreHandled`.

Steps of each proof are named after the actions; what leaves most variables
alone is handled once by a lemma (`...Keeps`, `Passive`, `Assembled`), under a frame
operator (`Step`, `Touches`) that says what a step of one request leaves alone.

`Supervision` and `StoreHolds` put together what the runs `worker` and `rooms` check
in one invariant each.

Changes of the models that came from the proofs:

* The sentinel `None` of `Friends`, `ChatMessages`, `ChatMarks`, `Documents`,
  `Calendars` and `IssueTree` is
  assumed to lie outside every set it is compared with (rows, events, contents, texts,
  calls, channels, roles), not only outside the set of ids.
* `Calendars` and `ProjectMembers`: a new row has an id that neither a row nor a request in
  hand holds (`Fresh`). It had taken the first id without a row, which could be the one
  of a calendar deleted under a request; no UUID is ever handed out again. With finitely
  many ids a request whose insert finds none left can only fail.
* A calendar that is saved after it went with its project comes back without its
  categories (`bare`), and a project saved after its deletion without its channel
  (`MembershipFollows` says so). The first calendar of a project is made without
  counting the others, so one that meets a TEAM calendar is `uncounted`. The runs'
  instances are too small to show that the properties need these; the proof did.
* `createEvent` and `updateEvent` fail when the category or calendar they name is gone by
  the time of the save, as the foreign keys demand (`Holds`), and so does a category
  saved for a calendar that is gone.
* `IssueTree`: when an issue that `updateIssue` or the calendar had saved is read again
  (`RefreshIssue`), the cases overlapped and the model left open which one holds; they
  are now tested in the order of the code. A request whose event finds no free id
  can only fail; an issue that is to be inserted keeps a free id from the others
  (`HasId`, `IdsOK`).
* A run may start from a board only if that is a state without requests which
  satisfies the properties (`BoardsAssumption`, which TLC evaluates).

**Only model-checked.** Liveness (`OutageEnds`, `BootCompletes`, `RequestsEnd`,
`ConsumersFollow`, and the fair part of `ImplementsLifecycle`): the prover has neither
fairness nor ENABLED.

## Observations

Where the code does not do what a comment, a message or a guard of it says. The
first five have a configuration of their own, above; the others were met while
modelling, and the models do what the code does.

* `MCSfuGhost.cfg`: a peer that leaves, is kicked or disconnects while `produce`
  waits is left with a producer in `store.producers`, which no index holds.
* `MCPresenceTabs.cfg`: closing one of two tabs takes the user off the online list.
* `MCPasswordLost.cfg`: a profile edit or a social sign-in that loaded the row before
  a password change writes the old password back.
* `MCChatNested.cfg`: `sendThreadMessage` checks for a thread inside a thread on a
  relation it has not loaded, so a reply may get a thread of its own.
* `MCDocumentsInherited.cfg`: the walk up the folders, announced as inheritance of
  permissions (`docs/services/doc-permission.service.ts:44`), asks for `{ id: undefined }`
  where no parent is loaded, which finds some folder of the table, so that the
  owner of a folder elsewhere passes; the walk may go round for ever. No property
  that runs is about it: it takes no race, and there is nothing to excuse.
* `docs/docs.gateway.ts:22`: the user of an edit is the one the body names. Where it
  names none, `getUserPermission` drops the condition and finds any member of the
  document (`Matches`).
* `docs/guards/doc-permission.guard.ts:14`: `req.document` and `req.folder` are set by
  `DocContextInterceptor`, which no route uses (and Nest would run after the guard),
  so the guard refuses the one route that requires a permission; `updateDocument`,
  `removeDocument`, `updateFolder`, `moveFolder` and `removeFolder` require none
  (`UpdateDocument`, `RemoveDocument`, `UpdateFolder` and `RemoveFolder` name no user).
* `calendar/calendar.service.ts:661`: the calendar of the issue board is an active TEAM
  calendar made without counting the others, and its category is no default one;
  `ensureDefaultCalendar` makes a calendar without any (`bare`, `uncounted`).
* `calendar/calendar.service.ts:641`: `getDefaultCategory` looks in the oldest TEAM
  calendar only, which may be one of these.
* `chat/chat.service.ts:818`: `markDmRead` and its handler ask for no participant of the
  room (`MarkRead`).
* `sfu/producer.service.ts:58`: a produce that waits for mediasoup while a host mutes its
  user is stored afterwards, and heard (`MuteSilences` leaves it out).
* `issues/issues.service.ts:397`: `deleteIssue` has no caller.
* `chat/chat.service.ts:1140`: `getThreadUnreadCountMap` reads `threadParent` of rows
  loaded without it, and compares a column (`parentMessageId`) that replies do not have.
* `team/team.service.ts:644`: settings saved for a team that was deleted meanwhile
  insert it again, without its workspace (`orphan` in `TeamMembers`).
* `members/members.service.ts:205`: the search for friends asks for the status
  `accepted`, stored as `ACCEPTED`.
* `mention/mention.service.ts:81`: `handleMentions` has no caller; documents have one
  of their own.
* `issues/issues.service.ts`: `updateIssue` takes any `parentId`; issues whose
  parents form a cycle are shown on no board (`BoardComplete`).

Properties that hold "unless" name the race that excuses them with a history
variable (`raced`, `overlapped`, `excused`, ...): the code does not close these
races, and the property shows that nothing else breaks what it states.

## Not modelled

`PROJECT.json` lists every component and what of it is left out. Without a model:

* SFU snapshots: written without waiting after each change of a room and read back by a
  join that has just written its own; no property of the rooms depends on them.
* The relays of the gateway (typing, offers, candidates, media state) and
  `canUseSfuOperation`: they change no state of the server.
* Files, cloud storage, the activity log, support mails: single statements and I/O.
* JWT signing and strategies, controllers, DTOs, mappers, configuration, schema: no
  state; the guards that decide about state, and the keys that refuse a row, are
  parts of the actions they protect.

Of the modelled components: `connectTransport`; what a custom role permits (a
holder may or may not pass a check); token lifetimes; quotes, authors and
captions of messages; comments of issues and which group one is in; names, icons, colours and
times throughout; the notices of invitations and mentions; listings, counts and
searches that only read, unless a property is about them.

## Plan

1. An abstract specification in which a parent's progress is the mean of its
   children, implemented by `IssueTree` when updates do not overlap.
2. The notices of team and workspace invitations beside those of `Friends`.
3. The gateway's SFU handlers over `Presence` and `SfuRooms`: `canUseSfuOperation`
   decides from the one what the other does.
4. **SfuSnapshot** composed with `SfuRooms`, should anything come to rely on it.
