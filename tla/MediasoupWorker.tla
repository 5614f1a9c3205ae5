--------------------------- MODULE MediasoupWorker ---------------------------
(***************************************************************************)
(* MediasoupService (src/src/modules/sfu/mediasoup.service.ts): the        *)
(* supervisor of the SFU's one mediasoup worker process.  It starts the    *)
(* worker at boot, notices its death, and restarts it with exponential     *)
(* backoff until maxRestartAttempts, after which it serves calls without   *)
(* media ("fallback mode").                                                *)
(*                                                                         *)
(* Node runs one callback at a time, so an action is the code between two  *)
(* awaits.  The worker is another process: it may exit at any moment, and  *)
(* its 'died' event reaches the server later.                              *)
(***************************************************************************)
EXTENDS Integers, FiniteSets

CONSTANTS
  Workers,       \* worker processes that can exist at one time (ids are reused)
  Loops,         \* executions of the retry loop that could be in progress
  NoWorker,      \* this.worker = null
  NoTask,        \* this.restartTask = null
  MaxAttempts,   \* maxRestartAttempts
  BaseDelay,     \* baseDelayMs, in seconds
  MaxDelay       \* maxDelayMs, in seconds

ASSUME SentinelAssumption == NoWorker \notin Workers /\ NoTask \notin Loops
ASSUME AttemptsAssumption == MaxAttempts \in Nat \ {0}
ASSUME DelayAssumption == BaseDelay \in Nat /\ MaxDelay \in Nat

VARIABLES
  mediasoupAvailable,
  worker,
  isRestarting,
  restartAttempts,
  restartTask,   \* the loop whose promise restartTask holds
  loops,         \* where each execution of the retry loop is
  procs,         \* external: is each worker process running?
  diedEvents,    \* exits the server has not handled yet
  waited,        \* seconds of backoff slept since the worker was lost
  imported,      \* mediasoupModule is loaded
  boot,          \* external: how far Nest's bootstrap is
  clientsTold    \* the last worker event ChatGateway broadcast

service == <<mediasoupAvailable, worker, isRestarting, restartAttempts>>
workerVars == <<service, restartTask, loops, procs, diedEvents, waited, imported,
          boot, clientsTold>>

LoopStates == {"idle", "sleeping", "importing", "creating"}

FlagTypes ==
  /\ mediasoupAvailable \in BOOLEAN
  /\ isRestarting \in BOOLEAN
  /\ imported \in BOOLEAN

StateTypes ==
  /\ worker \in Workers \cup {NoWorker}
  /\ restartTask \in Loops \cup {NoTask}
  /\ loops \in [Loops -> LoopStates]
  /\ procs \in [Workers -> {"down", "running"}]
  /\ diedEvents \subseteq Workers
  /\ boot \in {"awaiting", "resolved", "listening"}
  /\ clientsTold \in {"nothing", "died", "ready"}

CounterTypes == restartAttempts \in 0..MaxAttempts /\ waited \in Nat

(* Every variable has its type; in particular the attempt counter never    *)
(* passes maxRestartAttempts.                                              *)
WorkersTypeOK == FlagTypes /\ StateTypes /\ CounterTypes
-----------------------------------------------------------------------------
(***************************************************************************)
(* Operations.  An operator whose name ends in _Wrong is a plausible slip  *)
(* in the definition that follows it; nothing uses it but the mutants of   *)
(* PROJECT.json.                                                           *)
(***************************************************************************)
\* The sleep, in seconds, after a failed attempts.
BackoffDelay(a) ==
  IF BaseDelay * 2^a > MaxDelay THEN MaxDelay ELSE BaseDelay * 2^a

OutOfAttempts_Wrong(a) == a > MaxAttempts

\* The negation of the retry loop's condition.
OutOfAttempts(a) == a >= MaxAttempts

\* The await at which an attempt first stops.
FirstAwait == IF imported THEN "creating" ELSE "importing"

\* ChatGateway passes the event on to every socket; Nest subscribes its event
\* handlers only at the end of the bootstrap.
Announce(event) ==
  clientsTold' = IF boot = "listening" THEN event ELSE clientsTold

\* startWorkerWithRetry called by the 'died' handler: a loop in progress is
\* joined, otherwise a new one runs up to its first await.  The caller has
\* reset the counter, so the first attempt is made without a sleep.
JoinOrStartLoop ==
  IF restartTask # NoTask
  THEN UNCHANGED <<restartTask, loops>>
  ELSE \E l \in Loops : /\ loops[l] = "idle"
                        /\ restartTask' = l
                        /\ loops' = [loops EXCEPT ![l] = FirstAwait]

EndLoop_NoFinally_Wrong(l) ==
  /\ loops' = [loops EXCEPT ![l] = "idle"]
  /\ UNCHANGED <<restartTask, boot>>

EndLoop_NoReturn_Wrong(l) == UNCHANGED <<loops, restartTask, boot>>

EndLoop_GoesOn_Wrong(l) == UNCHANGED <<loops, boot>> /\ restartTask' = NoTask

\* The loop ends: its finally block clears restartTask and its promise
\* resolves, which lets onModuleInit, and with it the bootstrap, go on.
EndLoop(l) ==
  /\ loops' = [loops EXCEPT ![l] = "idle"]
  /\ restartTask' = NoTask
  /\ boot' = IF boot = "awaiting" THEN "resolved" ELSE boot

ClearRestarting_Wrong == UNCHANGED isRestarting

\* Done on success, and after the last failure.
ClearRestarting == isRestarting' = FALSE

\* The state after the synchronous part of onModuleInit.
SupervisorInit ==
  /\ mediasoupAvailable = FALSE
  /\ worker = NoWorker
  /\ isRestarting = FALSE
  /\ restartAttempts = 0
  /\ restartTask \in Loops
  /\ loops = [l \in Loops |-> IF l = restartTask THEN "importing" ELSE "idle"]
  /\ procs = [w \in Workers |-> "down"]
  /\ diedEvents = {}
  /\ waited = 0
  /\ imported = FALSE
  /\ boot = "awaiting"
  /\ clientsTold = "nothing"

\* importMediasoupOnce resolves.
Imported(l) ==
  /\ loops[l] = "importing"
  /\ imported' = TRUE
  /\ loops' = [loops EXCEPT ![l] = "creating"]
  /\ UNCHANGED <<service, restartTask, procs, diedEvents, waited, boot, clientsTold>>

\* createWorkerOnce succeeds: the process runs, 'died' is subscribed, and the
\* loop puts the worker in service, announces it and returns.
WorkerCreated(l, w) ==
  /\ loops[l] = "creating"
  /\ procs[w] = "down" /\ w \notin diedEvents
  /\ procs' = [procs EXCEPT ![w] = "running"]
  /\ worker' = w
  /\ mediasoupAvailable' = TRUE
  /\ restartAttempts' = 0
  /\ ClearRestarting
  /\ Announce("ready")
  /\ EndLoop(l)
  /\ waited' = 0
  /\ UNCHANGED <<diedEvents, imported>>

\* The import or the creation fails: count it, then sleep or give up.
CreateFailed(l) ==
  /\ loops[l] \in {"importing", "creating"}
  /\ restartAttempts' = restartAttempts + 1
  /\ mediasoupAvailable' = FALSE
  /\ worker' = NoWorker
  /\ IF OutOfAttempts(restartAttempts')
     THEN ClearRestarting /\ EndLoop(l)
     ELSE /\ loops' = [loops EXCEPT ![l] = "sleeping"]
          /\ UNCHANGED <<isRestarting, restartTask, boot>>
  /\ UNCHANGED <<procs, diedEvents, waited, imported, clientsTold>>

\* The backoff timer fires and the next attempt starts.
BackoffElapsed(l) ==
  /\ loops[l] = "sleeping"
  /\ loops' = [loops EXCEPT ![l] = FirstAwait]
  /\ waited' = waited + BackoffDelay(restartAttempts)
  /\ UNCHANGED <<service, restartTask, procs, diedEvents, imported, boot, clientsTold>>

\* External: a running worker process exits.
ProcessExits(w) ==
  /\ procs[w] = "running"
  /\ procs' = [procs EXCEPT ![w] = "down"]
  /\ diedEvents' = diedEvents \cup {w}
  /\ UNCHANGED <<service, restartTask, loops, waited, imported, boot, clientsTold>>

\* handleWorkerDied.  A death reported during a restart is dropped.
HandleWorkerDied(w) ==
  /\ w \in diedEvents
  /\ diedEvents' = diedEvents \ {w}
  /\ IF isRestarting
     THEN UNCHANGED <<service, restartTask, loops, waited, clientsTold>>
     ELSE /\ isRestarting' = TRUE
          /\ mediasoupAvailable' = FALSE
          /\ restartAttempts' = 0
          /\ worker' = NoWorker
          /\ Announce("died")
          /\ JoinOrStartLoop
          /\ waited' = 0
  /\ UNCHANGED <<procs, imported, boot>>

\* External: app.listen, once every onModuleInit has resolved.
Listen ==
  /\ boot = "resolved"
  /\ boot' = "listening"
  /\ UNCHANGED <<service, restartTask, loops, procs, diedEvents, waited, imported,
                 clientsTold>>

LoopStep(l) == \/ Imported(l)
               \/ \E w \in Workers : WorkerCreated(l, w)
               \/ CreateFailed(l)
               \/ BackoffElapsed(l)

SupervisorNext == \/ \E l \in Loops : LoopStep(l)
                  \/ \E w \in Workers : ProcessExits(w) \/ HandleWorkerDied(w)
                  \/ Listen

\* Timers fire, the creation promise settles and events are delivered; a
\* process need never exit.
SupervisorFairness == /\ \A l \in Loops : WF_workerVars(LoopStep(l))
                      /\ \A w \in Workers : WF_workerVars(HandleWorkerDied(w))
                      /\ WF_workerVars(Listen)

SupervisorSafety == SupervisorInit /\ [][SupervisorNext]_workerVars
SupervisorSpec == SupervisorSafety /\ SupervisorFairness
-----------------------------------------------------------------------------
(***************************************************************************)
(* Properties.                                                             *)
(***************************************************************************)
ActiveLoops == {l \in Loops : loops[l] # "idle"}

GaveUp == ~mediasoupAvailable /\ restartTask = NoTask

(* startWorkerWithRetry may be entered from onModuleInit and from every    *)
(* 'died' event, and still no two worker processes run at once: they would *)
(* compete for the same RTC port range.                                    *)
OneWorkerProcess ==
  \A v, w \in Workers : procs[v] = "running" /\ procs[w] = "running" => v = w

(* handleWorkerDied drops events while isRestarting is set.  It never      *)
(* drops the death of the worker in service: when that worker is down its  *)
(* event is still to come and will not meet the early return.              *)
NoDeathLost ==
  worker # NoWorker /\ procs[worker] = "down" =>
    worker \in diedEvents /\ ~isRestarting

(* isRestarting is never left set with no retry loop behind it, which      *)
(* would make every later death be ignored; and restartTask is held        *)
(* exactly by the one loop in progress.                                    *)
RestartHasLoop ==
  /\ isRestarting => restartTask # NoTask
  /\ ActiveLoops = {restartTask} \ {NoTask}

(* The seconds the loop may sleep in one outage: one backoff after each    *)
(* failed attempt but the last.                                            *)
OutageBudget ==
  LET total[a \in Nat] == IF a = 0 THEN 0 ELSE total[a - 1] + BackoffDelay(a)
  IN  total[MaxAttempts - 1]

(* An outage spends at most the capped exponential backoff of the attempts *)
(* it has, 6 + 12 + 24 + 30 seconds with the code's constants.             *)
BoundedOutage == waited <= OutageBudget

(* The coarser bound that holds for every value of the constants: one      *)
(* maximal delay for each failed attempt so far.                           *)
WaitedCap ==
  /\ restartTask = NoTask => waited <= (MaxAttempts - 1) * MaxDelay
  /\ restartTask # NoTask =>
       waited <= (IF loops[restartTask] = "sleeping"
                  THEN restartAttempts - 1 ELSE restartAttempts) * MaxDelay

(* "Giving up and staying in fallback mode" (mediasoup.service.ts:115):    *)
(* once the loop has given up nothing brings the worker back.              *)
FallbackIsFinal == [][GaveUp => GaveUp']_workerVars

(* Whenever no worker process runs, one eventually runs or the service     *)
(* has given up: no interleaving of exits and retries wedges it.           *)
OutageEnds ==
  (\A w \in Workers : procs[w] = "down")
    ~> (GaveUp \/ \E w \in Workers : procs[w] = "running")

(* The server starts listening however often the import or the worker      *)
(* fails and whenever the worker exits: onModuleInit waits for the retry   *)
(* loop, so a loop that never ended would keep the server from booting.    *)
BootCompletes == <>(boot = "listening")

(* Clients reconnect on the two broadcasts (chat.gateway.ts:221-233): those *)
(* told that the worker died are never left with that news while a worker  *)
(* is in service, though events fired before the bootstrap ends are lost.  *)
NotMisled == clientsTold = "died" => ~mediasoupAvailable

(* handleWorkerDied, startWorkerWithRetry and the broadcasts together: the *)
(* flags, the one loop, the one process, its deaths and the news of them   *)
(* never come apart.                                                       *)
Supervised == WorkersTypeOK /\ OneWorkerProcess /\ NoDeathLost /\ RestartHasLoop /\ NotMisled

(* The life of the worker as the rest of the server sees it.               *)
Phase ==
  CASE mediasoupAvailable /\ procs[worker] = "running" -> "up"
    [] mediasoupAvailable /\ procs[worker] = "down" -> "crashed"
    [] ~mediasoupAvailable /\ restartTask = NoTask -> "fallback"
    [] ~mediasoupAvailable /\ restartTask # NoTask /\ isRestarting -> "restarting"
    [] ~mediasoupAvailable /\ restartTask # NoTask /\ ~isRestarting -> "starting"

Lifecycle == INSTANCE WorkerLifecycle WITH phase <- Phase

(* Flags, retry loop, process and events together implement the life cycle *)
(* the rest of the server relies on, its fairness included.                *)
ImplementsLifecycle == Lifecycle!Spec

(* The inductive invariant behind the safety properties, in parts: what    *)
(* the flags say of the worker and the loop, where the one loop is, how    *)
(* far its counter is, and what is known of the process and its events.    *)
FlagInv ==
  /\ mediasoupAvailable = (worker # NoWorker)
  /\ isRestarting => restartTask # NoTask

LoopInv ==
  /\ \A l \in Loops : loops[l] # "idle" => l = restartTask
  /\ restartTask # NoTask => worker = NoWorker /\ loops[restartTask] # "idle"
  /\ boot = "awaiting" => restartTask # NoTask

CounterInv ==
  /\ restartTask # NoTask => restartAttempts < MaxAttempts
  /\ \A l \in Loops : loops[l] = "sleeping" => restartAttempts > 0

ProcessInv ==
  /\ \A w \in Workers : procs[w] = "running" => w = worker /\ w \notin diedEvents
  /\ \A w \in diedEvents : w = worker
  /\ worker # NoWorker => procs[worker] = "running" \/ worker \in diedEvents

NewsInv == clientsTold = "died" => worker = NoWorker /\ boot = "listening"

SupervisorInv == WorkersTypeOK /\ FlagInv /\ LoopInv /\ CounterInv /\ ProcessInv /\ NewsInv
=============================================================================
