---------------------------- MODULE GatewayProofs ----------------------------
(***************************************************************************)
(* Theorems about what the chat gateway drives beside the messages: the    *)
(* mediasoup worker (MediasoupWorker), for every set of processes and      *)
(* loops, every attempt limit and every delay; the rooms of the SFU        *)
(* (SfuRooms), for every set of rooms, users and ids; who is online and    *)
(* inside what (Presence), for any number of people, sockets and places;   *)
(* and reads, marks, rooms and callers (ChatMarks), for any number of      *)
(* users, rooms, channels and requests.  The four modules have no name in  *)
(* common.                                                                 *)
(***************************************************************************)
EXTENDS MediasoupWorker, SfuRooms, Presence, ChatMarks,
        FiniteSetTheorems, SequenceTheorems, WellFoundedInduction, TLAPS

-----------------------------------------------------------------------------
(***************************************************************************)
(* The worker and its supervisor.                                          *)
(***************************************************************************)
(* Powers of two are natural numbers: 2^a counts the subsets of 1..a.      *)
LEMMA PowerOfTwo == ASSUME NEW a \in Nat PROVE 2^a \in Nat
<1>1. IsFiniteSet(1..a) /\ Cardinality(1..a) = a
  BY FS_Interval
<1>2. IsFiniteSet(SUBSET (1..a)) /\ Cardinality(SUBSET (1..a)) = 2^a
  BY <1>1, FS_SUBSET
<1>. QED
  BY <1>2, FS_CardinalityType

(* A backoff delay is a natural number, at most maxDelayMs.                *)
LEMMA DelayBound ==
  ASSUME NEW a \in Nat
  PROVE  BackoffDelay(a) \in Nat /\ BackoffDelay(a) <= MaxDelay
<1>1. 2^a \in Nat
  BY PowerOfTwo
<1>2. ASSUME NEW p \in Nat PROVE BaseDelay * p \in Nat
  BY DelayAssumption
<1>3. BaseDelay * 2^a \in Nat
  BY <1>1, <1>2
<1>. QED
  BY <1>3, DelayAssumption DEF BackoffDelay

(* The state after onModuleInit satisfies every part of the inductive      *)
(* invariant.                                                              *)
LEMMA SupervisorInitInv == SupervisorInit => SupervisorInv
<1>. SUFFICES ASSUME SupervisorInit PROVE SupervisorInv
  OBVIOUS
<1>. USE SentinelAssumption, AttemptsAssumption DEF SupervisorInit
<1>1. FlagTypes
  BY DEF FlagTypes
<1>2. StateTypes
  BY DEF StateTypes, LoopStates
<1>3. CounterTypes /\ CounterInv
  BY DEF CounterTypes, CounterInv
<1>4. FlagInv
  BY DEF FlagInv
<1>5. LoopInv /\ ProcessInv /\ NewsInv
  BY DEF LoopInv, ProcessInv, NewsInv
<1>. QED
  BY <1>1, <1>2, <1>3, <1>4, <1>5 DEF SupervisorInv, WorkersTypeOK

(* Putting a created worker in service ends the loop, so no second worker  *)
(* can follow.                                                             *)
LEMMA WorkerCreatedInv ==
  ASSUME SupervisorInv, NEW l \in Loops, NEW w \in Workers, WorkerCreated(l, w)
  PROVE  SupervisorInv'
<1>. USE SentinelAssumption, AttemptsAssumption
       DEF SupervisorInv, WorkersTypeOK, WorkerCreated, EndLoop, ClearRestarting, Announce
<1>1. FlagTypes'
  BY DEF FlagTypes
<1>2. StateTypes'
  BY DEF StateTypes, LoopStates
<1>3. CounterTypes'
  BY DelayBound DEF CounterTypes, LoopInv, CounterInv
<1>4. CounterInv'
  BY DEF CounterTypes, CounterInv, StateTypes, LoopInv
<1>5. FlagInv'
  BY DEF FlagInv, FlagTypes, StateTypes, LoopInv
<1>6. LoopInv'
  BY DEF LoopInv, StateTypes, FlagInv, ProcessInv
<1>7. ProcessInv'
  BY DEF ProcessInv, StateTypes, LoopInv
<1>8. NewsInv'
  BY DEF NewsInv, StateTypes
<1>. QED
  BY <1>1, <1>2, <1>3, <1>4, <1>5, <1>6, <1>7, <1>8

(* Loading the module only moves the loop on.                              *)
LEMMA ImportedInv ==
  ASSUME SupervisorInv, NEW l \in Loops, Imported(l)
  PROVE  SupervisorInv'
<1>. USE SentinelAssumption, AttemptsAssumption DEF SupervisorInv, WorkersTypeOK, Imported, service
<1>1. FlagTypes'
  BY DEF FlagTypes
<1>2. StateTypes'
  BY DEF StateTypes, LoopStates
<1>3. CounterTypes'
  BY DelayBound DEF CounterTypes, LoopInv, CounterInv
<1>4. CounterInv'
  BY DEF CounterTypes, CounterInv, StateTypes, LoopInv
<1>5. FlagInv'
  BY DEF FlagInv, FlagTypes, StateTypes, LoopInv
<1>6. LoopInv'
  BY DEF LoopInv, StateTypes, FlagInv, ProcessInv
<1>7. ProcessInv'
  BY DEF ProcessInv, StateTypes, LoopInv
<1>8. NewsInv'
  BY DEF NewsInv, StateTypes
<1>. QED
  BY <1>1, <1>2, <1>3, <1>4, <1>5, <1>6, <1>7, <1>8

(* A failed attempt leaves no worker, and either sleeps or ends the loop   *)
(* for good.                                                               *)
LEMMA FailedInv ==
  ASSUME SupervisorInv, NEW l \in Loops, CreateFailed(l)
  PROVE  SupervisorInv'
<1>. USE SentinelAssumption, AttemptsAssumption
       DEF SupervisorInv, WorkersTypeOK, CreateFailed, EndLoop, ClearRestarting, OutOfAttempts
<1>1. FlagTypes'
  BY DEF FlagTypes
<1>2. StateTypes'
  BY DEF StateTypes, LoopStates
<1>3. CounterTypes'
  BY DelayBound DEF CounterTypes, LoopInv, CounterInv
<1>4. CounterInv'
  BY DEF CounterTypes, CounterInv, StateTypes, LoopInv
<1>5. FlagInv'
  BY DEF FlagInv, FlagTypes, StateTypes, LoopInv
<1>6. LoopInv'
  BY DEF LoopInv, StateTypes, FlagInv, ProcessInv
<1>7. ProcessInv'
  BY DEF ProcessInv, StateTypes, LoopInv
<1>8. NewsInv'
  BY DEF NewsInv, StateTypes
<1>. QED
  BY <1>1, <1>2, <1>3, <1>4, <1>5, <1>6, <1>7, <1>8

(* The end of a backoff only moves the loop on.                            *)
LEMMA ElapsedInv ==
  ASSUME SupervisorInv, NEW l \in Loops, BackoffElapsed(l)
  PROVE  SupervisorInv'
<1>. USE SentinelAssumption, AttemptsAssumption
       DEF SupervisorInv, WorkersTypeOK, BackoffElapsed, service, FirstAwait
<1>1. FlagTypes'
  BY DEF FlagTypes
<1>2. StateTypes'
  BY DEF StateTypes, LoopStates
<1>3. CounterTypes'
  BY DelayBound DEF CounterTypes, LoopInv, CounterInv
<1>4. CounterInv'
  BY DEF CounterTypes, CounterInv, StateTypes, LoopInv
<1>5. FlagInv'
  BY DEF FlagInv, FlagTypes, StateTypes, LoopInv
<1>6. LoopInv'
  BY DEF LoopInv, StateTypes, FlagInv, ProcessInv
<1>7. ProcessInv'
  BY DEF ProcessInv, StateTypes, LoopInv
<1>8. NewsInv'
  BY DEF NewsInv, StateTypes
<1>. QED
  BY <1>1, <1>2, <1>3, <1>4, <1>5, <1>6, <1>7, <1>8

(* An exit puts the worker in service among the events to be handled.      *)
LEMMA ExitsInv ==
  ASSUME SupervisorInv, NEW w \in Workers, ProcessExits(w)
  PROVE  SupervisorInv'
<1>. USE SentinelAssumption, AttemptsAssumption DEF SupervisorInv, WorkersTypeOK, ProcessExits, service
<1>1. FlagTypes'
  BY DEF FlagTypes
<1>2. StateTypes'
  BY DEF StateTypes, LoopStates
<1>3. CounterTypes'
  BY DelayBound DEF CounterTypes, LoopInv, CounterInv
<1>4. CounterInv'
  BY DEF CounterTypes, CounterInv, StateTypes, LoopInv
<1>5. FlagInv'
  BY DEF FlagInv, FlagTypes, StateTypes, LoopInv
<1>6. LoopInv'
  BY DEF LoopInv, StateTypes, FlagInv, ProcessInv
<1>7. ProcessInv'
  BY DEF ProcessInv, StateTypes, LoopInv
<1>8. NewsInv'
  BY DEF NewsInv, StateTypes
<1>. QED
  BY <1>1, <1>2, <1>3, <1>4, <1>5, <1>6, <1>7, <1>8

(* The early return of handleWorkerDied is never taken: an event still to  *)
(* be handled is about the worker in service, so no restart is going on.   *)
LEMMA DeathMeetsNoRestart ==
  ASSUME SupervisorInv, NEW w \in diedEvents
  PROVE  isRestarting = FALSE /\ restartTask = NoTask
<1>1. w \in Workers /\ w = worker
  BY DEF SupervisorInv, WorkersTypeOK, StateTypes, ProcessInv
<1>2. restartTask = NoTask
  BY <1>1, SentinelAssumption DEF SupervisorInv, LoopInv
<1>. QED
  BY <1>2 DEF SupervisorInv, WorkersTypeOK, FlagTypes, FlagInv

(* Handling a death clears the worker and starts the one loop.             *)
LEMMA DiedInv ==
  ASSUME SupervisorInv, NEW w \in Workers, HandleWorkerDied(w)
  PROVE  SupervisorInv'
<1>. USE SentinelAssumption, AttemptsAssumption DEF SupervisorInv, WorkersTypeOK
<1>1. w \in diedEvents
  BY DEF HandleWorkerDied
<1>2. isRestarting = FALSE /\ restartTask = NoTask
  BY <1>1, DeathMeetsNoRestart
<1>3. /\ isRestarting' = TRUE /\ mediasoupAvailable' = FALSE
      /\ imported' = imported
  BY <1>2 DEF HandleWorkerDied
<1>4. /\ diedEvents' = diedEvents \ {w}
      /\ procs' = procs /\ boot' = boot
      /\ restartAttempts' = 0 /\ worker' = NoWorker /\ waited' = 0
      /\ clientsTold' \in {"died", clientsTold}
      /\ clientsTold' = "died" => boot = "listening" \/ clientsTold = "died"
  BY <1>2 DEF HandleWorkerDied, Announce
<1>5. PICK l \in Loops : /\ loops[l] = "idle"
                        /\ restartTask' = l
                        /\ loops' = [loops EXCEPT ![l] = FirstAwait]
  BY <1>2 DEF HandleWorkerDied, JoinOrStartLoop
<1>6. FirstAwait \in {"importing", "creating"}
  BY DEF FirstAwait
<1>7. FlagTypes'
  BY <1>3 DEF FlagTypes
<1>8. StateTypes'
  BY <1>4, <1>5, <1>6 DEF StateTypes, LoopStates
<1>9. CounterTypes'
  BY <1>4 DEF CounterTypes
<1>10. CounterInv'
  BY <1>2, <1>4, <1>5, <1>6 DEF CounterInv, StateTypes, LoopInv
<1>11. FlagInv'
  BY <1>3, <1>4, <1>5 DEF FlagInv
<1>12. LoopInv'
  BY <1>2, <1>4, <1>5, <1>6 DEF LoopInv, StateTypes
<1>13. ProcessInv'
  BY <1>1, <1>4 DEF ProcessInv, StateTypes
<1>14. NewsInv'
  BY <1>4 DEF NewsInv, StateTypes
<1>. QED
  BY <1>7, <1>8, <1>9, <1>10, <1>11, <1>12, <1>13, <1>14

(* Listening changes nothing of the service.                               *)
LEMMA ListenInv ==
  ASSUME SupervisorInv, Listen
  PROVE  SupervisorInv'
<1>. USE SentinelAssumption, AttemptsAssumption DEF SupervisorInv, WorkersTypeOK, Listen, service
<1>1. FlagTypes'
  BY DEF FlagTypes
<1>2. StateTypes'
  BY DEF StateTypes, LoopStates
<1>3. CounterTypes'
  BY DelayBound DEF CounterTypes, LoopInv, CounterInv
<1>4. CounterInv'
  BY DEF CounterTypes, CounterInv, StateTypes, LoopInv
<1>5. FlagInv'
  BY DEF FlagInv, FlagTypes, StateTypes, LoopInv
<1>6. LoopInv'
  BY DEF LoopInv, StateTypes, FlagInv, ProcessInv
<1>7. ProcessInv'
  BY DEF ProcessInv, StateTypes, LoopInv
<1>8. NewsInv'
  BY DEF NewsInv, StateTypes
<1>. QED
  BY <1>1, <1>2, <1>3, <1>4, <1>5, <1>6, <1>7, <1>8

(* A step that changes nothing preserves the invariant.                    *)
LEMMA SupervisorStutter ==
  ASSUME SupervisorInv, UNCHANGED workerVars
  PROVE  SupervisorInv'
<1>. USE SentinelAssumption, AttemptsAssumption DEF SupervisorInv, WorkersTypeOK, workerVars, service
<1>1. FlagTypes'
  BY DEF FlagTypes
<1>2. StateTypes'
  BY DEF StateTypes, LoopStates
<1>3. CounterTypes'
  BY DelayBound DEF CounterTypes, LoopInv, CounterInv
<1>4. CounterInv'
  BY DEF CounterTypes, CounterInv, StateTypes, LoopInv
<1>5. FlagInv'
  BY DEF FlagInv, FlagTypes, StateTypes, LoopInv
<1>6. LoopInv'
  BY DEF LoopInv, StateTypes, FlagInv, ProcessInv
<1>7. ProcessInv'
  BY DEF ProcessInv, StateTypes, LoopInv
<1>8. NewsInv'
  BY DEF NewsInv, StateTypes
<1>. QED
  BY <1>1, <1>2, <1>3, <1>4, <1>5, <1>6, <1>7, <1>8

(* Every step preserves the inductive invariant.                           *)
LEMMA SupervisorNextInv == SupervisorInv /\ [SupervisorNext]_workerVars => SupervisorInv'
<1>. SUFFICES ASSUME SupervisorInv, [SupervisorNext]_workerVars PROVE SupervisorInv'
  OBVIOUS
<1>1. CASE \E l \in Loops : LoopStep(l)
  BY <1>1, ImportedInv, WorkerCreatedInv, FailedInv, ElapsedInv DEF LoopStep
<1>2. CASE \E w \in Workers : ProcessExits(w) \/ HandleWorkerDied(w)
  BY <1>2, ExitsInv, DiedInv
<1>3. CASE Listen
  BY <1>3, ListenInv
<1>4. CASE UNCHANGED workerVars
  BY <1>4, SupervisorStutter
<1>. QED
  BY <1>1, <1>2, <1>3, <1>4 DEF SupervisorNext
-----------------------------------------------------------------------------
(* The inductive invariant holds in every reachable state.                 *)
THEOREM SupervisorInvariance == SupervisorSafety => []SupervisorInv
<1>. QED
  BY SupervisorInitInv, SupervisorNextInv, PTL DEF SupervisorSafety

(* WorkersTypeOK: in particular the attempt counter of the retry loop      *)
(* never passes maxRestartAttempts.                                        *)
THEOREM WorkersTyped == SupervisorSafety => []WorkersTypeOK
<1>1. SupervisorInv => WorkersTypeOK
  BY DEF SupervisorInv
<1>. QED
  BY <1>1, SupervisorInvariance, PTL

(* Never two worker processes at once, however deaths and restarts fall.   *)
THEOREM SingleWorker == SupervisorSafety => []OneWorkerProcess
<1>1. SupervisorInv => OneWorkerProcess
  BY DEF SupervisorInv, ProcessInv, OneWorkerProcess
<1>. QED
  BY <1>1, SupervisorInvariance, PTL

(* The isRestarting guard of handleWorkerDied drops no death of the worker *)
(* in service.                                                             *)
THEOREM DeathHandled == SupervisorSafety => []NoDeathLost
<1>1. SupervisorInv => NoDeathLost
  <2>. SUFFICES ASSUME SupervisorInv, worker # NoWorker, procs[worker] = "down"
                PROVE  worker \in diedEvents /\ ~isRestarting
    BY DEF NoDeathLost
  <2>1. worker \in diedEvents
    BY DEF SupervisorInv, ProcessInv
  <2>. QED
    BY <2>1, DeathMeetsNoRestart
<1>. QED
  BY <1>1, SupervisorInvariance, PTL

(* isRestarting always has a retry loop behind it, and restartTask names   *)
(* the one loop in progress.                                               *)
THEOREM RestartBacked == SupervisorSafety => []RestartHasLoop
<1>1. SupervisorInv => RestartHasLoop
  <2>. SUFFICES ASSUME SupervisorInv PROVE RestartHasLoop
    OBVIOUS
  <2>1. isRestarting => restartTask # NoTask
    BY DEF SupervisorInv, FlagInv
  <2>2. ActiveLoops = {restartTask} \ {NoTask}
    BY SentinelAssumption DEF SupervisorInv, WorkersTypeOK, StateTypes, LoopInv, ActiveLoops
  <2>. QED
    BY <2>1, <2>2 DEF RestartHasLoop
<1>. QED
  BY <1>1, SupervisorInvariance, PTL

(* Clients are never left with the news that the worker died while one is  *)
(* in service.                                                             *)
THEOREM ClientsInformed == SupervisorSafety => []NotMisled
<1>1. SupervisorInv => NotMisled
  BY DEF SupervisorInv, FlagInv, NewsInv, NotMisled
<1>. QED
  BY <1>1, SupervisorInvariance, PTL

(* Flags, loop, process, deaths and news never come apart.                 *)
THEOREM Supervision == SupervisorSafety => []Supervised
<1>1. WorkersTypeOK /\ OneWorkerProcess /\ NoDeathLost /\ RestartHasLoop /\ NotMisled => Supervised
  BY DEF Supervised
<1>. QED
  BY <1>1, WorkersTyped, SingleWorker, DeathHandled, RestartBacked, ClientsInformed, PTL
-----------------------------------------------------------------------------
(* Once the service has given up it has no loop, no process and no event   *)
(* left: only the bootstrap can still move.                                *)
LEMMA OnlyBootMoves ==
  ASSUME SupervisorInv, GaveUp, [SupervisorNext]_workerVars
  PROVE  Listen \/ UNCHANGED workerVars
<1>1. worker = NoWorker /\ restartTask = NoTask
  BY DEF GaveUp, SupervisorInv, FlagInv
<1>2. \A l \in Loops : loops[l] = "idle"
  BY <1>1, SentinelAssumption DEF SupervisorInv, LoopInv
<1>3. \A w \in Workers : procs[w] # "running" /\ w \notin diedEvents
  BY <1>1, SentinelAssumption DEF SupervisorInv, ProcessInv
<1>4. ASSUME NEW l \in Loops PROVE ~LoopStep(l)
  BY <1>2 DEF LoopStep, Imported, WorkerCreated, CreateFailed, BackoffElapsed
<1>5. ASSUME NEW w \in Workers PROVE ~ProcessExits(w) /\ ~HandleWorkerDied(w)
  BY <1>3 DEF ProcessExits, HandleWorkerDied
<1>. QED
  BY <1>4, <1>5 DEF SupervisorNext

(* "Giving up and staying in fallback mode": giving up is final.           *)
THEOREM FallbackFinal == SupervisorSafety => FallbackIsFinal
<1>1. ASSUME SupervisorInv, [SupervisorNext]_workerVars, GaveUp PROVE GaveUp'
  <2>1. UNCHANGED <<mediasoupAvailable, restartTask>>
    BY <1>1, OnlyBootMoves DEF Listen, service, workerVars
  <2>. QED
    BY <1>1, <2>1 DEF GaveUp
<1>2. SupervisorInv /\ [SupervisorNext]_workerVars => [GaveUp => GaveUp']_workerVars
  BY <1>1
<1>. QED
  BY <1>2, SupervisorInvariance, PTL DEF SupervisorSafety, FallbackIsFinal
-----------------------------------------------------------------------------
(* What each phase means, with the flags replaced by what they imply.      *)
PhaseFacts ==
  /\ worker # NoWorker =>
       Phase = IF procs[worker] = "running" THEN "up" ELSE "crashed"
  /\ worker = NoWorker /\ restartTask = NoTask => Phase = "fallback"
  /\ worker = NoWorker /\ restartTask # NoTask =>
       Phase = IF isRestarting THEN "restarting" ELSE "starting"

(* The flags determine the phase.                                          *)
LEMMA PhaseMeaning == SupervisorInv => PhaseFacts
<1>. SUFFICES ASSUME SupervisorInv PROVE PhaseFacts
  OBVIOUS
<1>1. mediasoupAvailable = (worker # NoWorker)
  BY DEF SupervisorInv, FlagInv
<1>2. worker # NoWorker => procs[worker] \in {"running", "down"}
  BY DEF SupervisorInv, WorkersTypeOK, StateTypes
<1>. QED
  BY <1>1, <1>2 DEF Phase, PhaseFacts

(* Every step of the service is a step of the life cycle, or none: a new   *)
(* worker is ComeUp, the last failure is GiveUp, an exit is Crash and its  *)
(* event is Notice.                                                        *)
LEMMA StepSimulation ==
  ASSUME SupervisorInv, SupervisorInv', PhaseFacts, PhaseFacts', [SupervisorNext]_workerVars
  PROVE  [Lifecycle!Next]_Phase
<1>. USE SentinelAssumption DEF Lifecycle!Next
<1>1. ASSUME NEW l \in Loops, NEW w \in Workers, WorkerCreated(l, w)
      PROVE  Lifecycle!ComeUp
  <2>1. worker = NoWorker /\ restartTask # NoTask
    BY <1>1 DEF WorkerCreated, SupervisorInv, LoopInv
  <2>2. Phase \in {"starting", "restarting"}
    BY <2>1 DEF PhaseFacts
  <2>3. worker' = w /\ procs'[w] = "running"
    BY <1>1 DEF WorkerCreated, SupervisorInv, WorkersTypeOK, StateTypes
  <2>4. Phase' = "up"
    BY <2>3 DEF PhaseFacts
  <2>. QED
    BY <2>2, <2>4 DEF Lifecycle!ComeUp
<1>2. ASSUME NEW l \in Loops, CreateFailed(l)
      PROVE  Lifecycle!GiveUp \/ UNCHANGED Phase
  <2>1. worker = NoWorker /\ restartTask # NoTask /\ worker' = NoWorker
    BY <1>2 DEF CreateFailed, SupervisorInv, LoopInv
  <2>2. CASE OutOfAttempts(restartAttempts')
    <3>1. restartTask' = NoTask
      BY <1>2, <2>2 DEF CreateFailed, EndLoop
    <3>2. Phase \in {"starting", "restarting"} /\ Phase' = "fallback"
      BY <2>1, <3>1 DEF PhaseFacts
    <3>. QED
      BY <3>2 DEF Lifecycle!GiveUp
  <2>3. CASE ~OutOfAttempts(restartAttempts')
    <3>1. restartTask' = restartTask /\ isRestarting' = isRestarting
      BY <1>2, <2>3 DEF CreateFailed
    <3>. QED
      BY <2>1, <3>1 DEF PhaseFacts
  <2>. QED
    BY <2>2, <2>3
<1>3. ASSUME NEW l \in Loops, Imported(l) \/ BackoffElapsed(l)
      PROVE  UNCHANGED Phase
  BY <1>3 DEF Imported, BackoffElapsed, service, PhaseFacts
<1>4. ASSUME NEW w \in Workers, ProcessExits(w)
      PROVE  Lifecycle!Crash
  <2>1. worker = w /\ worker' = w
    BY <1>4 DEF ProcessExits, service, SupervisorInv, ProcessInv
  <2>2. procs[w] = "running" /\ procs'[w] = "down"
    BY <1>4 DEF ProcessExits, SupervisorInv, WorkersTypeOK, StateTypes
  <2>3. Phase = "up" /\ Phase' = "crashed"
    BY <2>1, <2>2 DEF PhaseFacts
  <2>. QED
    BY <2>3 DEF Lifecycle!Crash
<1>5. ASSUME NEW w \in Workers, HandleWorkerDied(w)
      PROVE  Lifecycle!Notice
  <2>1. w \in diedEvents /\ worker = w /\ procs[w] # "running"
    BY <1>5 DEF HandleWorkerDied, SupervisorInv, ProcessInv
  <2>2. Phase = "crashed"
    BY <2>1 DEF PhaseFacts
  <2>3. isRestarting = FALSE /\ restartTask = NoTask
    BY <2>1, DeathMeetsNoRestart
  <2>4. isRestarting' = TRUE /\ worker' = NoWorker
    BY <1>5, <2>3 DEF HandleWorkerDied
  <2>5. restartTask' # NoTask
    BY <1>5, <2>3 DEF HandleWorkerDied, JoinOrStartLoop
  <2>6. Phase' = "restarting"
    BY <2>4, <2>5 DEF PhaseFacts
  <2>. QED
    BY <2>2, <2>6 DEF Lifecycle!Notice
<1>6. ASSUME Listen \/ UNCHANGED workerVars
      PROVE  UNCHANGED Phase
  BY <1>6 DEF Listen, workerVars, service, PhaseFacts
<1>. QED
  BY <1>1, <1>2, <1>3, <1>4, <1>5, <1>6 DEF SupervisorNext, LoopStep

(* MediasoupService implements the life cycle the rest of the server       *)
(* relies on: its initial states and all its steps.                        *)
THEOREM LifecycleSafety == SupervisorSafety => Lifecycle!SafetySpec
<1>1. SupervisorInit => Lifecycle!Init
  <2>. SUFFICES ASSUME SupervisorInit PROVE Phase = "starting"
    BY DEF Lifecycle!Init
  <2>1. SupervisorInv /\ worker = NoWorker /\ isRestarting = FALSE /\ restartTask # NoTask
    BY SupervisorInitInv, SentinelAssumption DEF SupervisorInit
  <2>. QED
    BY <2>1, PhaseMeaning DEF PhaseFacts
<1>2. SupervisorInv /\ SupervisorInv' /\ PhaseFacts /\ PhaseFacts' /\ [SupervisorNext]_workerVars
        => [Lifecycle!Next]_Phase
  BY StepSimulation
<1>. QED
  BY <1>1, <1>2, SupervisorInvariance, PhaseMeaning, PTL DEF SupervisorSafety, Lifecycle!SafetySpec
-----------------------------------------------------------------------------
(* Arithmetic of the bound: one more delay is one more multiple of the     *)
(* largest one, and multiples grow with the number of attempts.            *)
LEMMA OneMoreDelay ==
  ASSUME NEW m \in Nat, NEW a \in Nat, a > 0,
         NEW t \in Nat, t <= (a - 1) * m, NEW d \in Nat, d <= m
  PROVE  t + d <= a * m
BY (a - 1) * m + m = a * m

(* More attempts allow at least as much waiting.                           *)
LEMMA MultiplesGrow ==
  ASSUME NEW m \in Nat, NEW a \in Nat, NEW b \in Nat, a <= b
  PROVE  a * m <= b * m /\ a * m \in Nat /\ 0 <= a * m
OBVIOUS

(* No step lets the wait outgrow the failed attempts.                      *)
LEMMA CapPreserved ==
  ASSUME SupervisorInv, WaitedCap, [SupervisorNext]_workerVars
  PROVE  WaitedCap'
<1>. USE SentinelAssumption, AttemptsAssumption, DelayAssumption
<1>1. /\ restartAttempts \in Nat /\ waited \in Nat
      /\ \A l \in Loops : loops[l] # "idle" => l = restartTask
      /\ restartTask # NoTask => restartAttempts < MaxAttempts
      /\ loops \in [Loops -> LoopStates]
  BY DEF SupervisorInv, WorkersTypeOK, StateTypes, CounterTypes, LoopInv, CounterInv
<1>2. ASSUME NEW l \in Loops, Imported(l) PROVE WaitedCap'
  BY <1>1, <1>2 DEF Imported, service, WaitedCap
<1>3. ASSUME NEW l \in Loops, NEW w \in Workers, WorkerCreated(l, w)
      PROVE  WaitedCap'
  BY <1>3, MultiplesGrow DEF WorkerCreated, EndLoop, WaitedCap
<1>4. ASSUME NEW l \in Loops, CreateFailed(l) PROVE WaitedCap'
  <2>1. /\ l = restartTask /\ restartTask # NoTask
        /\ waited <= restartAttempts * MaxDelay
    BY <1>1, <1>4 DEF CreateFailed, WaitedCap
  <2>2. restartAttempts' = restartAttempts + 1 /\ waited' = waited
    BY <1>4 DEF CreateFailed
  <2>3. CASE OutOfAttempts(restartAttempts')
    <3>1. restartAttempts = MaxAttempts - 1
      BY <1>1, <2>1, <2>2, <2>3 DEF OutOfAttempts
    <3>2. restartTask' = NoTask
      BY <1>4, <2>3 DEF CreateFailed, EndLoop
    <3>. QED
      BY <2>1, <2>2, <3>1, <3>2 DEF WaitedCap
  <2>4. CASE ~OutOfAttempts(restartAttempts')
    <3>1. restartTask' = restartTask /\ loops'[l] = "sleeping"
      BY <1>1, <1>4, <2>4 DEF CreateFailed
    <3>2. restartAttempts' - 1 = restartAttempts
      BY <1>1, <2>2
    <3>. QED
      BY <2>1, <2>2, <3>1, <3>2 DEF WaitedCap
  <2>. QED
    BY <2>3, <2>4
<1>5. ASSUME NEW l \in Loops, BackoffElapsed(l) PROVE WaitedCap'
  <2>1. l = restartTask /\ restartTask # NoTask /\ restartAttempts > 0
    BY <1>1, <1>5 DEF BackoffElapsed, SupervisorInv, CounterInv
  <2>2. waited <= (restartAttempts - 1) * MaxDelay
    BY <1>5, <2>1 DEF BackoffElapsed, WaitedCap
  <2>3. waited + BackoffDelay(restartAttempts) <= restartAttempts * MaxDelay
    BY <1>1, <2>1, <2>2, DelayBound, OneMoreDelay
  <2>4. /\ restartTask' = restartTask /\ restartAttempts' = restartAttempts
        /\ waited' = waited + BackoffDelay(restartAttempts)
        /\ loops'[l] \in {"importing", "creating"}
    BY <1>1, <1>5 DEF BackoffElapsed, FirstAwait, service
  <2>. QED
    BY <2>1, <2>3, <2>4 DEF WaitedCap
<1>6. ASSUME NEW w \in Workers, HandleWorkerDied(w) PROVE WaitedCap'
  <2>1. isRestarting = FALSE /\ restartTask = NoTask
    BY <1>6, DeathMeetsNoRestart DEF HandleWorkerDied
  <2>2. PICK l \in Loops : /\ restartTask' = l
                          /\ loops' = [loops EXCEPT ![l] = FirstAwait]
    BY <1>6, <2>1 DEF HandleWorkerDied, JoinOrStartLoop
  <2>3. restartAttempts' = 0 /\ waited' = 0 /\ loops'[l] # "sleeping"
    BY <1>1, <1>6, <2>1, <2>2 DEF HandleWorkerDied, FirstAwait
  <2>. QED
    BY <2>2, <2>3 DEF WaitedCap
<1>7. ASSUME \/ \E w \in Workers : ProcessExits(w)
             \/ Listen \/ UNCHANGED workerVars
      PROVE  WaitedCap'
  BY <1>7 DEF ProcessExits, Listen, workerVars, service, WaitedCap
<1>. QED
  BY <1>2, <1>3, <1>4, <1>5, <1>6, <1>7 DEF SupervisorNext, LoopStep

(* The whole outage is bounded by one maximal delay for each attempt but   *)
(* the last, so the retry loop always ends in a known time.                *)
THEOREM OutageCapped == SupervisorSafety => []WaitedCap
<1>1. SupervisorInit => WaitedCap
  <2>1. 0 * MaxDelay = 0
    BY DelayAssumption
  <2>2. SupervisorInit => restartTask # NoTask /\ loops[restartTask] = "importing"
    BY SentinelAssumption DEF SupervisorInit
  <2>3. SupervisorInit => restartAttempts = 0 /\ waited = 0
    BY DEF SupervisorInit
  <2>. QED
    BY <2>1, <2>2, <2>3 DEF WaitedCap
<1>2. SupervisorInv /\ WaitedCap /\ [SupervisorNext]_workerVars => WaitedCap'
  BY CapPreserved
<1>. QED
  BY <1>1, <1>2, SupervisorInvariance, PTL DEF SupervisorSafety
-----------------------------------------------------------------------------
(* What holds of 0 and of the number after each one it holds of holds of   *)
(* all: a number left out would have a smallest one.                       *)
LEMMA SetInduction ==
  ASSUME NEW S \in SUBSET Nat, 0 \in S, \A n \in S : n + 1 \in S
  PROVE  S = Nat
<1>1. ASSUME NEW n \in Nat, n \notin S PROVE FALSE
  <2>1. PICK m \in Nat \ S : \A k \in Nat \ S : m <= k
    <3>. DEFINE less == OpToRel(<, Nat)
    <3>1. IsWellFoundedOn(less, Nat) /\ Nat \ S \subseteq Nat /\ Nat \ S # {}
      BY <1>1, NatLessThanWellFounded
    <3>2. \A j, k \in Nat : <<j, k>> \in less <=> j < k
      BY DEF OpToRel
    <3>. HIDE DEF less
    <3>3. PICK m \in Nat \ S : \A k \in Nat \ S : <<k, m>> \notin less
      BY <3>1, WFMin
    <3>4. ASSUME NEW k \in Nat \ S PROVE m <= k
      <4>1. ~(k < m)
        BY <3>2, <3>3
      <4>. QED
        BY <4>1
    <3>. QED
      BY <3>4
  <2>2. m # 0 /\ m - 1 \in Nat
    BY <2>1
  <2>3. m - 1 \in S
    BY <2>1, <2>2
  <2>. QED
    BY <2>1, <2>2, <2>3
<1>. QED
  BY <1>1

(* The seconds of the backoffs after the first a failed attempts, and what *)
(* makes a table of them.                                                  *)
Budget == CHOOSE f : f = [a \in Nat |-> IF a = 0 THEN 0 ELSE f[a - 1] + BackoffDelay(a)]

Partial(n) == {g \in [0..n -> Nat] : g[0] = 0 /\ \A i \in 1..n : g[i] = g[i - 1] + BackoffDelay(i)}

LEMMA PartialExists == \A n \in Nat : Partial(n) # {}
<1>. DEFINE S == {n \in Nat : Partial(n) # {}}
<1>1. 0 \in S
  <2>. DEFINE g == [i \in 0..0 |-> 0]
  <2>1. g \in Partial(0)
    BY DEF Partial
  <2>. QED
    BY <2>1
<1>2. ASSUME NEW n \in S PROVE n + 1 \in S
  <2>1. PICK g : g \in Partial(n)
    BY <1>2
  <2>. DEFINE h == [i \in 0..(n + 1) |-> IF i <= n THEN g[i] ELSE g[n] + BackoffDelay(n + 1)]
  <2>2. g \in [0..n -> Nat] /\ g[0] = 0 /\ \A i \in 1..n : g[i] = g[i - 1] + BackoffDelay(i)
    BY <2>1 DEF Partial
  <2>3. BackoffDelay(n + 1) \in Nat
    BY DelayBound
  <2>4. h \in [0..(n + 1) -> Nat] /\ h[0] = 0
    BY <2>2, <2>3
  <2>5. ASSUME NEW i \in 1..(n + 1) PROVE h[i] = h[i - 1] + BackoffDelay(i)
    <3>1. CASE i <= n
      BY <2>2, <3>1
    <3>2. CASE i = n + 1
      BY <3>2
    <3>. QED
      BY <3>1, <3>2
  <2>. QED
    <3>1. h \in Partial(n + 1)
      <4>. HIDE DEF h
      <4>. QED
        BY <2>4, <2>5 DEF Partial
    <3>. QED
      BY <3>1
<1>. HIDE DEF S
<1>3. S = Nat
  BY <1>1, <1>2, SetInduction DEF S
<1>. QED
  BY <1>3 DEF S

LEMMA PartialAgrees ==
  ASSUME NEW m \in Nat, NEW n \in Nat, NEW g \in Partial(m), NEW h \in Partial(n), NEW i \in Nat, i <= m, i <= n
  PROVE  g[i] = h[i]
<1>. DEFINE S == {j \in Nat : j <= m /\ j <= n => g[j] = h[j]}
<1>1. 0 \in S
  BY DEF Partial
<1>2. ASSUME NEW j \in S PROVE j + 1 \in S
  <2>1. ASSUME j + 1 <= m, j + 1 <= n PROVE g[j + 1] = h[j + 1]
    <3>1. g[j] = h[j] /\ j + 1 \in 1..m /\ j + 1 \in 1..n /\ (j + 1) - 1 = j
      BY <2>1
    <3>. QED
      BY <3>1 DEF Partial
  <2>. QED
    BY <2>1
<1>. HIDE DEF S
<1>3. S = Nat
  BY <1>1, <1>2, SetInduction DEF S
<1>. QED
  BY <1>3 DEF S

(* The table exists, so that its recursive definition says what it is.     *)
LEMMA BudgetDef ==
  /\ Budget \in [Nat -> Nat] /\ Budget[0] = 0
  /\ \A a \in Nat : a # 0 => Budget[a] = Budget[a - 1] + BackoffDelay(a)
<1>. DEFINE row(n) == CHOOSE g : g \in Partial(n)
            f == [n \in Nat |-> row(n)[n]]
<1>1. ASSUME NEW n \in Nat PROVE row(n) \in Partial(n)
  BY PartialExists
<1>. HIDE DEF row
<1>2. f \in [Nat -> Nat] /\ f[0] = 0
  BY <1>1 DEF Partial
<1>3. ASSUME NEW a \in Nat, a # 0 PROVE f[a] = f[a - 1] + BackoffDelay(a)
  <2>1. a - 1 \in Nat /\ a \in 1..a /\ a - 1 <= a
    BY <1>3
  <2>2. row(a)[a] = row(a)[a - 1] + BackoffDelay(a)
    BY <1>1, <2>1 DEF Partial
  <2>3. row(a)[a - 1] = row(a - 1)[a - 1]
    BY <1>1, <2>1, PartialAgrees
  <2>. QED
    BY <2>1, <2>2, <2>3
<1>4. f = [a \in Nat |-> IF a = 0 THEN 0 ELSE f[a - 1] + BackoffDelay(a)]
  BY <1>2, <1>3
<1>. HIDE DEF f
<1>5. Budget = [a \in Nat |-> IF a = 0 THEN 0 ELSE Budget[a - 1] + BackoffDelay(a)]
  BY <1>4 DEF Budget
<1>6. Budget[0] = 0 /\ \A a \in Nat : a # 0 => Budget[a] = Budget[a - 1] + BackoffDelay(a)
  BY <1>5
<1>. DEFINE S == {a \in Nat : Budget[a] \in Nat}
<1>7. ASSUME NEW a \in S PROVE a + 1 \in S
  <2>1. Budget[a + 1] = Budget[a] + BackoffDelay(a + 1)
    BY <1>6
  <2>. QED
    BY <2>1, DelayBound
<1>8. S = Nat
  <2>1. 0 \in S
    BY <1>6
  <2>. HIDE DEF S
  <2>. QED
    BY <1>7, <2>1, SetInduction DEF S
<1>9. \A a \in Nat : Budget[a] \in Nat
  BY <1>8
<1>10. Budget = [a \in Nat |-> Budget[a]]
  <2>. DEFINE body(a) == IF a = 0 THEN 0 ELSE Budget[a - 1] + BackoffDelay(a)
  <2>1. Budget = [a \in Nat |-> body(a)]
    BY <1>5
  <2>. HIDE DEF body
  <2>. QED
    BY <2>1
<1>. QED
  BY <1>6, <1>9, <1>10

(* More attempts leave at least as much to wait.                           *)
LEMMA BudgetGrows ==
  ASSUME NEW a \in Nat, NEW b \in Nat, a <= b
  PROVE  Budget[a] <= Budget[b]
<1>. DEFINE S == {c \in Nat : a <= c => Budget[a] <= Budget[c]}
<1>1. \A c \in Nat : Budget[c] \in Nat
  BY BudgetDef
<1>2. 0 \in S
  BY <1>1
<1>3. ASSUME NEW c \in S PROVE c + 1 \in S
  <2>1. Budget[c + 1] = Budget[c] + BackoffDelay(c + 1) /\ BackoffDelay(c + 1) \in Nat
    BY BudgetDef, DelayBound
  <2>2. CASE a <= c
    BY <1>1, <2>1, <2>2
  <2>3. CASE ~(a <= c)
    <3>1. a <= c + 1 => a = c + 1
      BY <2>3
    <3>. QED
      BY <1>1, <3>1
  <2>. QED
    BY <2>2, <2>3
<1>4. S = Nat
  <2>. HIDE DEF S
  <2>. QED
    BY <1>2, <1>3, SetInduction DEF S
<1>. QED
  BY <1>4

(* The backoffs of an outage so far: one for each failed attempt that is   *)
(* over.                                                                   *)
Attempted ==
  IF restartTask = NoTask THEN MaxAttempts - 1
  ELSE IF loops[restartTask] = "sleeping" THEN restartAttempts - 1 ELSE restartAttempts

WaitedSum == waited <= Budget[Attempted]

(* No step waits for more than the backoffs of its failed attempts.        *)
LEMMA SumPreserved ==
  ASSUME SupervisorInv, WaitedSum, [SupervisorNext]_workerVars
  PROVE  WaitedSum'
<1>. USE SentinelAssumption, AttemptsAssumption
<1>1. /\ restartAttempts \in Nat /\ waited \in Nat
      /\ \A l \in Loops : loops[l] # "idle" => l = restartTask
      /\ restartTask # NoTask => restartAttempts < MaxAttempts
      /\ loops \in [Loops -> LoopStates]
  BY DEF SupervisorInv, WorkersTypeOK, StateTypes, CounterTypes, LoopInv, CounterInv
<1>2. ASSUME NEW l \in Loops, Imported(l) PROVE WaitedSum'
  BY <1>1, <1>2 DEF Imported, service, WaitedSum, Attempted
<1>3. ASSUME NEW l \in Loops, NEW w \in Workers, WorkerCreated(l, w) PROVE WaitedSum'
  <2>1. waited' = 0 /\ Attempted' = MaxAttempts - 1 /\ MaxAttempts - 1 \in Nat
    BY <1>3 DEF WorkerCreated, EndLoop, Attempted
  <2>2. Budget[MaxAttempts - 1] \in Nat
    BY <2>1, BudgetDef
  <2>. QED
    BY <2>1, <2>2 DEF WaitedSum
<1>4. ASSUME NEW l \in Loops, CreateFailed(l) PROVE WaitedSum'
  <2>1. l = restartTask /\ restartTask # NoTask /\ Attempted = restartAttempts
    BY <1>1, <1>4 DEF CreateFailed, Attempted
  <2>2. restartAttempts' = restartAttempts + 1 /\ waited' = waited
    BY <1>4 DEF CreateFailed
  <2>3. CASE OutOfAttempts(restartAttempts')
    <3>1. restartAttempts = MaxAttempts - 1
      BY <1>1, <2>1, <2>2, <2>3 DEF OutOfAttempts
    <3>2. restartTask' = NoTask
      BY <1>4, <2>3 DEF CreateFailed, EndLoop
    <3>3. Attempted' = MaxAttempts - 1
      BY <3>2 DEF Attempted
    <3>. QED
      BY <2>1, <2>2, <3>1, <3>3 DEF WaitedSum
  <2>4. CASE ~OutOfAttempts(restartAttempts')
    <3>1. restartTask' = restartTask /\ loops'[l] = "sleeping"
      BY <1>1, <1>4, <2>4 DEF CreateFailed
    <3>2. Attempted' = restartAttempts
      BY <1>1, <2>1, <2>2, <3>1 DEF Attempted
    <3>. QED
      BY <2>1, <2>2, <3>2 DEF WaitedSum
  <2>. QED
    BY <2>3, <2>4
<1>5. ASSUME NEW l \in Loops, BackoffElapsed(l) PROVE WaitedSum'
  <2>1. l = restartTask /\ restartTask # NoTask /\ restartAttempts > 0
    BY <1>1, <1>5 DEF BackoffElapsed, SupervisorInv, CounterInv
  <2>2. waited <= Budget[restartAttempts - 1]
    BY <1>5, <2>1 DEF BackoffElapsed, WaitedSum, Attempted
  <2>3. Budget[restartAttempts] = Budget[restartAttempts - 1] + BackoffDelay(restartAttempts)
    BY <1>1, <2>1, BudgetDef
  <2>4. /\ restartTask' = restartTask /\ restartAttempts' = restartAttempts
        /\ waited' = waited + BackoffDelay(restartAttempts)
        /\ loops'[l] \in {"importing", "creating"}
    BY <1>1, <1>5 DEF BackoffElapsed, FirstAwait, service
  <2>5. Attempted' = restartAttempts
    BY <2>1, <2>4 DEF Attempted
  <2>6. /\ Budget[restartAttempts - 1] \in Nat /\ BackoffDelay(restartAttempts) \in Nat
    BY <1>1, <2>1, BudgetDef, DelayBound
  <2>. QED
    BY <1>1, <2>2, <2>3, <2>4, <2>5, <2>6 DEF WaitedSum
<1>6. ASSUME NEW w \in Workers, HandleWorkerDied(w) PROVE WaitedSum'
  <2>1. isRestarting = FALSE /\ restartTask = NoTask
    BY <1>6, DeathMeetsNoRestart DEF HandleWorkerDied
  <2>2. PICK l \in Loops : /\ restartTask' = l
                          /\ loops' = [loops EXCEPT ![l] = FirstAwait]
    BY <1>6, <2>1 DEF HandleWorkerDied, JoinOrStartLoop
  <2>3. restartAttempts' = 0 /\ waited' = 0 /\ loops'[l] # "sleeping"
    BY <1>1, <1>6, <2>1, <2>2 DEF HandleWorkerDied, FirstAwait
  <2>4. Attempted' = 0
    BY <2>2, <2>3 DEF Attempted
  <2>. QED
    BY <2>3, <2>4, BudgetDef DEF WaitedSum
<1>7. ASSUME \/ \E w \in Workers : ProcessExits(w)
             \/ Listen \/ UNCHANGED workerVars
      PROVE  WaitedSum'
  BY <1>7 DEF ProcessExits, Listen, workerVars, service, WaitedSum, Attempted
<1>. QED
  BY <1>2, <1>3, <1>4, <1>5, <1>6, <1>7 DEF SupervisorNext, LoopStep

(* startWorkerWithRetry: an outage spends at most the capped exponential   *)
(* backoff of its attempts but the last, whatever the attempts and delays  *)
(* are set to.                                                             *)
THEOREM OutageBounded == SupervisorSafety => []BoundedOutage
<1>1. SupervisorInit => WaitedSum
  <2>. SUFFICES ASSUME SupervisorInit PROVE WaitedSum
    OBVIOUS
  <2>1. restartTask # NoTask /\ loops[restartTask] = "importing" /\ restartAttempts = 0 /\ waited = 0
    BY SentinelAssumption DEF SupervisorInit
  <2>2. Attempted = 0
    BY <2>1 DEF Attempted
  <2>. QED
    BY <2>1, <2>2, BudgetDef DEF WaitedSum
<1>2. SupervisorInv /\ WaitedSum /\ [SupervisorNext]_workerVars => WaitedSum'
  BY SumPreserved
<1>3. SupervisorInv /\ WaitedSum => BoundedOutage
  <2>. SUFFICES ASSUME SupervisorInv, WaitedSum PROVE BoundedOutage
    OBVIOUS
  <2>1. /\ restartAttempts \in Nat /\ MaxAttempts - 1 \in Nat
        /\ restartTask # NoTask => restartAttempts < MaxAttempts
        /\ restartTask # NoTask /\ loops[restartTask] = "sleeping" => restartAttempts > 0
    BY AttemptsAssumption, SentinelAssumption DEF SupervisorInv, WorkersTypeOK, StateTypes, CounterTypes, CounterInv
  <2>2. Attempted \in Nat /\ Attempted <= MaxAttempts - 1
    BY <2>1, AttemptsAssumption DEF Attempted
  <2>3. waited \in Nat /\ Budget[Attempted] \in Nat /\ Budget[MaxAttempts - 1] \in Nat
        /\ Budget[Attempted] <= Budget[MaxAttempts - 1]
    BY <2>1, <2>2, BudgetDef, BudgetGrows DEF SupervisorInv, WorkersTypeOK, CounterTypes
  <2>4. OutageBudget = Budget[MaxAttempts - 1]
    BY DEF OutageBudget, Budget
  <2>. QED
    BY <2>2, <2>3, <2>4 DEF WaitedSum, BoundedOutage
<1>. QED
  BY <1>1, <1>2, <1>3, SupervisorInvariance, PTL DEF SupervisorSafety

-----------------------------------------------------------------------------
(***************************************************************************)
(* Rooms, peers and media.                                                 *)
(***************************************************************************)
(* ensureRoom never replaces the room an operation waits in.               *)
LEMMA EnsuredCurrent ==
  ASSUME SfuInv, NEW r \in Rooms, EnsureRoom(r), UNCHANGED <<op, routing, pending,
         attached>>,
         peers' = peers \/ \E u \in Users : peers' = [peers EXCEPT ![r] = @ \cup {u}]
  PROVE  CapturedIsCurrent'
<1>1. \A s \in Rooms : /\ rooms'[s] = NoCall => s # r
                       /\ rooms[s] # NoCall => rooms'[s] = rooms[s]
                       /\ s # r => rooms'[s] = rooms[s] /\ peers'[s] = peers[s]
                       /\ peers[s] \subseteq peers'[s]
  <2>1. CASE rooms[r] # NoCall
    BY <2>1 DEF EnsureRoom, SfuInv, SfuTypeOK
  <2>2. CASE rooms[r] = NoCall
    <3>1. PICK c \in Calls : rooms' = [rooms EXCEPT ![r] = c]
      BY <2>2 DEF EnsureRoom, FreshCalls
    <3>. QED
      BY <2>2, <3>1, NullAssumption DEF SfuInv, SfuTypeOK
  <2>. QED
    BY <2>1, <2>2
<1>2. ASSUME NEW s \in Rooms, rooms'[s] = NoCall PROVE peers'[s] = {}
  BY <1>1, <1>2 DEF SfuInv, CapturedIsCurrent
<1>3. ASSUME NEW x \in routing' \cup pending', x \in attached'
      PROVE  (Joined(x) /\ op[x].call = rooms[op[x].room])'
  <2>1. op[x].room \in Rooms /\ Joined(x) /\ op[x].call = rooms[op[x].room]
    BY <1>3 DEF SfuInv, KnownIds, CapturedIsCurrent, SfuTypeOK, Requested, MediaRequest, Ids
  <2>2. rooms[op[x].room] # NoCall
    BY <2>1 DEF SfuInv, CapturedIsCurrent, Joined
  <2>. QED
    BY <1>1, <2>1, <2>2 DEF Joined
<1>. QED
  BY <1>2, <1>3 DEF CapturedIsCurrent

(* joinRoom adds a peer and may create its room; nothing stored changes.   *)
LEMMA JoinInv ==
  ASSUME SfuInv, NEW r \in Rooms, NEW u \in Users, Join(r, u)
  PROVE  SfuInv'
<1>. USE IdAssumption, NullAssumption, RequestAssumption
       DEF SfuInv, KnownIds, WaitersLive, Join, EnsureRoom, FreshCalls, waits, media
<1>1. SfuTypeOK'
  BY DEF SfuTypeOK, Worker!TypeOK, Worker!Phases, MediaRequest, Ids, CapturedIsCurrent
<1>2. KnownIds'
  BY DEF KnownIds, Requested, SfuTypeOK, Ids, MediaRequest, CapturedIsCurrent
<1>3. WaitersLive'
  BY DEF SfuTypeOK, WaitersLive
<1>4. OnlyRaceLeaks'
  BY DEF OnlyRaceLeaks, Joined, Requested, SfuTypeOK, Ids, Of
<1>5. CapturedIsCurrent'
  BY EnsuredCurrent
<1>. QED
  BY <1>1, <1>2, <1>3, <1>4, <1>5

(* A second joinRoom takes ids out of the store only with their index      *)
(* entries.                                                                *)
LEMMA RejoinInv ==
  ASSUME SfuInv, NEW r \in Rooms, NEW u \in Users, Rejoin(r, u)
  PROVE  SfuInv'
<1>. USE IdAssumption, NullAssumption, RequestAssumption
       DEF SfuInv, KnownIds, WaitersLive, Rejoin, IndexOf, RidingOn, waits
<1>1. SfuTypeOK'
  BY DEF SfuTypeOK, Worker!TypeOK, Worker!Phases, MediaRequest, Ids, CapturedIsCurrent
<1>2. KnownIds'
  BY DEF KnownIds, Requested, SfuTypeOK, Ids, MediaRequest, CapturedIsCurrent
<1>3. WaitersLive'
  BY DEF SfuTypeOK, WaitersLive
<1>4. OnlyRaceLeaks'
  BY DEF OnlyRaceLeaks, Joined, Requested, SfuTypeOK, Ids, Of
<1>5. CapturedIsCurrent'
  BY DEF CapturedIsCurrent, Joined, Requested, SfuTypeOK, Ids, Of
<1>. QED
  BY <1>1, <1>2, <1>3, <1>4, <1>5

(* An operation refused for want of a peer at most creates an empty room.  *)
LEMMA RefusedInv ==
  ASSUME SfuInv, NEW r \in Rooms, NEW u \in Users, RefusedNotJoined(r, u)
  PROVE  SfuInv'
<1>. USE IdAssumption, NullAssumption, RequestAssumption
       DEF SfuInv, KnownIds, WaitersLive, RefusedNotJoined, EnsureRoom, FreshCalls, waits, media
<1>1. SfuTypeOK'
  BY DEF SfuTypeOK, Worker!TypeOK, Worker!Phases, MediaRequest, Ids, CapturedIsCurrent
<1>2. KnownIds'
  BY DEF KnownIds, Requested, SfuTypeOK, Ids, MediaRequest, CapturedIsCurrent
<1>3. WaitersLive'
  BY DEF SfuTypeOK, WaitersLive
<1>4. OnlyRaceLeaks'
  BY DEF OnlyRaceLeaks, Joined, Requested, SfuTypeOK, Ids, Of
<1>5. CapturedIsCurrent'
  BY EnsuredCurrent
<1>. QED
  BY <1>1, <1>2, <1>3, <1>4, <1>5

(* A transport is either stored and indexed at once, or waits for a peer   *)
(* that is in the room.                                                    *)
LEMMA TransportInv ==
  ASSUME SfuInv, NEW r \in Rooms, NEW u \in Users, NEW t \in Transports,
         NEW dir \in {"send", "recv"}, CreateTransport(t, r, u, dir)
  PROVE  SfuInv'
<1>. USE IdAssumption, NullAssumption, RequestAssumption
       DEF SfuInv, KnownIds, WaitersLive, CreateTransport, Begin, WithoutMedia, AwaitMedia, RouterMissing
<1>1. SfuTypeOK'
  BY DEF SfuTypeOK, Worker!TypeOK, Worker!Phases, MediaRequest, Ids, CapturedIsCurrent
<1>2. KnownIds'
  BY DEF KnownIds, Requested, SfuTypeOK, Ids, MediaRequest, CapturedIsCurrent
<1>3. WaitersLive'
  BY DEF SfuTypeOK, WaitersLive
<1>4. OnlyRaceLeaks'
  BY DEF OnlyRaceLeaks, Joined, Requested, SfuTypeOK, Ids, Of
<1>5. CapturedIsCurrent'
  BY DEF CapturedIsCurrent, Joined, Requested, SfuTypeOK, Ids, Of
<1>. QED
  BY <1>1, <1>2, <1>3, <1>4, <1>5

(* The router's arrival moves a transport from one wait to the next.       *)
LEMMA RouterInv ==
  ASSUME SfuInv, NEW t \in Transports, NEW q \in Routers, RouterCreated(t, q)
  PROVE  SfuInv'
<1>. USE IdAssumption, NullAssumption, RequestAssumption
       DEF SfuInv, KnownIds, WaitersLive, RouterCreated, media
<1>1. SfuTypeOK'
  BY DEF SfuTypeOK, Worker!TypeOK, Worker!Phases, MediaRequest, Ids, CapturedIsCurrent
<1>2. KnownIds'
  BY DEF KnownIds, Requested, SfuTypeOK, Ids, MediaRequest, CapturedIsCurrent
<1>3. WaitersLive'
  BY DEF SfuTypeOK, WaitersLive
<1>4. OnlyRaceLeaks'
  BY DEF OnlyRaceLeaks, Joined, Requested, SfuTypeOK, Ids, Of
<1>5. CapturedIsCurrent'
  BY DEF CapturedIsCurrent, Joined, Requested, SfuTypeOK, Ids, Of
<1>. QED
  BY <1>1, <1>2, <1>3, <1>4, <1>5

(* A producer is either stored and indexed at once, or waits for a peer    *)
(* that is in the room.                                                    *)
LEMMA ProduceInv ==
  ASSUME SfuInv, NEW r \in Rooms, NEW u \in Users, NEW t \in Transports,
         NEW p \in Producers, Produce(p, t, r, u)
  PROVE  SfuInv'
<1>. USE IdAssumption, NullAssumption, RequestAssumption
       DEF SfuInv, KnownIds, WaitersLive, Produce, Begin, WithoutMedia, AwaitMedia
<1>1. SfuTypeOK'
  BY DEF SfuTypeOK, Worker!TypeOK, Worker!Phases, MediaRequest, Ids, CapturedIsCurrent
<1>2. KnownIds'
  BY DEF KnownIds, Requested, SfuTypeOK, Ids, MediaRequest, CapturedIsCurrent
<1>3. WaitersLive'
  BY DEF SfuTypeOK, WaitersLive
<1>4. OnlyRaceLeaks'
  BY DEF OnlyRaceLeaks, Joined, Requested, SfuTypeOK, Ids, Of
<1>5. CapturedIsCurrent'
  BY DEF CapturedIsCurrent, Joined, Requested, SfuTypeOK, Ids, Of
<1>. QED
  BY <1>1, <1>2, <1>3, <1>4, <1>5

(* A consumer is either stored and indexed at once, or waits for a peer    *)
(* that is in the room.                                                    *)
LEMMA ConsumeInv ==
  ASSUME SfuInv, NEW r \in Rooms, NEW u \in Users, NEW t \in Transports,
         NEW p \in Producers, NEW x \in Consumers, Consume(x, t, p, r, u)
  PROVE  SfuInv'
<1>. USE IdAssumption, NullAssumption, RequestAssumption
       DEF SfuInv, KnownIds, WaitersLive, Consume, Begin, WithoutMedia, AwaitMedia
<1>1. SfuTypeOK'
  BY DEF SfuTypeOK, Worker!TypeOK, Worker!Phases, MediaRequest, Ids, CapturedIsCurrent
<1>2. KnownIds'
  BY DEF KnownIds, Requested, SfuTypeOK, Ids, MediaRequest, CapturedIsCurrent
<1>3. WaitersLive'
  BY DEF SfuTypeOK, WaitersLive
<1>4. OnlyRaceLeaks'
  BY DEF OnlyRaceLeaks, Joined, Requested, SfuTypeOK, Ids, Of
<1>5. CapturedIsCurrent'
  BY DEF CapturedIsCurrent, Joined, Requested, SfuTypeOK, Ids, Of
<1>. QED
  BY <1>1, <1>2, <1>3, <1>4, <1>5

(* What mediasoup answers is indexed exactly when its captured peer is     *)
(* still the room's.                                                       *)
LEMMA CreatedInv ==
  ASSUME SfuInv, NEW x \in Ids, Created(x)
  PROVE  SfuInv'
<1>. USE IdAssumption, NullAssumption, RequestAssumption
       DEF SfuInv, KnownIds, WaitersLive, Created, IndexedOnSettling
<1>1. SfuTypeOK'
  BY DEF SfuTypeOK, Worker!TypeOK, Worker!Phases, MediaRequest, Ids, CapturedIsCurrent
<1>2. KnownIds'
  BY DEF KnownIds, Requested, SfuTypeOK, Ids, MediaRequest, CapturedIsCurrent
<1>3. WaitersLive'
  BY DEF SfuTypeOK, WaitersLive
<1>4. OnlyRaceLeaks'
  <2>1. x \in attached => Joined(x)
    BY DEF CapturedIsCurrent
  <2>. QED
    BY <2>1 DEF OnlyRaceLeaks, Joined, SfuTypeOK
<1>5. CapturedIsCurrent'
  BY DEF CapturedIsCurrent, Joined, Requested, SfuTypeOK, Ids, Of
<1>. QED
  BY <1>1, <1>2, <1>3, <1>4, <1>5

(* A refused request leaves no trace in the store.                         *)
LEMMA RejectedInv ==
  ASSUME SfuInv, NEW x \in Ids, MediaRejected(x)
  PROVE  SfuInv'
<1>. USE IdAssumption, NullAssumption, RequestAssumption
       DEF SfuInv, KnownIds, WaitersLive, MediaRejected, media
<1>1. SfuTypeOK'
  BY DEF SfuTypeOK, Worker!TypeOK, Worker!Phases, MediaRequest, Ids, CapturedIsCurrent
<1>2. KnownIds'
  BY DEF KnownIds, Requested, SfuTypeOK, Ids, MediaRequest, CapturedIsCurrent
<1>3. WaitersLive'
  BY DEF SfuTypeOK, WaitersLive
<1>4. OnlyRaceLeaks'
  BY DEF OnlyRaceLeaks, Joined, Requested, SfuTypeOK, Ids, Of
<1>5. CapturedIsCurrent'
  BY DEF CapturedIsCurrent, Joined, Requested, SfuTypeOK, Ids, Of
<1>. QED
  BY <1>1, <1>2, <1>3, <1>4, <1>5

(* The producerclose handler takes the consumer out of store and index     *)
(* together.                                                               *)
LEMMA NoticeInv ==
  ASSUME SfuInv, NEW x \in Consumers, ProducerClosed(x)
  PROVE  SfuInv'
<1>. USE IdAssumption, NullAssumption, RequestAssumption
       DEF SfuInv, KnownIds, WaitersLive, ProducerClosed, ForgottenOnNotice, waits
<1>1. SfuTypeOK'
  BY DEF SfuTypeOK, Worker!TypeOK, Worker!Phases, MediaRequest, Ids, CapturedIsCurrent
<1>2. KnownIds'
  BY DEF KnownIds, Requested, SfuTypeOK, Ids, MediaRequest, CapturedIsCurrent
<1>3. WaitersLive'
  BY DEF SfuTypeOK, WaitersLive
<1>4. OnlyRaceLeaks'
  BY DEF OnlyRaceLeaks, Joined, Requested, SfuTypeOK, Ids, Of
<1>5. CapturedIsCurrent'
  BY DEF CapturedIsCurrent, Joined, Requested, SfuTypeOK, Ids, Of
<1>. QED
  BY <1>1, <1>2, <1>3, <1>4, <1>5

(* The worker's own steps touch nothing the store keeps.                   *)
LEMMA WorkerStepInv ==
  ASSUME SfuInv, WorkerStep
  PROVE  SfuInv'
<1>. USE IdAssumption, NullAssumption, RequestAssumption
       DEF SfuInv, KnownIds, WaitersLive, WorkerStep, waits, media, Worker!ComeUp, Worker!GiveUp, Worker!Crash
<1>1. SfuTypeOK'
  BY DEF SfuTypeOK, Worker!TypeOK, Worker!Phases, MediaRequest, Ids, CapturedIsCurrent
<1>2. KnownIds'
  BY DEF KnownIds, Requested, SfuTypeOK, Ids, MediaRequest, CapturedIsCurrent
<1>3. WaitersLive'
  BY DEF SfuTypeOK, WaitersLive
<1>4. OnlyRaceLeaks'
  BY DEF OnlyRaceLeaks, Joined, Requested, SfuTypeOK, Ids, Of
<1>5. CapturedIsCurrent'
  BY DEF CapturedIsCurrent, Joined, Requested, SfuTypeOK, Ids, Of
<1>. QED
  BY <1>1, <1>2, <1>3, <1>4, <1>5

(* The worker's death takes producers and consumers out of store and index *)
(* together.                                                               *)
LEMMA WorkerDiedInv ==
  ASSUME SfuInv, WorkerDied
  PROVE  SfuInv'
<1>. USE IdAssumption, NullAssumption, RequestAssumption
       DEF SfuInv, KnownIds, WaitersLive, WorkerDied, InvalidatedCalls, Worker!Notice
<1>1. SfuTypeOK'
  BY DEF SfuTypeOK, Worker!TypeOK, Worker!Phases, MediaRequest, Ids, CapturedIsCurrent
<1>2. KnownIds'
  BY DEF KnownIds, Requested, SfuTypeOK, Ids, MediaRequest, CapturedIsCurrent
<1>3. WaitersLive'
  BY DEF SfuTypeOK, WaitersLive
<1>4. OnlyRaceLeaks'
  BY DEF OnlyRaceLeaks, Joined, Requested, SfuTypeOK, Ids, Of
<1>5. CapturedIsCurrent'
  BY DEF CapturedIsCurrent, Joined, Requested, SfuTypeOK, Ids, Of
<1>. QED
  BY <1>1, <1>2, <1>3, <1>4, <1>5

(* A step that changes nothing preserves the invariant.                    *)
LEMMA SfuStutterInv ==
  ASSUME SfuInv, UNCHANGED sfuVars
  PROVE  SfuInv'
<1>. USE IdAssumption, NullAssumption, RequestAssumption
       DEF SfuInv, KnownIds, WaitersLive, sfuVars, waits, media
<1>1. SfuTypeOK'
  BY DEF SfuTypeOK, Worker!TypeOK, Worker!Phases, MediaRequest, Ids, CapturedIsCurrent
<1>2. KnownIds'
  BY DEF KnownIds, Requested, SfuTypeOK, Ids, MediaRequest, CapturedIsCurrent
<1>3. WaitersLive'
  BY DEF SfuTypeOK, WaitersLive
<1>4. OnlyRaceLeaks'
  BY DEF OnlyRaceLeaks, Joined, Requested, SfuTypeOK, Ids, Of
<1>5. CapturedIsCurrent'
  BY DEF CapturedIsCurrent, Joined, Requested, SfuTypeOK, Ids, Of
<1>. QED
  BY <1>1, <1>2, <1>3, <1>4, <1>5

(* The leaving peer's ids go from the indices and from the store together, *)
(* and nothing that waits stays attached to it.                            *)
LEMMA LeaveInv ==
  ASSUME SfuInv, NEW u \in Users, NEW rs \in SUBSET Rooms, \A r \in rs : u \in peers[r],
         LeaveRooms(rs, u)
  PROVE  SfuInv'
<1>. USE IdAssumption, NullAssumption, RequestAssumption
       DEF SfuInv, KnownIds, WaitersLive
<1>1. /\ stored' \subseteq stored /\ indexed' \subseteq indexed
      /\ open' \subseteq open /\ routers' \subseteq routers
      /\ attached' = attached \ Detached(rs, u)
      /\ rejoined' \subseteq rejoined
      /\ UNCHANGED <<phase, callRouter, op, routing, pending, live, routerOf, overlapped,
                     silenced>>
  BY DEF LeaveRooms
<1>2. /\ peers' = [r \in Rooms |-> IF r \in rs THEN peers[r] \ {u} ELSE peers[r]]
      /\ \A r \in Rooms : rooms'[r] = IF r \in rs /\ peers[r] = {u} THEN NoCall ELSE rooms[r]
      /\ rooms' \in [Rooms -> Calls \cup {NoCall}]
  BY DEF LeaveRooms, Emptied, SfuTypeOK
<1>3. \A r \in rs : IndexOf(r, u) \cap (indexed' \cup stored') = {}
  BY DEF LeaveRooms
<1>4. \A x \in stored \ stored' : x \notin indexed'
  BY DEF LeaveRooms
<1>5. \A x \in indexed \ indexed' : x \notin stored'
  BY DEF LeaveRooms
<1>6. \A x \in Ids : op'[x] = op[x]
  BY <1>1
<1>7. SfuTypeOK'
  BY <1>1, <1>2 DEF SfuTypeOK, Worker!TypeOK
<1>8. KnownIds'
  BY <1>1 DEF KnownIds, Requested
<1>9. WaitersLive'
  BY <1>1 DEF WaitersLive
<1>10. OnlyRaceLeaks'
  <2>1. ASSUME NEW x \in indexed' PROVE Joined(x)'
    <3>1. x \in indexed /\ op[x] \in MediaRequest /\ Joined(x)
      BY <1>1, <2>1 DEF SfuTypeOK, OnlyRaceLeaks, Requested
    <3>2. CASE op[x].room \in rs /\ op[x].user = u
      BY <1>3, <3>1, <3>2 DEF IndexOf, Of, Requested
    <3>3. CASE ~(op[x].room \in rs /\ op[x].user = u)
      BY <1>1, <1>2, <3>1, <3>3 DEF Joined, MediaRequest
    <3>. QED
      BY <3>2, <3>3
  <2>2. ASSUME NEW x \in stored', x \in attached' PROVE x \in indexed'
    BY <1>1, <1>5, <2>2 DEF OnlyRaceLeaks
  <2>. QED
    BY <2>1, <2>2 DEF OnlyRaceLeaks
<1>11. CapturedIsCurrent'
  <2>1. ASSUME NEW r \in Rooms, rooms'[r] = NoCall PROVE peers'[r] = {}
    BY <1>2, <2>1 DEF CapturedIsCurrent, SfuTypeOK
  <2>2. ASSUME NEW x \in (routing \cup pending)', x \in attached'
        PROVE  (Joined(x) /\ op[x].call = rooms[op[x].room])'
    <3>1. /\ x \in routing \cup pending /\ x \in attached /\ x \notin Detached(rs, u)
          /\ op[x] \in MediaRequest /\ Joined(x) /\ op[x].call = rooms[op[x].room]
      BY <1>1, <2>2 DEF SfuTypeOK, CapturedIsCurrent, Requested, Ids
    <3>2. ~(op[x].room \in rs /\ op[x].user = u)
      BY <3>1 DEF Detached, Of, Requested
    <3>3. op[x].room \in Rooms
      BY <3>1 DEF MediaRequest
    <3>4. op[x].user \in peers'[op[x].room]
      BY <1>2, <3>1, <3>2, <3>3 DEF Joined
    <3>5. rooms'[op[x].room] = rooms[op[x].room]
      BY <1>2, <3>1, <3>2, <3>3 DEF Joined
    <3>. QED
      BY <1>1, <3>1, <3>4, <3>5 DEF Joined
  <2>. QED
    BY <2>1, <2>2 DEF CapturedIsCurrent
<1>. QED
  BY <1>7, <1>8, <1>9, <1>10, <1>11

(* Closing producers takes what leaves an index out of the store as well.  *)
LEMMA CloseInv ==
  ASSUME SfuInv, NEW r \in Rooms, NEW u \in Users, NEW ps \in SUBSET Producers,
         CloseProducers(ps, r, u), silenced' \subseteq Producers
  PROVE  SfuInv'
<1>. USE DEF SfuInv, KnownIds, WaitersLive
<1>1. /\ stored' \subseteq stored /\ indexed' \subseteq indexed /\ open' \subseteq open
      /\ UNCHANGED <<phase, rooms, peers, callRouter, routers, op, waits, live, routerOf,
                     overlapped, rejoined>>
  BY DEF CloseProducers
<1>2. \A x \in indexed \ indexed' : x \notin stored'
  BY DEF CloseProducers, Ended, ConsumersOf
<1>3. SfuTypeOK' /\ WaitersLive'
  BY <1>1 DEF SfuTypeOK, WaitersLive, Worker!TypeOK, waits
<1>4. KnownIds'
  BY <1>1 DEF KnownIds, Requested, waits
<1>5. OnlyRaceLeaks'
  BY <1>1, <1>2 DEF OnlyRaceLeaks, Joined, waits
<1>6. CapturedIsCurrent'
  BY <1>1 DEF CapturedIsCurrent, Joined, waits
<1>. QED
  BY <1>3, <1>4, <1>5, <1>6

(* The empty store satisfies the invariant.                                *)
LEMMA SfuInitInv == SfuInit => SfuInv
BY DEF SfuInit, SfuInv, KnownIds, WaitersLive, SfuTypeOK, Worker!Init, Worker!TypeOK,
       Worker!Phases, OnlyRaceLeaks,
       CapturedIsCurrent

(* Every step of the rooms preserves the invariant.                        *)
LEMMA SfuNextInv == SfuInv /\ [SfuNext]_sfuVars => SfuInv'
<1>. SUFFICES ASSUME SfuInv, [SfuNext]_sfuVars PROVE SfuInv'
  OBVIOUS
<1>1. ASSUME NEW r \in Rooms, NEW u \in Users,
             \/ Join(r, u) \/ Rejoin(r, u) \/ RefusedNotJoined(r, u)
             \/ \E t \in Transports, dir \in {"send", "recv"} : CreateTransport(t, r, u, dir)
             \/ \E p \in Producers, t \in Transports : Produce(p, t, r, u)
             \/ \E x \in Consumers, t \in Transports, p \in Producers : Consume(x, t, p, r, u)
      PROVE  SfuInv'
  BY <1>1, JoinInv, RejoinInv, RefusedInv, TransportInv, ProduceInv, ConsumeInv
<1>2. ASSUME NEW r \in Rooms, NEW u \in Users, LeaveCall(r, u) PROVE SfuInv'
  BY <1>2, LeaveInv DEF LeaveCall
<1>3. ASSUME NEW u \in Users, Disconnect(u) PROVE SfuInv'
  BY <1>3, LeaveInv DEF Disconnect
<1>4. ASSUME NEW r \in Rooms, NEW u \in Users, ForceMute(r, u) PROVE SfuInv'
  BY <1>4, CloseInv DEF ForceMute, AskedFor, SfuInv, SfuTypeOK
<1>5. ASSUME NEW r \in Rooms, NEW u \in Users, NEW p \in Producers, CloseProducer(r, u, p)
      PROVE  SfuInv'
  BY <1>5, CloseInv DEF CloseProducer, SfuInv, SfuTypeOK
<1>6. CASE \E t \in Transports, q \in Routers : RouterCreated(t, q)
  BY <1>6, RouterInv
<1>7. CASE \E x \in Ids : Created(x) \/ MediaRejected(x)
  BY <1>7, CreatedInv, RejectedInv
<1>8. CASE \E x \in Consumers : ProducerClosed(x)
  BY <1>8, NoticeInv
<1>9. CASE WorkerStep \/ WorkerDied
  BY <1>9, WorkerStepInv, WorkerDiedInv
<1>10. CASE UNCHANGED sfuVars
  BY <1>10, SfuStutterInv
<1>. QED
  BY <1>1, <1>2, <1>3, <1>4, <1>5, <1>6, <1>7, <1>8, <1>9, <1>10 DEF SfuNext
-----------------------------------------------------------------------------
(* The inductive invariant holds in every reachable state.                 *)
THEOREM Invariance == SafetySpec => []SfuInv
BY SfuInitInv, SfuNextInv, PTL DEF SafetySpec

(* Every variable of the store keeps its type.                             *)
THEOREM TypeCorrect == SafetySpec => []SfuTypeOK
<1>1. SfuInv => SfuTypeOK
  BY DEF SfuInv
<1>. QED
  BY <1>1, Invariance, PTL

(* Leaving, a kick, a disconnect or the worker's death leaves nothing of a *)
(* peer in the store but what it was waiting for when it left.             *)
THEOREM LeaksOnlyByRace == SafetySpec => []OnlyRaceLeaks
<1>1. SfuInv => OnlyRaceLeaks
  BY DEF SfuInv
<1>. QED
  BY <1>1, Invariance, PTL

(* The room and the peer captured by a waiting operation whose peer has    *)
(* not left are those of the store.                                        *)
THEOREM CaptureStaysCurrent == SafetySpec => []CapturedIsCurrent
<1>1. SfuInv => CapturedIsCurrent
  BY DEF SfuInv
<1>. QED
  BY <1>1, Invariance, PTL

(* The store has what the peers in its rooms own, and no more.             *)
THEOREM StoreHolds == SafetySpec => []StoreSound
<1>1. SfuInv => StoreSound
  BY DEF SfuInv, StoreSound
<1>. QED
  BY <1>1, Invariance, PTL

(* A step that makes nothing of a silenced producer keeps it silent.        *)
LEMMA SilentKept ==
  ASSUME MuteInv, UNCHANGED silenced,
         \A x \in silenced : op'[x] = op[x],
         stored' \cap silenced = {}, pending' \cap silenced = {}, open' \subseteq stored'
  PROVE  MuteInv'
BY DEF MuteInv, MuteSilences, Requested

(* What is only taken out of mediasoup and of the store.                   *)
LEMMA SilentLess ==
  ASSUME MuteInv, UNCHANGED <<silenced, op>>,
         stored' \subseteq stored, pending' \subseteq pending, open' \subseteq stored'
  PROVE  MuteInv'
BY SilentKept DEF MuteInv, MuteSilences

(* A request is for an id that nobody has asked for, so for none silenced. *)
LEMMA SilentBegin ==
  ASSUME SfuInv, MuteInv, NEW x \in Ids, NEW r \in Rooms, NEW u \in Users,
         NEW k, NEW v, NEW o, Begin(x, r, u, k, v, o),
         stored' \subseteq stored \cup {x}, pending' \subseteq pending \cup {x},
         stored \subseteq stored'
  PROVE  MuteInv'
<1>1. x \notin silenced
  BY DEF Begin, MuteInv, Requested
<1>2. UNCHANGED <<silenced, open>> /\ \A z \in silenced : op'[z] = op[z]
  BY <1>1 DEF Begin, SfuInv, SfuTypeOK, Ids
<1>. QED
  BY <1>1, <1>2, SilentKept DEF MuteInv, MuteSilences

(* Whoever joins again loses ids from mediasoup no later than from the     *)
(* store.                                                                  *)
LEMMA SilentRejoin ==
  ASSUME SfuInv, MuteInv, NEW r \in Rooms, NEW u \in Users, Rejoin(r, u)
  PROVE  MuteInv'
<1>1. UNCHANGED <<silenced, op, pending>> /\ stored' \subseteq stored
  BY DEF Rejoin, waits
<1>2. open' \subseteq stored'
  <2>. DEFINE mine(ids) == IndexOf(r, u) \cap ids
              firstLive(ids) == mine(ids) \cap stored \cap live
              dropped == mine(Consumers) \cup mine(Producers)
  <2>0. open \subseteq stored /\ open \subseteq live
    BY DEF MuteInv, SfuInv, SfuTypeOK
  <2>1. CASE \E x \in firstLive(Consumers), before \in SUBSET (mine(Consumers) \ live) :
               stored' = stored \ before /\ open' = open \ {x}
    BY <2>0, <2>1
  <2>2. CASE /\ firstLive(Consumers) = {}
             /\ \E x \in firstLive(Producers), before \in SUBSET (mine(Producers) \ live) :
                  stored' = stored \ (mine(Consumers) \cup before) /\ open' = open \ {x}
    BY <2>0, <2>2
  <2>3. CASE /\ firstLive(Consumers \cup Producers) = {}
             /\ \E t \in firstLive(Transports) :
                  /\ stored' = stored \ (dropped \cup RidingOn({t}))
                  /\ open' = open \ ({t} \cup RidingOn({t}))
    BY <2>0, <2>3
  <2>4. CASE firstLive(Ids) = {} /\ stored' = stored \ dropped /\ open' = open
    BY <2>0, <2>4 DEF Ids
  <2>. QED
    BY <2>1, <2>2, <2>3, <2>4 DEF Rejoin
<1>. QED
  BY <1>1, <1>2, SilentLess

(* The mute: the handler closes what the peer indexes, and the store has   *)
(* nothing else of what an attached peer asked for and got.                *)
LEMMA SilentMute ==
  ASSUME SfuInv, MuteInv, NEW r \in Rooms, NEW u \in Users, ForceMute(r, u)
  PROVE  MuteInv'
<1>. DEFINE ps == IndexOf(r, u) \cap Producers
<1>1. /\ stored' = stored \ Ended(ps) /\ open' = open \ Ended(ps)
      /\ UNCHANGED <<op, pending>>
      /\ silenced' = silenced \cup AskedFor(r, u)
  BY DEF ForceMute, CloseProducers, waits
<1>2. AskedFor(r, u) \cap stored' = {}
  BY <1>1 DEF AskedFor, SfuInv, OnlyRaceLeaks, IndexOf, Ended
<1>3. open' \subseteq stored' /\ stored' \subseteq stored
  BY <1>1 DEF MuteInv
<1>4. AskedFor(r, u) \cap pending = {} /\ \A p \in AskedFor(r, u) : Requested(p)
  BY DEF AskedFor, Of
<1>. QED
  BY <1>1, <1>2, <1>3, <1>4 DEF MuteInv, MuteSilences, Requested

(* Every step of the rooms keeps silent what was silenced.                 *)
LEMMA SilentNext == SfuInv /\ MuteInv /\ [SfuNext]_sfuVars => MuteInv'
<1>. SUFFICES ASSUME SfuInv, MuteInv, [SfuNext]_sfuVars PROVE MuteInv'
  OBVIOUS
<1>0. open \subseteq stored
  BY DEF MuteInv
<1>1. ASSUME NEW r \in Rooms, NEW u \in Users, Join(r, u) \/ RefusedNotJoined(r, u)
      PROVE  MuteInv'
  BY <1>0, <1>1, SilentLess DEF Join, RefusedNotJoined, waits, media
<1>2. ASSUME NEW r \in Rooms, NEW u \in Users, NEW t \in Transports,
             NEW dir \in {"send", "recv"}, CreateTransport(t, r, u, dir)
      PROVE  MuteInv'
  BY <1>2, SilentBegin DEF CreateTransport, WithoutMedia, AwaitMedia, Ids
<1>3. ASSUME NEW r \in Rooms, NEW u \in Users, NEW p \in Producers, NEW t \in Transports,
             Produce(p, t, r, u)
      PROVE  MuteInv'
  BY <1>3, SilentBegin DEF Produce, WithoutMedia, AwaitMedia, Ids
<1>4. ASSUME NEW r \in Rooms, NEW u \in Users, NEW x \in Consumers, NEW t \in Transports,
             NEW p \in Producers, Consume(x, t, p, r, u)
      PROVE  MuteInv'
  BY <1>4, SilentBegin DEF Consume, WithoutMedia, AwaitMedia, Ids
<1>5. ASSUME NEW u \in Users, NEW rs \in SUBSET Rooms, LeaveRooms(rs, u) PROVE MuteInv'
  BY <1>0, <1>5, SilentLess DEF LeaveRooms
<1>6. ASSUME NEW r \in Rooms, NEW u \in Users, NEW p \in Producers, CloseProducer(r, u, p)
      PROVE  MuteInv'
  BY <1>0, <1>6, SilentLess DEF CloseProducer, CloseProducers, waits
<1>7. ASSUME NEW t \in Transports, NEW q \in Routers, RouterCreated(t, q) PROVE MuteInv'
  <2>1. t \notin silenced
    BY IdAssumption DEF SfuInv, SfuTypeOK
  <2>. QED
    BY <1>0, <1>7, <2>1, SilentKept DEF RouterCreated, media, MuteInv, MuteSilences
<1>8. ASSUME NEW x \in Ids, Created(x) PROVE MuteInv'
  <2>1. x \notin silenced
    BY <1>8 DEF Created, MuteInv
  <2>. QED
    BY <1>0, <1>8, <2>1, SilentKept DEF Created, MuteInv, MuteSilences
<1>9. ASSUME NEW x \in Ids, MediaRejected(x) PROVE MuteInv'
  BY <1>0, <1>9, SilentLess DEF MediaRejected, media
<1>10. ASSUME NEW x \in Consumers, ProducerClosed(x) PROVE MuteInv'
  BY <1>0, <1>10, SilentLess DEF ProducerClosed, ForgottenOnNotice, waits
<1>11. CASE WorkerStep \/ UNCHANGED sfuVars
  BY <1>0, <1>11, SilentLess DEF WorkerStep, sfuVars, waits, media
<1>12. CASE WorkerDied
  BY <1>12, SilentLess DEF WorkerDied
<1>. QED
  BY <1>1, <1>2, <1>3, <1>4, <1>5, <1>6, <1>7, <1>8, <1>9, <1>10, <1>11, <1>12,
     SilentRejoin, SilentMute DEF SfuNext, LeaveCall, Disconnect

(* sfu.host-force-mute: what the target had asked for when the host muted  *)
(* it stays out of the store and out of mediasoup whatever follows, a      *)
(* rejoin, the death of the worker or the answers to other requests; what  *)
(* mediasoup was still making at the mute is not in the claim.             *)
THEOREM MuteIsSilent == SafetySpec => []MuteSilences
<1>1. SfuInit => MuteInv
  BY DEF SfuInit, MuteInv, MuteSilences
<1>2. MuteInv => MuteSilences
  BY DEF MuteInv
<1>. QED
  BY <1>1, <1>2, SilentNext, Invariance, PTL DEF SafetySpec

-----------------------------------------------------------------------------
(* The rooms of the store have calls and routers of their own.             *)
CallsApart ==
  \A r, s \in Rooms : r # s /\ rooms[r] # NoCall =>
    /\ rooms[r] # rooms[s]
    /\ rooms[s] # NoCall /\ callRouter[rooms[r]] # NoRouter =>
         callRouter[rooms[r]] # callRouter[rooms[s]]

(* An id waits for one thing, and is owned only once it waits no more.     *)
WaitsApart == (routing \cup pending) \cap indexed = {} /\ routing \cap pending = {}

LiveAsked == \A x \in live : Requested(x)

(* What a peer owns was asked for in the call its room is in.              *)
IndexedCurrent == \A x \in indexed : op[x].call = rooms[op[x].room]

(* The call of a transport that waits for a router is its room's or gone.  *)
RoutingHome == \A t \in routing, r \in Rooms : rooms[r] = op[t].call => r = op[t].room

(* The router of a room carries no transport of another one.               *)
RouterOwned ==
  \A t \in Transports : routerOf[t] # NoRouter =>
    /\ Requested(t)
    /\ \A r \in Rooms : rooms[r] # NoCall /\ routerOf[t] = callRouter[rooms[r]] => op[t].room = r

(* But for calls two of whose router creations overlapped: while one waits *)
(* the call has no router, and afterwards its transports are all on it.    *)
RoutingAlone ==
  \A t \in routing :
    \/ op[t].call \in overlapped
    \/ /\ callRouter[op[t].call] = NoRouter
       /\ \A s \in routing : op[s].call = op[t].call => s = t

Carried == Transports \cap ((indexed \cap open) \cup (pending \cap attached))

RoutedOK ==
  \A t \in Carried :
    /\ routerOf[t] # NoRouter
    /\ routerOf[t] = callRouter[op[t].call] \/ op[t].call \in overlapped

(* A producer or a consumer is on a transport of its user.                 *)
ViaOK ==
  \A x \in Ids \ Transports : Requested(x) =>
    op[x].via \in Transports /\ Requested(op[x].via) /\ op[op[x].via].user = op[x].user

(* The transport of what waits for mediasoup is open, unless its peer      *)
(* joined again.                                                           *)
PendingRides ==
  \A x \in (pending \cap attached) \ Transports :
    op[op[x].via].room = op[x].room =>
      op[x].via \in open \/ <<op[x].room, op[x].user>> \in rejoined

CallsInv ==
  /\ CallsApart /\ RoomRouterOpen
  /\ WaitsApart /\ LiveAsked /\ IndexedCurrent
  /\ RoutingHome /\ RouterOwned
  /\ RoutingAlone /\ RoutedOK
  /\ ViaOK /\ PendingRides /\ OnlyRejoinLeavesClosed

(* The record of an id that was asked for.                                 *)
LEMMA AskedRecord ==
  ASSUME SfuInv, NEW x \in Ids, Requested(x)
  PROVE  /\ op[x] \in MediaRequest /\ op[x].room \in Rooms /\ op[x].user \in Users /\ op[x].call \in Calls
BY DEF SfuInv, SfuTypeOK, Requested, MediaRequest

(* What is stored, owned, waited for or has an object was asked for.       *)
LEMMA InUse ==
  ASSUME SfuInv, CallsInv, NEW x \in stored \cup indexed \cup routing \cup pending \cup live \cup open
  PROVE  x \in Ids /\ Requested(x)
BY DEF SfuInv, SfuTypeOK, KnownIds, CallsInv, LiveAsked, Ids

(* A step that at most closes media and takes it out of the store and the  *)
(* indices leaves the calls, their routers and the waits as they are.      *)
LEMMA MediaShrinks ==
  ASSUME SfuInv, CallsInv,
         UNCHANGED <<rooms, callRouter, routers, op, waits, live, routerOf, overlapped>>,
         indexed' \subseteq indexed, open' \subseteq open
  PROVE  /\ CallsApart' /\ RoomRouterOpen'
         /\ WaitsApart' /\ LiveAsked' /\ IndexedCurrent'
         /\ RoutingHome' /\ RouterOwned'
         /\ RoutingAlone' /\ RoutedOK' /\ ViaOK'
<1>. USE DEF CallsInv, waits
<1>1. CallsApart' /\ RoomRouterOpen'
  BY DEF CallsApart, RoomRouterOpen
<1>2. WaitsApart' /\ LiveAsked' /\ IndexedCurrent'
  BY DEF WaitsApart, LiveAsked, IndexedCurrent, Requested
<1>3. RoutingHome' /\ RouterOwned'
  BY DEF RoutingHome, RouterOwned, Requested
<1>4. RoutingAlone' /\ RoutedOK'
  BY DEF RoutingAlone, RoutedOK, Carried
<1>5. ViaOK'
  BY DEF ViaOK, Requested
<1>. QED
  BY <1>1, <1>2, <1>3, <1>4, <1>5

(* A second joinRoom closes at most what it will be blamed for.            *)
LEMMA RejoinCalls ==
  ASSUME SfuInv, CallsInv, NEW r \in Rooms, NEW u \in Users, Rejoin(r, u)
  PROVE  CallsInv'
<1>1. /\ UNCHANGED <<rooms, callRouter, routers, op, waits, live, routerOf, overlapped>>
      /\ indexed' \subseteq indexed /\ stored' \subseteq stored /\ open' \subseteq open
      /\ rejoined' = rejoined \cup {<<r, u>>}
  BY DEF Rejoin
<1>2. \A x \in (open \ open') \ Transports : Of(x, r, u) \/ x \notin stored'
  BY DEF Rejoin, IndexOf
<1>3. \A t \in (open \ open') \cap Transports : Of(t, r, u)
  BY IdAssumption DEF Rejoin, IndexOf, RidingOn
<1>4. PendingRides'
  BY <1>1, <1>3, InUse DEF CallsInv, PendingRides, waits, ViaOK, Of
<1>5. OnlyRejoinLeavesClosed'
  BY <1>1, <1>2 DEF CallsInv, OnlyRejoinLeavesClosed, Of
<1>. QED
  BY <1>1, <1>4, <1>5, MediaShrinks DEF CallsInv

(* Closing producers takes what it closes out of the store.                *)
LEMMA CloseCalls ==
  ASSUME SfuInv, CallsInv, NEW r \in Rooms, NEW u \in Users, NEW ps \in SUBSET Producers,
         CloseProducers(ps, r, u)
  PROVE  CallsInv'
<1>1. /\ UNCHANGED <<rooms, callRouter, routers, op, waits, live, routerOf, overlapped, rejoined>>
      /\ indexed' \subseteq indexed /\ stored' = stored \ Ended(ps) /\ open' = open \ Ended(ps)
  BY DEF CloseProducers
<1>2. Ended(ps) \cap Transports = {}
  BY IdAssumption DEF Ended, ConsumersOf
<1>3. PendingRides'
  BY <1>1, <1>2, InUse DEF CallsInv, PendingRides, ViaOK, waits
<1>4. OnlyRejoinLeavesClosed'
  BY <1>1 DEF CallsInv, OnlyRejoinLeavesClosed
<1>. QED
  BY <1>1, <1>3, <1>4, MediaShrinks DEF CallsInv

LEMMA NoticeCalls ==
  ASSUME SfuInv, CallsInv, NEW x \in Consumers, ProducerClosed(x)
  PROVE  CallsInv'
<1>1. /\ UNCHANGED <<rooms, callRouter, routers, op, waits, live, routerOf, overlapped, rejoined>>
      /\ indexed' \subseteq indexed /\ stored' = stored \ {x} /\ open' = open \ {x}
  BY DEF ProducerClosed, ForgottenOnNotice
<1>2. x \notin Transports
  BY IdAssumption
<1>3. PendingRides'
  BY <1>1, <1>2, InUse DEF CallsInv, PendingRides, ViaOK, waits
<1>4. OnlyRejoinLeavesClosed'
  BY <1>1 DEF CallsInv, OnlyRejoinLeavesClosed
<1>. QED
  BY <1>1, <1>3, <1>4, MediaShrinks DEF CallsInv

LEMMA QuietCalls ==
  ASSUME SfuInv, CallsInv, WorkerStep \/ UNCHANGED sfuVars
  PROVE  CallsInv'
<1>1. UNCHANGED <<rooms, callRouter, routers, op, waits, media, routerOf, overlapped, rejoined>>
  BY DEF WorkerStep, sfuVars
<1>2. PendingRides' /\ OnlyRejoinLeavesClosed'
  BY <1>1 DEF CallsInv, PendingRides, OnlyRejoinLeavesClosed, waits, media
<1>. QED
  BY <1>1, <1>2, MediaShrinks DEF CallsInv, media

(* ensureRoom gives a room that is gone a call of its own, with no router, *)
(* on which nothing waits.                                                 *)
LEMMA EnsuredCalls ==
  ASSUME SfuInv, CallsInv, NEW r \in Rooms, EnsureRoom(r),
         UNCHANGED <<routers, op, waits, media, routerOf, rejoined>>
  PROVE  CallsInv'
<1>. USE DEF waits, media
<1>1. CASE rooms[r] # NoCall
  <2>1. UNCHANGED <<rooms, callRouter, overlapped>>
    BY <1>1 DEF EnsureRoom
  <2>2. PendingRides' /\ OnlyRejoinLeavesClosed'
    BY DEF CallsInv, PendingRides, OnlyRejoinLeavesClosed
  <2>. QED
    BY <2>1, <2>2, MediaShrinks DEF CallsInv
<1>2. CASE rooms[r] = NoCall
  <2>1. PICK c \in FreshCalls : /\ rooms' = [rooms EXCEPT ![r] = c]
                                /\ callRouter' = [callRouter EXCEPT ![c] = NoRouter]
                                /\ overlapped' = overlapped \ {c}
    BY <1>2 DEF EnsureRoom
  <2>2. /\ c \in Calls /\ c # NoCall
        /\ \A s \in Rooms : rooms[s] # c
        /\ \A t \in routing : op[t].call # c
    BY NullAssumption DEF FreshCalls
  <2>3. /\ rooms'[r] = c /\ \A s \in Rooms \ {r} : rooms'[s] = rooms[s]
        /\ callRouter'[c] = NoRouter /\ \A k \in Calls \ {c} : callRouter'[k] = callRouter[k]
    BY <2>1, <2>2 DEF SfuInv, SfuTypeOK
  <2>4. \A s \in Rooms : rooms[s] \in Calls \cup {NoCall}
    BY DEF SfuInv, SfuTypeOK
  <2>5. CallsApart'
    BY <2>2, <2>3, <2>4 DEF CallsInv, CallsApart
  <2>6. RoomRouterOpen'
    BY <2>2, <2>3, <2>4 DEF CallsInv, RoomRouterOpen
  <2>7. WaitsApart' /\ LiveAsked' /\ ViaOK'
    BY DEF CallsInv, WaitsApart, LiveAsked, ViaOK, Requested
  <2>8. ASSUME NEW x \in indexed \cup (pending \cap attached)
        PROVE  op[x].room # r /\ op[x].call # c /\ op[x].call \in Calls /\ op[x].room \in Rooms
    <3>1. x \in Ids /\ Requested(x) /\ Joined(x) /\ op[x].call = rooms[op[x].room]
      BY InUse DEF SfuInv, OnlyRaceLeaks, CapturedIsCurrent, CallsInv, IndexedCurrent
    <3>2. op[x].room \in Rooms /\ op[x].call \in Calls
      BY <3>1, AskedRecord
    <3>. QED
      BY <1>2, <2>2, <3>1, <3>2 DEF SfuInv, CapturedIsCurrent, Joined
  <2>9. IndexedCurrent'
    BY <2>3, <2>8 DEF CallsInv, IndexedCurrent
  <2>10. RoutingHome'
    BY <2>2, <2>3 DEF CallsInv, RoutingHome
  <2>11. RouterOwned'
    BY <2>2, <2>3, <2>4 DEF CallsInv, RouterOwned, Requested
  <2>12. RoutingAlone'
    <3>1. ASSUME NEW t \in routing PROVE op[t].call \in Calls
      BY InUse, AskedRecord
    <3>. QED
      BY <2>1, <2>2, <2>3, <3>1 DEF CallsInv, RoutingAlone
  <2>13. RoutedOK'
    BY <2>1, <2>3, <2>8 DEF CallsInv, RoutedOK, Carried
  <2>14. PendingRides' /\ OnlyRejoinLeavesClosed'
    BY DEF CallsInv, PendingRides, OnlyRejoinLeavesClosed
  <2>. QED
    BY <2>5, <2>6, <2>7, <2>9, <2>10, <2>11, <2>12, <2>13, <2>14 DEF CallsInv
<1>. QED
  BY <1>1, <1>2

(* The answer of mediasoup makes a waiting id its peer's, on a transport   *)
(* that is open still.                                                     *)
LEMMA CreatedCalls ==
  ASSUME SfuInv, CallsInv, NEW x \in Ids, Created(x)
  PROVE  CallsInv'
<1>1. /\ x \in pending /\ pending' = pending \ {x} /\ stored' = stored \cup {x}
      /\ indexed' = IF x \in attached THEN indexed \cup {x} ELSE indexed
      /\ open \subseteq open' /\ open' \subseteq open \cup {x}
      /\ x \notin Transports /\ op[x].via \in open => x \in open'
      /\ UNCHANGED <<rooms, callRouter, routers, op, routing, attached, live, routerOf, overlapped, rejoined>>
  BY DEF Created, IndexedOnSettling
<1>2. x \notin indexed /\ x \notin routing
  BY <1>1 DEF CallsInv, WaitsApart
<1>3. CallsApart' /\ RoomRouterOpen' /\ LiveAsked' /\ RoutingHome' /\ RouterOwned' /\ RoutingAlone' /\ ViaOK'
  BY <1>1 DEF CallsInv, CallsApart, RoomRouterOpen, LiveAsked, RoutingHome, RouterOwned, RoutingAlone,
              ViaOK, Requested
<1>4. WaitsApart'
  BY <1>1, <1>2 DEF CallsInv, WaitsApart
<1>5. IndexedCurrent'
  BY <1>1 DEF SfuInv, CapturedIsCurrent, CallsInv, IndexedCurrent
<1>6. RoutedOK'
  BY <1>1, <1>2 DEF CallsInv, RoutedOK, Carried
<1>7. PendingRides'
  BY <1>1 DEF CallsInv, PendingRides
<1>8. OnlyRejoinLeavesClosed'
  BY <1>1, <1>2 DEF CallsInv, OnlyRejoinLeavesClosed, PendingRides
<1>. QED
  BY <1>3, <1>4, <1>5, <1>6, <1>7, <1>8 DEF CallsInv

(* What is refused waits no more.                                          *)
LEMMA RejectedCalls ==
  ASSUME SfuInv, CallsInv, NEW x \in Ids, MediaRejected(x)
  PROVE  CallsInv'
<1>1. /\ routing' \subseteq routing /\ pending' \subseteq pending
      /\ UNCHANGED <<rooms, callRouter, routers, op, attached, media, routerOf, overlapped, rejoined>>
  BY DEF MediaRejected
<1>. USE <1>1 DEF CallsInv, media
<1>2. CallsApart' /\ RoomRouterOpen' /\ WaitsApart' /\ LiveAsked' /\ IndexedCurrent'
  BY DEF CallsApart, RoomRouterOpen, WaitsApart, LiveAsked, IndexedCurrent, Requested
<1>3. RoutingHome' /\ RouterOwned' /\ RoutingAlone'
  BY DEF RoutingHome, RouterOwned, RoutingAlone, Requested
<1>4. RoutedOK' /\ ViaOK' /\ PendingRides' /\ OnlyRejoinLeavesClosed'
  BY DEF RoutedOK, Carried, ViaOK, PendingRides, OnlyRejoinLeavesClosed, Requested
<1>. QED
  BY <1>2, <1>3, <1>4

(* A router is created for a call that has none, or one that overlapped.   *)
LEMMA RouterCalls ==
  ASSUME SfuInv, CallsInv, NEW t \in Transports, NEW q \in Routers, RouterCreated(t, q)
  PROVE  CallsInv'
<1>. PICK c : c = op[t].call
  OBVIOUS
<1>1. /\ t \in routing /\ q \notin routers /\ \A s \in Transports : routerOf[s] # q
      /\ callRouter' = [callRouter EXCEPT ![c] = q]
      /\ routers' = routers \cup {q}
      /\ routerOf' = [routerOf EXCEPT ![t] = q]
      /\ routing' = routing \ {t} /\ pending' = pending \cup {t}
      /\ UNCHANGED <<rooms, op, attached, stored, indexed, live, open, overlapped, rejoined>>
  BY DEF RouterCreated, media
<1>2. Requested(t) /\ c \in Calls /\ t \in Ids /\ q # NoRouter /\ t \notin indexed
  BY <1>1, InUse, AskedRecord, NullAssumption DEF CallsInv, WaitsApart
<1>3. /\ callRouter'[c] = q /\ \A k \in Calls \ {c} : callRouter'[k] = callRouter[k]
      /\ routerOf'[t] = q /\ \A s \in Transports \ {t} : routerOf'[s] = routerOf[s]
  BY <1>1, <1>2 DEF SfuInv, SfuTypeOK
<1>4. \A r \in Rooms : rooms[r] \in Calls \cup {NoCall}
  BY DEF SfuInv, SfuTypeOK
<1>5. \A r \in Rooms : rooms[r] # NoCall => callRouter[rooms[r]] # q
  BY <1>1, <1>2 DEF CallsInv, RoomRouterOpen
<1>6. CallsApart'
  BY <1>1, <1>2, <1>3, <1>4, <1>5 DEF CallsInv, CallsApart
<1>7. RoomRouterOpen'
  BY <1>1, <1>2, <1>3, <1>4 DEF CallsInv, RoomRouterOpen
<1>8. WaitsApart' /\ LiveAsked' /\ IndexedCurrent' /\ ViaOK'
  BY <1>1, <1>2 DEF CallsInv, WaitsApart, LiveAsked, IndexedCurrent, ViaOK, Requested
<1>9. RoutingHome'
  BY <1>1 DEF CallsInv, RoutingHome
<1>10. RouterOwned'
  BY <1>1, <1>2, <1>3, <1>4, <1>5 DEF CallsInv, RouterOwned, RoutingHome, Requested
<1>11. RoutingAlone'
  <2>1. ASSUME NEW s \in routing, s # t PROVE op[s].call \in Calls /\ (op[s].call = c => c \in overlapped)
    BY <1>1, <2>1, InUse, AskedRecord DEF CallsInv, RoutingAlone
  <2>. QED
    BY <1>1, <1>3, <2>1 DEF CallsInv, RoutingAlone
<1>12. RoutedOK'
  <2>1. ASSUME NEW s \in Carried, s # t, op[s].call = c PROVE c \in overlapped
    BY <1>1, <2>1 DEF CallsInv, RoutedOK, RoutingAlone
  <2>2. ASSUME NEW s \in Carried PROVE op[s].call \in Calls /\ s \in Transports
    BY InUse, AskedRecord DEF Carried
  <2>. QED
    BY <1>1, <1>2, <1>3, <2>1, <2>2 DEF CallsInv, RoutedOK, Carried
<1>13. PendingRides' /\ OnlyRejoinLeavesClosed'
  BY <1>1 DEF CallsInv, PendingRides, OnlyRejoinLeavesClosed
<1>. QED
  BY <1>6, <1>7, <1>8, <1>9, <1>10, <1>11, <1>12, <1>13 DEF CallsInv

(* The worker's death closes everything at once.                           *)
LEMMA WorkerDiedCalls ==
  ASSUME SfuInv, CallsInv, WorkerDied
  PROVE  CallsInv'
<1>1. /\ indexed' = indexed \ (open \ Transports) /\ open' = {} /\ routers' = {}
      /\ routing' = {} /\ pending' = {} /\ stored' \subseteq stored
      /\ UNCHANGED <<rooms, op, attached, live, routerOf, overlapped, rejoined>>
  BY DEF WorkerDied
<1>2. \A r \in Rooms : rooms[r] # NoCall => callRouter'[rooms[r]] = NoRouter
  BY DEF WorkerDied, InvalidatedCalls, SfuInv, SfuTypeOK
<1>. USE <1>1 DEF CallsInv
<1>3. CallsApart' /\ RoomRouterOpen'
  BY <1>2 DEF CallsApart, RoomRouterOpen
<1>4. WaitsApart' /\ LiveAsked' /\ IndexedCurrent' /\ ViaOK'
  BY DEF WaitsApart, LiveAsked, IndexedCurrent, ViaOK, Requested
<1>5. RoutingHome' /\ RouterOwned' /\ RoutingAlone'
  BY <1>2 DEF RoutingHome, RouterOwned, RoutingAlone, Requested
<1>6. RoutedOK' /\ PendingRides' /\ OnlyRejoinLeavesClosed'
  BY DEF RoutedOK, Carried, PendingRides, OnlyRejoinLeavesClosed
<1>. QED
  BY <1>3, <1>4, <1>5, <1>6

(* A request that begins is new, and its user is in the room of a call.    *)
LEMMA MediaBegun ==
  ASSUME SfuInv, CallsInv, NEW x \in Ids, NEW r \in Rooms, NEW u \in Users,
         NEW k \in {"send", "recv", "producer", "consumer"}, NEW t \in Transports \cup {NoId},
         NEW p \in Producers \cup {NoId}, Begin(x, r, u, k, t, p)
  PROVE  /\ x \notin stored \cup indexed \cup routing \cup pending \cup live \cup open
         /\ ~Requested(x)
         /\ rooms[r] \in Calls /\ rooms[r] # NoCall
         /\ op'[x].room = r /\ op'[x].user = u /\ op'[x].call = rooms[r] /\ op'[x].kind = k
         /\ op'[x].via = t /\ op'[x].of = p /\ Requested(x)'
         /\ \A y \in Ids \ {x} : op'[y] = op[y]
         /\ attached' = attached \cup {x}
         /\ UNCHANGED <<phase, rooms, peers, callRouter, routers, open, rejoined>>
<1>. PICK o : o = [room |-> r, user |-> u, call |-> rooms[r], kind |-> k, via |-> t, of |-> p]
  OBVIOUS
<1>1. /\ op[x] = NoOp /\ u \in peers[r] /\ op' = [op EXCEPT ![x] = o]
      /\ attached' = attached \cup {x}
      /\ UNCHANGED <<phase, rooms, peers, callRouter, routers, open, rejoined>>
  BY DEF Begin
<1>2. ~Requested(x)
  BY <1>1 DEF Requested
<1>3. op'[x] = o /\ \A y \in Ids \ {x} : op'[y] = op[y]
  BY <1>1 DEF SfuInv, SfuTypeOK
<1>4. x \notin stored \cup indexed \cup routing \cup pending \cup live \cup open
  BY <1>2, InUse
<1>5. rooms[r] \in Calls /\ rooms[r] # NoCall
  BY <1>1 DEF SfuInv, SfuTypeOK, CapturedIsCurrent
<1>6. o \in MediaRequest /\ o # NoOp
  BY <1>5, RequestAssumption DEF MediaRequest
<1>7. /\ o.room = r /\ o.user = u /\ o.call = rooms[r] /\ o.kind = k /\ o.via = t /\ o.of = p
  OBVIOUS
<1>. QED
  BY <1>1, <1>2, <1>3, <1>4, <1>5, <1>6, <1>7 DEF Requested

(* A transport is either on its room's router or waits for it, alone or    *)
(* overlapping.                                                            *)
LEMMA TransportCalls ==
  ASSUME SfuInv, CallsInv, NEW r \in Rooms, NEW u \in Users, NEW t \in Transports,
         NEW dir \in {"send", "recv"}, CreateTransport(t, r, u, dir)
  PROVE  CallsInv'
<1>. PICK c : c = rooms[r]
  OBVIOUS
<1>0. t \in Ids /\ Begin(t, r, u, dir, NoId, NoId)
  BY DEF CreateTransport, Ids
<1>1. /\ t \notin stored \cup indexed \cup routing \cup pending \cup live \cup open
      /\ ~Requested(t) /\ Requested(t)' /\ c \in Calls /\ c # NoCall
      /\ op'[t].room = r /\ op'[t].user = u /\ op'[t].call = c
      /\ \A y \in Ids \ {t} : op'[y] = op[y]
      /\ attached' = attached \cup {t}
      /\ UNCHANGED <<rooms, callRouter, routers, open, rejoined>>
  BY <1>0, MediaBegun
<1>2. \/ /\ stored' = stored \cup {t} /\ indexed' = indexed \cup {t}
         /\ UNCHANGED <<routing, pending, live, routerOf, overlapped>>
      \/ /\ callRouter[c] = NoRouter
         /\ routing' = routing \cup {t} /\ live' = live \cup {t}
         /\ overlapped' = overlapped \cup {k \in {c} : \E o \in routing : op[o].call = k}
         /\ UNCHANGED <<pending, stored, indexed, routerOf>>
      \/ /\ callRouter[c] # NoRouter
         /\ pending' = pending \cup {t} /\ live' = live \cup {t}
         /\ routerOf' = [routerOf EXCEPT ![t] = callRouter[c]]
         /\ UNCHANGED <<routing, stored, indexed, overlapped>>
  BY DEF CreateTransport, WithoutMedia, AwaitMedia, RouterMissing
<1>3. /\ overlapped \subseteq overlapped'
      /\ t \in routing' => callRouter[c] = NoRouter /\ (c \in overlapped' \/ \A o \in routing : op[o].call # c)
      /\ t \in pending' => routerOf'[t] = callRouter[c] /\ routerOf'[t] # NoRouter
      /\ t \notin pending' => routerOf'[t] = routerOf[t]
      /\ \A s \in Transports \ {t} : routerOf'[s] = routerOf[s]
      /\ indexed' \subseteq indexed \cup {t} /\ stored' \subseteq stored \cup {t} /\ live' \subseteq live \cup {t}
      /\ routing' \subseteq routing \cup {t} /\ pending' \subseteq pending \cup {t}
      /\ ~(t \in routing' /\ t \in pending') /\ ~(t \in indexed' /\ t \in routing' \cup pending')
      /\ routing \subseteq routing'
  BY <1>1, <1>2 DEF SfuInv, SfuTypeOK
<1>. HIDE <1>2
<1>4. CallsApart' /\ RoomRouterOpen'
  BY <1>1 DEF CallsInv, CallsApart, RoomRouterOpen
<1>5. WaitsApart' /\ LiveAsked'
  BY <1>1, <1>3, InUse DEF CallsInv, WaitsApart, LiveAsked, Requested
<1>6. IndexedCurrent'
  BY <1>1, <1>3, InUse DEF CallsInv, IndexedCurrent
<1>7. RoutingHome'
  BY <1>1, <1>3, InUse DEF CallsInv, RoutingHome, CallsApart
<1>8. RouterOwned'
  <2>1. ASSUME NEW s \in Rooms, rooms[s] # NoCall, routerOf'[t] # NoRouter, routerOf'[t] = callRouter[rooms[s]],
               t \in pending'
        PROVE  s = r
    BY <1>1, <1>3, <2>1 DEF CallsInv, CallsApart
  <2>2. ASSUME NEW s \in Rooms, rooms[s] # NoCall, routerOf'[t] # NoRouter, routerOf'[t] = callRouter[rooms[s]],
               t \notin pending'
        PROVE  s = r
    BY <1>1, <1>3, <2>2 DEF CallsInv, RouterOwned
  <2>. QED
    BY <1>1, <1>3, <2>1, <2>2 DEF CallsInv, RouterOwned, Requested, Ids
<1>9. RoutingAlone'
  BY <1>1, <1>3, InUse DEF CallsInv, RoutingAlone
<1>10. RoutedOK'
  BY <1>1, <1>3, InUse DEF CallsInv, RoutedOK, Carried
<1>11. ViaOK'
  BY <1>1 DEF CallsInv, ViaOK, Requested, Ids
<1>12. ASSUME NEW y \in (pending \cup indexed) \ Transports
       PROVE  y \in Ids /\ op'[y] = op[y] /\ op'[op[y].via] = op[op[y].via]
  <2>1. y \in Ids /\ Requested(y)
    BY InUse
  <2>. QED
    BY <1>1, <2>1 DEF CallsInv, ViaOK, Ids
<1>13. PendingRides'
  BY <1>1, <1>3, <1>12 DEF CallsInv, PendingRides
<1>14. OnlyRejoinLeavesClosed'
  BY <1>1, <1>3, <1>12 DEF CallsInv, OnlyRejoinLeavesClosed
<1>. QED
  BY <1>4, <1>5, <1>6, <1>7, <1>8, <1>9, <1>10, <1>11, <1>13, <1>14 DEF CallsInv

(* What is asked of a transport rides on it: it waits for mediasoup with   *)
(* the transport open, or is served without media.                         *)
LEMMA RiderCalls ==
  ASSUME SfuInv, CallsInv, NEW r \in Rooms, NEW u \in Users, NEW t \in Transports,
         NEW x \in Ids \ Transports, NEW k \in {"producer", "consumer"}, NEW p \in Producers \cup {NoId},
         Begin(x, r, u, k, t, p), t \in stored, op[t].user = u,
         (t \in open /\ AwaitMedia(x)) \/ WithoutMedia(x),
         UNCHANGED <<routerOf, overlapped>>
  PROVE  CallsInv'
<1>1. /\ x \notin stored \cup indexed \cup routing \cup pending \cup live \cup open
      /\ ~Requested(x) /\ Requested(x)' /\ rooms[r] \in Calls /\ rooms[r] # NoCall
      /\ op'[x].room = r /\ op'[x].user = u /\ op'[x].call = rooms[r] /\ op'[x].via = t
      /\ \A y \in Ids \ {x} : op'[y] = op[y]
      /\ attached' = attached \cup {x}
      /\ UNCHANGED <<rooms, callRouter, routers, open, rejoined>>
  BY MediaBegun
<1>2. \/ /\ stored' = stored \cup {x} /\ indexed' = indexed \cup {x}
         /\ UNCHANGED <<routing, pending, live>>
      \/ /\ t \in open /\ pending' = pending \cup {x} /\ live' = live \cup {x}
         /\ UNCHANGED <<routing, stored, indexed>>
  BY DEF WithoutMedia, AwaitMedia
<1>3. t \in Ids /\ Requested(t) /\ t # x
  BY <1>1, InUse
<1>4. CallsApart' /\ RoomRouterOpen'
  BY <1>1 DEF CallsInv, CallsApart, RoomRouterOpen
<1>5. WaitsApart' /\ LiveAsked'
  BY <1>1, <1>2, InUse DEF CallsInv, WaitsApart, LiveAsked, Requested
<1>6. IndexedCurrent'
  BY <1>1, <1>2, InUse DEF CallsInv, IndexedCurrent
<1>7. RoutingHome' /\ RoutingAlone'
  BY <1>1, <1>2, InUse DEF CallsInv, RoutingHome, RoutingAlone
<1>8. RouterOwned'
  BY <1>1 DEF CallsInv, RouterOwned, Requested, Ids
<1>9. RoutedOK'
  BY <1>1, <1>2 DEF CallsInv, RoutedOK, Carried, Ids
<1>10. ViaOK'
  BY <1>1, <1>3 DEF CallsInv, ViaOK, Requested, Ids
<1>11. ASSUME NEW y \in (pending \cup indexed) \ Transports
       PROVE  y \in Ids /\ y # x /\ op'[y] = op[y] /\ op'[op[y].via] = op[op[y].via]
  <2>1. y \in Ids /\ Requested(y)
    BY InUse
  <2>. QED
    BY <1>1, <2>1 DEF CallsInv, ViaOK, Ids
<1>12. PendingRides'
  BY <1>1, <1>2, <1>11 DEF CallsInv, PendingRides
<1>13. OnlyRejoinLeavesClosed'
  BY <1>1, <1>2, <1>11 DEF CallsInv, OnlyRejoinLeavesClosed
<1>. QED
  BY <1>4, <1>5, <1>6, <1>7, <1>8, <1>9, <1>10, <1>12, <1>13 DEF CallsInv

(* Who leaves takes his rooms' routers along when he is the last, and what *)
(* waits for him is attached no more.                                      *)
LEMMA LeaveCalls ==
  ASSUME SfuInv, CallsInv, NEW u \in Users, NEW rs \in SUBSET Rooms, \A r \in rs : u \in peers[r],
         LeaveRooms(rs, u)
  PROVE  CallsInv'
<1>. DEFINE mine == UNION {IndexOf(r, u) : r \in rs}
            closing == {callRouter[rooms[r]] : r \in Emptied(rs, u)} \ {NoRouter}
            closedT == (mine \cap Transports) \cup {t \in open \cap Transports : routerOf[t] \in closing}
            gone == mine \cup RidingOn(closedT)
<1>1. /\ \A r \in Rooms : rooms'[r] = IF r \in Emptied(rs, u) THEN NoCall ELSE rooms[r]
      /\ routers' = routers \ closing
      /\ stored' = stored \ gone /\ indexed' = indexed \ gone /\ open' = open \ (gone \cup closedT)
      /\ attached' = attached \ Detached(rs, u)
      /\ rejoined' = rejoined \ (rs \X {u})
      /\ UNCHANGED <<callRouter, op, routing, pending, live, routerOf, overlapped>>
  BY DEF LeaveRooms
<1>2. /\ \A x \in Ids \ Transports : x \in open => x \in open' \/ x \notin stored'
      /\ \A x : x \in mine => Of(x, op[x].room, u) /\ op[x].room \in rs
  BY <1>1 DEF IndexOf, Of
<1>3. \A x \in indexed' : Of(x, op[x].room, u) => op[x].room \notin rs
  BY <1>1 DEF IndexOf
<1>4. \A x \in indexed \cup (pending \cap attached) :
        /\ x \in Ids /\ Requested(x) /\ Joined(x) /\ op[x].room \in Rooms
        /\ op[x].call = rooms[op[x].room]
  BY InUse, AskedRecord DEF SfuInv, OnlyRaceLeaks, CapturedIsCurrent, CallsInv, IndexedCurrent
<1>5. \A x \in pending' \cap attached' : ~(op[x].room \in rs /\ op[x].user = u)
  BY <1>1, <1>4 DEF Detached, Of
<1>6. \A x \in indexed' \cup (pending' \cap attached') : op[x].room \notin Emptied(rs, u)
  BY <1>1, <1>3, <1>4, <1>5 DEF Emptied, Joined, Of
<1>. HIDE DEF gone, closedT
<1>7. CallsApart'
  BY <1>1 DEF CallsInv, CallsApart
<1>8. RoomRouterOpen'
  <2>1. ASSUME NEW r \in Rooms, rooms[r] # NoCall, r \notin Emptied(rs, u), callRouter[rooms[r]] # NoRouter,
               NEW s \in Emptied(rs, u)
        PROVE  callRouter[rooms[s]] # callRouter[rooms[r]]
    <3>1. s \in Rooms /\ s # r /\ rooms[s] # NoCall
      BY <2>1 DEF Emptied, SfuInv, CapturedIsCurrent
    <3>. QED
      BY <2>1, <3>1 DEF CallsInv, CallsApart
  <2>2. ASSUME NEW r \in Rooms, rooms[r] # NoCall, r \notin Emptied(rs, u), callRouter[rooms[r]] # NoRouter
        PROVE  callRouter[rooms[r]] \notin closing
    BY <2>1, <2>2
  <2>. HIDE DEF closing
  <2>. QED
    BY <1>1, <2>2 DEF CallsInv, RoomRouterOpen
<1>9. WaitsApart' /\ LiveAsked' /\ ViaOK'
  BY <1>1 DEF CallsInv, WaitsApart, LiveAsked, ViaOK, Requested
<1>10. IndexedCurrent'
  BY <1>1, <1>4, <1>6 DEF CallsInv, IndexedCurrent
<1>11. RoutingHome'
  <2>1. \A t \in routing : op[t].call # NoCall
    BY InUse, AskedRecord, NullAssumption
  <2>. QED
    BY <1>1, <2>1 DEF CallsInv, RoutingHome
<1>12. RouterOwned' /\ RoutingAlone'
  BY <1>1 DEF CallsInv, RouterOwned, RoutingAlone, Requested
<1>13. RoutedOK'
  BY <1>1 DEF CallsInv, RoutedOK, Carried
<1>14. PendingRides'
  <2>1. ASSUME NEW x \in (pending' \cap attached') \ Transports, op[op[x].via].room = op[x].room,
               op[x].via \in open
        PROVE  op[x].via \in open'
    <3>1. x \in Ids /\ Requested(x) /\ x \in pending \cap attached
      BY <1>1, <1>4, <2>1
    <3>2. op[x].via \in Transports /\ op[op[x].via].user = op[x].user
      BY <2>1, <3>1 DEF CallsInv, ViaOK
    <3>3. op[x].via \notin mine
      BY <1>2, <1>5, <2>1, <3>2 DEF Of
    <3>4. routerOf[op[x].via] \notin closing
      <4>1. ASSUME NEW r \in Emptied(rs, u), routerOf[op[x].via] = callRouter[rooms[r]],
                   routerOf[op[x].via] # NoRouter
            PROVE  FALSE
        <5>1. r \in Rooms /\ rooms[r] # NoCall
          BY DEF Emptied, SfuInv, CapturedIsCurrent
        <5>2. op[op[x].via].room = r
          BY <3>2, <4>1, <5>1 DEF CallsInv, RouterOwned
        <5>. QED
          BY <1>6, <2>1, <5>2
      <4>. QED
        BY <4>1
    <3>5. op[x].via \notin RidingOn(closedT)
      BY <3>2 DEF RidingOn
    <3>. QED
      BY <1>1, <2>1, <3>2, <3>3, <3>4, <3>5 DEF gone, closedT
  <2>. QED
    BY <1>1, <1>5, <2>1 DEF CallsInv, PendingRides
<1>15. OnlyRejoinLeavesClosed'
  <2>1. \A x \in indexed' : ~(op[x].room \in rs /\ op[x].user = u)
    BY <1>1, <1>3, <1>4 DEF Of
  <2>2. \A x \in indexed' : x \in Ids
    BY <1>1, <1>4
  <2>. QED
    BY <1>1, <1>2, <2>1, <2>2 DEF CallsInv, OnlyRejoinLeavesClosed
<1>. QED
  BY <1>7, <1>8, <1>9, <1>10, <1>11, <1>12, <1>13, <1>14, <1>15 DEF CallsInv

LEMMA InitCalls == SfuInit => CallsInv
<1>. SUFFICES ASSUME SfuInit PROVE CallsInv
  OBVIOUS
<1>1. CallsApart /\ RoomRouterOpen /\ WaitsApart /\ LiveAsked /\ IndexedCurrent
  BY DEF SfuInit, CallsApart, RoomRouterOpen, WaitsApart, LiveAsked, IndexedCurrent
<1>2. RoutingHome /\ RouterOwned /\ RoutingAlone /\ RoutedOK
  BY DEF SfuInit, RoutingHome, RouterOwned, RoutingAlone, RoutedOK, Carried
<1>3. ViaOK /\ PendingRides /\ OnlyRejoinLeavesClosed
  BY DEF SfuInit, ViaOK, PendingRides, OnlyRejoinLeavesClosed, Requested
<1>. QED
  BY <1>1, <1>2, <1>3 DEF CallsInv

(* Every step of the rooms preserves what is known of the calls.           *)
LEMMA NextCalls == SfuInv /\ CallsInv /\ [SfuNext]_sfuVars => CallsInv'
<1>. SUFFICES ASSUME SfuInv, CallsInv, [SfuNext]_sfuVars PROVE CallsInv'
  OBVIOUS
<1>1. ASSUME NEW r \in Rooms, NEW u \in Users, Join(r, u) \/ RefusedNotJoined(r, u) PROVE CallsInv'
  BY <1>1, EnsuredCalls DEF Join, RefusedNotJoined
<1>2. ASSUME NEW r \in Rooms, NEW u \in Users,
             \/ Rejoin(r, u)
             \/ \E t \in Transports, dir \in {"send", "recv"} : CreateTransport(t, r, u, dir)
      PROVE  CallsInv'
  BY <1>2, RejoinCalls, TransportCalls
<1>3. ASSUME NEW r \in Rooms, NEW u \in Users, LeaveCall(r, u) PROVE CallsInv'
  BY <1>3, LeaveCalls DEF LeaveCall
<1>4. ASSUME NEW u \in Users, Disconnect(u) PROVE CallsInv'
  BY <1>4, LeaveCalls DEF Disconnect
<1>5. ASSUME NEW r \in Rooms, NEW u \in Users, ForceMute(r, u) PROVE CallsInv'
  BY <1>5, CloseCalls DEF ForceMute
<1>6. ASSUME NEW r \in Rooms, NEW u \in Users, NEW p \in Producers, CloseProducer(r, u, p) PROVE CallsInv'
  BY <1>6, CloseCalls DEF CloseProducer
<1>7. ASSUME NEW r \in Rooms, NEW u \in Users, NEW t \in Transports, NEW p \in Producers, Produce(p, t, r, u)
      PROVE  CallsInv'
  BY <1>7, RiderCalls, IdAssumption DEF Produce, Ids
<1>8. ASSUME NEW r \in Rooms, NEW u \in Users, NEW t \in Transports, NEW p \in Producers, NEW x \in Consumers,
             Consume(x, t, p, r, u)
      PROVE  CallsInv'
  BY <1>8, RiderCalls, IdAssumption DEF Consume, CanConsume, Ids
<1>9. CASE \E t \in Transports, q \in Routers : RouterCreated(t, q)
  BY <1>9, RouterCalls
<1>10. CASE \E x \in Ids : Created(x) \/ MediaRejected(x)
  BY <1>10, CreatedCalls, RejectedCalls
<1>11. CASE \E x \in Consumers : ProducerClosed(x)
  BY <1>11, NoticeCalls
<1>12. CASE WorkerStep \/ WorkerDied \/ UNCHANGED sfuVars
  BY <1>12, QuietCalls, WorkerDiedCalls
<1>. QED
  BY <1>1, <1>2, <1>3, <1>4, <1>5, <1>6, <1>7, <1>8, <1>9, <1>10, <1>11, <1>12 DEF SfuNext

(* ensureRoomRouter, _cleanupPeerResources and the death of the worker:    *)
(* the router a room has is open, everybody in a call whose router         *)
(* creations did not overlap is on it, and what a peer owns is open unless *)
(* it joined again without leaving.                                        *)
THEOREM CallsStaySound == SafetySpec => []CallsSound
<1>1. SfuInv /\ CallsInv => CallsSound
  <2>. SUFFICES ASSUME SfuInv, CallsInv PROVE CallsSound
    OBVIOUS
  <2>1. ASSUME NEW s \in indexed \cap open \cap Transports, NEW t \in indexed \cap open \cap Transports,
               op[s].room = op[t].room
        PROVE  routerOf[s] = routerOf[t] \/ rooms[op[s].room] \in overlapped
    BY <2>1 DEF CallsInv, RoutedOK, Carried, IndexedCurrent
  <2>. QED
    BY <2>1 DEF CallsSound, OneRouterPerCall, CallsInv
<1>2. SfuInit => CallsInv
  BY InitCalls
<1>3. SfuInv /\ CallsInv /\ [SfuNext]_sfuVars => CallsInv'
  BY NextCalls
<1>. QED
  BY <1>1, <1>2, <1>3, Invariance, PTL DEF SafetySpec

-----------------------------------------------------------------------------
(***************************************************************************)
(* Presence.                                                               *)
(***************************************************************************)
(* Type correctness, by itself: no action depends on more than the types.  *)
THEOREM PresenceTyped == PresenceSpec => []PresenceTypeOK
<1> USE UserOfAssumption, StatusesAssumption, NoSocketAssumption
<1>1. PresenceInit => PresenceTypeOK
  BY DEF PresenceInit, PresenceTypeOK
<1>2. PresenceTypeOK /\ [PresenceNext]_presenceVars => PresenceTypeOK'
  <2> SUFFICES ASSUME PresenceTypeOK, [PresenceNext]_presenceVars PROVE PresenceTypeOK'
    OBVIOUS
  <2>1. ASSUME NEW s \in Sockets, Connect(s) PROVE PresenceTypeOK'
    BY <2>1 DEF Connect, PresenceTypeOK
  <2>2. ASSUME NEW s \in Sockets, Register(s) PROVE PresenceTypeOK'
    BY <2>2 DEF Register, PresenceTypeOK
  <2>3. ASSUME NEW s \in Sockets, Subscribed(s) PROVE PresenceTypeOK'
    BY <2>3 DEF Subscribed, PresenceTypeOK
  <2>4. ASSUME NEW s \in Sockets, Close(s) PROVE PresenceTypeOK'
    BY <2>4 DEF Close, HandleDisconnect, Left, Offline, PresenceTypeOK
  <2>5. ASSUME NEW s \in Sockets, Refuse(s) PROVE PresenceTypeOK'
    BY <2>5 DEF Refuse, HandleDisconnect, Left, Offline, PresenceTypeOK
  <2>6. ASSUME NEW s \in Sockets, NEW p \in Venues, NEW act \in {"enter", "leave"},
               Receive(s, p, act)
        PROVE  PresenceTypeOK'
    BY <2>6 DEF Receive, Handlers, PresenceTypeOK
  <2>7. ASSUME NEW r \in asked, Enter(r) \/ Leave(r) \/ Rejected(r) PROVE PresenceTypeOK'
    BY <2>7 DEF Enter, Leave, Rejected, Entrant, Handlers, PresenceTypeOK
  <2>8. ASSUME NEW c \in CallRooms, NEW u \in People, Kick(c, u) PROVE PresenceTypeOK'
    BY <2>8 DEF Kick, Venues, PresenceTypeOK
  <2>9. ASSUME NEW u \in People, NEW status \in Statuses, SetUserPresence(u, status)
        PROVE  PresenceTypeOK'
    BY <2>9 DEF SetUserPresence, PresenceTypeOK
  <2>10. CASE UNCHANGED presenceVars
    BY <2>10 DEF presenceVars, PresenceTypeOK
  <2> QED
    BY <2>1, <2>2, <2>3, <2>4, <2>5, <2>6, <2>7, <2>8, <2>9, <2>10
    DEF PresenceNext, ThreadOpen, ThreadClose, WebrtcJoin, WebrtcLeave, SfuJoin, SfuLeave
<1> QED
  BY <1>1, <1>2, PTL DEF PresenceSpec
-----------------------------------------------------------------------------
(***************************************************************************)
(* GhostsOnlyByRace is not inductive: when a socket that was never         *)
(* registered closes, it must not be the one its user is online by, and    *)
(* that one must be open.  RoutesAgree gives the first, OnlineByOpen the   *)
(* second.                                                                 *)
(***************************************************************************)
\* The socket a user is online by is open, but for the race.
OnlineByOpen ==
  \A u \in People : Online(u) => socket[onlineUsers[u]] = "open" \/ u \in late

\* So is a socket of whoever is inside a place.
InsideByOpen ==
  \A u \in People : (\E p \in Venues : u \in inside[p]) => OpenSocket(u) \/ u \in late

PresenceInv == PresenceTypeOK /\ RoutesAgree /\ OnlineByOpen /\ InsideByOpen

(* A disconnect, whatever its socket, keeps the invariant: it is the step  *)
(* of Close and of Refuse.                                                 *)
LEMMA DisconnectKeeps ==
  ASSUME PresenceInv, NEW s \in Sockets, socket[s] = "open",
         socket' = [socket EXCEPT ![s] = "closed"], HandleDisconnect(s)
  PROVE  RoutesAgree' /\ OnlineByOpen' /\ InsideByOpen'
<1> USE UserOfAssumption, NoSocketAssumption
<1>1. CASE s \notin socketUsers
  <2>1. \A u \in People : Online(u) => onlineUsers[u] # s
    BY <1>1 DEF PresenceInv, RoutesAgree
  <2>2. RoutesAgree'
    BY <1>1 DEF HandleDisconnect, PresenceInv, RoutesAgree, Online
  <2>3. OnlineByOpen'
    BY <1>1, <2>1 DEF HandleDisconnect, PresenceInv, PresenceTypeOK, OnlineByOpen, Online
  <2>4. InsideByOpen'
    BY <1>1 DEF HandleDisconnect, PresenceInv, PresenceTypeOK, InsideByOpen, OpenSocket
  <2> QED BY <2>2, <2>3, <2>4
<1>2. CASE s \in socketUsers
  <2>1. \A u \in People \ {UserOf[s]} :
          /\ onlineUsers'[u] = onlineUsers[u]
          /\ \A t \in Sockets : UserOf[t] = u => t # s /\ socket'[t] = socket[t]
          /\ u \in late' <=> u \in late
    BY <1>2 DEF HandleDisconnect, Offline, PresenceInv, PresenceTypeOK
  <2>2. \A u \in People, p \in Venues :
          u \in inside'[p] => u \in inside[p] /\ u # UserOf[s]
    BY <1>2 DEF HandleDisconnect, Left
  <2>3. onlineUsers'[UserOf[s]] = NoSocket
    BY <1>2 DEF HandleDisconnect, Offline, PresenceInv, PresenceTypeOK
  <2>4. socketUsers' = socketUsers \ {s}
    BY <1>2 DEF HandleDisconnect
  <2>5. RoutesAgree'
    BY <2>1, <2>3, <2>4 DEF PresenceInv, RoutesAgree, Online
  <2>6. OnlineByOpen'
    BY <2>1, <2>3 DEF PresenceInv, PresenceTypeOK, OnlineByOpen, RoutesAgree, Online
  <2>7. InsideByOpen'
    BY <2>1, <2>2 DEF PresenceInv, InsideByOpen, OpenSocket
  <2> QED BY <2>5, <2>6, <2>7
<1> QED BY <1>1, <1>2

(* Every step keeps what the invariant says beyond the types.              *)
LEMMA PresenceKeeps ==
  ASSUME PresenceInv, [PresenceNext]_presenceVars
  PROVE  RoutesAgree' /\ OnlineByOpen' /\ InsideByOpen'
<1> USE UserOfAssumption, NoSocketAssumption
<1> DEFINE Goal == RoutesAgree' /\ OnlineByOpen' /\ InsideByOpen'
<1>1. ASSUME NEW s \in Sockets, Connect(s) PROVE Goal
  <2>1. \A t \in Sockets : socket[t] = "open" => socket'[t] = "open"
    BY <1>1 DEF Connect, PresenceInv, PresenceTypeOK
  <2> QED
    BY <1>1, <2>1 DEF Connect, PresenceInv, PresenceTypeOK, RoutesAgree, OnlineByOpen, InsideByOpen, OpenSocket, Online
<1>2. ASSUME NEW s \in Sockets, Register(s) PROVE Goal
  <2>1. socket[s] = "open" \/ UserOf[s] \in late'
    BY <1>2 DEF Register, PresenceInv, PresenceTypeOK, OnlineByOpen
  <2>2. late \subseteq late'
    BY <1>2 DEF Register
  <2>3. RoutesAgree'
    BY <1>2 DEF Register, PresenceInv, PresenceTypeOK, RoutesAgree, Online
  <2>4. OnlineByOpen'
    BY <1>2, <2>1, <2>2 DEF Register, PresenceInv, PresenceTypeOK, OnlineByOpen, Online
  <2>5. InsideByOpen'
    BY <1>2, <2>2 DEF Register, PresenceInv, InsideByOpen, OpenSocket
  <2> QED BY <2>3, <2>4, <2>5
<1>3. ASSUME NEW s \in Sockets, Subscribed(s) PROVE Goal
  BY <1>3 DEF Subscribed, PresenceInv, RoutesAgree, OnlineByOpen, InsideByOpen, OpenSocket, Online
<1>4. ASSUME NEW s \in Sockets, Close(s) PROVE Goal
  BY <1>4, DisconnectKeeps DEF Close
<1>5. ASSUME NEW s \in Sockets, Refuse(s) PROVE Goal
  <2>1. CASE socket[s] = "open"
    BY <1>5, <2>1, DisconnectKeeps DEF Refuse
  <2>2. CASE socket[s] # "open"
    BY <1>5, <2>2 DEF Refuse, PresenceInv, RoutesAgree, OnlineByOpen, InsideByOpen, OpenSocket, Online
  <2> QED BY <2>1, <2>2
<1>6. ASSUME NEW s \in Sockets, NEW p \in Venues, NEW act \in {"enter", "leave"},
             Receive(s, p, act)
      PROVE  Goal
  BY <1>6 DEF Receive, PresenceInv, RoutesAgree, OnlineByOpen, InsideByOpen, OpenSocket, Online
<1>7. ASSUME NEW r \in asked, Enter(r) PROVE Goal
  <2>1. r.socket \in Sockets
    BY DEF PresenceInv, PresenceTypeOK, Handlers
  <2>2. socket[r.socket] = "open" \/ UserOf[r.socket] \in late'
    BY <1>7 DEF Enter, PresenceInv, PresenceTypeOK, Handlers
  <2>3. late \subseteq late'
    BY <1>7 DEF Enter
  <2>4. \A u \in People : u # UserOf[r.socket] =>
          \A p \in Venues : u \in inside'[p] => u \in inside[p]
    BY <1>7, <2>1 DEF Enter, Entrant, PresenceInv, PresenceTypeOK
  <2>5. InsideByOpen'
    BY <1>7, <2>1, <2>2, <2>3, <2>4 DEF Enter, PresenceInv, InsideByOpen, OpenSocket
  <2> QED
    BY <1>7, <2>3, <2>5 DEF Enter, PresenceInv, RoutesAgree, OnlineByOpen, Online
<1>8. ASSUME NEW r \in asked, Leave(r) PROVE Goal
  <2>1. \A u \in People, p \in Venues : u \in inside'[p] => u \in inside[p]
    BY <1>8 DEF Leave, PresenceInv, PresenceTypeOK
  <2> QED
    BY <1>8, <2>1 DEF Leave, PresenceInv, RoutesAgree, OnlineByOpen, InsideByOpen, OpenSocket, Online
<1>9. ASSUME NEW r \in asked, Rejected(r) PROVE Goal
  BY <1>9 DEF Rejected, PresenceInv, RoutesAgree, OnlineByOpen, InsideByOpen, OpenSocket, Online
<1>10. ASSUME NEW c \in CallRooms, NEW v \in People, Kick(c, v) PROVE Goal
  <2>1. \A u \in People, p \in Venues : u \in inside'[p] => u \in inside[p]
    BY <1>10 DEF Kick, PresenceInv, PresenceTypeOK
  <2> QED
    BY <1>10, <2>1 DEF Kick, PresenceInv, RoutesAgree, OnlineByOpen, InsideByOpen, OpenSocket, Online
<1>11. ASSUME NEW v \in People, NEW status \in Statuses, SetUserPresence(v, status) PROVE Goal
  BY <1>11 DEF SetUserPresence, PresenceInv, RoutesAgree, OnlineByOpen, InsideByOpen, OpenSocket, Online
<1>12. CASE UNCHANGED presenceVars
  BY <1>12 DEF presenceVars, PresenceInv, RoutesAgree, OnlineByOpen, InsideByOpen, OpenSocket, Online
<1> QED
  BY <1>1, <1>2, <1>3, <1>4, <1>5, <1>6, <1>7, <1>8, <1>9, <1>10, <1>11, <1>12
  DEF PresenceNext, ThreadOpen, ThreadClose, WebrtcJoin, WebrtcLeave, SfuJoin, SfuLeave

(* The strengthened invariant holds in every reachable state.              *)
THEOREM PresenceInvariance == PresenceSpec => []PresenceInv
<1>1. PresenceInit => RoutesAgree /\ OnlineByOpen /\ InsideByOpen
  BY DEF PresenceInit, RoutesAgree, OnlineByOpen, InsideByOpen, Online
<1>2. PresenceInv /\ [PresenceNext]_presenceVars => RoutesAgree' /\ OnlineByOpen' /\ InsideByOpen'
  BY PresenceKeeps
<1> QED
  BY <1>1, <1>2, PresenceTyped, PTL DEF PresenceSpec, PresenceInv

(* onlineUsers and socketUsers never disagree, whatever the order in which *)
(* a user's sockets connect, are registered and close.                     *)
THEOREM RoutesSound == PresenceSpec => []RoutesAgree
<1>1. PresenceInv => RoutesAgree
  BY DEF PresenceInv
<1> QED
  BY <1>1, PresenceInvariance, PTL

(* Whoever is listed or inside without an open socket is there because     *)
(* something took effect after a close or before a registration.           *)
THEOREM GhostsExplained == PresenceSpec => []GhostsOnlyByRace
<1>1. PresenceInv => GhostsOnlyByRace
  <2> SUFFICES ASSUME PresenceInv, NEW u \in People, Online(u) PROVE OpenSocket(u) \/ u \in late
    BY DEF PresenceInv, InsideByOpen, GhostsOnlyByRace
  <2> QED
    BY NoSocketAssumption DEF PresenceInv, PresenceTypeOK, RoutesAgree, OnlineByOpen, OpenSocket, Online
<1> QED
  BY <1>1, PresenceInvariance, PTL

-----------------------------------------------------------------------------
(***************************************************************************)
(* ChatMarks: the inductive invariant.                                     *)
(***************************************************************************)
ReadOf(p, u) == <<"read", p, u>>

Things ==
  {ReadOf(p, u) : p \in Places, u \in Everybody} \cup Marks
    \cup {<<"room", g>> : g \in Groups} \cup {<<"channel", g>> : g \in Asked}

Steps ==
  {"findRead", "saveRead", "findMark", "addMark", "dropMark", "tell", "findRoom", "newRoom", "newChannel", "list"}

RequestRecord ==
  [op : {"read", "toggle", "pin", "unpin", "room", "channel"}, pc : Steps, by : Everybody, about : Things,
   row : Nat \cup Channels, stamp : Nat, since : Nat]

\* What is known of a request from the step it is at.
RequestOK(q) ==
  /\ q.since <= q.stamp /\ q.stamp <= clock
  /\ q.pc = "findRead" => q.row = 0 /\ \E p \in Places : q.about = ReadOf(p, q.by)
  /\ q.pc = "saveRead" =>
       \E p \in Places : q.about = ReadOf(p, q.by) /\ q.row \in 0..Len(reads[p][q.by])
  /\ q.pc \in {"findMark", "addMark", "dropMark", "tell"} => q.about \in Marks
  /\ q.pc = "dropMark" => q.row \in Nat \ {0}
  /\ q.pc \in {"findRoom", "newRoom"} => \E g \in Groups : q.about = <<"room", g>>
  /\ q.pc \in {"newChannel", "list"} => q.by \in Members /\ \E g \in Asked : q.about = <<"channel", g>>
  /\ q.pc = "list" => q.row \in Channels /\ channel[q.row] # None

RequestsOK ==
  /\ request \in [Requests -> {Idle} \cup RequestRecord]
  /\ \A r \in Requests : request[r] # Idle => RequestOK(request[r])

\* Two requests about the same thing have crossed on it.
CrossedOK ==
  \A r, s \in Requests :
    r # s /\ request[r] # Idle /\ request[s] # Idle /\ request[r].about = request[s].about =>
      request[r].about \in crossed

\* What a request has found is still so, but for crossed ones.
Fresh(q) ==
  q.about \notin crossed =>
    /\ q.pc = "saveRead" => q.row = Len(reads[q.about[2]][q.by])
    /\ q.pc = "dropMark" => mark[q.about] = q.row
    /\ q.pc = "tell" => (q.row = 1 <=> mark[q.about] # 0)
    /\ q.pc = "newRoom" => \A d \in DmRooms : room[d] # q.about[2]

AllFresh == \A r \in Requests : request[r] # Idle => Fresh(request[r])

\* The one row of a user for a place is of the time between the question and the answer.
ReadOK(p, u) ==
  /\ Len(reads[p][u]) = 0 => askedAt[p][u] = 0 /\ doneAt[p][u] = 0
  /\ Len(reads[p][u]) <= 1
  /\ Len(reads[p][u]) = 1 => askedAt[p][u] <= reads[p][u][1] /\ reads[p][u][1] <= doneAt[p][u]

ReadsOK == \A p \in Places, u \in Everybody : ReadOf(p, u) \notin crossed => ReadOK(p, u)

TimesOK ==
  /\ reads \in [Places -> [Everybody -> Seq(0..MaxPosts)]]
  /\ askedAt \in [Places -> [Everybody -> Nat]]
  /\ doneAt \in [Places -> [Everybody -> Nat]]

\* Between a change of a reaction and its news there is a request that will tell it.
Telling(k) == \E r \in Requests : request[r] # Idle /\ request[r].pc = "tell" /\ request[r].about = k

MarkOK(k) == k \in crossed \/ Telling(k) \/ (told[k] <=> mark[k] # 0)

MarksOK == \A k \in Marks : MarkOK(k)

\* Nobody is listed who was not asked for, and callers are in channels that are there.
ChannelsOK ==
  /\ \A c \in Channels : channel[c] # None => channel[c].listed \subseteq channel[c].asked
  /\ \A x \in callers : channel[x[2]] # None

MarksInv ==
  /\ TypeOK /\ serial \in Nat /\ TimesOK
  /\ RequestsOK /\ CrossedOK /\ AllFresh
  /\ ReadsOK /\ MarksOK
  /\ OneRoomPerGroup
  /\ ChannelsOK /\ CallersAsked

-----------------------------------------------------------------------------
(***************************************************************************)
(* Requests.                                                               *)
(***************************************************************************)
LEMMA Recorded ==
  ASSUME RequestsOK, NEW r \in Requests, request[r] # Idle
  PROVE  /\ request[r] \in RequestRecord /\ RequestOK(request[r])
         /\ request[r].by \in Everybody /\ request[r].about \in Things
         /\ request[r].stamp \in Nat /\ request[r].since \in Nat
  <1>1. request[r] \in RequestRecord /\ RequestOK(request[r]) BY DEF RequestsOK
  <1> QED BY <1>1 DEF RequestRecord

LEMMA NotIdle == \A q \in RequestRecord : q # Idle
  <1>1. Idle.pc = "idle" BY DEF Idle
  <1>2. \A q \in RequestRecord : q.pc \in Steps BY DEF RequestRecord
  <1> QED BY <1>1, <1>2 DEF Steps

(* A step of the request r, which is about a.                              *)
Step(r, a) ==
  /\ \A s \in Requests : s # r => request'[s] = request[s]
  /\ request[r] # Idle => request[r].about = a
  /\ request'[r] # Idle => request'[r].about = a
  /\ request' \in [Requests -> {Idle} \cup RequestRecord]
  /\ crossed \subseteq crossed'
  /\ \A s \in Requests : s # r /\ request[s] # Idle /\ request[s].about = a => a \in crossed'
  /\ clock' = clock

(* It changes nothing that is not a, and takes nothing away.               *)
Touches(a) ==
  /\ \A p \in Places, u \in Everybody : ReadOf(p, u) # a =>
       reads'[p][u] = reads[p][u] /\ askedAt'[p][u] = askedAt[p][u] /\ doneAt'[p][u] = doneAt[p][u]
  /\ \A p \in Places, u \in Everybody : Len(reads[p][u]) <= Len(reads'[p][u])
  /\ \A k \in Marks : k # a => mark'[k] = mark[k] /\ told'[k] = told[k]
  /\ \A d \in DmRooms : room'[d] # room[d] => a = <<"room", room'[d]>>
  /\ \A c \in Channels : channel[c] # None => channel'[c] # None

LEMMA LenTyped ==
  ASSUME TimesOK, NEW p \in Places, NEW u \in Everybody
  PROVE  reads[p][u] \in Seq(0..MaxPosts) /\ Len(reads[p][u]) \in Nat
  <1>1. reads[p][u] \in Seq(0..MaxPosts) BY DEF TimesOK
  <1> QED BY <1>1, LenProperties

(* What a request knows it still knows when rows were added.               *)
LEMMA StillOK ==
  ASSUME TimesOK, TimesOK', NEW q, RequestOK(q), q.by \in Everybody, q.stamp \in Nat,
         clock \in Nat, clock' \in Nat, clock <= clock',
         \A p \in Places, u \in Everybody : Len(reads[p][u]) <= Len(reads'[p][u]),
         \A c \in Channels : channel[c] # None => channel'[c] # None
  PROVE  RequestOK(q)'
  <1>1. q.pc = "saveRead" =>
          \E p \in Places : q.about = ReadOf(p, q.by) /\ q.row \in 0..Len(reads'[p][q.by])
    <2> SUFFICES ASSUME q.pc = "saveRead"
                 PROVE  \E p \in Places : q.about = ReadOf(p, q.by) /\ q.row \in 0..Len(reads'[p][q.by])
      OBVIOUS
    <2>1. PICK p \in Places : q.about = ReadOf(p, q.by) /\ q.row \in 0..Len(reads[p][q.by])
      BY DEF RequestOK
    <2>2. Len(reads[p][q.by]) \in Nat BY LenTyped
    <2>3. Len(reads'[p][q.by]) \in Nat
      <3>1. reads'[p][q.by] \in Seq(0..MaxPosts) BY DEF TimesOK
      <3> QED BY <3>1, LenProperties
    <2>4. Len(reads[p][q.by]) <= Len(reads'[p][q.by]) OBVIOUS
    <2>5. q.row \in 0..Len(reads'[p][q.by]) BY <2>1, <2>2, <2>3, <2>4
    <2> QED BY <2>1, <2>5
  <1>2. q.stamp <= clock' BY DEF RequestOK
  <1> QED BY <1>1, <1>2 DEF RequestOK

LEMMA OthersFresh ==
  ASSUME MarksInv, NEW r \in Requests, NEW a, Step(r, a), Touches(a), NEW s \in Requests, s # r, request[s] # Idle
  PROVE  Fresh(request[s])'
  <1>1. PICK q : q = request[s] OBVIOUS
  <1>2. request'[s] = q /\ crossed \subseteq crossed' BY <1>1 DEF Step
  <1>3. Fresh(q) /\ RequestOK(q) /\ q.by \in Everybody
    BY <1>1, Recorded DEF MarksInv, AllFresh
  <1>4. CASE q.about = a
    <2>1. a \in crossed' BY <1>1, <1>4 DEF Step
    <2> QED BY <1>2, <1>4, <2>1 DEF Fresh
  <1>5. CASE q.about # a
    <2>1. ASSUME q.pc = "saveRead" PROVE reads'[q.about[2]][q.by] = reads[q.about[2]][q.by]
      <3>1. PICK p \in Places : q.about = ReadOf(p, q.by) BY <1>3, <2>1 DEF RequestOK
      <3>2. q.about[2] = p BY <3>1 DEF ReadOf
      <3> QED BY <1>3, <1>5, <3>1, <3>2 DEF Touches
    <2>2. ASSUME q.pc \in {"dropMark", "tell"} PROVE mark'[q.about] = mark[q.about]
      BY <1>3, <1>5, <2>2 DEF RequestOK, Touches
    <2>3. ASSUME q.pc = "newRoom", NEW d \in DmRooms, room[d] # q.about[2] PROVE room'[d] # q.about[2]
      <3>1. PICK g \in Groups : q.about = <<"room", g>> BY <1>3, <2>3 DEF RequestOK
      <3>2. q.about[2] = g BY <3>1
      <3> QED BY <1>5, <2>3, <3>1, <3>2 DEF Touches
    <2>4. Fresh(q)' BY <1>2, <1>3, <2>1, <2>2, <2>3 DEF Fresh
    <2> QED BY <1>2, <2>4 DEF Fresh
  <1> QED BY <1>4, <1>5

LEMMA CrossedKept ==
  ASSUME MarksInv, NEW r \in Requests, NEW a, Step(r, a)
  PROVE  CrossedOK'
  <1> SUFFICES ASSUME NEW s \in Requests, NEW t \in Requests, s # t, request'[s] # Idle, request'[t] # Idle,
                      request'[s].about = request'[t].about
               PROVE  request'[s].about \in crossed'
    BY DEF CrossedOK
  <1>1. crossed \subseteq crossed' BY DEF Step
  <1>2. CASE s = r
    <2>1. request'[t] = request[t] /\ request'[s].about = a BY <1>2 DEF Step
    <2> QED BY <1>2, <2>1 DEF Step
  <1>3. CASE t = r
    <2>1. request'[s] = request[s] /\ request'[t].about = a BY <1>3 DEF Step
    <2> QED BY <1>3, <2>1 DEF Step
  <1>4. CASE s # r /\ t # r
    <2>1. request'[s] = request[s] /\ request'[t] = request[t] BY <1>4 DEF Step
    <2> QED BY <1>1, <2>1 DEF MarksInv, CrossedOK
  <1> QED BY <1>2, <1>3, <1>4

(* The marks that the step is not about.                                   *)
LEMMA OthersMarked ==
  ASSUME MarksInv, NEW r \in Requests, NEW a, Step(r, a), Touches(a), NEW k \in Marks, k # a
  PROVE  MarkOK(k)'
  <1>1. MarkOK(k) BY DEF MarksInv, MarksOK
  <1>2. crossed \subseteq crossed' BY DEF Step
  <1>3. Telling(k) => Telling(k)'
    <2> SUFFICES ASSUME NEW s \in Requests, request[s] # Idle, request[s].pc = "tell", request[s].about = k
                 PROVE  Telling(k)'
      BY DEF Telling
    <2>1. s # r BY DEF Step
    <2>2. request'[s] = request[s] BY <2>1 DEF Step
    <2> QED BY <2>2 DEF Telling
  <1>4. mark'[k] = mark[k] /\ told'[k] = told[k] BY DEF Touches
  <1> QED BY <1>1, <1>2, <1>3, <1>4 DEF MarkOK

(* What is left to show of a step.                                         *)
LEMMA Assembled ==
  ASSUME MarksInv, TypeOK', serial' \in Nat, TimesOK', NEW r \in Requests, NEW a, Step(r, a), Touches(a),
         request'[r] # Idle => RequestOK(request[r])' /\ Fresh(request[r])',
         \A p \in Places, u \in Everybody : a = ReadOf(p, u) /\ a \notin crossed' => ReadOK(p, u)',
         a \in Marks => MarkOK(a)',
         OneRoomPerGroup', ChannelsOK', CallersAsked'
  PROVE  MarksInv'
  <1>1. clock \in Nat /\ clock' \in Nat /\ clock <= clock'
    <2>1. clock \in 0..MaxPosts /\ clock' = clock BY DEF MarksInv, TypeOK, Step
    <2> QED BY <2>1, BoundAssumption
  <1>2. ASSUME NEW s \in Requests, request'[s] # Idle PROVE RequestOK(request[s])' /\ Fresh(request[s])'
    <2>1. CASE s = r BY <1>2, <2>1
    <2>2. CASE s # r
      <3>1. request'[s] = request[s] /\ request[s] # Idle BY <1>2, <2>2 DEF Step
      <3>2. PICK q : q = request[s] OBVIOUS
      <3>3. RequestOK(q) /\ q.by \in Everybody /\ q.stamp \in Nat BY <3>1, <3>2, Recorded DEF MarksInv
      <3>4. RequestOK(q)' BY <1>1, <3>3, StillOK DEF MarksInv, Touches
      <3>5. RequestOK(request[s])' BY <3>1, <3>2, <3>4 DEF RequestOK
      <3> QED BY <2>2, <3>1, <3>5, OthersFresh
    <2> QED BY <2>1, <2>2
  <1>3. RequestsOK' BY <1>2 DEF RequestsOK, Step
  <1>4. AllFresh' BY <1>2 DEF AllFresh
  <1>5. ReadsOK'
    <2> SUFFICES ASSUME NEW p \in Places, NEW u \in Everybody, ReadOf(p, u) \notin crossed' PROVE ReadOK(p, u)'
      BY DEF ReadsOK, ReadOf
    <2>1. CASE ReadOf(p, u) = a BY <2>1
    <2>2. CASE ReadOf(p, u) # a
      <3>1. ReadOf(p, u) \notin crossed BY DEF Step
      <3>2. ReadOK(p, u) BY <3>1 DEF MarksInv, ReadsOK
      <3>3. reads'[p][u] = reads[p][u] /\ askedAt'[p][u] = askedAt[p][u] /\ doneAt'[p][u] = doneAt[p][u]
        BY <2>2 DEF Touches
      <3> QED BY <3>2, <3>3 DEF ReadOK
    <2> QED BY <2>1, <2>2
  <1>6. MarksOK'
    <2>1. \A k \in Marks : k # a => MarkOK(k)' BY OthersMarked
    <2> QED BY <2>1 DEF MarksOK
  <1>7. CrossedOK' BY CrossedKept
  <1> QED BY <1>3, <1>4, <1>5, <1>6, <1>7 DEF MarksInv

-----------------------------------------------------------------------------
(***************************************************************************)
(* Steps that change no table.                                             *)
(***************************************************************************)
LEMMA GoesSet ==
  ASSUME RequestsOK, NEW r \in Requests, NEW q, Goes(r, q)
  PROVE  /\ request'[r] = q
         /\ \A s \in Requests : s # r => request'[s] = request[s]
         /\ q \in {Idle} \cup RequestRecord => request' \in [Requests -> {Idle} \cup RequestRecord]
  <1>1. request \in [Requests -> {Idle} \cup RequestRecord] BY DEF RequestsOK
  <1> QED BY <1>1 DEF Goes

LEMMA Passive ==
  ASSUME MarksInv, UNCHANGED <<clock, tables, askedAt, doneAt, early>>, starts' \in 0..MaxStarts,
         NEW r \in Requests, NEW a, Step(r, a),
         request'[r] # Idle => RequestOK(request[r])' /\ Fresh(request[r])',
         request[r] # Idle /\ request[r].pc = "tell" => a \in crossed'
  PROVE  MarksInv'
  <1>1. UNCHANGED <<posted, reads, mark, serial, told, room, channel, callers>> BY DEF tables
  <1>2. TypeOK' BY <1>1 DEF MarksInv, TypeOK
  <1>3. serial' \in Nat /\ TimesOK' BY <1>1 DEF MarksInv, TimesOK
  <1>4. Touches(a)
    <2>1. \A p \in Places, u \in Everybody : Len(reads[p][u]) \in Nat BY LenTyped DEF MarksInv
    <2> QED BY <1>1, <2>1 DEF Touches
  <1>5. crossed \subseteq crossed' BY DEF Step
  <1>6. ASSUME NEW p \in Places, NEW u \in Everybody, a = ReadOf(p, u), a \notin crossed' PROVE ReadOK(p, u)'
    <2>1. ReadOK(p, u) BY <1>5, <1>6 DEF MarksInv, ReadsOK
    <2> QED BY <1>1, <2>1 DEF ReadOK
  <1>7. ASSUME a \in Marks, a \notin crossed' PROVE MarkOK(a)'
    <2>1. MarkOK(a) /\ a \notin crossed BY <1>5, <1>7 DEF MarksInv, MarksOK
    <2>2. ASSUME Telling(a) PROVE FALSE
      <3>1. PICK s \in Requests : request[s] # Idle /\ request[s].pc = "tell" /\ request[s].about = a
        BY <2>2 DEF Telling
      <3> QED BY <1>7, <3>1 DEF Step
    <2> QED BY <1>1, <2>1, <2>2 DEF MarkOK
  <1>8. a \in Marks => MarkOK(a)' BY <1>7 DEF MarkOK
  <1>9. OneRoomPerGroup' BY <1>1, <1>5 DEF MarksInv, OneRoomPerGroup
  <1>10. ChannelsOK' /\ CallersAsked' BY <1>1 DEF MarksInv, ChannelsOK, CallersAsked
  <1> QED BY <1>2, <1>3, <1>4, <1>6, <1>8, <1>9, <1>10, Assembled

(* A request that goes on to pc with another row or time, or ends.         *)
LEMMA Onward ==
  ASSUME MarksInv, NEW r \in Requests, request[r] # Idle, NEW q, Goes(r, q), clock' = clock, crossed' = crossed,
         q = Idle \/ (q \in RequestRecord /\ q.about = request[r].about)
  PROVE  Step(r, request[r].about) /\ request'[r] = q
  <1>1. /\ request'[r] = q
        /\ \A s \in Requests : s # r => request'[s] = request[s]
        /\ request' \in [Requests -> {Idle} \cup RequestRecord]
    BY GoesSet DEF MarksInv
  <1>2. \A s \in Requests : s # r /\ request[s] # Idle /\ request[s].about = request[r].about =>
          request[r].about \in crossed
    BY DEF MarksInv, CrossedOK
  <1> QED BY <1>1, <1>2 DEF Step

(* A request that begins: whatever it found is still to be found.          *)
LEMMA Begun ==
  ASSUME MarksInv, NEW r \in Requests, NEW act \in {"read", "toggle", "pin", "unpin", "room", "channel"},
         NEW pc \in {"findRead", "findMark", "findRoom", "newChannel"}, NEW u \in Everybody, NEW a \in Things,
         pc = "findRead" => \E p \in Places : a = ReadOf(p, u),
         pc = "findMark" => a \in Marks,
         pc = "findRoom" => \E g \in Groups : a = <<"room", g>>,
         pc = "newChannel" => u \in Members /\ \E g \in Asked : a = <<"channel", g>>,
         Starts(r, Request(act, pc, u, a))
  PROVE  MarksInv'
  <1>1. PICK q : q = Request(act, pc, u, a) OBVIOUS
  <1>2. clock \in Nat
    <2>1. clock \in 0..MaxPosts BY DEF MarksInv, TypeOK
    <2> QED BY <2>1, BoundAssumption
  <1>3. /\ q \in RequestRecord /\ q.pc = pc /\ q.by = u /\ q.about = a
        /\ q.row = 0 /\ q.stamp = clock /\ q.since = clock
    BY <1>1, <1>2 DEF Request, RequestRecord, Steps
  <1>4. /\ request[r] = Idle /\ starts < MaxStarts /\ starts' = starts + 1 /\ Goes(r, q)
        /\ crossed' = IF \E s \in Busy : request[s].about = a THEN crossed \cup {a} ELSE crossed
        /\ UNCHANGED <<clock, tables, askedAt, doneAt, early>>
    BY <1>1, <1>3 DEF Starts
  <1>5. starts' \in 0..MaxStarts
    <2>1. starts \in 0..MaxStarts BY DEF MarksInv, TypeOK
    <2> QED BY <1>4, <2>1, BoundAssumption
  <1>6. /\ request'[r] = q
        /\ \A s \in Requests : s # r => request'[s] = request[s]
        /\ request' \in [Requests -> {Idle} \cup RequestRecord]
    BY <1>3, <1>4, GoesSet DEF MarksInv
  <1>7. Step(r, a) BY <1>3, <1>4, <1>6 DEF Step, Busy
  <1>8. RequestOK(q)' BY <1>2, <1>3, <1>4 DEF RequestOK
  <1>9. Fresh(q)' BY <1>3 DEF Fresh
  <1>10. RequestOK(request[r])' /\ Fresh(request[r])' BY <1>6, <1>8, <1>9 DEF RequestOK, Fresh
  <1> QED BY <1>4, <1>5, <1>7, <1>10, Passive

LEMMA AskInv == ASSUME MarksInv, NEW r \in Requests, Ask(r) PROVE MarksInv'
  <1>1. CASE MarkRead(r)
    <2>1. PICK p \in Places, u \in Everybody : Starts(r, Request("read", "findRead", u, <<"read", p, u>>))
      BY <1>1 DEF MarkRead
    <2>2. PICK a : a = <<"read", p, u>> OBVIOUS
    <2>3. a = ReadOf(p, u) /\ a \in Things BY <2>2 DEF Things, ReadOf
    <2> QED BY <2>1, <2>2, <2>3, Begun
  <1>2. CASE Toggle(r)
    <2>1. PICK kind \in {"reaction", "save"}, u \in Everybody : Starts(r, Request("toggle", "findMark", u, <<kind, u>>))
      BY <1>2 DEF Toggle
    <2>2. PICK a : a = <<kind, u>> OBVIOUS
    <2>3. a \in Marks /\ a \in Things BY <2>2 DEF Things, Marks
    <2> QED BY <2>1, <2>2, <2>3, Begun
  <1>3. CASE Pin(r) \/ Unpin(r)
    <2>1. PICK act \in {"pin", "unpin"}, u \in Everybody : Starts(r, Request(act, "findMark", u, <<"pin">>))
      BY <1>3 DEF Pin, Unpin
    <2>2. PICK a : a = <<"pin">> OBVIOUS
    <2>3. a \in Marks /\ a \in Things BY <2>2 DEF Things, Marks
    <2> QED BY <2>1, <2>2, <2>3, Begun
  <1>4. CASE GetOrCreateDmRoom(r)
    <2>1. PICK g \in Groups, u \in Everybody : Starts(r, Request("room", "findRoom", u, <<"room", g>>))
      BY <1>4 DEF GetOrCreateDmRoom
    <2>2. PICK a : a = <<"room", g>> OBVIOUS
    <2>3. a \in Things /\ \E h \in Groups : a = <<"room", h>> BY <2>2 DEF Things
    <2> QED BY <2>1, <2>2, <2>3, Begun
  <1>5. CASE CreateChannel(r)
    <2>1. PICK g \in Asked, u \in Members : Starts(r, Request("channel", "newChannel", u, <<"channel", g>>))
      BY <1>5 DEF CreateChannel
    <2>2. PICK a : a = <<"channel", g>> OBVIOUS
    <2>3. a \in Things /\ (\E h \in Asked : a = <<"channel", h>>) /\ u \in Everybody BY <2>2 DEF Things, Everybody
    <2> QED BY <2>1, <2>2, <2>3, Begun
  <1> QED BY <1>1, <1>2, <1>3, <1>4, <1>5 DEF Ask

LEMMA FailInv == ASSUME MarksInv, NEW r \in Requests, Fail(r) PROVE MarksInv'
  <1>1. PICK a : a = request[r].about OBVIOUS
  <1>2. /\ request[r] # Idle /\ Goes(r, Idle) /\ crossed' = crossed \cup {a}
        /\ UNCHANGED <<clock, tables, starts, askedAt, doneAt, early>>
    BY <1>1 DEF Fail
  <1>3. request'[r] = Idle /\ (\A s \in Requests : s # r => request'[s] = request[s])
        /\ request' \in [Requests -> {Idle} \cup RequestRecord]
    BY <1>2, GoesSet DEF MarksInv
  <1>4. Step(r, a) BY <1>1, <1>2, <1>3 DEF Step
  <1>5. starts' \in 0..MaxStarts BY <1>2 DEF MarksInv, TypeOK
  <1> QED BY <1>2, <1>3, <1>4, <1>5, Passive


-----------------------------------------------------------------------------
(***************************************************************************)
(* Reads.                                                                  *)
(***************************************************************************)
LEMMA ClockTyped == ASSUME MarksInv PROVE clock \in Nat /\ clock <= MaxPosts
  <1>1. clock \in 0..MaxPosts BY DEF MarksInv, TypeOK
  <1> QED BY <1>1, BoundAssumption

LEMMA FindReadInv == ASSUME MarksInv, NEW r \in Requests, FindRead(r) PROVE MarksInv'
  <1>1. PICK q : q = request[r] OBVIOUS
  <1>2. q \in RequestRecord /\ RequestOK(q) /\ q.by \in Everybody /\ q # Idle /\ q.pc = "findRead"
    BY <1>1, Recorded DEF MarksInv, FindRead, At
  <1>3. PICK p \in Places : q.about = ReadOf(p, q.by) BY <1>2 DEF RequestOK
  <1>4. q.about[2] = p /\ q.row = 0 BY <1>2, <1>3 DEF RequestOK, ReadOf
  <1>5. Len(reads[p][q.by]) \in Nat /\ clock \in Nat BY <1>2, LenTyped, ClockTyped DEF MarksInv
  <1>6. UNCHANGED <<clock, tables, starts, history>> BY DEF FindRead
  <1>7. PICK row \in 0..Len(reads[p][q.by]) :
          /\ Goes(r, [q EXCEPT !.pc = "saveRead", !.stamp = clock, !.row = row])
          /\ row = 0 => Len(reads[p][q.by]) = 0
    <2>1. CASE 1..Len(reads[p][q.by]) = {}
      <3>1. Len(reads[p][q.by]) = 0
        <4>1. 1 \notin 1..Len(reads[p][q.by]) BY <2>1
        <4> QED BY <1>5, <4>1
      <3>2. Goes(r, [q EXCEPT !.pc = "saveRead", !.stamp = clock]) BY <1>1, <1>2, <1>4, <2>1 DEF FindRead, RequestRecord
      <3>3. [q EXCEPT !.pc = "saveRead", !.stamp = clock] = [q EXCEPT !.pc = "saveRead", !.stamp = clock, !.row = 0]
        BY <1>2, <1>4 DEF RequestRecord
      <3> QED BY <3>1, <3>2, <3>3
    <2>2. CASE 1..Len(reads[p][q.by]) # {}
      <3>1. PICK i \in 1..Len(reads[p][q.by]) : Goes(r, [q EXCEPT !.pc = "saveRead", !.stamp = clock, !.row = i])
        <4>1. PICK v : v = [q EXCEPT !.pc = "saveRead", !.stamp = clock] OBVIOUS
        <4>2. v.about = q.about /\ v.by = q.by BY <1>2, <4>1 DEF RequestRecord
        <4>3. PICK i \in 1..Len(reads[p][q.by]) : Goes(r, [v EXCEPT !.row = i])
          BY <1>1, <1>4, <2>2, <4>1, <4>2 DEF FindRead
        <4>4. [v EXCEPT !.row = i] = [q EXCEPT !.pc = "saveRead", !.stamp = clock, !.row = i]
          BY <4>1
        <4> QED BY <4>3, <4>4
      <3>2. i \in 0..Len(reads[p][q.by]) /\ i # 0 BY <1>5
      <3> QED BY <3>1, <3>2, Zenon
    <2> QED BY <2>1, <2>2
  <1>8. PICK w : w = [q EXCEPT !.pc = "saveRead", !.stamp = clock, !.row = row] OBVIOUS
  <1>9. /\ w \in RequestRecord /\ w.pc = "saveRead" /\ w.stamp = clock /\ w.row = row
        /\ w.by = q.by /\ w.about = q.about /\ w.since = q.since
    <2>1. row \in Nat /\ "saveRead" \in Steps BY <1>5 DEF Steps
    <2>2. q = [op |-> q.op, pc |-> q.pc, by |-> q.by, about |-> q.about, row |-> q.row, stamp |-> q.stamp, since |-> q.since]
      BY <1>2 DEF RequestRecord
    <2>3. w = [op |-> q.op, pc |-> "saveRead", by |-> q.by, about |-> q.about, row |-> row, stamp |-> clock, since |-> q.since]
      BY <1>8, <2>2
    <2> QED BY <1>2, <1>5, <2>1, <2>3 DEF RequestRecord
  <1>10. Step(r, q.about) /\ request'[r] = w
    <2>1. crossed' = crossed /\ clock' = clock BY <1>6 DEF history
    <2>2. request[r] # Idle /\ Goes(r, w) BY <1>1, <1>2, <1>7, <1>8
    <2>3. w \in RequestRecord /\ w.about = request[r].about BY <1>1, <1>9
    <2>4. Step(r, request[r].about) /\ request'[r] = w BY <2>1, <2>2, <2>3, Onward
    <2> QED BY <1>1, <2>4
  <1>11. w.since <= clock
    <2>1. q.since \in Nat /\ q.stamp \in Nat BY <1>2 DEF RequestRecord
    <2>2. q.since <= q.stamp /\ q.stamp <= clock BY <1>2 DEF RequestOK
    <2> QED BY <1>5, <1>9, <2>1, <2>2
  <1>12. UNCHANGED <<reads, channel, mark, room, crossed>> BY <1>6 DEF tables, history
  <1>13. RequestOK(w)' BY <1>3, <1>5, <1>6, <1>9, <1>11, <1>12 DEF RequestOK
  <1>14. Fresh(w)'
    <2>1. SUFFICES ASSUME q.about \notin crossed PROVE row = Len(reads[p][q.by])
      BY <1>4, <1>9, <1>12 DEF Fresh
    <2>2. Len(reads[p][q.by]) <= 1
      BY <1>2, <1>3, <2>1 DEF MarksInv, ReadsOK, ReadOK
    <2> QED BY <1>5, <1>7, <2>2
  <1>15. RequestOK(request[r])' /\ Fresh(request[r])' BY <1>10, <1>13, <1>14 DEF RequestOK, Fresh
  <1>16. starts' \in 0..MaxStarts BY <1>6 DEF MarksInv, TypeOK
  <1>17. request[r].pc # "tell" BY <1>1, <1>2
  <1> QED BY <1>6, <1>10, <1>15, <1>16, <1>17, Passive DEF history


(***************************************************************************)
(* The row of a read is written: the one that was found, or a new one.     *)
(***************************************************************************)
LEMMA SaveReadInv == ASSUME MarksInv, NEW r \in Requests, SaveRead(r) PROVE MarksInv'
  <1>1. PICK q : q = request[r] OBVIOUS
  <1>2. q \in RequestRecord /\ RequestOK(q) /\ q.by \in Everybody /\ q # Idle /\ q.pc = "saveRead"
    BY <1>1, Recorded DEF MarksInv, SaveRead, At
  <1>3. PICK p \in Places : q.about = ReadOf(p, q.by) /\ q.row \in 0..Len(reads[p][q.by])
    BY <1>2 DEF RequestOK
  <1>by. PICK u \in Everybody : u = q.by BY <1>2
  <1>4. PICK a, old, stamp, row :
          u = q.by /\ a = q.about /\ old = reads[p][u] /\ stamp = q.stamp /\ row = q.row
    BY <1>by
  <1>5. q.about[2] = p /\ a = ReadOf(p, u) BY <1>3, <1>4 DEF ReadOf
  <1>6. /\ row = 0 => p = "thread" \/ old = << >>
        /\ reads' = IF row = 0 THEN [reads EXCEPT ![p][u] = Append(@, stamp)]
                    ELSE [reads EXCEPT ![p][u][row] = stamp]
        /\ askedAt' = [askedAt EXCEPT ![p][u] = q.since]
        /\ doneAt' = [doneAt EXCEPT ![p][u] = clock]
        /\ Goes(r, Idle)
        /\ UNCHANGED <<clock, posted, mark, serial, told, room, channel, callers, starts, crossed, early>>
    BY <1>1, <1>4, <1>5 DEF SaveRead
  <1>7. clock \in Nat /\ clock <= MaxPosts /\ q.since \in Nat /\ stamp \in Nat
    BY <1>2, <1>4, ClockTyped DEF RequestRecord
  <1>8. q.since <= stamp /\ stamp <= clock BY <1>2, <1>4 DEF RequestOK
  <1>9. stamp \in 0..MaxPosts BY <1>7, <1>8, BoundAssumption
  <1>10. old \in Seq(0..MaxPosts) /\ Len(old) \in Nat BY <1>4, LenTyped DEF MarksInv
  <1>11. PICK new \in Seq(0..MaxPosts) :
           /\ reads' = [reads EXCEPT ![p][u] = new]
           /\ row = 0 => Len(new) = Len(old) + 1 /\ new[Len(old) + 1] = stamp
           /\ row # 0 => Len(new) = Len(old) /\ new[row] = stamp
    <2>1. CASE row = 0
      <3>1. PICK new : new = Append(old, stamp) OBVIOUS
      <3>2. new \in Seq(0..MaxPosts) /\ Len(new) = Len(old) + 1 /\ new[Len(old) + 1] = stamp
        BY <1>9, <1>10, <3>1, AppendProperties
      <3>3. reads' = [reads EXCEPT ![p][u] = new] BY <1>4, <1>6, <2>1, <3>1
      <3> QED BY <2>1, <3>2, <3>3
    <2>2. CASE row # 0
      <3>1. PICK new : new = [old EXCEPT ![row] = stamp] OBVIOUS
      <3>2. row \in 1..Len(old) BY <1>3, <1>4, <1>10, <2>2
      <3>3. new \in Seq(0..MaxPosts) /\ Len(new) = Len(old) /\ new[row] = stamp
        BY <1>9, <1>10, <3>1, <3>2, ExceptSeq
      <3>4. reads' = [reads EXCEPT ![p][u] = new] BY <1>4, <1>6, <2>2, <3>1
      <3> QED BY <2>2, <3>3, <3>4
    <2> QED BY <2>1, <2>2
  <1>12. /\ reads \in [Places -> [Everybody -> Seq(0..MaxPosts)]]
         /\ askedAt \in [Places -> [Everybody -> Nat]] /\ doneAt \in [Places -> [Everybody -> Nat]]
    BY DEF MarksInv, TimesOK
  <1>13. TimesOK'
    <2>1. reads' \in [Places -> [Everybody -> Seq(0..MaxPosts)]] BY <1>11, <1>12
    <2>2. askedAt' \in [Places -> [Everybody -> Nat]] BY <1>6, <1>7, <1>12
    <2>3. doneAt' \in [Places -> [Everybody -> Nat]] BY <1>6, <1>7, <1>12
    <2> QED BY <2>1, <2>2, <2>3 DEF TimesOK
  <1>14. reads'[p][u] = new /\ askedAt'[p][u] = q.since /\ doneAt'[p][u] = clock
    BY <1>6, <1>11, <1>12
  <1>15. \A x \in Places, v \in Everybody : x # p \/ v # u =>
           reads'[x][v] = reads[x][v] /\ askedAt'[x][v] = askedAt[x][v] /\ doneAt'[x][v] = doneAt[x][v]
    <2> SUFFICES ASSUME NEW x \in Places, NEW v \in Everybody, x # p \/ v # u
                 PROVE  /\ reads'[x][v] = reads[x][v] /\ askedAt'[x][v] = askedAt[x][v]
                        /\ doneAt'[x][v] = doneAt[x][v]
      OBVIOUS
    <2>1. reads'[x][v] = reads[x][v] BY <1>11, <1>12
    <2>2. askedAt'[x][v] = askedAt[x][v] BY <1>6, <1>12
    <2>3. doneAt'[x][v] = doneAt[x][v] BY <1>6, <1>12
    <2> QED BY <2>1, <2>2, <2>3
  <1>16. Len(old) <= Len(new) /\ Len(new) \in Nat
    BY <1>10, <1>11
  <1>17. Touches(a)
    <2>1. ASSUME NEW x \in Places, NEW v \in Everybody PROVE Len(reads[x][v]) <= Len(reads'[x][v])
      <3>1. Len(reads[x][v]) \in Nat BY LenTyped DEF MarksInv
      <3> QED BY <1>4, <1>14, <1>15, <1>16, <3>1
    <2>2. ASSUME NEW x \in Places, NEW v \in Everybody, ReadOf(x, v) # a PROVE x # p \/ v # u
      BY <1>5, <2>2
    <2> QED BY <1>6, <1>15, <2>1, <2>2 DEF Touches
  <1>18. TypeOK'
    <2>1. ASSUME NEW x \in Places, NEW v \in Everybody
          PROVE  reads'[x][v] \in Seq(0..MaxPosts) /\ (x \in Keyed => Len(reads'[x][v]) <= 1)
      <3>1. reads'[x][v] \in Seq(0..MaxPosts) BY <1>13 DEF TimesOK
      <3>2. x \in Keyed => Len(reads[x][v]) <= 1 BY DEF MarksInv, TypeOK
      <3>3. CASE x = p /\ v = u
        <4>1. CASE row = 0
          <5>1. x \in Keyed => old = << >> BY <1>6, <3>3, <4>1 DEF Keyed
          <5>2. old = << >> => Len(new) = 1 BY <1>11, <4>1
          <5>3. ASSUME x \in Keyed PROVE Len(new) <= 1
            <6>1. Len(new) = 1 BY <5>1, <5>2, <5>3
            <6> QED BY <6>1
          <5>4. reads'[x][v] = new BY <1>14, <3>3
          <5> QED BY <3>1, <5>3, <5>4
        <4>2. CASE row # 0 BY <1>4, <1>11, <1>14, <3>1, <3>2, <3>3, <4>2
        <4> QED BY <4>1, <4>2
      <3> QED BY <1>15, <3>1, <3>2, <3>3
    <2> QED BY <1>6, <2>1 DEF MarksInv, TypeOK
  <1>19. Step(r, a) /\ request'[r] = Idle BY <1>1, <1>2, <1>4, <1>6, Onward
  <1>20. ASSUME NEW x \in Places, NEW v \in Everybody, a = ReadOf(x, v), a \notin crossed' PROVE ReadOK(x, v)'
    <2>1. x = p /\ v = u BY <1>5, <1>20 DEF ReadOf
    <2>2. a \notin crossed BY <1>6, <1>20
    <2>3. row = Len(old) BY <1>1, <1>2, <1>4, <1>5, <2>2 DEF MarksInv, AllFresh, Fresh
    <2>4. Len(old) <= 1 BY <1>4, <1>5, <2>2 DEF MarksInv, ReadsOK, ReadOK
    <2>7. SUFFICES Len(new) = 1 /\ new[1] = stamp
      <3>1. reads'[x][v] = new /\ askedAt'[x][v] = q.since /\ doneAt'[x][v] = clock BY <1>14, <2>1
      <3>2. Len(new) = 1 /\ new[1] = stamp => Len(new) <= 1 /\ Len(new) # 0 /\ q.since <= new[1] /\ new[1] <= clock
        BY <1>8, <1>16
      <3> QED BY <3>1, <3>2 DEF ReadOK
    <2>5. CASE row = 0
      <3>1. Len(old) + 1 = 1 BY <2>3, <2>5
      <3>2. Len(new) = 1 /\ new[1] = stamp BY <1>11, <2>5, <3>1
      <3> QED BY <3>2
    <2>6. CASE row # 0
      <3>1. row = 1 BY <1>10, <2>3, <2>4, <2>6
      <3>2. Len(new) = 1 /\ new[1] = stamp BY <1>11, <2>3, <3>1
      <3> QED BY <3>2
    <2> QED BY <2>5, <2>6
  <1>21. a \notin Marks BY <1>5 DEF ReadOf, Marks
  <1>22. OneRoomPerGroup' BY <1>6 DEF MarksInv, OneRoomPerGroup
  <1>23. ChannelsOK' /\ CallersAsked' BY <1>6 DEF MarksInv, ChannelsOK, CallersAsked
  <1>24. serial' \in Nat BY <1>6 DEF MarksInv
  <1> QED BY <1>13, <1>17, <1>18, <1>19, <1>20, <1>21, <1>22, <1>23, <1>24, Assembled


-----------------------------------------------------------------------------
(***************************************************************************)
(* Marks.                                                                  *)
(***************************************************************************)
(* A request that goes on to another step with another row is a request.   *)
Moves(w, q, pc, row) == w = [q EXCEPT !.pc = pc, !.row = row]

LEMMA Moved ==
  ASSUME NEW q \in RequestRecord, NEW pc \in Steps, NEW row \in Nat \cup Channels,
         NEW w, Moves(w, q, pc, row)
  PROVE  /\ w \in RequestRecord /\ w # Idle /\ w.pc = pc /\ w.row = row
         /\ w.op = q.op /\ w.by = q.by /\ w.about = q.about /\ w.stamp = q.stamp /\ w.since = q.since
  <1>2. q = [op |-> q.op, pc |-> q.pc, by |-> q.by, about |-> q.about, row |-> q.row, stamp |-> q.stamp, since |-> q.since]
    BY DEF RequestRecord
  <1>3. w = [op |-> q.op, pc |-> pc, by |-> q.by, about |-> q.about, row |-> row, stamp |-> q.stamp, since |-> q.since]
    BY <1>2 DEF Moves
  <1>4. w \in RequestRecord BY <1>3 DEF RequestRecord
  <1> QED BY <1>3, <1>4, NotIdle

LEMMA FindMarkInv == ASSUME MarksInv, NEW r \in Requests, FindMark(r) PROVE MarksInv'
  <1>1. PICK q, a : q = request[r] /\ a = q.about OBVIOUS
  <1>2. q \in RequestRecord /\ RequestOK(q) /\ q # Idle /\ q.pc = "findMark"
    BY <1>1, Recorded DEF MarksInv, FindMark, At
  <1>3. a \in Marks /\ mark[a] \in Nat
    <2>1. a \in Marks BY <1>1, <1>2 DEF RequestOK
    <2>2. mark[a] \in 0..serial /\ serial \in Nat BY <2>1 DEF MarksInv, TypeOK
    <2> QED BY <2>1, <2>2
  <1>4. UNCHANGED <<clock, tables, starts, history>> BY DEF FindMark
  <1>5. UNCHANGED <<reads, channel, mark, room, crossed>> BY <1>4 DEF tables, history
  <1>6. PICK pc : pc = IF mark[a] # 0 THEN "dropMark" ELSE "addMark" OBVIOUS
  <1>7. PICK w : w = [q EXCEPT !.pc = pc, !.row = mark[a]] OBVIOUS
  <1>8. Goes(r, Idle) \/ Goes(r, w)
    <2>1. Goes(r, IF q.op = IF mark[a] # 0 THEN "pin" ELSE "unpin" THEN Idle
                  ELSE [q EXCEPT !.pc = IF mark[a] # 0 THEN "dropMark" ELSE "addMark", !.row = mark[a]])
      BY <1>1 DEF FindMark
    <2> QED BY <1>6, <1>7, <2>1
  <1>9. /\ w \in RequestRecord /\ w.pc = pc /\ w.row = mark[a] /\ w.about = a
        /\ w.stamp = q.stamp /\ w.since = q.since
    <2>1. PICK m : m = mark[a] OBVIOUS
    <2>2. pc \in Steps /\ m \in Nat \cup Channels /\ Moves(w, q, pc, m)
      BY <1>3, <1>6, <1>7, <2>1 DEF Steps, Moves
    <2>3. /\ w \in RequestRecord /\ w.pc = pc /\ w.row = m /\ w.about = q.about
          /\ w.stamp = q.stamp /\ w.since = q.since
      BY <1>2, <2>2, Moved
    <2> QED BY <1>1, <2>1, <2>3
  <1>10. Step(r, a) /\ request'[r] \in {Idle, w}
    <2>1. clock' = clock /\ crossed' = crossed BY <1>4 DEF history
    <2>2. CASE Goes(r, Idle) BY <1>1, <1>2, <2>1, <2>2, Onward
    <2>3. CASE Goes(r, w) BY <1>1, <1>2, <1>9, <2>1, <2>3, Onward
    <2> QED BY <1>8, <2>2, <2>3
  <1>11. RequestOK(w)'
    <2>1. w.since <= w.stamp /\ w.stamp <= clock' BY <1>2, <1>4, <1>9 DEF RequestOK
    <2> QED BY <1>3, <1>6, <1>9, <2>1 DEF RequestOK
  <1>12. Fresh(w)' BY <1>5, <1>6, <1>9 DEF Fresh
  <1>13. request'[r] # Idle => RequestOK(request[r])' /\ Fresh(request[r])'
    BY <1>10, <1>11, <1>12 DEF RequestOK, Fresh
  <1>14. starts' \in 0..MaxStarts BY <1>4 DEF MarksInv, TypeOK
  <1>15. request[r].pc # "tell" BY <1>1, <1>2
  <1> QED BY <1>4, <1>10, <1>13, <1>14, <1>15, Passive DEF history

(* A mark that changes is told at once, or its request is about to tell it.*)
LEMMA MarkChanges ==
  ASSUME MarksInv, NEW r \in Requests, NEW q, q = request[r], NEW a \in Marks, a = q.about, q # Idle,
         NEW added \in BOOLEAN, NEW m \in Nat, NEW n \in Nat, m \in 0..n, serial <= n,
         mark' = [mark EXCEPT ![a] = m], serial' = n,
         a \notin crossed => (added <=> m # 0),
         Tells(r, added),
         UNCHANGED <<clock, posted, reads, room, channel, callers, starts, history>>
  PROVE  MarksInv'
  <1>1. q \in RequestRecord /\ RequestOK(q) BY Recorded DEF MarksInv
  <1>2. PICK row \in {0, 1} : row = IF added THEN 1 ELSE 0 OBVIOUS
  <1>3. PICK w : w = [q EXCEPT !.pc = "tell", !.row = row] OBVIOUS
  <1>4. \/ Goes(r, w) /\ told' = told
        \/ Goes(r, Idle) /\ told' = [told EXCEPT ![a] = added]
    BY <1>2, <1>3 DEF Tells
  <1>5. /\ w \in RequestRecord /\ w # Idle /\ w.pc = "tell" /\ w.row = row /\ w.about = a
        /\ w.stamp = q.stamp /\ w.since = q.since
    <2>1. "tell" \in Steps /\ row \in Nat \cup Channels /\ Moves(w, q, "tell", row) BY <1>3 DEF Steps, Moves
    <2>2. /\ w \in RequestRecord /\ w # Idle /\ w.pc = "tell" /\ w.row = row /\ w.about = q.about
          /\ w.stamp = q.stamp /\ w.since = q.since
      BY <1>1, <2>1, Moved
    <2> QED BY <2>2
  <1>6. crossed' = crossed /\ askedAt' = askedAt /\ doneAt' = doneAt /\ early' = early BY DEF history
  <1>7. Step(r, a) /\ (request'[r] = w \/ (request'[r] = Idle /\ told' = [told EXCEPT ![a] = added]))
    <2>1. CASE Goes(r, w) BY <1>5, <1>6, <2>1, Onward
    <2>2. CASE Goes(r, Idle) /\ told' = [told EXCEPT ![a] = added] BY <1>6, <2>2, Onward
    <2> QED BY <1>4, <2>1, <2>2
  <1>8. /\ mark \in [Marks -> 0..serial] /\ told \in [Marks -> BOOLEAN] /\ serial \in Nat
    BY DEF MarksInv, TypeOK
  <1>9. /\ mark' \in [Marks -> 0..serial'] /\ told' \in [Marks -> BOOLEAN]
        /\ mark'[a] = m /\ \A k \in Marks : k # a => mark'[k] = mark[k] /\ told'[k] = told[k]
    <2>1. \A k \in Marks : mark[k] \in 0..n BY <1>8
    <2>2. mark' \in [Marks -> 0..serial'] BY <1>8, <2>1
    <2>3. told' \in [Marks -> BOOLEAN] /\ \A k \in Marks : k # a => told'[k] = told[k] BY <1>4, <1>8
    <2> QED BY <1>8, <2>2, <2>3
  <1>10. TypeOK' BY <1>6, <1>9 DEF MarksInv, TypeOK
  <1>11. serial' \in Nat /\ TimesOK' BY <1>6 DEF MarksInv, TimesOK
  <1>12. Touches(a)
    <2>1. \A p \in Places, u \in Everybody : Len(reads[p][u]) \in Nat BY LenTyped DEF MarksInv
    <2> QED BY <1>6, <1>9, <2>1 DEF Touches
  <1>13. ASSUME request'[r] # Idle PROVE RequestOK(request[r])' /\ Fresh(request[r])'
    <2>1. request'[r] = w BY <1>7, <1>13
    <2>2. w.since <= w.stamp /\ w.stamp <= clock' BY <1>1, <1>5 DEF RequestOK
    <2>3. RequestOK(w)' BY <1>5, <2>2 DEF RequestOK
    <2>4. Fresh(w)' BY <1>2, <1>5, <1>6, <1>9 DEF Fresh
    <2> QED BY <2>1, <2>3, <2>4 DEF RequestOK, Fresh
  <1>14. ASSUME a \notin crossed' PROVE MarkOK(a)'
    <2>1. CASE request'[r] = w BY <1>5, <2>1 DEF MarkOK, Telling
    <2>2. CASE request'[r] = Idle /\ told' = [told EXCEPT ![a] = added]
      BY <1>6, <1>8, <1>9, <1>14, <2>2 DEF MarkOK
    <2> QED BY <1>7, <2>1, <2>2
  <1>15. MarkOK(a)' BY <1>14 DEF MarkOK
  <1>16. ASSUME NEW p \in Places, NEW u \in Everybody, a = ReadOf(p, u) PROVE FALSE
    BY <1>16 DEF ReadOf, Marks
  <1>17. OneRoomPerGroup' BY <1>6 DEF MarksInv, OneRoomPerGroup
  <1>18. ChannelsOK' /\ CallersAsked' BY <1>6 DEF MarksInv, ChannelsOK, CallersAsked
  <1> QED BY <1>7, <1>10, <1>11, <1>12, <1>13, <1>15, <1>16, <1>17, <1>18, Assembled

LEMMA AddMarkInv == ASSUME MarksInv, NEW r \in Requests, AddMark(r) PROVE MarksInv'
  <1>1. PICK q, a : q = request[r] /\ a = q.about OBVIOUS
  <1>2. q # Idle /\ q.pc = "addMark" /\ RequestOK(q) BY <1>1, Recorded DEF MarksInv, AddMark, At
  <1>3. a \in Marks BY <1>1, <1>2 DEF RequestOK
  <1>4. PICK n \in Nat : n = serial + 1 BY DEF MarksInv
  <1>5. n \in 0..n /\ n # 0 /\ serial <= n BY <1>4 DEF MarksInv
  <1>6. /\ mark' = [mark EXCEPT ![a] = n] /\ serial' = n /\ Tells(r, TRUE)
        /\ UNCHANGED <<clock, posted, reads, room, channel, callers, starts, history>>
    BY <1>1, <1>4 DEF AddMark
  <1> QED BY <1>1, <1>2, <1>3, <1>5, <1>6, MarkChanges

LEMMA DropMarkInv == ASSUME MarksInv, NEW r \in Requests, DropMark(r) PROVE MarksInv'
  <1>1. PICK q, a : q = request[r] /\ a = q.about OBVIOUS
  <1>2. q # Idle /\ q.pc = "dropMark" /\ RequestOK(q) BY <1>1, Recorded DEF MarksInv, DropMark, At
  <1>3. a \in Marks BY <1>1, <1>2 DEF RequestOK
  <1>4. mark \in [Marks -> 0..serial] /\ serial \in Nat /\ mark[a] \in 0..serial BY <1>3 DEF MarksInv, TypeOK
  <1>5. PICK n \in Nat : n = serial BY <1>4
  <1>6. PICK m : m = IF mark[a] = q.row THEN 0 ELSE mark[a] OBVIOUS
  <1>7. m \in Nat /\ m \in 0..n /\ serial <= n BY <1>4, <1>5, <1>6
  <1>8. /\ mark' = [mark EXCEPT ![a] = m] /\ serial' = n /\ Tells(r, FALSE)
        /\ UNCHANGED <<clock, posted, reads, room, channel, callers, starts, history>>
    BY <1>1, <1>5, <1>6 DEF DropMark
  <1>9. a \notin crossed => (FALSE <=> m # 0)
    <2>1. a \notin crossed => mark[a] = q.row BY <1>1, <1>2 DEF MarksInv, AllFresh, Fresh
    <2> QED BY <1>6, <2>1
  <1> QED BY <1>1, <1>2, <1>3, <1>5, <1>7, <1>8, <1>9, MarkChanges

LEMMA TellReactionInv == ASSUME MarksInv, NEW r \in Requests, TellReaction(r) PROVE MarksInv'
  <1>1. PICK q, a : q = request[r] /\ a = q.about OBVIOUS
  <1>2. q # Idle /\ q.pc = "tell" /\ RequestOK(q) BY <1>1, Recorded DEF MarksInv, TellReaction, At
  <1>3. a \in Marks BY <1>1, <1>2 DEF RequestOK
  <1>4. PICK h \in BOOLEAN : h <=> q.row = 1 OBVIOUS
  <1>5. /\ told' = [told EXCEPT ![a] = h] /\ Goes(r, Idle)
        /\ UNCHANGED <<clock, posted, reads, mark, serial, room, channel, callers, starts, history>>
    BY <1>1, <1>4 DEF TellReaction
  <1>6. crossed' = crossed /\ askedAt' = askedAt /\ doneAt' = doneAt /\ early' = early BY <1>5 DEF history
  <1>7. Step(r, a) /\ request'[r] = Idle BY <1>1, <1>2, <1>5, <1>6, Onward
  <1>8. told \in [Marks -> BOOLEAN] BY DEF MarksInv, TypeOK
  <1>9. told' \in [Marks -> BOOLEAN] /\ told'[a] = h /\ \A k \in Marks : k # a => told'[k] = told[k]
    BY <1>3, <1>5, <1>8
  <1>10. TypeOK' BY <1>5, <1>6, <1>9 DEF MarksInv, TypeOK
  <1>11. serial' \in Nat /\ TimesOK' BY <1>5, <1>6 DEF MarksInv, TimesOK
  <1>12. Touches(a)
    <2>1. \A p \in Places, u \in Everybody : Len(reads[p][u]) \in Nat BY LenTyped DEF MarksInv
    <2> QED BY <1>5, <1>6, <1>9, <2>1 DEF Touches
  <1>13. MarkOK(a)'
    <2>1. a \notin crossed => (q.row = 1 <=> mark[a] # 0) BY <1>1, <1>2 DEF MarksInv, AllFresh, Fresh
    <2> QED BY <1>4, <1>5, <1>6, <1>9, <2>1 DEF MarkOK
  <1>14. ASSUME NEW p \in Places, NEW u \in Everybody, a = ReadOf(p, u) PROVE FALSE
    BY <1>3, <1>14 DEF ReadOf, Marks
  <1>15. OneRoomPerGroup' BY <1>5, <1>6 DEF MarksInv, OneRoomPerGroup
  <1>16. ChannelsOK' /\ CallersAsked' BY <1>5, <1>6 DEF MarksInv, ChannelsOK, CallersAsked
  <1> QED BY <1>7, <1>10, <1>11, <1>12, <1>13, <1>14, <1>15, <1>16, Assembled


-----------------------------------------------------------------------------
(***************************************************************************)
(* Rooms and channels.                                                     *)
(***************************************************************************)
LEMMA FindRoomInv == ASSUME MarksInv, NEW r \in Requests, FindRoom(r) PROVE MarksInv'
  <1>1. PICK q, a : q = request[r] /\ a = q.about OBVIOUS
  <1>2. q \in RequestRecord /\ RequestOK(q) /\ q # Idle /\ q.pc = "findRoom"
    BY <1>1, Recorded DEF MarksInv, FindRoom, At
  <1>3. PICK g \in Groups : a = <<"room", g>> BY <1>1, <1>2 DEF RequestOK
  <1>4. UNCHANGED <<clock, tables, starts, history>> BY DEF FindRoom
  <1>5. UNCHANGED <<reads, channel, mark, room, crossed>> BY <1>4 DEF tables, history
  <1>6. PICK w : w = [q EXCEPT !.pc = "newRoom"] OBVIOUS
  <1>7. Goes(r, Idle) \/ (Goes(r, w) /\ \A d \in DmRooms : room[d] # g)
    <2>1. a[2] = g BY <1>3
    <2>2. Goes(r, IF \E d \in DmRooms : room[d] = g THEN Idle ELSE w) BY <1>1, <1>6, <2>1 DEF FindRoom
    <2> QED BY <2>2
  <1>8. /\ w \in RequestRecord /\ w.pc = "newRoom" /\ w.about = a
        /\ w.stamp = q.stamp /\ w.since = q.since
    BY <1>1, <1>2, <1>6 DEF RequestRecord, Steps
  <1>9. Step(r, a) /\ (request'[r] = Idle \/ (request'[r] = w /\ \A d \in DmRooms : room[d] # g))
    <2>1. clock' = clock /\ crossed' = crossed BY <1>4 DEF history
    <2>2. CASE Goes(r, Idle) BY <1>1, <1>2, <2>1, <2>2, Onward
    <2>3. CASE Goes(r, w) /\ \A d \in DmRooms : room[d] # g BY <1>1, <1>2, <1>8, <2>1, <2>3, Onward
    <2> QED BY <1>7, <2>2, <2>3
  <1>10. ASSUME request'[r] # Idle PROVE RequestOK(request[r])' /\ Fresh(request[r])'
    <2>1. request'[r] = w /\ \A d \in DmRooms : room[d] # g BY <1>9, <1>10
    <2>2. w.since <= w.stamp /\ w.stamp <= clock' BY <1>2, <1>4, <1>8 DEF RequestOK
    <2>3. RequestOK(w)' BY <1>3, <1>8, <2>2 DEF RequestOK
    <2>4. w.about[2] = g BY <1>3, <1>8
    <2>5. Fresh(w)' BY <1>5, <1>8, <2>1, <2>4 DEF Fresh
    <2> QED BY <2>1, <2>3, <2>5 DEF RequestOK, Fresh
  <1>11. starts' \in 0..MaxStarts BY <1>4 DEF MarksInv, TypeOK
  <1>12. request[r].pc # "tell" BY <1>1, <1>2
  <1> QED BY <1>4, <1>9, <1>10, <1>11, <1>12, Passive DEF history

LEMMA NewRoomInv == ASSUME MarksInv, NEW r \in Requests, NewRoom(r) PROVE MarksInv'
  <1>1. PICK q, a : q = request[r] /\ a = q.about OBVIOUS
  <1>2. RequestOK(q) /\ q # Idle /\ q.pc = "newRoom" BY <1>1, Recorded DEF MarksInv, NewRoom, At
  <1>3. PICK g \in Groups : a = <<"room", g>> BY <1>1, <1>2 DEF RequestOK
  <1>4. a[2] = g /\ g \subseteq Everybody BY <1>3, GroupAssumption
  <1>5. PICK d \in DmRooms : room[d] = None /\ d = CHOOSE x \in DmRooms : room[x] = None
    BY DEF NewRoom
  <1>6. /\ room' = [room EXCEPT ![d] = g] /\ Goes(r, Idle)
        /\ UNCHANGED <<clock, posted, reads, mark, serial, told, channel, callers, starts, history>>
    BY <1>1, <1>4, <1>5 DEF NewRoom
  <1>7. crossed' = crossed /\ askedAt' = askedAt /\ doneAt' = doneAt /\ early' = early BY <1>6 DEF history
  <1>8. Step(r, a) /\ request'[r] = Idle BY <1>1, <1>2, <1>6, <1>7, Onward
  <1>9. room \in [DmRooms -> {None} \cup SUBSET Everybody] BY DEF MarksInv, TypeOK
  <1>10. room' \in [DmRooms -> {None} \cup SUBSET Everybody] BY <1>4, <1>6, <1>9
  <1>11. room'[d] = g /\ \A e \in DmRooms : e # d => room'[e] = room[e] BY <1>6, <1>9
  <1>12. TypeOK' BY <1>6, <1>7, <1>10 DEF MarksInv, TypeOK
  <1>13. serial' \in Nat /\ TimesOK' BY <1>6, <1>7 DEF MarksInv, TimesOK
  <1>14. Touches(a)
    <2>1. \A p \in Places, u \in Everybody : Len(reads[p][u]) \in Nat BY LenTyped DEF MarksInv
    <2>2. \A e \in DmRooms : room'[e] # room[e] => a = <<"room", room'[e]>> BY <1>3, <1>11
    <2> QED BY <1>6, <1>7, <2>1, <2>2 DEF Touches
  <1>15. a \notin Marks /\ \A p \in Places, u \in Everybody : a # ReadOf(p, u) BY <1>3 DEF Marks, ReadOf
  <1>16. OneRoomPerGroup'
    <2>1. a \notin crossed => \A e \in DmRooms : room[e] # g
      BY <1>1, <1>2, <1>4 DEF MarksInv, AllFresh, Fresh
    <2>2. SUFFICES ASSUME NEW e \in DmRooms, NEW f \in DmRooms, e # f, room'[e] # None, room'[e] = room'[f]
                   PROVE  <<"room", room'[e]>> \in crossed
      BY <1>7 DEF OneRoomPerGroup
    <2>3. CASE e = d BY <1>3, <1>11, <2>1, <2>2, <2>3
    <2>4. CASE f = d BY <1>3, <1>11, <2>1, <2>2, <2>4
    <2>5. CASE e # d /\ f # d BY <1>11, <2>2, <2>5 DEF MarksInv, OneRoomPerGroup
    <2> QED BY <2>3, <2>4, <2>5
  <1>17. ChannelsOK' /\ CallersAsked' BY <1>6, <1>7 DEF MarksInv, ChannelsOK, CallersAsked
  <1> QED BY <1>8, <1>12, <1>13, <1>14, <1>15, <1>16, <1>17, Assembled

LEMMA NewChannelInv == ASSUME MarksInv, NEW r \in Requests, NewChannel(r) PROVE MarksInv'
  <1>1. PICK q, a : q = request[r] /\ a = q.about OBVIOUS
  <1>2. q \in RequestRecord /\ RequestOK(q) /\ q # Idle /\ q.pc = "newChannel"
    BY <1>1, Recorded DEF MarksInv, NewChannel, At
  <1>3. q.by \in Members /\ \E x \in Asked : a = <<"channel", x>> BY <1>1, <1>2 DEF RequestOK
  <1>4. PICK g \in Asked : a = <<"channel", g>> BY <1>3
  <1>5. a[2] = g /\ g \subseteq Everybody BY <1>4, GroupAssumption
  <1>6. PICK c \in Channels : channel[c] = None /\ c = CHOOSE x \in Channels : channel[x] = None
    BY DEF NewChannel
  <1>7. PICK new : new = [asked |-> {q.by} \cup g, listed |-> {}] OBVIOUS
  <1>8. PICK w : w = [q EXCEPT !.pc = "list", !.row = c] OBVIOUS
  <1>9. /\ channel' = [channel EXCEPT ![c] = new] /\ Goes(r, w)
        /\ UNCHANGED <<clock, posted, reads, mark, serial, told, room, callers, starts, history>>
    BY <1>1, <1>5, <1>6, <1>7, <1>8 DEF NewChannel
  <1>10. new \in [asked : SUBSET Everybody, listed : SUBSET Members] /\ new # None /\ new.listed = {}
    BY <1>3, <1>5, <1>7, NoneAssumption DEF Everybody
  <1>11. /\ w \in RequestRecord /\ w # Idle /\ w.pc = "list" /\ w.row = c /\ w.by = q.by /\ w.about = a
         /\ w.stamp = q.stamp /\ w.since = q.since
    <2>1. "list" \in Steps /\ c \in Nat \cup Channels /\ Moves(w, q, "list", c) BY <1>8 DEF Steps, Moves
    <2>2. /\ w \in RequestRecord /\ w # Idle /\ w.pc = "list" /\ w.row = c /\ w.by = q.by /\ w.about = q.about
          /\ w.stamp = q.stamp /\ w.since = q.since
      BY <1>2, <2>1, Moved
    <2> QED BY <1>1, <2>2
  <1>12. crossed' = crossed /\ askedAt' = askedAt /\ doneAt' = doneAt /\ early' = early BY <1>9 DEF history
  <1>13. Step(r, a) /\ request'[r] = w BY <1>1, <1>2, <1>9, <1>11, <1>12, Onward
  <1>14. channel \in [Channels -> {None} \cup [asked : SUBSET Everybody, listed : SUBSET Members]]
    BY DEF MarksInv, TypeOK
  <1>15. /\ channel' \in [Channels -> {None} \cup [asked : SUBSET Everybody, listed : SUBSET Members]]
         /\ channel'[c] = new /\ \A x \in Channels : x # c => channel'[x] = channel[x]
    BY <1>9, <1>10, <1>14
  <1>16. TypeOK' BY <1>9, <1>12, <1>15 DEF MarksInv, TypeOK
  <1>17. serial' \in Nat /\ TimesOK' BY <1>9, <1>12 DEF MarksInv, TimesOK
  <1>18. Touches(a)
    <2>1. \A p \in Places, u \in Everybody : Len(reads[p][u]) \in Nat BY LenTyped DEF MarksInv
    <2>2. \A x \in Channels : channel[x] # None => channel'[x] # None BY <1>6, <1>15
    <2> QED BY <1>9, <1>12, <2>1, <2>2 DEF Touches
  <1>19. a \notin Marks /\ \A p \in Places, u \in Everybody : a # ReadOf(p, u) BY <1>4 DEF Marks, ReadOf
  <1>20. RequestOK(w)'
    <2>1. w.since <= w.stamp /\ w.stamp <= clock' BY <1>2, <1>9, <1>11 DEF RequestOK
    <2> QED BY <1>3, <1>10, <1>11, <1>15, <2>1 DEF RequestOK
  <1>21. Fresh(w)' BY <1>11 DEF Fresh
  <1>22. RequestOK(request[r])' /\ Fresh(request[r])' BY <1>13, <1>20, <1>21 DEF RequestOK, Fresh
  <1>23. OneRoomPerGroup' BY <1>9, <1>12 DEF MarksInv, OneRoomPerGroup
  <1>24. ASSUME NEW x \in callers PROVE x[2] \in Channels /\ x[2] # c /\ channel'[x[2]] = channel[x[2]]
    <2>1. x[2] \in Channels BY DEF MarksInv, TypeOK
    <2>2. channel[x[2]] # None BY DEF MarksInv, ChannelsOK
    <2> QED BY <1>6, <1>15, <2>1, <2>2
  <1>25. ChannelsOK' BY <1>9, <1>10, <1>15, <1>24 DEF MarksInv, ChannelsOK
  <1>26. CallersAsked' BY <1>9, <1>12, <1>24 DEF MarksInv, CallersAsked
  <1> QED BY <1>13, <1>16, <1>17, <1>18, <1>19, <1>22, <1>23, <1>25, <1>26, Assembled

LEMMA ListMembersInv == ASSUME MarksInv, NEW r \in Requests, ListMembers(r) PROVE MarksInv'
  <1>1. PICK q, a : q = request[r] /\ a = q.about OBVIOUS
  <1>2. RequestOK(q) /\ q # Idle /\ q.pc = "list" BY <1>1, Recorded DEF MarksInv, ListMembers, At
  <1>3. /\ q.row \in Channels /\ channel[q.row] # None
        /\ \E x \in Asked : a = <<"channel", x>>
    BY <1>1, <1>2 DEF RequestOK
  <1>4. PICK c \in Channels : c = q.row BY <1>3
  <1>5. PICK old \in [asked : SUBSET Everybody, listed : SUBSET Members] : old = channel[c]
    BY <1>3, <1>4 DEF MarksInv, TypeOK
  <1>6. PICK new : new = [old EXCEPT !.listed = old.asked \cap Members] OBVIOUS
  <1>7. /\ channel' = [channel EXCEPT ![c] = new] /\ Goes(r, Idle)
        /\ UNCHANGED <<clock, posted, reads, mark, serial, told, room, callers, starts, history>>
    <2>1. channel' = [channel EXCEPT ![c].listed = channel[c].asked \cap Members] BY <1>1, <1>4 DEF ListMembers
    <2>2. channel' = [channel EXCEPT ![c] = new] BY <1>5, <1>6, <2>1
    <2> QED BY <2>2 DEF ListMembers
  <1>8. /\ new \in [asked : SUBSET Everybody, listed : SUBSET Members] /\ new # None
        /\ new.asked = old.asked /\ new.listed \subseteq new.asked
    BY <1>5, <1>6, NoneAssumption
  <1>9. crossed' = crossed /\ askedAt' = askedAt /\ doneAt' = doneAt /\ early' = early BY <1>7 DEF history
  <1>10. Step(r, a) /\ request'[r] = Idle BY <1>1, <1>2, <1>7, <1>9, Onward
  <1>11. channel \in [Channels -> {None} \cup [asked : SUBSET Everybody, listed : SUBSET Members]]
    BY DEF MarksInv, TypeOK
  <1>12. /\ channel' \in [Channels -> {None} \cup [asked : SUBSET Everybody, listed : SUBSET Members]]
         /\ channel'[c] = new /\ \A x \in Channels : x # c => channel'[x] = channel[x]
    BY <1>7, <1>8, <1>11
  <1>13. TypeOK' BY <1>7, <1>9, <1>12 DEF MarksInv, TypeOK
  <1>14. serial' \in Nat /\ TimesOK' BY <1>7, <1>9 DEF MarksInv, TimesOK
  <1>15. \A x \in Channels : channel[x] # None => channel'[x] # None BY <1>8, <1>12
  <1>16. Touches(a)
    <2>1. \A p \in Places, u \in Everybody : Len(reads[p][u]) \in Nat BY LenTyped DEF MarksInv
    <2> QED BY <1>7, <1>9, <1>15, <2>1 DEF Touches
  <1>17. a \notin Marks /\ \A p \in Places, u \in Everybody : a # ReadOf(p, u) BY <1>3 DEF Marks, ReadOf
  <1>18. OneRoomPerGroup' BY <1>7, <1>9 DEF MarksInv, OneRoomPerGroup
  <1>19. \A x \in Channels : channel[x] # None => channel'[x].asked = channel[x].asked BY <1>5, <1>8, <1>12
  <1>20. \A x \in callers : x[2] \in Channels /\ channel[x[2]] # None BY DEF MarksInv, TypeOK, ChannelsOK
  <1>21. ChannelsOK' BY <1>7, <1>8, <1>12, <1>15, <1>20 DEF MarksInv, ChannelsOK
  <1>22. CallersAsked' BY <1>7, <1>9, <1>19, <1>20 DEF MarksInv, CallersAsked
  <1> QED BY <1>10, <1>13, <1>14, <1>16, <1>17, <1>18, <1>21, <1>22, Assembled


-----------------------------------------------------------------------------
(***************************************************************************)
(* Messages and callers: no request takes part.                            *)
(***************************************************************************)
LEMMA PostInv == ASSUME MarksInv, NEW p \in Places, Post(p) PROVE MarksInv'
  <1>1. /\ clock < MaxPosts /\ clock' = clock + 1
        /\ posted' = [q \in Places |-> IF q = p \/ (p = "thread" /\ q = "channel")
                                       THEN posted[q] \cup {clock'} ELSE posted[q]]
        /\ UNCHANGED <<reads, mark, serial, told, room, channel, callers, request, starts, history>>
    BY DEF Post
  <1>2. crossed' = crossed /\ askedAt' = askedAt /\ doneAt' = doneAt /\ early' = early BY <1>1 DEF history
  <1>3. clock \in Nat /\ clock' \in Nat /\ clock <= clock' /\ clock' \in 1..MaxPosts
    BY <1>1, ClockTyped, BoundAssumption
  <1>4. posted \in [Places -> SUBSET (1..MaxPosts)] BY DEF MarksInv, TypeOK
  <1>5. posted' \in [Places -> SUBSET (1..MaxPosts)] BY <1>1, <1>3, <1>4
  <1>6. TypeOK' BY <1>1, <1>2, <1>3, <1>5 DEF MarksInv, TypeOK
  <1>7. serial' \in Nat /\ TimesOK' BY <1>1, <1>2 DEF MarksInv, TimesOK
  <1>8. \A x \in Places, u \in Everybody : Len(reads[x][u]) <= Len(reads'[x][u])
    <2>1. \A x \in Places, u \in Everybody : Len(reads[x][u]) \in Nat BY LenTyped DEF MarksInv
    <2> QED BY <1>1, <2>1
  <1>9. ASSUME NEW r \in Requests, request'[r] # Idle PROVE RequestOK(request[r])'
    <2>1. PICK q : q = request[r] OBVIOUS
    <2>2. q = request'[r] /\ q # Idle BY <1>1, <1>9, <2>1
    <2>3. RequestOK(q) /\ q.by \in Everybody /\ q.stamp \in Nat BY <2>1, <2>2, Recorded DEF MarksInv
    <2>4. \A c \in Channels : channel[c] # None => channel'[c] # None BY <1>1
    <2>5. RequestOK(q)' BY <1>3, <1>7, <1>8, <2>3, <2>4, StillOK DEF MarksInv
    <2> QED BY <2>2, <2>5 DEF RequestOK
  <1>10. RequestsOK' BY <1>1, <1>9 DEF MarksInv, RequestsOK
  <1>11. CrossedOK' BY <1>1, <1>2 DEF MarksInv, CrossedOK
  <1>12. AllFresh' BY <1>1, <1>2 DEF MarksInv, AllFresh, Fresh
  <1>13. ReadsOK' BY <1>1, <1>2 DEF MarksInv, ReadsOK, ReadOK
  <1>14. MarksOK' BY <1>1, <1>2 DEF MarksInv, MarksOK, MarkOK, Telling
  <1>15. OneRoomPerGroup' BY <1>1, <1>2 DEF MarksInv, OneRoomPerGroup
  <1>16. ChannelsOK' /\ CallersAsked' BY <1>1, <1>2 DEF MarksInv, ChannelsOK, CallersAsked
  <1> QED BY <1>6, <1>7, <1>10, <1>11, <1>12, <1>13, <1>14, <1>15, <1>16 DEF MarksInv

LEMMA JoinCallInv == ASSUME MarksInv, NEW u \in Members, NEW c \in Channels, JoinCall(u, c) PROVE MarksInv'
  <1>1. PICK x : x = <<u, c>> OBVIOUS
  <1>2. /\ channel[c] # None /\ (channel[c].listed = {} \/ u \in channel[c].listed)
        /\ callers' = callers \cup {x}
        /\ early' = IF channel[c].listed = {} THEN early \cup {x} ELSE early
        /\ UNCHANGED <<clock, posted, reads, mark, serial, told, room, channel, request, starts, askedAt, doneAt, crossed>>
    BY <1>1 DEF JoinCall, SfuChannelAccess
  <1>3. x \in Members \X Channels /\ x[1] = u /\ x[2] = c BY <1>1
  <1>4. TypeOK' BY <1>2, <1>3 DEF MarksInv, TypeOK
  <1>5. serial' \in Nat /\ TimesOK' BY <1>2 DEF MarksInv, TimesOK
  <1>6. RequestsOK' /\ CrossedOK' /\ AllFresh'
    BY <1>2 DEF MarksInv, RequestsOK, RequestOK, CrossedOK, AllFresh, Fresh
  <1>7. ReadsOK' BY <1>2 DEF MarksInv, ReadsOK, ReadOK
  <1>8. MarksOK' BY <1>2 DEF MarksInv, MarksOK, MarkOK, Telling
  <1>9. OneRoomPerGroup' BY <1>2 DEF MarksInv, OneRoomPerGroup
  <1>10. ChannelsOK' BY <1>2, <1>3 DEF MarksInv, ChannelsOK
  <1>11. CallersAsked'
    <2>1. x \notin early' => u \in channel[c].asked BY <1>2 DEF MarksInv, ChannelsOK
    <2> QED BY <1>2, <1>3, <2>1 DEF MarksInv, CallersAsked
  <1> QED BY <1>4, <1>5, <1>6, <1>7, <1>8, <1>9, <1>10, <1>11 DEF MarksInv

-----------------------------------------------------------------------------
LEMMA InitInv == ASSUME Init PROVE MarksInv
  <1>1. TypeOK
    <2>1. \A p \in Places, u \in Everybody : reads[p][u] \in Seq(0..MaxPosts) /\ Len(reads[p][u]) = 0
      BY DEF Init
    <2>2. 0 \in 0..MaxPosts /\ 0 \in 0..MaxStarts BY BoundAssumption
    <2>3. mark \in [Marks -> 0..serial] /\ told \in [Marks -> BOOLEAN] BY DEF Init
    <2> QED BY <2>1, <2>2, <2>3 DEF Init, TypeOK
  <1>2. serial \in Nat BY DEF Init
  <1>3. TimesOK BY DEF Init, TimesOK
  <1>4. RequestsOK /\ CrossedOK /\ AllFresh BY DEF Init, RequestsOK, CrossedOK, AllFresh
  <1>5. ReadsOK
    <2>1. \A p \in Places, u \in Everybody : Len(reads[p][u]) = 0 /\ askedAt[p][u] = 0 /\ doneAt[p][u] = 0
      BY DEF Init
    <2> QED BY <2>1 DEF ReadsOK, ReadOK
  <1>6. MarksOK BY DEF Init, MarksOK, MarkOK
  <1>7. OneRoomPerGroup BY DEF Init, OneRoomPerGroup
  <1>8. ChannelsOK /\ CallersAsked BY DEF Init, ChannelsOK, CallersAsked
  <1> QED BY <1>1, <1>2, <1>3, <1>4, <1>5, <1>6, <1>7, <1>8 DEF MarksInv

LEMMA StutterInv == ASSUME MarksInv, UNCHANGED vars PROVE MarksInv'
  <1>1. /\ UNCHANGED <<posted, reads, mark, serial, told, room, channel, callers>>
        /\ UNCHANGED <<clock, request, starts, askedAt, doneAt, crossed, early>>
    BY DEF vars, tables, history
  <1>2. TypeOK' /\ serial' \in Nat /\ TimesOK' BY <1>1 DEF MarksInv, TypeOK, TimesOK
  <1>3. RequestsOK' /\ CrossedOK' /\ AllFresh'
    BY <1>1 DEF MarksInv, RequestsOK, RequestOK, CrossedOK, AllFresh, Fresh
  <1>4. ReadsOK' /\ MarksOK' BY <1>1 DEF MarksInv, ReadsOK, ReadOK, MarksOK, MarkOK, Telling
  <1>5. OneRoomPerGroup' /\ ChannelsOK' /\ CallersAsked'
    BY <1>1 DEF MarksInv, OneRoomPerGroup, ChannelsOK, CallersAsked
  <1> QED BY <1>2, <1>3, <1>4, <1>5 DEF MarksInv

LEMMA NextInv == ASSUME MarksInv, [Next]_vars PROVE MarksInv'
  <1>1. ASSUME NEW r \in Requests, Ask(r) PROVE MarksInv' BY <1>1, AskInv
  <1>2. ASSUME NEW r \in Requests, Handle(r) PROVE MarksInv'
    BY <1>2, FindReadInv, SaveReadInv, FindMarkInv, AddMarkInv, DropMarkInv, TellReactionInv, FindRoomInv,
       NewRoomInv, NewChannelInv, ListMembersInv, FailInv DEF Handle
  <1>3. ASSUME NEW p \in Places, Post(p) PROVE MarksInv' BY <1>3, PostInv
  <1>4. ASSUME NEW u \in Members, NEW c \in Channels, JoinCall(u, c) PROVE MarksInv' BY <1>4, JoinCallInv
  <1>5. CASE UNCHANGED vars BY <1>5, StutterInv
  <1> QED BY <1>1, <1>2, <1>3, <1>4, <1>5 DEF Next

(* The inductive invariant holds in every state that can be reached.       *)
THEOREM MarksInvariance == Spec => []MarksInv
  <1> QED BY InitInv, NextInv, PTL DEF Spec

(* The rows are of their types and of one per unique key, a group of users *)
(* has one DM room unless it was asked for twice at once, and in a private *)
(* call are those who were asked for.                                      *)
THEOREM MarksFit == Spec => []Consistent
  <1>1. MarksInv => Consistent BY DEF MarksInv, Consistent
  <1> QED BY <1>1, MarksInvariance, PTL

(* What the clients were last told of a reaction, a saved message or a pin *)
(* is what its row says, once nobody is changing it.                       *)
THEOREM ClientsKnowMarks == Spec => []MarksTold
  <1>1. ASSUME MarksInv PROVE MarksTold
    <2> SUFFICES ASSUME NEW k \in Marks, Settled(k) PROVE told[k] <=> mark[k] # 0
      BY DEF MarksTold
    <2>1. k \notin crossed /\ ~Telling(k) BY DEF Settled, Busy, Telling
    <2>2. MarkOK(k) BY <1>1 DEF MarksInv, MarksOK
    <2> QED BY <2>1, <2>2 DEF MarkOK
  <1> QED BY <1>1, MarksInvariance, PTL

(* More messages are newer than an earlier time.                           *)
LEMMA NewerCounts ==
  ASSUME NEW P, P \subseteq 1..MaxPosts, NEW s \in Nat, NEW t \in Nat, s <= t
  PROVE  /\ Cardinality({x \in P : x > t}) <= Cardinality({x \in P : x > s})
         /\ Cardinality({x \in P : x > t}) \in Nat
  <1>1. IsFiniteSet(P)
    <2>1. IsFiniteSet(1..MaxPosts) BY FS_Interval, BoundAssumption
    <2> QED BY <2>1, FS_Subset
  <1>2. IsFiniteSet({x \in P : x > s}) /\ IsFiniteSet({x \in P : x > t}) BY <1>1, FS_Subset
  <1>3. {x \in P : x > t} \subseteq {x \in P : x > s}
    <2>1. ASSUME NEW x \in P, x > t PROVE x > s
      <3>1. x \in Int BY BoundAssumption
      <3> QED BY <2>1, <3>1
    <2> QED BY <2>1
  <1> QED BY <1>2, <1>3, FS_Subset, FS_CardinalityType

(* Whichever row is found, the unread messages of a place are those of     *)
(* after a time between the last question and the last answer.             *)
THEOREM UnreadCountsFit == Spec => []ReadMeansSeen
  <1>1. ASSUME MarksInv PROVE ReadMeansSeen
    <2> SUFFICES ASSUME NEW p \in Places, NEW u \in Everybody, Settled(<<"read", p, u>>), NEW n \in UnreadCounts(p, u)
                 PROVE  /\ n >= Cardinality({t \in posted[p] : t > doneAt[p][u]})
                        /\ n <= Cardinality({t \in posted[p] : t > askedAt[p][u]})
      BY DEF ReadMeansSeen
    <2>1. ReadOK(p, u) BY <1>1 DEF Settled, MarksInv, ReadsOK, ReadOf
    <2>2. PICK row, P, s, d : row = reads[p][u] /\ P = posted[p] /\ s = askedAt[p][u] /\ d = doneAt[p][u]
      OBVIOUS
    <2>3. row \in Seq(0..MaxPosts) /\ Len(row) \in Nat BY <1>1, <2>2, LenTyped DEF MarksInv
    <2>4. P \subseteq 1..MaxPosts /\ s \in Nat /\ d \in Nat BY <1>1, <2>2 DEF MarksInv, TypeOK, TimesOK
    <2>5. CASE Len(row) = 0
      <3>1. row = << >> /\ s = 0 /\ d = 0 BY <2>1, <2>2, <2>3, <2>5, EmptySeq DEF ReadOK
      <3>2. n = Cardinality(P) BY <2>2, <3>1 DEF UnreadCounts
      <3>3. {t \in P : t > 0} = P
        <4>1. \A t \in P : t > 0 BY <2>4
        <4> QED BY <4>1
      <3>4. s <= s BY <2>4
      <3>5. Cardinality({t \in P : t > s}) \in Nat BY <2>4, <3>4, NewerCounts
      <3>6. n \in Nat BY <3>1, <3>2, <3>3, <3>5
      <3>7. {t \in posted[p] : t > doneAt[p][u]} = P /\ {t \in posted[p] : t > askedAt[p][u]} = P
        BY <2>2, <3>1, <3>3
      <3> QED BY <3>2, <3>6, <3>7
    <2>6. CASE Len(row) # 0
      <3>1. Len(row) = 1
        <4>1. Len(row) <= 1 BY <2>1, <2>2 DEF ReadOK
        <4>2. PICK m \in Nat : m = Len(row) BY <2>3
        <4>3. m <= 1 /\ m # 0 BY <2>6, <4>1, <4>2
        <4> QED BY <4>2, <4>3
      <3>2. PICK t \in Nat : t = row[1]
        <4>1. 1 \in 1..Len(row) BY <3>1
        <4>2. row[1] \in 0..MaxPosts BY <2>3, <4>1, ElementOfSeq
        <4> QED BY <4>2
      <3>3. s <= t /\ t <= d BY <2>1, <2>2, <3>1, <3>2 DEF ReadOK
      <3>4. row # << >> BY <3>1
      <3>5. n = Cardinality({x \in P : x > t})
        BY <2>2, <3>1, <3>2, <3>4 DEF UnreadCounts
      <3>6. Cardinality({x \in P : x > d}) <= n BY <2>4, <3>3, <3>5, NewerCounts
      <3>7. n <= Cardinality({x \in P : x > s}) BY <2>4, <3>3, <3>5, NewerCounts
      <3>8. t <= t /\ d <= d BY <2>4
      <3>9. n \in Nat BY <2>4, <3>5, <3>8, NewerCounts
      <3> QED BY <2>2, <3>6, <3>7, <3>9
    <2> QED BY <2>5, <2>6
  <1> QED BY <1>1, MarksInvariance, PTL
==============================================================================
