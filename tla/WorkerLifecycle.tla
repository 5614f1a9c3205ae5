--------------------------- MODULE WorkerLifecycle ---------------------------
(***************************************************************************)
(* What the SFU promises about its one mediasoup worker process, as the    *)
(* rest of the server sees it.  MediasoupWorker is shown to implement this *)
(* specification, and SfuRooms uses it in place of that module.            *)
(***************************************************************************)

VARIABLE phase

Phases == {"starting", "up", "crashed", "restarting", "fallback"}

TypeOK == phase \in Phases

Init == phase = "starting"

\* A worker process comes into service.
ComeUp == /\ phase \in {"starting", "restarting"}
          /\ phase' = "up"

\* The worker process exits; the server has not seen it yet.
Crash == /\ phase = "up"
         /\ phase' = "crashed"

\* The server sees the exit, drops every router and starts a replacement.
Notice == /\ phase = "crashed"
          /\ phase' = "restarting"

\* The attempts are used up: calls are served without media from now on.
GiveUp == /\ phase \in {"starting", "restarting"}
          /\ phase' = "fallback"

Next == ComeUp \/ Crash \/ Notice \/ GiveUp

Fairness == /\ WF_phase(ComeUp \/ GiveUp)
            /\ WF_phase(Notice)

SafetySpec == Init /\ [][Next]_phase
Spec == SafetySpec /\ Fairness

\* MediasoupService.isAvailable(): the flag stays set until the exit is seen.
Available(p) == p \in {"up", "crashed"}
=============================================================================
