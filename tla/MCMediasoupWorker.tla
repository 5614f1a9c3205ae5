-------------------------- MODULE MCMediasoupWorker --------------------------
(***************************************************************************)
(* MediasoupWorker with the code's constants: five attempts, 3 s base and  *)
(* 30 s maximal delay.  Three process ids and two loops leave room for a   *)
(* second worker or a second loop, should the code ever start one.         *)
(***************************************************************************)
EXTENDS MediasoupWorker
=============================================================================
