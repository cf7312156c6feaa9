---------------------------- MODULE MCWorkerAuth ----------------------------
(***************************************************************************)
(* Instances of WorkerAuth for TLC.  The times keep the order of the ones  *)
(* in the code: heartbeats every 15s at most, a TTL of 30s, a minute until *)
(* a worker is unhealthy and two until it is inactive.                     *)
(***************************************************************************)
EXTENDS WorkerAuth, TLC

CONSTANTS w1, i1, i2, poll, s1

\* The two goroutines of the worker keep connections to different instances.
Apart == poll :> {i1} @@ s1 :> {i2}
OneRegion == w1 :> "eu"
=============================================================================
