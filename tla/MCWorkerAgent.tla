--------------------------- MODULE MCWorkerAgent ---------------------------
(***************************************************************************)
(* Instances of WorkerAgent for TLC: two slots, two runs of which one is   *)
(* long enough to be renewed, and a third goroutine for the execution of a *)
(* run that was leased to the worker twice.                                *)
(***************************************************************************)
EXTENDS WorkerAgent

CONSTANTS r1, r2, r3, e1, e2, e3
=============================================================================
