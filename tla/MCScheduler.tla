---------------------------- MODULE MCScheduler ----------------------------
(***************************************************************************)
(* Instances of Scheduler for TLC.  Time unit: 5s, the look-ahead.  The    *)
(* cadences are 10s (window 5s) and 20s (window 10s), so that an interval  *)
(* can grow to where the new window reaches an active job.                 *)
(***************************************************************************)
EXTENDS Scheduler, TLC

CONSTANTS m1, m2, eu, i1, i2, c1, c2, fast, slow

OneRegion == m1 :> {eu}
TwoMonitors == m1 :> {eu} @@ m2 :> {eu}
Fast == fast :> 2
FastWindow == fast :> 1
Periods == fast :> 2 @@ slow :> 4
Windows == fast :> 1 @@ slow :> 2
InstanceSymmetry == Permutations({i1, i2})
=============================================================================
