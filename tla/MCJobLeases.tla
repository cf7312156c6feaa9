---------------------------- MODULE MCJobLeases ----------------------------
(***************************************************************************)
(* Instances of JobLeases for TLC.  Time unit: 15s, so the lease of 45s is *)
(* 3 ticks and an undisturbed execution (20s of check and 10s of submit,   *)
(* or a renewal every 10s) is 2.                                           *)
(***************************************************************************)
EXTENDS JobLeases, TLC

CONSTANTS r1, r2, m1, m2, w1, w2, eu, us

TwoMonitors == r1 :> m1 @@ r2 :> m2
\* r1 is for any region, r2 for eu only.
Regions == r1 :> Global @@ r2 :> eu
\* w1 serves both jobs, w2 only the global one.
Serves == w1 :> eu @@ w2 :> us
\* r2 is scheduled after r1.
Schedule == r1 :> 0 @@ r2 :> 4
\* A single global job of one monitor, scheduled at 0.
OneJob == r1 :> m1
GlobalJob == r1 :> Global
SameRegion == w1 :> eu @@ w2 :> eu
\* w2, which competes for the global job only, submits again after a failure.
Retries == w1 :> 1 @@ w2 :> 2
BothRetry == w1 :> 2 @@ w2 :> 2
At0 == r1 :> 0
=============================================================================
