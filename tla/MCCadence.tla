----------------------------- MODULE MCCadence -----------------------------
(***************************************************************************)
(* Cadence in units of 50ms: a second is 20 units and the 2^32 ns of the   *)
(* hash are 86.  The intervals are all small ones and those around every   *)
(* boundary of the two functions (10s, 30s, 2min), and some large ones.    *)
(***************************************************************************)
EXTENDS Cadence

MCIntervals == 0 .. 42 \cup 198 .. 203 \cup 598 .. 603 \cup 2398 .. 2403
               \cup {1199, 1200, 1201, 6000, 12001, 72000}
=============================================================================
