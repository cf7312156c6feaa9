------------------------------- MODULE Cadence -------------------------------
(***************************************************************************)
(* How often a monitor runs: the scheduler stretches or shrinks every      *)
(* interval by a jitter that depends on the monitor's id, and looks for    *)
(* duplicates in a window that depends on the interval.                    *)
(*                                                                         *)
(* Durations are integers of an unspecified unit (the code's is 1ns).      *)
(***************************************************************************)
EXTENDS Integers

CONSTANTS
    HalfSecond,  \* 500ms, in units
    HashRange,   \* the values of a 32-bit hash, 2^32 in the code
    Intervals    \* the intervals users choose

ASSUME CadenceConstants ==
    /\ HalfSecond \in Nat \ {0} /\ HashRange \in Nat \ {0}
    /\ Intervals \subseteq Nat

VARIABLES
    interval,    \* interval_ms of a monitor
    hash         \* FNV-1a of its id and jitter_seed, which never change

vars == <<interval, hash>>

Seconds(n) == 2 * n * HalfSecond

MaxJitterPercent(i) == IF i <= Seconds(30) THEN 1 ELSE 10

MaxJitter(i) == (i * MaxJitterPercent(i)) \div 100

\* Mutation of ApplyJitter: the jitter is not reduced to its range.
ApplyJitterUnbounded(i, h) ==
    IF i <= Seconds(10) \/ MaxJitter(i) = 0 THEN i
    ELSE IF h % 2 = 0 THEN i + h ELSE i - h

\* Even hashes stretch the interval, odd ones shrink it.
ApplyJitter(i, h) ==
    IF i <= Seconds(10) \/ MaxJitter(i) = 0 THEN i
    ELSE LET jitter == h % MaxJitter(i)
         IN  IF h % 2 = 0 THEN i + jitter ELSE i - jitter

\* Mutation of CalculateDedupWindow: the whole interval, not half of it.
CalculateDedupWindowFull(i) ==
    IF i < HalfSecond THEN HalfSecond ELSE IF i > Seconds(60) THEN Seconds(60) ELSE i

\* Half the interval, but no less than 500ms and no more than a minute.
CalculateDedupWindow(i) ==
    LET half == i \div 2
    IN  IF half < HalfSecond THEN HalfSecond
        ELSE IF half > Seconds(60) THEN Seconds(60) ELSE half

Init == interval \in Intervals /\ hash \in 0 .. HashRange - 1

\* UpdateMonitor: the user chooses another interval.
ChangeInterval == interval' \in Intervals /\ UNCHANGED hash

Next == ChangeInterval

Spec == Init /\ [][Next]_vars

-----------------------------------------------------------------------------
(* Properties *)

Abs(n) == IF n < 0 THEN -n ELSE n

\* The jitter never exceeds what control-plane/README.md grants: nothing up to
\* 10s, 1% up to 30s and 10% above, on either side and at every boundary.
JitterWithinDocumentedBounds ==
    LET off == Abs(ApplyJitter(interval, hash) - interval)
    IN  /\ interval <= Seconds(10) => off = 0
        /\ interval <= Seconds(30) => 100 * off <= interval
        /\ 10 * off <= interval

\* The shortest step to a monitor's next job leaves the dedup window of the last
\* one, so a slow worker never costs a monitor on schedule its next check.  It
\* holds above 500ms, where the window's lower limit catches up with the interval.
NextJobLeavesWindow ==
    interval > HalfSecond => CalculateDedupWindow(interval) < ApplyJitter(interval, hash)

\* cmd/control-plane/README.md:71, "10% jitter for >30s intervals (thundering herd
\* protection)": at least some hash moves an interval above 30s by nearly 10%.
JitterReachesTenPercent ==
    interval > Seconds(30) =>
        \E h \in 0 .. HashRange - 1 : 100 * Abs(ApplyJitter(interval, h) - interval) >= 9 * interval
=============================================================================
