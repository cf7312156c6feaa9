---------------------------- MODULE CadenceProofs ----------------------------
(***************************************************************************)
(* The jitter and the dedup window for every interval, every hash and every *)
(* unit of time.                                                           *)
(***************************************************************************)
EXTENDS Cadence, TLAPS

\* A remainder is smaller than its divisor.
LEMMA Remainder ==
    ASSUME NEW h \in Nat, NEW k \in Nat \ {0}
    PROVE  h % k \in 0 .. k - 1
  BY Z3

LEMMA Percentages ==
    ASSUME NEW i \in Nat
    PROVE  /\ MaxJitter(i) \in Nat
           /\ 100 * MaxJitter(i) <= i * MaxJitterPercent(i)
           /\ MaxJitterPercent(i) \in {1, 10}
           /\ i <= Seconds(30) => MaxJitterPercent(i) = 1
  <1>1. MaxJitterPercent(i) \in {1, 10} /\ (i <= Seconds(30) => MaxJitterPercent(i) = 1)
    BY DEF MaxJitterPercent
  <1>2. CASE MaxJitterPercent(i) = 1
    BY <1>1, <1>2, Z3 DEF MaxJitter
  <1>3. CASE MaxJitterPercent(i) = 10
    BY <1>1, <1>3, Z3 DEF MaxJitter
  <1>. QED  BY <1>1, <1>2, <1>3

\* How far the jitter moves an interval.
LEMMA JitterIsSmall ==
    ASSUME NEW i \in Nat, NEW h \in Nat
    PROVE  /\ ApplyJitter(i, h) \in Int
           /\ Abs(ApplyJitter(i, h) - i) \in Nat
           /\ i <= Seconds(10) => ApplyJitter(i, h) = i
           /\ 100 * Abs(ApplyJitter(i, h) - i) <= i * MaxJitterPercent(i)
           /\ ApplyJitter(i, h) >= i - Abs(ApplyJitter(i, h) - i)
  <1>1. /\ MaxJitter(i) \in Nat /\ 100 * MaxJitter(i) <= i * MaxJitterPercent(i)
        /\ i * MaxJitterPercent(i) \in Nat
    BY Percentages
  <1>2. CASE i <= Seconds(10) \/ MaxJitter(i) = 0
    <2>1. ApplyJitter(i, h) = i
      BY <1>2 DEF ApplyJitter
    <2>2. Abs(ApplyJitter(i, h) - i) = 0
      BY <2>1 DEF Abs
    <2>. QED  BY <2>1, <2>2, <1>1
  <1>3. CASE ~(i <= Seconds(10)) /\ MaxJitter(i) # 0
    <2>. DEFINE jitter == h % MaxJitter(i)
    <2>1. jitter \in 0 .. MaxJitter(i) - 1
      BY <1>1, <1>3, Remainder
    <2>2. ApplyJitter(i, h) = i + jitter \/ ApplyJitter(i, h) = i - jitter
      BY <1>3 DEF ApplyJitter
    <2>. HIDE DEF jitter
    <2>3. Abs(ApplyJitter(i, h) - i) = jitter
      BY <2>1, <2>2, <1>1 DEF Abs
    <2>. QED  BY <1>1, <1>3, <2>1, <2>2, <2>3
  <1>. QED  BY <1>2, <1>3

\* The bounds of the documentation hold for one interval and hash.
LEMMA BoundsOf ==
    ASSUME NEW i \in Nat, NEW h \in Nat
    PROVE  LET off == Abs(ApplyJitter(i, h) - i)
           IN  /\ i <= Seconds(10) => off = 0
               /\ i <= Seconds(30) => 100 * off <= i
               /\ 10 * off <= i
  <1>. DEFINE off == Abs(ApplyJitter(i, h) - i)
  <1>1. off \in Nat /\ 100 * off <= i * MaxJitterPercent(i)
    BY JitterIsSmall
  <1>2. i <= Seconds(10) => off = 0
    BY JitterIsSmall DEF Abs
  <1>. HIDE DEF off
  <1>3. CASE MaxJitterPercent(i) = 1
    BY <1>1, <1>2, <1>3 DEF off
  <1>4. CASE MaxJitterPercent(i) = 10 /\ ~(i <= Seconds(30))
    BY <1>1, <1>2, <1>4 DEF off
  <1>. QED  BY <1>3, <1>4, Percentages

\* The step to the next job leaves the window of the last one.
LEMMA LeavesWindow ==
    ASSUME NEW i \in Nat, NEW h \in Nat, i > HalfSecond
    PROVE  CalculateDedupWindow(i) < ApplyJitter(i, h)
  <1>. DEFINE off == Abs(ApplyJitter(i, h) - i)
  <1>1. HalfSecond \in Nat \ {0}
    BY CadenceConstants
  <1>2. off \in Nat /\ 10 * off <= i /\ ApplyJitter(i, h) \in Int
        /\ ApplyJitter(i, h) >= i - off
    BY BoundsOf, JitterIsSmall
  <1>3. i <= Seconds(10) => ApplyJitter(i, h) = i
    BY JitterIsSmall
  <1>. HIDE DEF off
  <1>4. i \div 2 \in Nat /\ 2 * (i \div 2) <= i
    BY Z3
  <1>5. CASE i \div 2 < HalfSecond
    <2>1. i <= Seconds(10)
      BY <1>1, <1>5, Z3 DEF Seconds
    <2>2. ApplyJitter(i, h) = i
      BY <2>1, <1>3
    <2>3. CalculateDedupWindow(i) = HalfSecond
      BY <1>5 DEF CalculateDedupWindow
    <2>. QED  BY <1>1, <2>2, <2>3
  <1>6. CASE ~(i \div 2 < HalfSecond)
    <2>1. Seconds(60) \in Int
      BY <1>1 DEF Seconds
    <2>2. CalculateDedupWindow(i) \in Int /\ CalculateDedupWindow(i) <= i \div 2
      BY <1>1, <1>4, <1>6, <2>1 DEF CalculateDedupWindow
    <2>. QED  BY <1>1, <1>2, <1>4, <2>2
  <1>. QED  BY <1>5, <1>6, <1>1, <1>4

\* The interval and the hash are always numbers.
Numbers == interval \in Nat /\ hash \in Nat

LEMMA CadenceType == Spec => []Numbers
  <1>1. Init => Numbers
    BY CadenceConstants DEF Init, Numbers
  <1>2. Numbers /\ [Next]_vars => Numbers'
    BY CadenceConstants DEF Next, ChangeInterval, vars, Numbers
  <1>. QED  BY <1>1, <1>2, PTL DEF Spec

\* The jitter never exceeds its documented bounds, for any interval, any hash and
\* any resolution of the clock.
THEOREM JitterWithinDocumentedBoundsHolds == Spec => []JitterWithinDocumentedBounds
  <1>1. Numbers => JitterWithinDocumentedBounds
    BY BoundsOf DEF Numbers, JitterWithinDocumentedBounds
  <1>. QED  BY <1>1, CadenceType, PTL

\* A monitor on schedule is never taken for its own duplicate, if its interval is
\* above 500ms: the assumption Window < Period of the scheduler's model.
THEOREM NextJobLeavesWindowHolds == Spec => []NextJobLeavesWindow
  <1>1. Numbers => NextJobLeavesWindow
    BY LeavesWindow, CadenceConstants DEF Numbers, NextJobLeavesWindow
  <1>. QED  BY <1>1, CadenceType, PTL
=============================================================================
