----------------------------- MODULE SumTheorems -----------------------------
(***************************************************************************)
(* Facts about MapThenSumSet, the sum over a finite set: that its          *)
(* recursion has a solution, that it is a number no smaller than what it   *)
(* adds, and that it is bounded by the size of disjoint sets that bound    *)
(* the numbers it adds.  Induction is by a least counterexample.           *)
(***************************************************************************)
EXTENDS FiniteSetsExt, FiniteSetTheorems, TLAPS

-----------------------------------------------------------------------------
(* Induction *)

\* Among subsets of a finite set, some are counterexamples to a property only if
\* one is whose own subsets are none.
THEOREM LeastSubset ==
    ASSUME NEW K, IsFiniteSet(K), NEW T \in SUBSET SUBSET K, T # {}
    PROVE  \E s \in T : \A t \in SUBSET s : t # s => t \notin T
<1>1. IsWellFoundedOn(StrictSubsetOrdering(K), SUBSET K)
  BY FS_StrictSubsetOrderingWellFounded, FS_FiniteSubsetsOfFinite
<1>2. PICK s \in T : \A t \in T : <<t, s>> \notin StrictSubsetOrdering(K)
  BY <1>1, WFMin
<1>3. \A t \in T : ~(t \subseteq s /\ t # s)
  BY <1>2 DEF StrictSubsetOrdering
<1> QED
  BY <1>3

\* A set of natural numbers has a least one.
THEOREM LeastNumber ==
    ASSUME NEW T \in SUBSET Nat, T # {}
    PROVE  \E i \in T : \A j \in T : i <= j
<1> DEFINE R == {ss \in Nat \X Nat : ss[1] < ss[2]}
<1>1. IsWellFoundedOn(R, Nat)
  BY NatLessThanWellFounded DEF OpToRel
<1> HIDE DEF R
<1>2. PICK i \in T : \A j \in T : <<j, i>> \notin R
  BY <1>1, WFMin
<1>3. \A j \in T : ~(j < i)
  BY <1>2 DEF R
<1> QED
  BY <1>3

-----------------------------------------------------------------------------
(* The recursion *)

\* The element that a sum takes from a set first.
Pick(s) == CHOOSE x \in s : TRUE

\* One step of a sum over s, with g for the sums over smaller sets.
SumStep(f, g, s) == IF s = {} THEN 0 ELSE f[Pick(s)] + g[s \ {Pick(s)}]

\* The sums of f over every subset of K.
Sums(f, K) == CHOOSE g : g = [s \in SUBSET K |-> SumStep(f, g, s)]

\* The subsets of K with at most n elements.
Small(K, n) == {s \in SUBSET K : Cardinality(s) <= n}

\* What is left of a small set is smaller.
LEMMA Rest ==
    ASSUME NEW K, IsFiniteSet(K), NEW n \in Nat \ {0}, NEW s \in Small(K, n), s # {}
    PROVE  s \ {Pick(s)} \in Small(K, n - 1)
<1>1. Pick(s) \in s
  BY DEF Pick
<1>2. IsFiniteSet(s) /\ Cardinality(s) \in Nat /\ Cardinality(s) <= n
  BY FS_Subset, FS_CardinalityType DEF Small
<1>3. Cardinality(s \ {Pick(s)}) = Cardinality(s) - 1
  BY <1>1, <1>2, FS_RemoveElement
<1> QED
  BY <1>2, <1>3 DEF Small

\* The sums over small sets are defined.
LEMMA PartialSums ==
    ASSUME NEW K, IsFiniteSet(K), NEW f, NEW n \in Nat
    PROVE  \E g : g = [s \in Small(K, n) |-> SumStep(f, g, s)]
<1> DEFINE Undefined == {i \in Nat : ~ \E g : g = [s \in Small(K, i) |-> SumStep(f, g, s)]}
<1> SUFFICES ASSUME Undefined # {}
             PROVE  FALSE
  OBVIOUS
<1>1. PICK i \in Undefined : \A j \in Undefined : i <= j
  BY LeastNumber
<1>2. i \in Nat /\ ~ \E g : g = [s \in Small(K, i) |-> SumStep(f, g, s)]
  OBVIOUS
<1>3. CASE i = 0
  <2> DEFINE h == [s \in Small(K, 0) |-> 0]
  <2>1. \A s \in Small(K, 0) : s = {}
    BY FS_Subset, FS_CardinalityType, FS_EmptySet DEF Small
  <2>2. \A s \in Small(K, 0) : SumStep(f, h, s) = 0
    BY <2>1 DEF SumStep
  <2>3. h = [s \in Small(K, 0) |-> SumStep(f, h, s)]
    BY <2>2
  <2> QED
    BY <1>2, <1>3, <2>3
<1>4. CASE i # 0
  <2>1. i - 1 \in Nat /\ i - 1 \notin Undefined
    BY <1>1, <1>2, <1>4
  <2>2. PICK g : g = [s \in Small(K, i - 1) |-> SumStep(f, g, s)]
    BY <2>1
  <2> DEFINE h == [s \in Small(K, i) |-> SumStep(f, g, s)]
  <2>3. Small(K, i - 1) \subseteq Small(K, i)
    <3>1. \A s \in SUBSET K : Cardinality(s) \in Nat
      BY FS_Subset, FS_CardinalityType
    <3> QED
      BY <1>2, <3>1 DEF Small
  <2>4. \A s \in Small(K, i - 1) : h[s] = g[s]
    BY <2>2, <2>3
  <2>5. ASSUME NEW s \in Small(K, i)
        PROVE  SumStep(f, g, s) = SumStep(f, h, s)
    <3>1. CASE s = {}
      BY <3>1 DEF SumStep
    <3>2. CASE s # {}
      <4>1. s \ {Pick(s)} \in Small(K, i - 1)
        BY <1>2, <1>4, <3>2, Rest
      <4>2. h[s \ {Pick(s)}] = g[s \ {Pick(s)}]
        BY <2>4, <4>1
      <4> HIDE DEF h
      <4> QED
        BY <3>2, <4>2 DEF SumStep
    <3> QED
      BY <3>1, <3>2
  <2>6. h = [s \in Small(K, i) |-> SumStep(f, h, s)]
    BY <2>5
  <2> QED
    BY <1>2, <2>6
<1> QED
  BY <1>3, <1>4

\* The recursion of a sum over a finite set has the solution it names.
LEMMA SumsRecursion ==
    ASSUME NEW K, IsFiniteSet(K), NEW f
    PROVE  /\ \A s \in SUBSET K : Sums(f, K)[s] = SumStep(f, Sums(f, K), s)
           /\ Sums(f, K)[{}] = 0
           /\ \A s \in SUBSET K : s # {} =>
                /\ Pick(s) \in s
                /\ Sums(f, K)[s] = f[Pick(s)] + Sums(f, K)[s \ {Pick(s)}]
<1>1. Small(K, Cardinality(K)) = SUBSET K
  BY FS_Subset DEF Small
<1>2. Cardinality(K) \in Nat
  BY FS_CardinalityType
<1>3. \E g : g = [s \in SUBSET K |-> SumStep(f, g, s)]
  <2>1. \E g : g = [s \in Small(K, Cardinality(K)) |-> SumStep(f, g, s)]
    BY <1>2, PartialSums
  <2> QED
    BY <1>1, <2>1
<1>4. Sums(f, K) = [s \in SUBSET K |-> SumStep(f, Sums(f, K), s)]
  BY <1>3 DEF Sums
<1>5. \A s \in SUBSET K : Sums(f, K)[s] = SumStep(f, Sums(f, K), s)
  BY <1>4
<1>6. ASSUME NEW s \in SUBSET K, s # {}
      PROVE  /\ Pick(s) \in s
             /\ Sums(f, K)[s] = f[Pick(s)] + Sums(f, K)[s \ {Pick(s)}]
  BY <1>5, <1>6 DEF SumStep, Pick
<1>7. Sums(f, K)[{}] = 0
  BY <1>5 DEF SumStep
<1> QED
  BY <1>5, <1>6, <1>7

-----------------------------------------------------------------------------
(* What a sum is worth *)

\* A sum of natural numbers is a natural number, and no smaller than any of them.
THEOREM SumsAreNaturals ==
    ASSUME NEW K, IsFiniteSet(K), NEW f, \A k \in K : f[k] \in Nat
    PROVE  \A s \in SUBSET K : /\ Sums(f, K)[s] \in Nat
                               /\ \A k \in s : f[k] <= Sums(f, K)[s]
<1> DEFINE P(s) == Sums(f, K)[s] \in Nat /\ \A k \in s : f[k] <= Sums(f, K)[s]
           T == {s \in SUBSET K : ~P(s)}
<1> SUFFICES ASSUME T # {}
             PROVE  FALSE
  OBVIOUS
<1>1. PICK s \in T : \A t \in SUBSET s : t # s => t \notin T
  <2>1. T \in SUBSET SUBSET K
    OBVIOUS
  <2> HIDE DEF T
  <2> QED
    BY <2>1, LeastSubset
<1>2. s \subseteq K /\ ~P(s)
  OBVIOUS
<1>3. CASE s = {}
  BY <1>2, <1>3, SumsRecursion
<1>4. CASE s # {}
  <2> DEFINE x == Pick(s)
             t == s \ {x}
  <2>1. x \in s /\ Sums(f, K)[s] = f[x] + Sums(f, K)[t]
    BY <1>2, <1>4, SumsRecursion
  <2>2. P(t)
    <3>1. t \in SUBSET s /\ t # s /\ t \in SUBSET K
      BY <1>2, <2>1
    <3> QED
      BY <1>1, <3>1
  <2>3. f[x] \in Nat
    BY <1>2, <2>1
  <2>4. Sums(f, K)[s] \in Nat
    BY <2>1, <2>2, <2>3
  <2>5. ASSUME NEW k \in s
        PROVE  f[k] <= Sums(f, K)[s]
    <3>1. CASE k = x
      <4> HIDE DEF x, t
      <4> QED
        BY <2>1, <2>2, <2>3, <3>1
    <3>2. CASE k # x
      <4>1. k \in t /\ f[k] \in Nat
        BY <1>2, <3>2
      <4> HIDE DEF x, t
      <4> QED
        BY <2>1, <2>2, <2>3, <4>1
    <3> QED
      BY <3>1, <3>2
  <2> QED
    BY <1>2, <2>4, <2>5
<1> QED
  BY <1>3, <1>4

\* What disjoint sets have together.
Together(C, s) == UNION {C[k] : k \in s}

\* A sum of sizes of disjoint sets, or of less, is at most what they have together.
THEOREM SumsAreBounded ==
    ASSUME NEW K, IsFiniteSet(K), NEW f, NEW C, NEW U, IsFiniteSet(U),
           \A k \in K : C[k] \subseteq U /\ f[k] \in Nat /\ f[k] <= Cardinality(C[k]),
           \A j, k \in K : j # k => C[j] \cap C[k] = {}
    PROVE  \A s \in SUBSET K : Sums(f, K)[s] <= Cardinality(Together(C, s))
<1> DEFINE P(s) == Sums(f, K)[s] <= Cardinality(Together(C, s))
           T == {s \in SUBSET K : ~P(s)}
<1> SUFFICES ASSUME T # {}
             PROVE  FALSE
  OBVIOUS
<1>1. PICK s \in T : \A t \in SUBSET s : t # s => t \notin T
  <2>1. T \in SUBSET SUBSET K
    OBVIOUS
  <2> HIDE DEF T
  <2> QED
    BY <2>1, LeastSubset
<1>2. s \subseteq K /\ ~P(s)
  OBVIOUS
<1>3. CASE s = {}
  <2>1. Together(C, s) = {}
    BY <1>3 DEF Together
  <2>2. Cardinality(Together(C, s)) = 0
    BY <2>1, FS_EmptySet
  <2>3. Sums(f, K)[s] = 0
    BY <1>3, SumsRecursion
  <2> QED
    BY <1>2, <2>2, <2>3
<1>4. CASE s # {}
  <2> DEFINE x == Pick(s)
             t == s \ {x}
  <2>1. x \in s /\ Sums(f, K)[s] = f[x] + Sums(f, K)[t]
    BY <1>2, <1>4, SumsRecursion
  <2>2. P(t)
    <3>1. t \in SUBSET s /\ t # s /\ t \in SUBSET K
      BY <1>2, <2>1
    <3> QED
      BY <1>1, <3>1
  <2>3. /\ C[x] \subseteq U /\ Together(C, t) \subseteq U
        /\ Together(C, s) = C[x] \cup Together(C, t)
        /\ C[x] \cap Together(C, t) = {}
    BY <1>2, <2>1 DEF Together
  <2>4. Cardinality(Together(C, s)) = Cardinality(C[x]) + Cardinality(Together(C, t))
    <3> HIDE DEF x, t
    <3>1. /\ IsFiniteSet(C[x]) /\ IsFiniteSet(Together(C, t))
          /\ Cardinality(C[x]) \in Nat /\ Cardinality(Together(C, t)) \in Nat
      BY <2>3, FS_Subset, FS_CardinalityType
    <3>2. Cardinality(C[x] \cup Together(C, t))
            = Cardinality(C[x]) + Cardinality(Together(C, t)) - Cardinality(C[x] \cap Together(C, t))
      BY <3>1, FS_Union
    <3>3. Cardinality(C[x] \cap Together(C, t)) = 0
      BY <2>3, FS_EmptySet
    <3> QED
      BY <2>3, <3>1, <3>2, <3>3
  <2>5. /\ f[x] \in Nat /\ f[x] <= Cardinality(C[x]) /\ Sums(f, K)[t] \in Nat
    <3>1. x \in K /\ t \in SUBSET K
      BY <1>2, <2>1
    <3> HIDE DEF x, t
    <3> QED
      BY <3>1, SumsAreNaturals
  <2>6. Cardinality(C[x]) \in Nat /\ Cardinality(Together(C, t)) \in Nat
    <3> HIDE DEF x, t
    <3> QED
      BY <2>3, FS_Subset, FS_CardinalityType
  <2>7. P(s)
    <3> HIDE DEF x, t
    <3> QED
      BY <2>1, <2>2, <2>4, <2>5, <2>6
  <2> QED
    BY <1>2, <2>7
<1> QED
  BY <1>3, <1>4
=============================================================================
