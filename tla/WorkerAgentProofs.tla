-------------------------- MODULE WorkerAgentProofs --------------------------
(***************************************************************************)
(* Proofs, for every number of runs, slots, goroutines and attempts, of    *)
(* the type invariant of WorkerAgent, of the bound on its slots and of its *)
(* two action properties.                                                  *)
(***************************************************************************)
EXTENDS WorkerAgent, FiniteSetTheorems, TLAPS

-----------------------------------------------------------------------------
(* The inductive invariant *)

\* Goroutines that were started for a run and have not registered it.
Received == {e \in Executions : execs[e].stage = "received"}

\* An execution of a registered run, past Register.
Past(e) == execs[e].stage \notin {"none", "received"}

ExecRec == [stage : ExecStages, run : Runs \cup {None}, attempt : 1 .. MaxAttempts]

\* Every goroutine has a run, and one that waits has an attempt left.
ExecsSound ==
    \A e \in Executions : /\ execs[e].stage # "none" => execs[e].run \in Runs
                          /\ execs[e].stage = "wait" => execs[e].attempt < MaxAttempts

\* Renewals go on only beside their execution.
RenewalsLive == \A e \in Executions : renewals[e] # "none" => execs[e].stage # "none"

\* While the process runs, the entry of a run that is executed is missing only
\* after another execution of the run settled it.
MissingSettled ==
    ctx = "live" => \A e \in Executions :
        Past(e) /\ activeJobs[execs[e].run] = None => execs[e].run \in settled

\* The slots in use, those of runs not registered yet and those asked for.
SlotBudget == Cardinality(Registered) + Cardinality(Received) + poll.slots <= MaxConcurrency

Inv == TypeOK /\ ExecsSound /\ RenewalsLive /\ MissingSettled /\ SlotBudget

-----------------------------------------------------------------------------
(* What the steps of executeCheck and sendResult do to an execution *)

\* It goes on, over its own entry or not.
Moves(e) ==
    /\ Past(e)
    /\ \E x \in ExecRec : /\ x.run = execs[e].run /\ x.stage \notin {"none", "received"}
                          /\ x.stage = "wait" => x.attempt < MaxAttempts
                          /\ execs' = [execs EXCEPT ![e] = x]
    /\ UNCHANGED <<activeJobs, renewals, settled>>

\* It ends without touching the entry of its run.
Ends(e) == Past(e) /\ Returned(e) /\ UNCHANGED <<activeJobs, settled>>

\* It ends and releases the slot of its run.
Releases(e) == Past(e) /\ Released(e)

\* An execution that changes its stage is an execution.
LEMMA AtStage ==
    ASSUME TypeOK, NEW e \in Executions, NEW s \in ExecStages
    PROVE  /\ [execs[e] EXCEPT !.stage = s] \in ExecRec
           /\ [execs[e] EXCEPT !.stage = s].stage = s
           /\ [execs[e] EXCEPT !.stage = s].run = execs[e].run
           /\ [execs[e] EXCEPT !.stage = s].attempt = execs[e].attempt
           /\ At(e, s) = [execs EXCEPT ![e] = [execs[e] EXCEPT !.stage = s]]
<1>1. execs \in [Executions -> ExecRec] /\ execs[e] \in ExecRec
  BY DEF TypeOK, ExecRec
<1> QED
  BY <1>1 DEF At, ExecRec

\* A step to another stage, other than a wait, moves the execution.
LEMMA StageMoves ==
    ASSUME TypeOK, NEW e \in Executions, NEW s \in ExecStages \ {"none", "received", "wait"},
           Past(e), execs' = At(e, s), UNCHANGED <<activeJobs, renewals, settled>>
    PROVE  Moves(e)
<1> DEFINE x == [execs[e] EXCEPT !.stage = s]
<1>1. /\ x \in ExecRec /\ x.run = execs[e].run /\ x.stage = s
      /\ execs' = [execs EXCEPT ![e] = x]
  BY AtStage
<1> HIDE DEF x
<1> QED
  BY <1>1 DEF Moves

\* A failed attempt is repeated or was the last.
LEMMA FailedAttempt ==
    ASSUME TypeOK, ExecsSound, NEW e \in Executions, Past(e), AttemptFailed(e)
    PROVE  (Moves(e) \/ Releases(e)) /\ leaked' \subseteq Runs
<1>1. CASE Released(e)
  BY <1>1 DEF Releases, Released, TypeOK
<1>2. CASE /\ execs[e].attempt < MaxAttempts
           /\ execs' = At(e, "wait")
           /\ UNCHANGED <<activeJobs, renewals, settled, leaked>>
  <2> DEFINE x == [execs[e] EXCEPT !.stage = "wait"]
  <2>1. "wait" \in ExecStages
    BY DEF ExecStages
  <2>2. /\ x \in ExecRec /\ x.run = execs[e].run /\ x.stage = "wait"
        /\ x.attempt = execs[e].attempt /\ execs' = [execs EXCEPT ![e] = x]
    BY <1>2, <2>1, AtStage
  <2> HIDE DEF x
  <2>3. Moves(e)
    BY <1>2, <2>2 DEF Moves
  <2> QED
    BY <1>2, <2>3 DEF TypeOK
<1> QED
  BY <1>1, <1>2 DEF AttemptFailed

\* The steps of an execution past Register.
PastStep(e) ==
    \/ Checked(e) \/ Submit(e) \/ Committed(e) \/ NotCommitted(e) \/ SubmitFails(e)
    \/ Unauthenticated(e) \/ Refreshed(e) \/ RefreshFails(e) \/ Waited(e) \/ Panic(e)

\* Each of them moves it, ends it or releases its slot, and types what else it changes.
LEMMA PastSteps ==
    ASSUME TypeOK, ExecsSound, NEW e \in Executions, PastStep(e)
    PROVE  /\ Moves(e) \/ Ends(e) \/ Releases(e)
           /\ UNCHANGED <<poll, ctx>>
           /\ jobs' \in [Runs -> {"ready", "leased", "done"}]
           /\ leaked' \subseteq Runs /\ faults' \in 0 .. MaxFaults
<1> DEFINE Goal == /\ Moves(e) \/ Ends(e) \/ Releases(e)
                   /\ UNCHANGED <<poll, ctx>>
                   /\ jobs' \in [Runs -> {"ready", "leased", "done"}]
                   /\ leaked' \subseteq Runs /\ faults' \in 0 .. MaxFaults
<1>a. /\ jobs \in [Runs -> {"ready", "leased", "done"}]
      /\ leaked \subseteq Runs /\ faults \in 0 .. MaxFaults
  BY DEF TypeOK
<1>b. Fault => faults' \in 0 .. MaxFaults
  BY <1>a, AgentAssumption DEF Fault
<1>c. {"submit", "sent", "refresh"} \subseteq ExecStages \ {"none", "received", "wait"}
  BY DEF ExecStages
<1>d. execs[e].run \in Runs \/ execs[e].stage = "none"
  BY DEF ExecsSound
<1>1. CASE Checked(e)
  BY <1>1, <1>a, <1>c, StageMoves DEF Checked, Past
<1>2. CASE Submit(e)
  <2>1. CASE activeJobs[execs[e].run] = None
    BY <1>2, <1>a, <2>1 DEF Submit, Ends, Past
  <2>2. CASE activeJobs[execs[e].run] # None
    BY <1>2, <1>a, <1>c, <2>2, StageMoves DEF Submit, Past
  <2> QED
    BY <2>1, <2>2
<1>3. CASE Committed(e)
  <2>1. Releases(e)
    BY <1>3 DEF Committed, Releases, Past
  <2>2. leaked' \subseteq Runs /\ jobs' \in [Runs -> {"ready", "leased", "done"}]
    BY <1>3, <1>a DEF Committed, Released
  <2> QED
    BY <1>3, <1>a, <2>1, <2>2 DEF Committed
<1>4. CASE NotCommitted(e)
  <2>1. Past(e) /\ AttemptFailed(e) /\ UNCHANGED <<poll, ctx, jobs, faults>>
    BY <1>4 DEF NotCommitted, Past
  <2> QED
    BY <1>a, <2>1, FailedAttempt
<1>5. CASE SubmitFails(e)
  <2>1. Past(e) /\ AttemptFailed(e) /\ UNCHANGED <<poll, ctx>>
    BY <1>5 DEF SubmitFails, Past
  <2>2. jobs' \in [Runs -> {"ready", "leased", "done"}]
    BY <1>5, <1>a DEF SubmitFails
  <2>3. faults' \in 0 .. MaxFaults
    BY <1>5, <1>a, <1>b DEF SubmitFails, FaultUnless
  <2> QED
    BY <2>1, <2>2, <2>3, FailedAttempt
<1>6. CASE Unauthenticated(e)
  BY <1>6, <1>a, <1>b, <1>c, StageMoves DEF Unauthenticated, Past
<1>7. CASE Refreshed(e)
  BY <1>7, <1>a, <1>c, StageMoves DEF Refreshed, Past
<1>8. CASE RefreshFails(e)
  <2>1. Past(e) /\ AttemptFailed(e) /\ UNCHANGED <<poll, ctx, jobs, faults>>
    BY <1>8 DEF RefreshFails, Past
  <2> QED
    BY <1>a, <2>1, FailedAttempt
<1>9. CASE Waited(e)
  <2>1. Past(e) /\ UNCHANGED <<activeJobs, poll, ctx, jobs, settled, leaked, faults>>
    BY <1>9 DEF Waited, Past
  <2>2. CASE ctx = "live"
    <3> DEFINE x == [execs[e] EXCEPT !.stage = "submit", !.attempt = @ + 1]
    <3>1. execs[e] \in ExecRec /\ execs[e].attempt < MaxAttempts
      BY <1>9 DEF Waited, ExecsSound, TypeOK, ExecRec
    <3>2. execs[e].attempt + 1 \in 1 .. MaxAttempts
      BY <3>1, AgentAssumption DEF ExecRec
    <3>3. x \in ExecRec /\ x.run = execs[e].run /\ x.stage = "submit"
      BY <3>1, <3>2, <1>c DEF ExecRec
    <3>4. execs' = [execs EXCEPT ![e] = x] /\ UNCHANGED renewals
      BY <1>9, <2>2 DEF Waited
    <3> HIDE DEF x
    <3>5. Moves(e)
      BY <2>1, <3>3, <3>4 DEF Moves
    <3> QED
      BY <1>a, <2>1, <3>5
  <2>3. CASE ctx # "live"
    BY <1>9, <1>a, <2>1, <2>3 DEF Waited, Ends
  <2> QED
    BY <2>2, <2>3
<1>10. CASE Panic(e)
  <2>1. Ends(e)
    BY <1>10 DEF Panic, Ends, Past
  <2>2. leaked' \subseteq Runs
    BY <1>10, <1>a, <1>d DEF Panic
  <2> QED
    BY <1>10, <1>a, <1>b, <2>1, <2>2 DEF Panic
<1> HIDE DEF Goal
<1> QED
  BY <1>1, <1>2, <1>3, <1>4, <1>5, <1>6, <1>7, <1>8, <1>9, <1>10 DEF PastStep, Goal

\* What such a step keeps: the stages of the other executions, and that it was
\* not received before and is not after.
LEMMA PastKeeps ==
    ASSUME TypeOK, ExecsSound, NEW e \in Executions, Moves(e) \/ Ends(e) \/ Releases(e)
    PROVE  /\ execs' \in [Executions -> ExecRec] /\ renewals' \in [Executions -> RenewalStages]
           /\ activeJobs' \in [Runs -> Executions \cup {None}] /\ settled' \subseteq Runs
           /\ \A d \in Executions \ {e} : execs'[d] = execs[d] /\ renewals'[d] = renewals[d]
           /\ Past(e) /\ execs'[e].stage # "received"
<1>1. /\ execs \in [Executions -> ExecRec] /\ renewals \in [Executions -> RenewalStages]
      /\ activeJobs \in [Runs -> Executions \cup {None}] /\ settled \subseteq Runs
  BY DEF TypeOK, ExecRec
<1>2. CASE Moves(e)
  BY <1>1, <1>2 DEF Moves
<1>3. ASSUME Past(e), Returned(e)
      PROVE  /\ execs' \in [Executions -> ExecRec] /\ renewals' \in [Executions -> RenewalStages]
             /\ \A d \in Executions \ {e} : execs'[d] = execs[d] /\ renewals'[d] = renewals[d]
             /\ execs'[e].stage # "received"
  <2>1. Idle \in ExecRec /\ Idle.stage = "none" /\ "none" \in RenewalStages
    BY AgentAssumption DEF Idle, ExecRec, ExecStages, RenewalStages
  <2> QED
    BY <1>1, <1>3, <2>1 DEF Returned
<1>4. CASE Ends(e)
  BY <1>1, <1>3, <1>4 DEF Ends
<1>5. CASE Releases(e)
  <2>1. execs[e].run \in Runs
    BY <1>5 DEF Releases, Past, ExecsSound
  <2> QED
    BY <1>1, <1>3, <1>5, <2>1 DEF Releases, Released, CompleteJob
<1> QED
  BY <1>2, <1>4, <1>5

-----------------------------------------------------------------------------
(* What the answer to GetJobs does *)

\* Goroutines are started for the runs of R only, and at most one for each.
LEMMA StartedKeeps ==
    ASSUME TypeOK, NEW R \in SUBSET Runs
    PROVE  /\ Started(R) \in [Executions -> ExecRec]
           /\ \A e \in Executions :
                \/ Started(R)[e] = execs[e]
                \/ Started(R)[e].stage = "received" /\ Started(R)[e].run \in R
           /\ Cardinality({e \in Executions : Started(R)[e].stage = "received"})
                <= Cardinality(Received) + Cardinality(R)
<1> DEFINE f == CHOOSE g \in [R -> Executions \ Live] : \A r, t \in R : g[r] = g[t] => r = t
           T == {f[r] : r \in R}
           new(e) == [Idle EXCEPT !.stage = "received", !.run = CHOOSE r \in R : f[r] = e]
           N == {e \in Executions : Started(R)[e].stage = "received"}
<1>1. Started(R) = [e \in Executions |-> IF e \in T THEN new(e) ELSE execs[e]]
  BY DEF Started
<1> HIDE DEF f
<1>2. ASSUME NEW e \in T PROVE new(e) \in ExecRec /\ new(e).stage = "received" /\ new(e).run \in R
  <2> DEFINE r == CHOOSE r \in R : f[r] = e
  <2>1. r \in R
    OBVIOUS
  <2> HIDE DEF r
  <2>2. Idle \in ExecRec /\ "received" \in ExecStages
    BY AgentAssumption DEF Idle, ExecRec, ExecStages
  <2>3. LET x == [Idle EXCEPT !.stage = "received", !.run = r]
        IN  x \in ExecRec /\ x.stage = "received" /\ x.run \in R
    BY <2>1, <2>2 DEF ExecRec
  <2> QED
    BY <2>3 DEF r
<1> HIDE DEF new
<1>3. /\ Started(R) \in [Executions -> ExecRec]
      /\ \A e \in Executions :
           \/ Started(R)[e] = execs[e]
           \/ Started(R)[e].stage = "received" /\ Started(R)[e].run \in R
  <2>1. execs \in [Executions -> ExecRec]
    BY DEF TypeOK, ExecRec
  <2> QED
    BY <1>1, <1>2, <2>1
<1>4. IsFiniteSet(R) /\ Cardinality(R) \in Nat
  BY AgentAssumption, FS_Subset, FS_CardinalityType
<1>5. IsFiniteSet(T) /\ Cardinality(T) <= Cardinality(R) /\ Cardinality(T) \in Nat
  <2> DEFINE g == [r \in R |-> f[r]]
  <2>1. g \in Surjection(R, T)
    BY DEF Surjection
  <2> HIDE DEF g, T
  <2> QED
    BY <1>4, <2>1, FS_Surjection, FS_CardinalityType
<1>6. IsFiniteSet(Received) /\ Cardinality(Received) \in Nat
  <2>1. Received \in SUBSET Executions
    BY DEF Received
  <2> QED
    BY <2>1, AgentAssumption, FS_Subset, FS_CardinalityType
<1>7. N \in SUBSET (Received \cup T)
  BY <1>1 DEF Received
<1> HIDE DEF T, N
<1>8. /\ IsFiniteSet(Received \cup T)
      /\ Cardinality(Received \cup T)
           = Cardinality(Received) + Cardinality(T) - Cardinality(Received \cap T)
  BY <1>5, <1>6, FS_Union
<1>9. Cardinality(Received \cap T) \in Nat
  BY <1>6, FS_Intersection, FS_CardinalityType
<1>10. Cardinality(N) <= Cardinality(Received \cup T) /\ Cardinality(N) \in Nat
  BY <1>7, <1>8, FS_Subset, FS_CardinalityType
<1>11. Cardinality(N) <= Cardinality(Received) + Cardinality(R)
  BY <1>4, <1>5, <1>6, <1>8, <1>9, <1>10
<1> QED
  BY <1>3, <1>11 DEF N

-----------------------------------------------------------------------------
(* Counting the slots *)

\* The sets counted are finite.
LEMMA Counted ==
    /\ \A S \in SUBSET Runs : IsFiniteSet(S) /\ Cardinality(S) \in Nat
    /\ \A S \in SUBSET Executions : IsFiniteSet(S) /\ Cardinality(S) \in Nat
BY AgentAssumption, FS_Subset, FS_CardinalityType

\* Slots are kept when no goroutine is new, no run is newly registered and no
\* slot is newly asked for.
LEMMA BudgetShrinks ==
    ASSUME TypeOK, SlotBudget, poll'.slots \in Nat, poll'.slots <= poll.slots,
           Registered' \subseteq Registered, Received' \subseteq Received
    PROVE  SlotBudget'
<1>1. Registered \in SUBSET Runs /\ Received \in SUBSET Executions
  BY DEF Registered, Received
<1>2. /\ Registered' \in SUBSET Registered /\ Received' \in SUBSET Received
      /\ Registered' \in SUBSET Runs /\ Received' \in SUBSET Executions
  BY <1>1
<1>3. /\ Cardinality(Registered') <= Cardinality(Registered)
      /\ Cardinality(Received') <= Cardinality(Received)
  BY <1>1, <1>2, Counted, FS_Subset
<1>4. /\ Cardinality(Registered') \in Nat /\ Cardinality(Registered) \in Nat
      /\ Cardinality(Received') \in Nat /\ Cardinality(Received) \in Nat
  BY <1>1, <1>2, Counted
<1>5. poll.slots \in Nat /\ MaxConcurrency \in Nat
  BY AgentAssumption DEF TypeOK
<1>6. Cardinality(Registered') + Cardinality(Received') + poll'.slots <= MaxConcurrency
  BY <1>3, <1>4, <1>5 DEF SlotBudget
<1> QED
  BY <1>6 DEF SlotBudget

\* Register moves one goroutine from those received to the entry of its run.
LEMMA BudgetOfRegister ==
    ASSUME TypeOK, SlotBudget, NEW e \in Executions, Register(e)
    PROVE  SlotBudget'
<1> DEFINE r == execs[e].run
<1>1. e \in Received /\ Received \in SUBSET Executions /\ Registered \in SUBSET Runs
  BY DEF Received, Registered, Register
<1>2. Received' = Received \ {e}
  BY <1>1 DEF Register, Received, At, TypeOK, ExecStages
<1>3. Cardinality(Received') = Cardinality(Received) - 1
  BY <1>1, <1>2, Counted, FS_RemoveElement
<1>4. Registered' \subseteq Registered \cup {r} /\ Registered' \in SUBSET Runs
  BY DEF Register, Registered, TypeOK
<1> HIDE DEF r
<1>5. /\ IsFiniteSet(Registered \cup {r})
      /\ Cardinality(Registered \cup {r}) <= Cardinality(Registered) + 1
  <2>1. IsFiniteSet(Registered) /\ Cardinality(Registered) \in Nat
    BY <1>1, Counted
  <2>2. /\ IsFiniteSet(Registered \cup {r})
        /\ Cardinality(Registered \cup {r})
             = IF r \in Registered THEN Cardinality(Registered) ELSE Cardinality(Registered) + 1
    BY <2>1, FS_AddElement
  <2> QED
    BY <2>1, <2>2
<1>6. Cardinality(Registered') <= Cardinality(Registered \cup {r})
  BY <1>4, <1>5, FS_Subset
<1>7. /\ Cardinality(Registered) \in Nat /\ Cardinality(Received) \in Nat
      /\ Cardinality(Registered') \in Nat /\ Cardinality(Registered \cup {r}) \in Nat
  BY <1>1, <1>4, <1>5, Counted, FS_CardinalityType
<1>8. poll' = poll /\ poll.slots \in Nat /\ MaxConcurrency \in Nat
  BY AgentAssumption DEF Register, TypeOK
<1>9. Cardinality(Registered') + Cardinality(Received') + poll'.slots <= MaxConcurrency
  BY <1>3, <1>5, <1>6, <1>7, <1>8 DEF SlotBudget
<1> QED
  BY <1>9 DEF SlotBudget

\* A poll that is over has asked for no slot, and its interval is in its bounds.
LEMMA PollOver ==
    ASSUME TypeOK, NEW n, NEW failed \in BOOLEAN, PollDone(n, failed)
    PROVE  /\ poll' \in [stage : {"timer", "asking", "retrying"}, slots : 0 .. MaxConcurrency,
                          interval : BaseInterval .. MaxInterval]
           /\ poll'.slots = 0
<1>1. poll.interval \in BaseInterval .. MaxInterval
  BY DEF TypeOK
<1>2. NextPollInterval(n, failed) \in BaseInterval .. MaxInterval
  BY <1>1, AgentAssumption DEF NextPollInterval
<1>3. 0 \in 0 .. MaxConcurrency
  BY AgentAssumption
<1> QED
  BY <1>2, <1>3 DEF PollDone

\* When the timer fires, the slots asked for are those that are free.
LEMMA BudgetOfPoll ==
    ASSUME TypeOK, SlotBudget, PollForJobs
    PROVE  /\ poll' \in [stage : {"timer", "asking", "retrying"}, slots : 0 .. MaxConcurrency,
                          interval : BaseInterval .. MaxInterval]
           /\ SlotBudget'
<1>1. /\ Registered' = Registered /\ Received' = Received
      /\ Registered \in SUBSET Runs /\ Received \in SUBSET Executions
  BY DEF PollForJobs, Registered, Received
<1>2. Cardinality(Registered) \in Nat /\ MaxConcurrency \in Nat /\ poll.slots \in Nat
  BY <1>1, Counted, AgentAssumption DEF TypeOK
<1>3. CASE Available <= 0
  <2>1. PollDone(-1, FALSE)
    BY <1>3 DEF PollForJobs
  <2>2. /\ poll' \in [stage : {"timer", "asking", "retrying"}, slots : 0 .. MaxConcurrency,
                       interval : BaseInterval .. MaxInterval]
        /\ poll'.slots = 0
    BY <2>1, PollOver
  <2>3. SlotBudget'
    BY <1>1, <1>2, <2>2, BudgetShrinks
  <2> QED
    BY <2>2, <2>3
<1>4. CASE ~(Available <= 0)
  <2>1. Received = {}
    BY DEF PollForJobs, Received
  <2>2. Cardinality(Received') = 0
    BY <1>1, <2>1, FS_EmptySet
  <2>3. /\ poll' = [poll EXCEPT !.stage = "asking", !.slots = Available]
        /\ Available \in 0 .. MaxConcurrency /\ Available = MaxConcurrency - Cardinality(Registered)
    BY <1>2, <1>4 DEF PollForJobs, Available
  <2>4. poll \in [stage : {"timer", "asking", "retrying"}, slots : 0 .. MaxConcurrency,
                  interval : BaseInterval .. MaxInterval]
    BY DEF TypeOK
  <2>5. /\ poll' \in [stage : {"timer", "asking", "retrying"}, slots : 0 .. MaxConcurrency,
                       interval : BaseInterval .. MaxInterval]
        /\ poll'.slots = MaxConcurrency - Cardinality(Registered)
    BY <2>3, <2>4
  <2>6. Cardinality(Registered') + Cardinality(Received') + poll'.slots <= MaxConcurrency
    BY <1>1, <1>2, <2>2, <2>5
  <2> QED
    BY <2>5, <2>6 DEF SlotBudget
<1> QED
  BY <1>3, <1>4

\* No more goroutines are started than slots were asked for.
LEMMA BudgetOfJobs ==
    ASSUME TypeOK, SlotBudget, JobsReceived
    PROVE  SlotBudget'
<1>1. PICK R \in SUBSET Runs : /\ Cardinality(R) <= poll.slots /\ execs' = Started(R)
                               /\ PollDone(Cardinality(R), FALSE)
  BY DEF JobsReceived
<1>2. poll'.slots = 0
  BY <1>1, PollOver
<1>3. Cardinality(Received') <= Cardinality(Received) + Cardinality(R)
  BY <1>1, StartedKeeps DEF Received
<1>4. Registered' = Registered /\ Registered \in SUBSET Runs
  BY DEF JobsReceived, Registered
<1>5. Received \in SUBSET Executions /\ Received' \in SUBSET Executions
  BY DEF Received
<1>6. /\ Cardinality(R) \in Nat /\ Cardinality(Registered) \in Nat
      /\ Cardinality(Received) \in Nat /\ Cardinality(Received') \in Nat
  BY <1>4, <1>5, Counted
<1>7. poll.slots \in Nat /\ MaxConcurrency \in Nat
  BY AgentAssumption DEF TypeOK
<1>8. Cardinality(Registered') + Cardinality(Received') + poll'.slots <= MaxConcurrency
  BY <1>1, <1>2, <1>3, <1>4, <1>6, <1>7 DEF SlotBudget
<1> QED
  BY <1>8 DEF SlotBudget

-----------------------------------------------------------------------------
(* The invariant *)

\* The process starts within it.
LEMMA InvInit == Init => Inv
<1> SUFFICES ASSUME Init PROVE Inv
  OBVIOUS
<1>1. TypeOK
  BY AgentAssumption DEF Init, TypeOK, Idle, ExecStages, RenewalStages
<1>2. ExecsSound /\ RenewalsLive /\ MissingSettled
  BY DEF Init, Idle, ExecsSound, RenewalsLive, MissingSettled, Past
<1>3. Registered = {} /\ Received = {} /\ poll.slots = 0
  BY DEF Init, Idle, Registered, Received
<1>4. SlotBudget
  BY <1>3, FS_EmptySet, AgentAssumption DEF SlotBudget
<1> QED
  BY <1>1, <1>2, <1>4 DEF Inv

\* What a step past Register does to the entry of its run.
LEMMA PastEntries ==
    ASSUME TypeOK, ExecsSound, MissingSettled, NEW e \in Executions, UNCHANGED ctx,
           Moves(e) \/ Ends(e) \/ Releases(e)
    PROVE  /\ ExecsSound' /\ (RenewalsLive => RenewalsLive') /\ MissingSettled'
           /\ Registered' \subseteq Registered /\ Received' \subseteq Received
<1>0. execs[e].run \in Runs /\ execs[e] \in ExecRec /\ execs[e].stage \notin {"none", "received"}
  BY PastKeeps DEF Past, ExecsSound, TypeOK, ExecRec
<1>1. \A d \in Executions \ {e} : execs'[d] = execs[d] /\ renewals'[d] = renewals[d]
  BY PastKeeps
<1>2. Received' \subseteq Received
  BY <1>1, PastKeeps DEF Received
<1>3. CASE Moves(e)
  <2>1. PICK x \in ExecRec : /\ x.run = execs[e].run /\ x.stage \notin {"none", "received"}
                             /\ x.stage = "wait" => x.attempt < MaxAttempts
                             /\ execs' = [execs EXCEPT ![e] = x]
    BY <1>3 DEF Moves
  <2>2. execs'[e] = x /\ UNCHANGED <<activeJobs, renewals, settled>>
    <3>1. execs \in [Executions -> ExecRec]
      BY DEF TypeOK, ExecRec
    <3>2. execs'[e] = x
      BY <2>1, <3>1
    <3> QED
      BY <1>3, <3>2 DEF Moves
  <2>3. ExecsSound'
    BY <1>0, <1>1, <2>1, <2>2 DEF ExecsSound
  <2>6. RenewalsLive => RenewalsLive'
    BY <1>0, <1>1, <2>1, <2>2 DEF RenewalsLive
  <2>4. MissingSettled'
    <3> SUFFICES ASSUME ctx = "live", NEW d \in Executions, Past(d)',
                        activeJobs'[execs'[d].run] = None
                 PROVE  execs'[d].run \in settled'
      BY DEF MissingSettled
    <3>1. execs'[d].run = execs[d].run /\ Past(d)
      BY <1>0, <1>1, <2>1, <2>2 DEF Past
    <3> QED
      BY <2>2, <3>1 DEF MissingSettled
  <2>5. Registered' \subseteq Registered
    BY <2>2 DEF Registered
  <2> QED
    BY <1>2, <2>3, <2>4, <2>5, <2>6
<1>4. ASSUME Returned(e)
      PROVE  /\ execs'[e].stage = "none" /\ renewals'[e] = "none"
             /\ ExecsSound' /\ (RenewalsLive => RenewalsLive')
  <2>1. execs'[e].stage = "none" /\ renewals'[e] = "none"
    BY <1>4 DEF Returned, Idle, TypeOK
  <2> QED
    BY <1>1, <2>1 DEF ExecsSound, RenewalsLive
<1>5. CASE Ends(e)
  <2>1. UNCHANGED <<activeJobs, settled>> /\ execs'[e].stage = "none"
    BY <1>4, <1>5 DEF Ends
  <2>2. MissingSettled'
    BY <1>1, <2>1 DEF MissingSettled, Past
  <2> QED
    BY <1>2, <1>4, <1>5, <2>1, <2>2 DEF Ends, Registered
<1>6. CASE Releases(e)
  <2>1. /\ activeJobs' = [activeJobs EXCEPT ![execs[e].run] = None]
        /\ settled' = settled \cup {execs[e].run} /\ execs'[e].stage = "none"
    BY <1>4, <1>6 DEF Releases, Released, CompleteJob
  <2>2. \A r \in Runs : /\ r = execs[e].run => activeJobs'[r] = None
                        /\ r # execs[e].run => activeJobs'[r] = activeJobs[r]
    BY <2>1 DEF TypeOK
  <2>3. MissingSettled'
    <3> SUFFICES ASSUME ctx = "live", NEW d \in Executions, Past(d)',
                        activeJobs'[execs'[d].run] = None
                 PROVE  execs'[d].run \in settled'
      BY DEF MissingSettled
    <3>1. d # e /\ execs'[d] = execs[d] /\ Past(d)
      BY <1>1, <2>1 DEF Past
    <3>2. execs[d].run \in Runs
      BY <3>1 DEF ExecsSound, Past
    <3> QED
      BY <2>1, <2>2, <3>1, <3>2 DEF MissingSettled
  <2>4. Registered' \subseteq Registered
    BY <2>2 DEF Registered
  <2> QED
    BY <1>2, <1>4, <1>6, <2>3, <2>4 DEF Releases, Released
<1> QED
  BY <1>3, <1>5, <1>6, PastKeeps

\* Steps that leave the executions and the entries alone.
LEMMA OthersKeep ==
    ASSUME Inv, UNCHANGED <<activeJobs, execs, settled>>, TypeOK',
           ctx' = "live" => ctx = "live",
           \A e \in Executions : renewals'[e] # "none" => renewals[e] # "none",
           poll'.slots <= poll.slots
    PROVE  Inv'
<1>1. ExecsSound' /\ RenewalsLive' /\ MissingSettled'
  BY DEF Inv, ExecsSound, RenewalsLive, MissingSettled, Past
<1>2. Registered' = Registered /\ Received' = Received
  BY DEF Registered, Received
<1>3. SlotBudget'
  BY <1>2, BudgetShrinks DEF Inv, TypeOK
<1> QED
  BY <1>1, <1>3 DEF Inv

\* Every step of the process keeps the invariant.
LEMMA InvKept == Inv /\ [Next]_vars => Inv'
<1> SUFFICES ASSUME Inv, [Next]_vars PROVE Inv'
  OBVIOUS
<1>a. TypeOK /\ ExecsSound /\ RenewalsLive /\ MissingSettled /\ SlotBudget
  BY DEF Inv
<1>b. /\ activeJobs \in [Runs -> Executions \cup {None}] /\ execs \in [Executions -> ExecRec]
      /\ renewals \in [Executions -> RenewalStages]
      /\ jobs \in [Runs -> {"ready", "leased", "done"}] /\ ctx \in {"live", "done", "ended"}
      /\ settled \subseteq Runs /\ leaked \subseteq Runs
      /\ faults \in 0 .. MaxFaults /\ poll.slots \in Nat
  BY <1>a DEF TypeOK, ExecRec
<1>c. Fault => faults' \in 0 .. MaxFaults
  BY <1>b, AgentAssumption DEF Fault
<1>d. ASSUME NEW stage \in RenewalStages, NEW e \in Executions, RenewalAt(e, stage)
      PROVE  renewals' \in [Executions -> RenewalStages]
  BY <1>b, <1>d DEF RenewalAt
<1>1. CASE PollForJobs
  <2>1. UNCHANGED <<activeJobs, execs, renewals, ctx, jobs, settled, leaked, faults>>
    BY <1>1 DEF PollForJobs
  <2>2. TypeOK'
    BY <1>1, <1>a, <2>1, BudgetOfPoll DEF TypeOK
  <2>3. ExecsSound' /\ RenewalsLive' /\ MissingSettled'
    BY <1>a, <2>1 DEF ExecsSound, RenewalsLive, MissingSettled, Past
  <2> QED
    BY <1>1, <1>a, <2>2, <2>3, BudgetOfPoll DEF Inv
<1>2. CASE JobsReceived
  <2>1. PICK R \in SUBSET Runs :
          /\ execs' = Started(R) /\ PollDone(Cardinality(R), FALSE)
          /\ jobs' = [r \in Runs |-> IF r \in R THEN "leased" ELSE jobs[r]]
    BY <1>2 DEF JobsReceived
  <2>2. UNCHANGED <<activeJobs, renewals, ctx, settled, leaked, faults>>
    BY <1>2 DEF JobsReceived
  <2>3. /\ execs' \in [Executions -> ExecRec]
        /\ \A e \in Executions : \/ execs'[e] = execs[e]
                                 \/ execs'[e].stage = "received" /\ execs'[e].run \in Runs
    BY <1>a, <2>1, StartedKeeps
  <2>4. TypeOK'
    <3>1. jobs' \in [Runs -> {"ready", "leased", "done"}]
      BY <1>b, <2>1
    <3>2. poll' \in [stage : {"timer", "asking", "retrying"}, slots : 0 .. MaxConcurrency,
                     interval : BaseInterval .. MaxInterval]
      BY <1>a, <2>1, PollOver
    <3> QED
      BY <1>b, <2>2, <2>3, <3>1, <3>2 DEF TypeOK, ExecRec
  <2>5. ExecsSound'
    BY <1>a, <2>3 DEF ExecsSound
  <2>6. RenewalsLive' /\ MissingSettled'
    BY <1>a, <2>2, <2>3 DEF RenewalsLive, MissingSettled, Past
  <2> QED
    BY <1>2, <1>a, <2>4, <2>5, <2>6, BudgetOfJobs DEF Inv
<1>3. CASE PollFails
  <2>1. /\ PollDone(0, TRUE) /\ FaultUnless(poll.stage = "retrying")
        /\ jobs' \in [Runs -> {"ready", "leased", "done"}]
        /\ UNCHANGED <<activeJobs, execs, renewals, ctx, settled, leaked>>
    BY <1>3, <1>b DEF PollFails
  <2>2. faults' \in 0 .. MaxFaults
    BY <1>b, <1>c, <2>1 DEF FaultUnless
  <2>3. /\ poll' \in [stage : {"timer", "asking", "retrying"}, slots : 0 .. MaxConcurrency,
                      interval : BaseInterval .. MaxInterval]
        /\ poll'.slots = 0
    BY <1>a, <2>1, PollOver
  <2>4. TypeOK'
    BY <1>b, <2>1, <2>2, <2>3 DEF TypeOK, ExecRec
  <2> QED
    BY <1>b, <2>1, <2>3, <2>4, OthersKeep
<1>4. CASE PollUnauthenticated
  <2>1. /\ poll' = [poll EXCEPT !.stage = "retrying"]
        /\ UNCHANGED <<activeJobs, execs, renewals, ctx, jobs, settled, leaked>>
    BY <1>4 DEF PollUnauthenticated
  <2>2. /\ poll' \in [stage : {"timer", "asking", "retrying"}, slots : 0 .. MaxConcurrency,
                      interval : BaseInterval .. MaxInterval]
        /\ poll'.slots = poll.slots
    BY <1>a, <2>1 DEF TypeOK
  <2>3. faults' \in 0 .. MaxFaults
    BY <1>4, <1>c DEF PollUnauthenticated
  <2>4. TypeOK'
    BY <1>b, <2>1, <2>2, <2>3 DEF TypeOK, ExecRec
  <2> QED
    BY <1>b, <2>1, <2>2, <2>4, OthersKeep
<1>5. CASE CancelAllJobs
  <2>1. /\ ctx' = "ended" /\ UNCHANGED <<execs, poll, jobs, settled, leaked, faults>>
        /\ activeJobs' = [r \in Runs |-> None] /\ renewals' = [e \in Executions |-> "none"]
    BY <1>5 DEF CancelAllJobs
  <2>2. TypeOK'
    <3>1. /\ activeJobs' \in [Runs -> Executions \cup {None}]
          /\ renewals' \in [Executions -> RenewalStages]
      BY <2>1 DEF RenewalStages
    <3> QED
      BY <1>a, <2>1, <3>1 DEF TypeOK
  <2>3. ExecsSound' /\ RenewalsLive' /\ MissingSettled'
    BY <1>a, <2>1 DEF ExecsSound, RenewalsLive, MissingSettled
  <2>4. Registered' \subseteq Registered /\ Received' \subseteq Received
    BY <2>1 DEF Registered, Received
  <2>5. SlotBudget'
    BY <1>a, <1>b, <2>1, <2>4, BudgetShrinks
  <2> QED
    BY <2>2, <2>3, <2>5 DEF Inv
<1>6. ASSUME NEW e \in Executions, Register(e) PROVE Inv'
  <2> DEFINE r == execs[e].run
  <2>1. /\ execs[e].stage = "received" /\ r \in Runs /\ execs[e] \in ExecRec
        /\ activeJobs' = [activeJobs EXCEPT ![r] = e]
        /\ settled' = settled \ {r} /\ leaked' = leaked \ {r}
        /\ UNCHANGED <<poll, ctx, jobs, faults>>
    BY <1>6, <1>a, <1>b DEF Register, ExecsSound
  <2>2. /\ renewals' \in [Executions -> RenewalStages]
        /\ \A d \in Executions : d # e => renewals'[d] = renewals[d]
    BY <1>6, <1>b DEF Register, RenewalStages
  <2>3. /\ execs' \in [Executions -> ExecRec] /\ execs'[e].stage = "checking"
        /\ execs'[e].run = r /\ \A d \in Executions : d # e => execs'[d] = execs[d]
    <3> DEFINE x == [execs[e] EXCEPT !.stage = "checking"]
    <3>1. "checking" \in ExecStages
      BY DEF ExecStages
    <3>2. /\ x \in ExecRec /\ x.stage = "checking" /\ x.run = r
          /\ execs' = [execs EXCEPT ![e] = x]
      BY <1>6, <1>a, <3>1, AtStage DEF Register
    <3> HIDE DEF x
    <3> QED
      BY <1>b, <3>2
  <2> HIDE DEF r
  <2>4. TypeOK'
    BY <1>a, <1>b, <2>1, <2>2, <2>3 DEF TypeOK, ExecRec
  <2>5. ExecsSound'
    BY <1>a, <2>1, <2>3 DEF ExecsSound
  <2>6. RenewalsLive'
    BY <1>a, <2>2, <2>3 DEF RenewalsLive
  <2>7. MissingSettled'
    <3> SUFFICES ASSUME ctx = "live", NEW d \in Executions, Past(d)',
                        activeJobs'[execs'[d].run] = None
                 PROVE  execs'[d].run \in settled'
      BY <2>1 DEF MissingSettled
    <3>1. e # None
      BY AgentAssumption
    <3>2. execs'[d].run # r
      BY <1>b, <2>1, <3>1
    <3>3. d # e /\ execs'[d] = execs[d] /\ Past(d)
      BY <2>3, <3>2 DEF Past
    <3>4. execs[d].run \in settled
      BY <1>a, <1>b, <2>1, <3>2, <3>3 DEF MissingSettled, ExecsSound, Past
    <3> QED
      BY <2>1, <3>2, <3>3, <3>4
  <2> QED
    BY <1>6, <1>a, <2>4, <2>5, <2>6, <2>7, BudgetOfRegister DEF Inv
<1>7. ASSUME NEW e \in Executions, PastStep(e) PROVE Inv'
  <2>1. /\ Moves(e) \/ Ends(e) \/ Releases(e)
        /\ UNCHANGED <<poll, ctx>>
        /\ jobs' \in [Runs -> {"ready", "leased", "done"}]
        /\ leaked' \subseteq Runs /\ faults' \in 0 .. MaxFaults
    BY <1>7, <1>a, PastSteps
  <2>2. /\ execs' \in [Executions -> ExecRec] /\ renewals' \in [Executions -> RenewalStages]
        /\ activeJobs' \in [Runs -> Executions \cup {None}] /\ settled' \subseteq Runs
    BY <1>a, <2>1, PastKeeps
  <2>3. TypeOK'
    BY <1>a, <2>1, <2>2 DEF TypeOK, ExecRec
  <2>4. /\ ExecsSound' /\ RenewalsLive' /\ MissingSettled'
        /\ Registered' \subseteq Registered /\ Received' \subseteq Received
    BY <1>a, <2>1, PastEntries
  <2>5. SlotBudget'
    BY <1>a, <1>b, <2>1, <2>4, BudgetShrinks
  <2> QED
    BY <2>3, <2>4, <2>5 DEF Inv
<1>8. ASSUME NEW e \in Executions, RenewalStep(e) PROVE Inv'
  <2>1. /\ UNCHANGED <<activeJobs, execs, poll, ctx, jobs, settled, leaked>>
        /\ renewals[e] # "none"
    BY <1>8 DEF RenewalStep, Renew, Renewed, RenewFails
  <2>2. /\ renewals' \in [Executions -> RenewalStages]
        /\ \A d \in Executions : renewals'[d] # "none" => renewals[d] # "none"
    <3>1. \E stage \in RenewalStages : renewals' = [renewals EXCEPT ![e] = stage]
      BY <1>8 DEF RenewalStep, Renew, Renewed, RenewFails, RenewalAt, RenewalStages
    <3> QED
      BY <1>b, <2>1, <3>1
  <2>3. faults' \in 0 .. MaxFaults
    BY <1>8, <1>b, <1>c DEF RenewalStep, Renew, Renewed, RenewFails, FaultUnless
  <2>4. TypeOK'
    BY <1>a, <2>1, <2>2, <2>3 DEF TypeOK
  <2> QED
    BY <1>b, <2>1, <2>2, <2>4, OthersKeep
<1>9. ASSUME NEW r \in Runs, LeaseEnds(r) PROVE Inv'
  <2>1. /\ UNCHANGED <<activeJobs, execs, renewals, poll, ctx, settled, leaked>>
        /\ jobs' \in [Runs -> {"ready", "leased", "done"}]
    BY <1>9, <1>b DEF LeaseEnds
  <2>2. faults' \in 0 .. MaxFaults
    BY <1>9, <1>b, <1>c DEF LeaseEnds
  <2>3. TypeOK'
    BY <1>a, <2>1, <2>2 DEF TypeOK
  <2> QED
    BY <1>b, <2>1, <2>3, OthersKeep
<1>10. CASE Signal
  <2>1. /\ UNCHANGED <<activeJobs, execs, renewals, poll, jobs, settled, leaked, faults>>
        /\ ctx' = "done"
    BY <1>10 DEF Signal
  <2>2. TypeOK'
    BY <1>a, <2>1 DEF TypeOK
  <2> QED
    BY <1>b, <2>1, <2>2, OthersKeep
<1>11. CASE UNCHANGED vars
  <2>1. TypeOK' /\ UNCHANGED vars
    BY <1>11, <1>a DEF TypeOK, vars
  <2> QED
    BY <1>b, <2>1, OthersKeep DEF vars
<1> QED
  BY <1>1, <1>2, <1>3, <1>4, <1>5, <1>6, <1>7, <1>8, <1>9, <1>10, <1>11
     DEF Next, PollStep, ExecStep, PastStep

\* The invariant holds in every reachable state.
THEOREM Invariance == Spec => []Inv
BY InvInit, InvKept, PTL DEF Spec

-----------------------------------------------------------------------------
(* The properties *)

\* The memory of the worker is well typed, and its poll interval in its bounds.
THEOREM TypeCorrect == Spec => []TypeOK
<1>1. Inv => TypeOK
  BY DEF Inv
<1> QED
  BY <1>1, Invariance, PTL

\* The worker never has more jobs registered than it has slots.
THEOREM SlotsWithinLimitHolds == Spec => []SlotsWithinLimit
<1>1. Inv => SlotsWithinLimit
  <2> SUFFICES ASSUME TypeOK, SlotBudget PROVE Cardinality(Registered) <= MaxConcurrency
    BY DEF Inv, SlotsWithinLimit
  <2>1. Registered \in SUBSET Runs /\ Received \in SUBSET Executions
    BY DEF Registered, Received
  <2>2. Cardinality(Registered) \in Nat /\ Cardinality(Received) \in Nat
    BY <2>1, Counted
  <2>3. poll.slots \in Nat /\ MaxConcurrency \in Nat
    BY AgentAssumption DEF TypeOK
  <2> QED
    BY <2>2, <2>3 DEF SlotBudget
<1> QED
  BY <1>1, Invariance, PTL

\* The only step that drops a result is a Submit that finds no entry.
LEMMA DropStep ==
    ASSUME Inv, [Next]_vars, NEW e \in Executions,
           execs[e].stage = "submit", execs'[e].stage = "none"
    PROVE  execs[e].run \in settled \/ ctx # "live"
<1>a. TypeOK /\ ExecsSound /\ MissingSettled
  BY DEF Inv
<1>b. execs \in [Executions -> ExecRec]
  BY <1>a DEF TypeOK, ExecRec
<1>c. ASSUME execs' = execs PROVE FALSE
  BY <1>c
<1>d. ASSUME NEW d \in Executions, d # e, Moves(d) \/ Ends(d) \/ Releases(d) PROVE FALSE
  BY <1>a, <1>d, PastKeeps
<1>1. CASE JobsReceived
  <2>1. PICK R \in SUBSET Runs : execs' = Started(R)
    BY <1>1 DEF JobsReceived
  <2> QED
    BY <1>a, <2>1, StartedKeeps
<1>2. ASSUME NEW d \in Executions, Register(d) PROVE FALSE
  <2>1. d # e
    BY <1>2 DEF Register
  <2>2. execs'[e] = execs[e]
    BY <1>2, <1>b, <2>1 DEF Register, At
  <2> QED
    BY <2>2
<1>3. ASSUME NEW d \in Executions, PastStep(d) PROVE execs[e].run \in settled \/ ctx # "live"
  <2>1. d = e
    BY <1>3, <1>a, <1>d, PastSteps
  <2>2. Submit(e)
    BY <1>3, <2>1 DEF PastStep, Checked, Committed, NotCommitted, SubmitFails,
                      Unauthenticated, Refreshed, RefreshFails, Waited, Panic
  <2>3. CASE activeJobs[execs[e].run] = None
    BY <1>a, <2>3 DEF MissingSettled, Past
  <2>4. CASE activeJobs[execs[e].run] # None
    <3> DEFINE x == [execs[e] EXCEPT !.stage = "sent"]
    <3>1. execs' = At(e, "sent") /\ "sent" \in ExecStages
      BY <2>2, <2>4 DEF Submit, ExecStages
    <3>2. execs' = [execs EXCEPT ![e] = x] /\ x.stage = "sent"
      BY <1>a, <3>1, AtStage
    <3> HIDE DEF x
    <3> QED
      BY <1>b, <3>2
  <2> QED
    BY <2>3, <2>4
<1>4. CASE \/ PollForJobs \/ PollFails \/ CancelAllJobs \/ PollUnauthenticated \/ Signal
           \/ \E d \in Executions : RenewalStep(d)
           \/ \E r \in Runs : LeaseEnds(r)
           \/ UNCHANGED vars
  BY <1>4, <1>c DEF PollForJobs, PollFails, CancelAllJobs, PollUnauthenticated, Signal,
                    RenewalStep, Renew, Renewed, RenewFails, LeaseEnds, vars
<1> QED
  BY <1>1, <1>2, <1>3, <1>4 DEF Next, PollStep, ExecStep, PastStep

\* A result is thrown away unsent only when another execution of the run has
\* settled it, or the process shuts down.
THEOREM DroppedOnlyWhenSettledHolds == Spec => DroppedOnlyWhenSettled
<1>1. Inv /\ [Next]_vars
        => [\A e \in Executions :
              execs[e].stage = "submit" /\ execs'[e].stage = "none"
                => execs[e].run \in settled \/ ctx # "live"]_vars
  BY DropStep
<1> QED
  BY <1>1, Invariance, PTL DEF Spec, DroppedOnlyWhenSettled

\* A lease is renewed only while the execution that asks for it goes on.
THEOREM RenewedOnlyWhileExecutingHolds == Spec => RenewedOnlyWhileExecuting
<1>1. Inv /\ [Next]_vars
        => [\A e \in Executions :
              renewals[e] = "waiting" /\ renewals'[e] = "calling" => e \in Live]_vars
  BY DEF Inv, RenewalsLive, Live
<1> QED
  BY <1>1, Invariance, PTL DEF Spec, RenewedOnlyWhileExecuting
=============================================================================
