--------------------------- MODULE JobLeasesProofs ---------------------------
(***************************************************************************)
(* Proofs, for every value of the constants, of the type invariant of      *)
(* JobLeases, of its safety invariants and of its action property.         *)
(***************************************************************************)
EXTENDS JobLeases, TLAPS

-----------------------------------------------------------------------------
(* Facts about the helpers *)

\* What a leased batch takes is leasable, whatever LIMIT and ORDER BY choose.
LEMMA BatchIsLeasable ==
    ASSUME TypeOK, NEW w \in Workers, NEW limit, NEW L \in Batches(w, limit)
    PROVE  L \subseteq Runs /\ \A r \in L : jobs[r].status = "ready"
BY DEF Batches, Leasable, TypeOK

\* A call that moves on leaves the counts of calls well typed.
LEMMA MovedType ==
    ASSUME calls \in [Execs -> [Stages -> Nat]], NEW e \in Execs,
           NEW s \in Stages, NEW t \in Stages, s # t, calls[e][s] > 0
    PROVE  Moved(e, s, t) \in [Execs -> [Stages -> Nat]]
<1>1. [calls[e] EXCEPT ![s] = @ - 1, ![t] = @ + 1] \in [Stages -> Nat]
  OBVIOUS
<1> QED
  BY <1>1 DEF Moved

\* A call that ends leaves the counts of calls well typed.
LEMMA EndedType ==
    ASSUME calls \in [Execs -> [Stages -> Nat]], NEW e \in Execs,
           NEW s \in Stages, calls[e][s] > 0
    PROVE  Ended(e, s) \in [Execs -> [Stages -> Nat]]
BY DEF Ended

\* An execution that changes phase with its age reset keeps its types.
LEMMA RestartedType ==
    ASSUME NEW x \in ExecRec, NEW p \in Phases
    PROVE  [x EXCEPT !.phase = p, !.age = 0] \in ExecRec
<1>1. 0 \in 0 .. ExecTime
  BY TimingAssumption
<1> QED
  BY <1>1 DEF ExecRec

\* A further submit keeps the types of the execution.
LEMMA SentType ==
    ASSUME NEW x \in ExecRec
    PROVE  [x EXCEPT !.phase = "sending", !.sends = @ + 1] \in ExecRec
<1>1. x.sends + 1 \in Nat
  BY DEF ExecRec
<1> QED
  BY <1>1 DEF ExecRec, Phases

\* A row that is done keeps its types.
LEMMA DoneType ==
    ASSUME NEW x \in JobRow
    PROVE  [x EXCEPT !.status = "done", !.left = -1] \in JobRow
<1>1. -1 \in -1 .. Lease
  BY TimingAssumption
<1> QED
  BY <1>1 DEF JobRow, Statuses

\* An execution that is over keeps its types.
LEMMA OverType ==
    ASSUME TypeOK, NEW e \in Execs, NEW p \in Phases, Over(e, p)
    PROVE  exec' \in [Execs -> ExecRec] /\ onTime' \subseteq Execs /\ renewing' \subseteq Execs
<1>1. exec \in [Execs -> ExecRec] /\ onTime \subseteq Execs /\ renewing \subseteq Execs
  BY DEF TypeOK
<1> QED
  BY <1>1, RestartedType DEF Over

-----------------------------------------------------------------------------
(* Type correctness *)

\* The initial state is well typed.
LEMMA InitType == Init => TypeOK
BY TimingAssumption, BoundsAssumption
   DEF Init, NoRow, TypeOK, JobRow, ExecRec, Statuses, Phases, Stages

\* Every action preserves the types of the rows, the executions and the calls.
LEMMA NextType == TypeOK /\ [Next]_vars => TypeOK'
<1> SUFFICES ASSUME TypeOK, [Next]_vars PROVE TypeOK'
  OBVIOUS
<1> USE TimingAssumption, BoundsAssumption
<1>1. ASSUME NEW r \in Runs, CreateJob(r) PROVE TypeOK'
  BY <1>1 DEF CreateJob, ReadyRow, agents, TypeOK, JobRow, Statuses
<1>2. ASSUME NEW m \in Monitors, DeleteMonitor(m) PROVE TypeOK'
  BY <1>2 DEF DeleteMonitor, agents, TypeOK
<1>3. ASSUME NEW w \in Workers, GetJobs(w) PROVE TypeOK'
  <2>1. PICK L \in SUBSET Runs :
          /\ \A r \in Delivered(L) : started[r] < MaxAttempts
          /\ jobs' = LeaseTo(w, L)
          /\ started' = CountStarted(Delivered(L))
          /\ exec' = Launch(w, Delivered(L))
          /\ onTime' = onTime \cup NextExecs(Delivered(L))
          /\ renewing' = renewing \cup NextExecs(Delivered(L) \cap LongRuns)
    BY <1>3, BatchIsLeasable DEF GetJobs
  <2>2. jobs' \in [Runs -> JobRow]
    BY <2>1 DEF LeaseTo, TypeOK, Statuses, JobRow
  <2>3. exec' \in [Execs -> ExecRec]
    BY <2>1 DEF Launch, TypeOK, Phases, ExecRec
  <2>4. started' \in [Runs -> 0 .. MaxAttempts]
    BY <2>1 DEF CountStarted, TypeOK
  <2>5. onTime' \subseteq Execs /\ renewing' \subseteq Execs
    BY <2>1 DEF NextExecs, TypeOK
  <2> QED
    BY <1>3, <2>2, <2>3, <2>4, <2>5 DEF GetJobs, TypeOK
<1>4. ASSUME NEW w \in Workers, GetJobsReplyLost(w) PROVE TypeOK'
  <2>1. jobs' \in [Runs -> JobRow]
    BY <1>4 DEF GetJobsReplyLost, LeaseTo, TypeOK, Statuses, JobRow
  <2> QED
    BY <1>4, <2>1 DEF GetJobsReplyLost, Fault, agents, TypeOK
<1>5. ASSUME NEW w \in Workers, StopWorker(w) PROVE TypeOK'
  <2>1. ASSUME NEW e \in Execs
        PROVE  [exec[e] EXCEPT !.phase = "dead", !.age = 0] \in ExecRec
    BY RestartedType DEF TypeOK, Phases
  <2>2. exec' \in [Execs -> ExecRec]
    BY <1>5, <2>1 DEF StopWorker, TypeOK
  <2>3. onTime' \subseteq Execs /\ renewing' \subseteq Execs /\ down' \subseteq Workers
    <3>1. /\ onTime' = onTime \ RunningOn(w) /\ renewing' = renewing \ RunningOn(w)
          /\ down' = down \cup {w}
      BY <1>5 DEF StopWorker
    <3> QED
      BY <3>1 DEF TypeOK
  <2>4. faults' \in 0 .. MaxFaults
    <3>1. Fault
      BY <1>5 DEF StopWorker
    <3> QED
      BY <3>1 DEF Fault, TypeOK
  <2>5. UNCHANGED <<jobs, due, deleted, results, started, calls>>
    BY <1>5 DEF StopWorker, table
  <2> QED
    BY <2>2, <2>3, <2>4, <2>5 DEF TypeOK
<1>6. ASSUME NEW e \in Execs, Submit(e) PROVE TypeOK'
  <2>1. exec' \in [Execs -> ExecRec]
    <3>1. exec \in [Execs -> ExecRec]
      BY DEF TypeOK
    <3>2. [exec[e] EXCEPT !.phase = "sending", !.sends = @ + 1] \in ExecRec
      BY <3>1, SentType
    <3> QED
      BY <1>6, <3>1, <3>2 DEF Submit
  <2>2. calls' \in [Execs -> [Stages -> Nat]]
    BY <1>6 DEF Submit, TypeOK, Stages
  <2> QED
    BY <1>6, <2>1, <2>2 DEF Submit, table, TypeOK
<1>7. ASSUME NEW e \in Execs, GiveUp(e) PROVE TypeOK'
  BY <1>7, OverType DEF GiveUp, table, TypeOK, Phases
<1>8. ASSUME NEW e \in Execs, ReceiveAck(e) PROVE TypeOK'
  <2>1. calls' \in [Execs -> [Stages -> Nat]]
    BY <1>8, EndedType DEF ReceiveAck, TypeOK, Stages
  <2>2. exec' \in [Execs -> ExecRec] /\ onTime' \subseteq Execs /\ renewing' \subseteq Execs
    BY <1>8, OverType DEF ReceiveAck, TypeOK, Phases
  <2> QED
    BY <1>8, <2>1, <2>2 DEF ReceiveAck, table, TypeOK
<1>9. ASSUME NEW e \in Execs, RenewLease(e) PROVE TypeOK'
  <2>1. exec \in [Execs -> ExecRec] /\ jobs \in [Runs -> JobRow]
    BY DEF TypeOK
  <2>2. CASE Held(e)
    <3>1. exec' \in [Execs -> ExecRec]
      BY <1>9, <2>1, <2>2 DEF RenewLease, ExecRec
    <3>2. jobs' \in [Runs -> JobRow]
      BY <1>9, <2>1, <2>2 DEF RenewLease, JobRow, Execs
    <3> QED
      BY <1>9, <2>2, <3>1, <3>2 DEF RenewLease, TypeOK
  <2>3. CASE ~Held(e)
    BY <1>9, <2>3 DEF RenewLease, TypeOK
  <2> QED
    BY <2>2, <2>3
<1>10. ASSUME NEW e \in Execs, RenewFails(e) \/ Stall(e) PROVE TypeOK'
  BY <1>10 DEF RenewFails, Stall, Fault, table, TypeOK
<1>11. ASSUME NEW e \in Execs, StoreResult(e) PROVE TypeOK'
  <2>1. calls' \in [Execs -> [Stages -> Nat]]
    BY <1>11, MovedType DEF StoreResult, TypeOK, Stages
  <2> QED
    BY <1>11, <2>1 DEF StoreResult, agents, TypeOK
<1>12. ASSUME NEW e \in Execs, CompleteJob(e) PROVE TypeOK'
  <2>1. calls' \in [Execs -> [Stages -> Nat]]
    BY <1>12, MovedType DEF CompleteJob, TypeOK, Stages
  <2>2. jobs \in [Runs -> JobRow]
    BY DEF TypeOK
  <2>3. jobs' \in [Runs -> JobRow]
    <3>1. e[1] \in Runs
      BY DEF Execs
    <3>2. [jobs[e[1]] EXCEPT !.status = "done", !.left = -1] \in JobRow
      BY <2>2, <3>1, DoneType
    <3> QED
      BY <1>12, <2>2, <3>1, <3>2 DEF CompleteJob
  <2> QED
    BY <1>12, <2>1, <2>3 DEF CompleteJob, agents, TypeOK
<1>13. ASSUME NEW e \in Execs, CheckJob(e) PROVE TypeOK'
  <2>1. calls' \in [Execs -> [Stages -> Nat]]
    BY <1>13, MovedType, EndedType DEF CheckJob, TypeOK, Stages
  <2> QED
    BY <1>13, <2>1 DEF CheckJob, table, TypeOK
<1>14. ASSUME NEW e \in Execs, NEW s \in Stages, DropCall(e, s) PROVE TypeOK'
  <2>1. calls' \in [Execs -> [Stages -> Nat]]
    BY <1>14, EndedType DEF DropCall, TypeOK
  <2> QED
    BY <1>14, <2>1 DEF DropCall, Fault, table, TypeOK
<1>15. ASSUME ReclaimExpiredLeases PROVE TypeOK'
  <2>1. jobs' \in [Runs -> JobRow]
    BY <1>15 DEF ReclaimExpiredLeases, ReadyRow, TypeOK, JobRow, Statuses
  <2> QED
    BY <1>15, <2>1 DEF ReclaimExpiredLeases, agents, TypeOK
<1>16. ASSUME NEW R \in SUBSET Runs, DeleteDoneJobs(R) PROVE TypeOK'
  <2>1. ASSUME NEW r \in Runs PROVE [jobs[r] EXCEPT !.status = "purged"] \in JobRow
    BY DEF TypeOK, JobRow, Statuses
  <2> QED
    BY <1>16, <2>1 DEF DeleteDoneJobs, agents, TypeOK
<1>17. ASSUME Tick PROVE TypeOK'
  <2>1. exec \in [Execs -> ExecRec] /\ jobs \in [Runs -> JobRow]
    BY DEF TypeOK
  <2>2. ASSUME NEW x \in JobRow, x.left >= 0
        PROVE  [x EXCEPT !.left = x.left - 1] \in JobRow
    BY <2>2 DEF JobRow
  <2>3. ASSUME NEW x \in ExecRec, x.age < ExecTime
        PROVE  [x EXCEPT !.age = x.age + 1] \in ExecRec
    BY <2>3 DEF ExecRec
  <2>4. exec' \in [Execs -> ExecRec] /\ jobs' \in [Runs -> JobRow]
    BY <1>17, <2>1, <2>2, <2>3 DEF Tick
  <2> QED
    BY <1>17, <2>4 DEF Tick, TypeOK
<1>18. CASE UNCHANGED vars
  BY <1>18 DEF vars, TypeOK
<1> QED
  BY <1>1, <1>2, <1>3, <1>4, <1>5, <1>6, <1>7, <1>8, <1>9, <1>10, <1>11, <1>12,
     <1>13, <1>14, <1>15, <1>16, <1>17, <1>18 DEF Next

\* The table, the executions and the calls are well typed in every reachable state.
THEOREM TypeCorrect == Spec => []TypeOK
BY InitType, NextType, PTL DEF Spec

-----------------------------------------------------------------------------
(* The inductive invariant *)

\* Nothing is known of executions that did not start.
UnstartedIdle ==
    \A e \in Execs : e[2] > started[e[1]] =>
        /\ exec[e].phase = "idle" /\ e \notin onTime /\ e \notin renewing
        /\ \A s \in Stages : calls[e][s] = 0

\* Only executions in flight are on time.
OnTimeInFlight == \A e \in onTime : InFlight(e)

\* What a SubmitResult call knows at each of its stages.
CallsSound ==
    \A e \in Execs :
        /\ \A s \in Stages \ {"store"} : calls[e][s] > 0 => e \in results
        /\ calls[e]["check"] > 0 /\ e \in onTime => Finished(e[1])
        /\ calls[e]["ok"] > 0 \/ exec[e].phase = "acked"
              => e \in results /\ Finished(e[1])

\* The lease of an execution on time is as fresh as the execution itself.
OnTimeFresh ==
    \A e \in onTime :
        Finished(e[1]) \/ (Held(e) /\ jobs[e[1]].left + exec[e].age >= Lease)

\* A run that was executed once more than there were faults is over or in the
\* hands of an execution on time, so it cannot be leased again.
BudgetSound ==
    \A r \in Runs :
        \/ started[r] <= faults
        \/ /\ started[r] = faults + 1
           /\ Finished(r) \/ <<r, started[r]>> \in onTime

\* What makes the safety invariants inductive, beyond the types.
Strengthening == UnstartedIdle /\ OnTimeInFlight /\ CallsSound
                 /\ OnTimeFresh /\ BudgetSound /\ DoneHasHoldersResult

\* Every action preserves it.  Most actions touch one conjunct; GetJobs, which
\* starts executions, and CompleteJob, which ends a job, need an argument each.
LEMMA StrengtheningStep ==
    ASSUME TypeOK, TypeOK', Strengthening, Next
    PROVE  Strengthening'
<1> USE TimingAssumption, BoundsAssumption
<1> UnstartedIdle /\ OnTimeInFlight /\ CallsSound /\ OnTimeFresh /\ BudgetSound
    /\ DoneHasHoldersResult
  BY DEF Strengthening
<1>1. ASSUME NEW r \in Runs, CreateJob(r) PROVE Strengthening'
  <2>1. /\ UnstartedIdle' /\ OnTimeInFlight' /\ CallsSound'
        /\ OnTimeFresh' /\ BudgetSound' /\ DoneHasHoldersResult'
    BY <1>1
       DEF CreateJob, ReadyRow, agents, UnstartedIdle, OnTimeInFlight, CallsSound,
           OnTimeFresh, BudgetSound, DoneHasHoldersResult, InFlight, Held, Finished
  <2> QED
    BY <2>1 DEF Strengthening
<1>2. ASSUME NEW m \in Monitors, DeleteMonitor(m) PROVE Strengthening'
  <2>1. /\ UnstartedIdle' /\ OnTimeInFlight' /\ CallsSound'
        /\ OnTimeFresh' /\ BudgetSound' /\ DoneHasHoldersResult'
    BY <1>2
       DEF DeleteMonitor, agents, UnstartedIdle, OnTimeInFlight, CallsSound,
           OnTimeFresh, BudgetSound, DoneHasHoldersResult, InFlight, Held, Finished
  <2> QED
    BY <2>1 DEF Strengthening
<1>3. ASSUME NEW w \in Workers, GetJobs(w) PROVE Strengthening'
  <2>1. PICK L \in SUBSET Runs :
          /\ \A r \in L : jobs[r].status = "ready"
          /\ jobs' = LeaseTo(w, L)
          /\ started' = CountStarted(Delivered(L))
          /\ exec' = Launch(w, Delivered(L))
          /\ onTime' = onTime \cup NextExecs(Delivered(L))
          /\ renewing' = renewing \cup NextExecs(Delivered(L) \cap LongRuns)
    BY <1>3, BatchIsLeasable DEF GetJobs
  <2> DEFINE D == Delivered(L)
  <2>2. /\ D \subseteq L
        /\ UNCHANGED <<results, calls, faults>>
    BY <1>3 DEF Delivered, GetJobs
  <2>3. ASSUME NEW r \in Runs
        PROVE  /\ r \in L => jobs'[r] = [status |-> "leased", worker |-> w, left |-> Lease]
               /\ r \notin L => jobs'[r] = jobs[r]
               /\ started'[r] = IF r \in D THEN started[r] + 1 ELSE started[r]
    BY <2>1 DEF LeaseTo, CountStarted
  <2>4. ASSUME NEW x \in Execs
        PROVE  /\ x \in NextExecs(D) =>
                    exec'[x] = [phase |-> "running", worker |-> w, age |-> 0, sends |-> 0]
               /\ x \notin NextExecs(D) => exec'[x] = exec[x]
    BY <2>1 DEF Launch
  <2>5. ASSUME NEW x \in Execs
        PROVE  x \in NextExecs(D) <=> x[1] \in D /\ x[2] = started[x[1]] + 1
    BY DEF NextExecs
  <2>6. \A x \in onTime : x[1] \notin L
    BY <2>1 DEF OnTimeFresh, Finished, Held, TypeOK, Execs
  <2>7. \A r \in L : started[r] <= faults
    BY <2>1, <2>6 DEF BudgetSound, Finished
  <2> HIDE DEF D
  <2>8. UnstartedIdle'
    <3> SUFFICES ASSUME NEW x \in Execs, x[2] > started'[x[1]]
                 PROVE  /\ exec'[x].phase = "idle" /\ x \notin onTime' /\ x \notin renewing'
                        /\ \A s \in Stages : calls'[x][s] = 0
      BY DEF UnstartedIdle
    <3>1. x[1] \in Runs /\ started[x[1]] \in Nat
      BY DEF Execs, TypeOK
    <3>2. x[2] > started[x[1]] /\ x \notin NextExecs(D)
      BY <2>3, <2>5, <3>1 DEF Execs
    <3>3. x \notin NextExecs(D \cap LongRuns)
      BY <3>2 DEF NextExecs
    <3> QED
      BY <2>1, <2>2, <2>4, <3>2, <3>3 DEF UnstartedIdle, D
  <2>9. OnTimeInFlight'
    BY <2>1, <2>4 DEF OnTimeInFlight, InFlight, TypeOK, D
  <2>10. CallsSound'
    <3> SUFFICES ASSUME NEW x \in Execs
                 PROVE  /\ \A s \in Stages \ {"store"} : calls'[x][s] > 0 => x \in results'
                        /\ calls'[x]["check"] > 0 /\ x \in onTime' => Finished(x[1])'
                        /\ calls'[x]["ok"] > 0 \/ exec'[x].phase = "acked"
                              => x \in results' /\ Finished(x[1])'
      BY DEF CallsSound
    <3>1. x[1] \in Runs /\ started[x[1]] \in Nat
      BY DEF Execs, TypeOK
    <3>2. Finished(x[1]) => Finished(x[1])'
      BY <2>1, <2>3, <3>1 DEF Finished
    <3>3. CASE x \in NextExecs(D)
      <4>1. \A s \in Stages : calls[x][s] = 0
        BY <2>5, <3>1, <3>3 DEF UnstartedIdle
      <4> QED
        BY <2>2, <2>4, <3>3, <4>1 DEF Stages
    <3>4. CASE x \notin NextExecs(D)
      <4>1. exec'[x] = exec[x] /\ (x \in onTime' <=> x \in onTime)
        BY <2>1, <2>4, <3>4 DEF D
      <4> QED
        BY <2>2, <3>2, <4>1 DEF CallsSound
    <3> QED
      BY <3>3, <3>4
  <2>11. OnTimeFresh'
    <3> SUFFICES ASSUME NEW x \in onTime'
                 PROVE  \/ Held(x)' /\ jobs'[x[1]].left + exec'[x].age >= Lease
                        \/ Finished(x[1])'
      BY DEF OnTimeFresh
    <3>1. x \in Execs /\ x[1] \in Runs
      BY <2>1 DEF TypeOK, NextExecs, Execs
    <3>2. CASE x \in NextExecs(D)
      BY <2>2, <2>3, <2>4, <2>5, <3>1, <3>2 DEF Held
    <3>3. CASE x \notin NextExecs(D)
      BY <2>1, <2>3, <2>4, <2>6, <3>1, <3>3 DEF OnTimeFresh, Held, Finished, D
    <3> QED
      BY <3>2, <3>3
  <2>12. BudgetSound'
    <3> SUFFICES ASSUME NEW r \in Runs
                 PROVE  \/ started'[r] <= faults'
                        \/ /\ started'[r] = faults' + 1
                           /\ Finished(r)' \/ <<r, started'[r]>> \in onTime'
      BY DEF BudgetSound
    <3>1. started[r] \in Nat /\ faults \in Nat /\ started'[r] \in 0 .. MaxAttempts
      BY DEF TypeOK
    <3>2. CASE r \in D
      <4>1. started'[r] = started[r] + 1 /\ started[r] <= faults
        BY <2>2, <2>3, <2>7, <3>2
      <4>2. <<r, started'[r]>> \in NextExecs(D)
        BY <3>1, <3>2, <4>1 DEF NextExecs, Execs
      <4> QED
        BY <2>1, <2>2, <3>1, <4>1, <4>2 DEF D
    <3>3. CASE r \notin D /\ r \in L
      BY <2>2, <2>3, <2>7, <3>3
    <3>4. CASE r \notin L
      BY <2>1, <2>2, <2>3, <3>4 DEF BudgetSound, Finished
    <3> QED
      BY <3>2, <3>3, <3>4
  <2>13. DoneHasHoldersResult'
    <3> SUFFICES ASSUME NEW r \in Runs, Finished(r)'
                 PROVE  \E x \in results' : x[1] = r /\ exec'[x].worker = jobs'[r].worker
      BY DEF DoneHasHoldersResult
    <3>1. r \notin L /\ jobs'[r] = jobs[r] /\ Finished(r)
      BY <2>3 DEF Finished
    <3>2. PICK x \in results : x[1] = r /\ exec[x].worker = jobs[r].worker
      BY <3>1 DEF DoneHasHoldersResult
    <3>3. x \in Execs /\ x \notin NextExecs(D)
      BY <2>2, <2>5, <3>1, <3>2 DEF TypeOK
    <3> QED
      BY <2>2, <2>4, <3>1, <3>2, <3>3
  <2> QED
    BY <2>8, <2>9, <2>10, <2>11, <2>12, <2>13 DEF Strengthening
<1>4. ASSUME NEW w \in Workers, GetJobsReplyLost(w) PROVE Strengthening'
  <2>1. PICK L \in SUBSET Runs :
          (\A r \in L : jobs[r].status = "ready") /\ jobs' = LeaseTo(w, L)
    BY <1>4, BatchIsLeasable DEF GetJobsReplyLost
  <2>2. Fault /\ UNCHANGED <<results, agents, calls>>
    BY <1>4 DEF GetJobsReplyLost
  <2>3. \A r \in Runs : r \notin L => jobs'[r] = jobs[r]
    BY <2>1 DEF LeaseTo
  <2>4. \A x \in onTime : x[1] \notin L
    BY <2>1 DEF OnTimeFresh, Finished, Held, TypeOK, Execs
  <2>5. \A r \in Runs : Finished(r) <=> Finished(r)'
    BY <2>1 DEF LeaseTo, Finished
  <2>6. UnstartedIdle'
    BY <2>2 DEF UnstartedIdle, agents
  <2>7. OnTimeInFlight'
    BY <2>2 DEF OnTimeInFlight, InFlight, agents
  <2>8. CallsSound'
    BY <2>2, <2>5 DEF CallsSound, agents, Execs
  <2>9. OnTimeFresh'
    BY <2>2, <2>3, <2>4, <2>5 DEF OnTimeFresh, Held, agents, TypeOK, Execs
  <2>10. BudgetSound'
    BY <2>2, <2>5 DEF BudgetSound, Fault, agents, TypeOK
  <2>11. DoneHasHoldersResult'
    BY <2>2, <2>3, <2>5, <2>1 DEF DoneHasHoldersResult, Finished, agents
  <2> QED
    BY <2>6, <2>7, <2>8, <2>9, <2>10, <2>11 DEF Strengthening
<1>5. ASSUME NEW w \in Workers, StopWorker(w) PROVE Strengthening'
  <2>a. /\ UNCHANGED <<jobs, results, started, calls>>
        /\ onTime' = onTime \ RunningOn(w) /\ renewing' = renewing \ RunningOn(w)
    BY <1>5 DEF StopWorker, table
  <2>b. ASSUME NEW x \in Execs
        PROVE  /\ x \notin RunningOn(w) => exec'[x] = exec[x]
               /\ x \in RunningOn(w) => InFlight(x) /\ exec'[x].phase = "dead"
    BY <1>5 DEF StopWorker, TypeOK, RunningOn, ExecRec
  <2>c. UnstartedIdle'
    <3> SUFFICES ASSUME NEW x \in Execs, x[2] > started'[x[1]]
                 PROVE  /\ exec'[x].phase = "idle" /\ x \notin onTime' /\ x \notin renewing'
                        /\ \A s \in Stages : calls'[x][s] = 0
      BY DEF UnstartedIdle
    <3>1. exec[x].phase = "idle" /\ x \notin onTime /\ x \notin renewing
          /\ \A s \in Stages : calls[x][s] = 0
      BY <2>a DEF UnstartedIdle
    <3>2. x \notin RunningOn(w)
      BY <2>b, <3>1 DEF InFlight
    <3> QED
      BY <2>a, <2>b, <3>1, <3>2
  <2>d. OnTimeInFlight' /\ OnTimeFresh'
    <3>1. onTime \subseteq Execs
      BY DEF TypeOK
    <3>2. \A x \in onTime' : x \in onTime /\ exec'[x] = exec[x]
      BY <2>a, <2>b, <3>1
    <3> QED
      BY <2>a, <3>2 DEF OnTimeInFlight, OnTimeFresh, InFlight, Held, Finished
  <2>e. CallsSound'
    <3>1. \A x \in Execs : exec'[x].phase = "acked" => exec[x].phase = "acked"
      BY <2>b
    <3> QED
      BY <2>a, <3>1 DEF CallsSound, Finished
  <2>1. UnstartedIdle' /\ OnTimeInFlight' /\ CallsSound' /\ OnTimeFresh'
    BY <2>c, <2>d, <2>e
  <2>2. BudgetSound'
    <3>1. Fault /\ UNCHANGED <<jobs, started>>
      BY <1>5 DEF StopWorker, table
    <3> QED
      BY <3>1 DEF Fault, TypeOK, BudgetSound
  <2>3. DoneHasHoldersResult'
    <3>1. \A x \in Execs : exec'[x].worker = exec[x].worker
      BY <1>5 DEF StopWorker, TypeOK, ExecRec
    <3>2. UNCHANGED <<jobs, results>>
      BY <1>5 DEF StopWorker, table
    <3> QED
      BY <3>1, <3>2 DEF TypeOK, DoneHasHoldersResult, Finished
  <2> QED
    BY <2>1, <2>2, <2>3 DEF Strengthening
<1>6. ASSUME NEW e \in Execs, Submit(e) PROVE Strengthening'
  <2>1. /\ UnstartedIdle' /\ OnTimeInFlight' /\ CallsSound'
        /\ OnTimeFresh' /\ BudgetSound' /\ DoneHasHoldersResult'
    BY <1>6
       DEF Submit, table, UnstartedIdle, OnTimeInFlight, CallsSound, OnTimeFresh,
           BudgetSound, DoneHasHoldersResult, InFlight, Held, Finished
  <2> QED
    BY <2>1 DEF Strengthening
<1>7. ASSUME NEW e \in Execs, GiveUp(e) PROVE Strengthening'
  <2>1. /\ UnstartedIdle' /\ OnTimeInFlight' /\ CallsSound'
        /\ OnTimeFresh' /\ BudgetSound' /\ DoneHasHoldersResult'
    BY <1>7
       DEF GiveUp, Over, table, UnstartedIdle, OnTimeInFlight, CallsSound,
           OnTimeFresh, BudgetSound, DoneHasHoldersResult, InFlight, Held, Finished
  <2> QED
    BY <2>1 DEF Strengthening
<1>8. ASSUME NEW e \in Execs, ReceiveAck(e) PROVE Strengthening'
  <2>1. UnstartedIdle' /\ OnTimeInFlight' /\ CallsSound' /\ OnTimeFresh'
    BY <1>8
       DEF ReceiveAck, Over, Ended, table, TypeOK, UnstartedIdle, OnTimeInFlight,
           CallsSound, OnTimeFresh, InFlight, Held, Finished
  <2>2. BudgetSound'
    <3>1. Finished(e[1])
      BY <1>8 DEF ReceiveAck, CallsSound
    <3>2. UNCHANGED <<jobs, started, faults>> /\ onTime \ {e} \subseteq onTime'
      BY <1>8 DEF ReceiveAck, Over, table
    <3>3. \A r \in Runs : <<r, started[r]>> \in onTime \ onTime' => Finished(r)
      BY <3>1, <3>2
    <3> QED
      BY <3>2, <3>3 DEF BudgetSound, Finished
  <2>3. DoneHasHoldersResult'
    <3>1. \A x \in Execs : exec'[x].worker = exec[x].worker
      <4>1. exec \in [Execs -> ExecRec]
        BY DEF TypeOK
      <4>2. \/ exec' = exec
            \/ exec' = [exec EXCEPT ![e] = [exec[e] EXCEPT !.phase = "acked", !.age = 0]]
        BY <1>8 DEF ReceiveAck, Over
      <4>3. exec[e] \in ExecRec
        BY <4>1
      <4>4. [exec[e] EXCEPT !.phase = "acked", !.age = 0].worker = exec[e].worker
        BY <4>3 DEF ExecRec
      <4> QED
        BY <4>1, <4>2, <4>4
    <3>2. UNCHANGED <<jobs, results>>
      BY <1>8 DEF ReceiveAck, table
    <3> QED
      BY <3>1, <3>2 DEF TypeOK, DoneHasHoldersResult, Finished
  <2> QED
    BY <2>1, <2>2, <2>3 DEF Strengthening
<1>9. ASSUME NEW e \in Execs, RenewLease(e) PROVE Strengthening'
  <2>1. UnstartedIdle'
    BY <1>9 DEF RenewLease, TypeOK, UnstartedIdle
  <2>2. OnTimeInFlight'
    <3>1. \A x \in Execs : exec'[x].phase = exec[x].phase
      BY <1>9 DEF RenewLease, TypeOK, ExecRec
    <3> QED
      BY <1>9, <3>1 DEF RenewLease, TypeOK, OnTimeInFlight, InFlight
  <2>3. CallsSound'
    BY <1>9 DEF RenewLease, TypeOK, CallsSound, Finished, JobRow, ExecRec, Execs
  <2>4. OnTimeFresh'
    BY <1>9 DEF RenewLease, TypeOK, OnTimeFresh, Finished, Held, JobRow, ExecRec, Execs
  <2>5. BudgetSound'
    BY <1>9 DEF RenewLease, TypeOK, BudgetSound, Finished, JobRow
  <2>6. DoneHasHoldersResult'
    <3>1. \A x \in Execs : exec'[x].worker = exec[x].worker
      BY <1>9 DEF RenewLease, TypeOK, ExecRec
    <3>2. \A r \in Runs : /\ jobs'[r].worker = jobs[r].worker
                          /\ jobs'[r].status = jobs[r].status
      BY <1>9 DEF RenewLease, TypeOK, JobRow
    <3> QED
      BY <1>9, <3>1, <3>2 DEF RenewLease, TypeOK, DoneHasHoldersResult, Finished
  <2> QED
    BY <2>1, <2>2, <2>3, <2>4, <2>5, <2>6 DEF Strengthening
<1>10. ASSUME NEW e \in Execs, RenewFails(e) PROVE Strengthening'
  <2>1. /\ UnstartedIdle' /\ OnTimeInFlight' /\ CallsSound'
        /\ OnTimeFresh' /\ BudgetSound' /\ DoneHasHoldersResult'
    BY <1>10
       DEF RenewFails, Fault, table, TypeOK, UnstartedIdle, OnTimeInFlight,
           CallsSound, OnTimeFresh, BudgetSound, DoneHasHoldersResult, InFlight,
           Held, Finished
  <2> QED
    BY <2>1 DEF Strengthening
<1>11. ASSUME NEW e \in Execs, Stall(e) PROVE Strengthening'
  <2>1. /\ UnstartedIdle' /\ OnTimeInFlight' /\ CallsSound'
        /\ OnTimeFresh' /\ BudgetSound' /\ DoneHasHoldersResult'
    BY <1>11
       DEF Stall, Fault, table, TypeOK, UnstartedIdle, OnTimeInFlight, CallsSound,
           OnTimeFresh, BudgetSound, DoneHasHoldersResult, InFlight, Held, Finished
  <2> QED
    BY <2>1 DEF Strengthening
<1>12. ASSUME NEW e \in Execs, StoreResult(e) PROVE Strengthening'
  <2>1. /\ UnstartedIdle' /\ OnTimeInFlight' /\ CallsSound'
        /\ OnTimeFresh' /\ BudgetSound' /\ DoneHasHoldersResult'
    BY <1>12
       DEF StoreResult, Moved, agents, TypeOK, UnstartedIdle, OnTimeInFlight,
           CallsSound, OnTimeFresh, BudgetSound, DoneHasHoldersResult, InFlight,
           Held, Finished, Stages
  <2> QED
    BY <2>1 DEF Strengthening
<1>13. ASSUME NEW e \in Execs, CompleteJob(e) PROVE Strengthening'
  <2>1. UnstartedIdle'
    <3>1. UNCHANGED <<started, exec, onTime, renewing>>
      BY <1>13 DEF CompleteJob, agents
    <3>2. e[2] <= started[e[1]]
      BY <1>13 DEF CompleteJob, UnstartedIdle, Stages, TypeOK, Execs
    <3>3. \A x \in Execs : x # e => calls'[x] = calls[x]
      BY <1>13 DEF CompleteJob, Moved, TypeOK
    <3> QED
      BY <3>1, <3>2, <3>3 DEF UnstartedIdle, TypeOK, Execs
  <2>2. OnTimeInFlight'
    BY <1>13 DEF CompleteJob, agents, OnTimeInFlight, InFlight
  <2>3. CallsSound'
    <3>1. /\ e \in results
          /\ UNCHANGED <<results, exec, onTime>>
      BY <1>13 DEF CompleteJob, CallsSound, agents, Stages
    <3>2. CASE Held(e)
      <4>1. jobs' = [jobs EXCEPT ![e[1]] = [jobs[e[1]] EXCEPT !.status = "done", !.left = -1]]
        BY <1>13, <3>2 DEF CompleteJob
      <4>2. Finished(e[1])' /\ \A r \in Runs : Finished(r) => Finished(r)'
        BY <4>1 DEF Finished, TypeOK, JobRow, Execs
      <4>3. calls' = Moved(e, "complete", "ok")
        BY <1>13, <3>2 DEF CompleteJob
      <4>4. \A x \in Execs : /\ x # e => calls'[x] = calls[x]
                             /\ calls'[x]["check"] = calls[x]["check"]
        BY <4>3 DEF Moved, TypeOK, Stages
      <4> QED
        BY <3>1, <4>2, <4>4 DEF CallsSound, Execs
    <3>3. CASE ~Held(e)
      <4>1. UNCHANGED jobs /\ (e \in onTime => Finished(e[1]))
        BY <1>13, <3>3 DEF CompleteJob, OnTimeFresh
      <4>2. calls' = Moved(e, "complete", "check")
        BY <1>13, <3>3 DEF CompleteJob
      <4>3. \A x \in Execs : /\ x # e => calls'[x] = calls[x]
                             /\ calls'[x]["ok"] = calls[x]["ok"]
        BY <4>2 DEF Moved, TypeOK, Stages
      <4> QED
        BY <3>1, <4>1, <4>3 DEF CallsSound, Finished
    <3> QED
      BY <3>2, <3>3
  <2>4. ASSUME NEW r \in Runs
        PROVE  /\ Finished(r) => Finished(r)'
               /\ jobs'[r].worker = jobs[r].worker
               /\ jobs'[r] # jobs[r] => r = e[1] /\ Held(e) /\ Finished(r)'
    <3>1. jobs \in [Runs -> JobRow]
      BY DEF TypeOK
    <3>2. \/ UNCHANGED jobs
          \/ /\ Held(e)
             /\ jobs' = [jobs EXCEPT ![e[1]] = [jobs[e[1]] EXCEPT !.status = "done", !.left = -1]]
      BY <1>13 DEF CompleteJob
    <3>3. \/ jobs'[r] = jobs[r]
          \/ /\ r = e[1] /\ Held(e)
             /\ jobs'[r] = [jobs[r] EXCEPT !.status = "done", !.left = -1]
      BY <3>1, <3>2
    <3>4. jobs[r] \in JobRow
      BY <3>1
    <3> QED
      BY <3>3, <3>4 DEF Finished, JobRow
  <2>5. UNCHANGED <<results, started, exec, onTime, faults>>
    BY <1>13 DEF CompleteJob, agents
  <2>6. OnTimeFresh'
    <3> SUFFICES ASSUME NEW x \in onTime
                 PROVE  Finished(x[1])' \/ (Held(x)' /\ jobs'[x[1]].left + exec'[x].age >= Lease)
      BY <2>5 DEF OnTimeFresh
    <3>1. x[1] \in Runs
      BY DEF TypeOK, Execs
    <3>2. CASE jobs'[x[1]] = jobs[x[1]]
      BY <2>5, <3>2 DEF OnTimeFresh, Held, Finished
    <3> QED
      BY <2>4, <3>1, <3>2
  <2>7. BudgetSound'
    BY <2>4, <2>5 DEF BudgetSound
  <2>8. DoneHasHoldersResult'
    <3> SUFFICES ASSUME NEW r \in Runs, Finished(r)'
                 PROVE  \E x \in results' : x[1] = r /\ exec'[x].worker = jobs'[r].worker
      BY DEF DoneHasHoldersResult
    <3>1. CASE Finished(r)
      BY <2>4, <2>5, <3>1 DEF DoneHasHoldersResult
    <3>2. CASE ~Finished(r)
      <4>1. r = e[1] /\ Held(e)
        BY <2>4, <3>2 DEF Finished
      <4>2. e \in results
        BY <1>13 DEF CompleteJob, CallsSound, Stages
      <4> QED
        BY <2>4, <2>5, <4>1, <4>2 DEF Held
    <3> QED
      BY <3>1, <3>2
  <2> QED
    BY <2>1, <2>2, <2>3, <2>6, <2>7, <2>8 DEF Strengthening
<1>14. ASSUME NEW e \in Execs, CheckJob(e) PROVE Strengthening'
  <2>1. OnTimeInFlight' /\ DoneHasHoldersResult'
    BY <1>14
       DEF CheckJob, table, OnTimeInFlight, DoneHasHoldersResult, InFlight, Finished
  <2>2. UnstartedIdle'
    BY <1>14 DEF CheckJob, Moved, Ended, TypeOK, UnstartedIdle, Stages
  <2>3. CallsSound'
    <3>1. UNCHANGED <<jobs, results, exec>> /\ onTime' \subseteq onTime
      BY <1>14 DEF CheckJob, table
    <3>2. calls[e]["check"] > 0 /\ e \in results
      BY <1>14 DEF CheckJob, CallsSound, Stages
    <3>3. \A x \in Execs : x # e => calls'[x] = calls[x]
      BY <1>14 DEF CheckJob, Moved, Ended, TypeOK
    <3>4. CASE jobs[e[1]].status = "done"
      <4>1. calls' = Moved(e, "check", "ok") /\ Finished(e[1])
        BY <1>14, <3>4 DEF CheckJob, Finished
      <4> QED
        BY <3>1, <3>2, <3>3, <4>1 DEF CallsSound, Finished
    <3>5. CASE jobs[e[1]].status # "done"
      <4>1. calls' = Ended(e, "check") /\ onTime' = onTime \ {e}
        BY <1>14, <3>5 DEF CheckJob
      <4>2. calls'[e]["ok"] = calls[e]["ok"]
        BY <4>1 DEF Ended, TypeOK, Stages
      <4> QED
        BY <3>1, <3>2, <3>3, <4>1, <4>2 DEF CallsSound, Finished
    <3> QED
      BY <3>4, <3>5
  <2>4. OnTimeFresh'
    BY <1>14 DEF CheckJob, table, OnTimeFresh, Finished, Held
  <2>5. BudgetSound'
    <3>1. e \in onTime => Finished(e[1])
      BY <1>14 DEF CheckJob, CallsSound
    <3>2. UNCHANGED <<jobs, started, faults>> /\ onTime \ {e} \subseteq onTime'
      BY <1>14 DEF CheckJob, table
    <3>3. \A r \in Runs : <<r, started[r]>> \in onTime \ onTime' => Finished(r)
      BY <3>1, <3>2
    <3> QED
      BY <3>2, <3>3 DEF BudgetSound, Finished
  <2> QED
    BY <2>2, <2>1, <2>3, <2>4, <2>5 DEF Strengthening
<1>15. ASSUME NEW e \in Execs, NEW s \in Stages, DropCall(e, s) PROVE Strengthening'
  <2>1. /\ UnstartedIdle' /\ OnTimeInFlight' /\ CallsSound'
        /\ OnTimeFresh' /\ BudgetSound' /\ DoneHasHoldersResult'
    BY <1>15
       DEF DropCall, Fault, Ended, table, TypeOK, UnstartedIdle, OnTimeInFlight,
           CallsSound, OnTimeFresh, BudgetSound, DoneHasHoldersResult, InFlight,
           Held, Finished
  <2> QED
    BY <2>1 DEF Strengthening
<1>16. ASSUME ReclaimExpiredLeases PROVE Strengthening'
  <2>1. /\ UnstartedIdle' /\ OnTimeInFlight' /\ CallsSound'
        /\ OnTimeFresh' /\ BudgetSound' /\ DoneHasHoldersResult'
    BY <1>16
       DEF ReclaimExpiredLeases, ReadyRow, Expired, agents, TypeOK, UnstartedIdle,
           OnTimeInFlight, CallsSound, OnTimeFresh, BudgetSound,
           DoneHasHoldersResult, InFlight, Held, Finished, JobRow, ExecRec, Execs
  <2> QED
    BY <2>1 DEF Strengthening
<1>17. ASSUME NEW R \in SUBSET Runs, DeleteDoneJobs(R) PROVE Strengthening'
  <2>1. /\ UnstartedIdle' /\ OnTimeInFlight' /\ CallsSound'
        /\ OnTimeFresh' /\ BudgetSound' /\ DoneHasHoldersResult'
    BY <1>17
       DEF DeleteDoneJobs, agents, TypeOK, UnstartedIdle, OnTimeInFlight,
           CallsSound, OnTimeFresh, BudgetSound, DoneHasHoldersResult, InFlight,
           Held, Finished, Execs
  <2> QED
    BY <2>1 DEF Strengthening
<1>18. ASSUME Tick PROVE Strengthening'
  <2>1. UNCHANGED <<results, started, onTime, renewing, calls, faults>>
    BY <1>18 DEF Tick
  <2>2. ASSUME NEW x \in Execs
        PROVE  /\ exec'[x].phase = exec[x].phase /\ exec'[x].worker = exec[x].worker
               /\ x \in onTime => exec'[x].age = exec[x].age + 1
    BY <1>18 DEF Tick, TypeOK, ExecRec
  <2>3. ASSUME NEW r \in Runs
        PROVE  /\ jobs'[r].status = jobs[r].status /\ jobs'[r].worker = jobs[r].worker
               /\ jobs'[r].left >= jobs[r].left - 1
    <3>1. jobs[r] \in JobRow
      BY DEF TypeOK
    <3> QED
      BY <1>18, <3>1 DEF Tick, JobRow
  <2>4. UnstartedIdle' /\ OnTimeInFlight'
    BY <2>1, <2>2 DEF UnstartedIdle, OnTimeInFlight, InFlight, TypeOK
  <2>5. CallsSound' /\ BudgetSound' /\ DoneHasHoldersResult'
    <3>1. \A x \in Execs : x[1] \in Runs
      BY DEF Execs
    <3>2. \A r \in Runs : Finished(r)' <=> Finished(r)
      BY <2>3 DEF Finished
    <3>3. CallsSound'
      BY <2>1, <2>2, <3>1, <3>2 DEF CallsSound
    <3>4. BudgetSound'
      BY <2>1, <3>2 DEF BudgetSound
    <3>5. DoneHasHoldersResult'
      BY <2>1, <2>2, <2>3, <3>2 DEF DoneHasHoldersResult, TypeOK
    <3> QED
      BY <3>3, <3>4, <3>5
  <2>6. OnTimeFresh'
    <3> SUFFICES ASSUME NEW x \in onTime, ~Finished(x[1])'
                 PROVE  Held(x)' /\ jobs'[x[1]].left + exec'[x].age >= Lease
      BY <2>1 DEF OnTimeFresh
    <3>1. x \in Execs /\ x[1] \in Runs
      BY DEF TypeOK, Execs
    <3>2. Held(x) /\ jobs[x[1]].left + exec[x].age >= Lease
      BY <2>3, <3>1 DEF OnTimeFresh, Finished
    <3>3. Held(x)'
      BY <2>2, <2>3, <3>1, <3>2 DEF Held
    <3>4. jobs[x[1]].left \in Int /\ jobs'[x[1]].left \in Int /\ exec[x].age \in Int
      BY <3>1 DEF TypeOK, JobRow, ExecRec
    <3> QED
      BY <2>2, <2>3, <3>1, <3>2, <3>3, <3>4
  <2> QED
    BY <2>4, <2>5, <2>6 DEF Strengthening
<1> QED
  BY <1>1, <1>2, <1>3, <1>4, <1>5, <1>6, <1>7, <1>8, <1>9, <1>10, <1>11, <1>12, <1>13, <1>14, <1>15, <1>16, <1>17, <1>18
     DEF Next

\* The initial state satisfies the inductive invariant.
LEMMA StrengtheningInit == Init => Strengthening
<1> SUFFICES ASSUME Init PROVE Strengthening
  OBVIOUS
<1>1. /\ onTime = {} /\ renewing = {} /\ results = {}
      /\ \A e \in Execs : exec[e].phase = "idle" /\ \A s \in Stages : calls[e][s] = 0
  BY DEF Init
<1>2. UnstartedIdle /\ OnTimeInFlight /\ CallsSound /\ OnTimeFresh
  BY <1>1 DEF UnstartedIdle, OnTimeInFlight, CallsSound, OnTimeFresh, Stages
<1>3. BudgetSound
  BY BoundsAssumption DEF Init, BudgetSound
<1>4. DoneHasHoldersResult
  BY DEF Init, NoRow, DoneHasHoldersResult, Finished
<1> QED
  BY <1>2, <1>3, <1>4 DEF Strengthening

\* The strengthening holds in every reachable state.
THEOREM Invariance == Spec => [](TypeOK /\ Strengthening)
<1>1. Init => TypeOK /\ Strengthening
  BY InitType, StrengtheningInit
<1>2. TypeOK /\ Strengthening /\ [Next]_vars => (TypeOK /\ Strengthening)'
  <2> SUFFICES ASSUME TypeOK, Strengthening, [Next]_vars PROVE TypeOK' /\ Strengthening'
    OBVIOUS
  <2>1. TypeOK'
    BY NextType
  <2>2. CASE Next
    BY <2>1, <2>2, StrengtheningStep
  <2>3. CASE UNCHANGED vars
    BY <2>1, <2>3
       DEF vars, Strengthening, UnstartedIdle, OnTimeInFlight, CallsSound, OnTimeFresh,
           BudgetSound, DoneHasHoldersResult, InFlight, Held, Finished
  <2> QED
    BY <2>1, <2>2, <2>3
<1> QED
  BY <1>1, <1>2, PTL DEF Spec

\* A worker told committed=true has its result stored and its job over.
THEOREM CommitBeforeAckHolds == Spec => []CommitBeforeAck
<1>1. TypeOK /\ Strengthening => CommitBeforeAck
  BY DEF Strengthening, CallsSound, CommitBeforeAck
<1> QED
  BY <1>1, Invariance, PTL

\* A job is done only on a stored result of the worker it was leased to.
THEOREM DoneHasHoldersResultHolds == Spec => []DoneHasHoldersResult
<1>1. TypeOK /\ Strengthening => DoneHasHoldersResult
  BY DEF Strengthening
<1> QED
  BY <1>1, Invariance, PTL

\* An execution that met no fault never loses its lease.
THEOREM OnTimeHoldsLeaseHolds == Spec => []OnTimeHoldsLease
<1>1. TypeOK /\ Strengthening => OnTimeHoldsLease
  <2> SUFFICES ASSUME TypeOK, Strengthening, NEW e \in onTime
               PROVE  Finished(e[1]) \/ (Held(e) /\ jobs[e[1]].left > 0)
    BY DEF OnTimeHoldsLease
  <2>1. exec[e] \in ExecRec /\ jobs[e[1]] \in JobRow
    BY DEF TypeOK, Execs
  <2>2. Finished(e[1]) \/ (Held(e) /\ jobs[e[1]].left + exec[e].age >= Lease)
    BY DEF Strengthening, OnTimeFresh
  <2>3. exec[e].age \in 0 .. ExecTime /\ jobs[e[1]].left \in -1 .. Lease
    BY <2>1 DEF ExecRec, JobRow
  <2>4. jobs[e[1]].left + exec[e].age >= Lease => jobs[e[1]].left > 0
    BY <2>3, TimingAssumption
  <2> QED
    BY <2>2, <2>4
<1> QED
  BY <1>1, Invariance, PTL

\* A run is executed at most once more than there were faults.
THEOREM ReExecutionNeedsFaultHolds == Spec => []ReExecutionNeedsFault
<1>1. TypeOK /\ Strengthening => ReExecutionNeedsFault
  <2> SUFFICES ASSUME TypeOK, BudgetSound, NEW r \in Runs PROVE started[r] <= faults + 1
    BY DEF Strengthening, ReExecutionNeedsFault
  <2>1. started[r] \in 0 .. MaxAttempts /\ faults \in 0 .. MaxFaults
    BY DEF TypeOK
  <2>2. started[r] <= faults \/ started[r] = faults + 1
    BY DEF BudgetSound
  <2> QED
    BY <2>1, <2>2, BoundsAssumption
<1> QED
  BY <1>1, Invariance, PTL

\* One step ends no live lease other than by its job being done.
LEMMA LeaseStep ==
    ASSUME TypeOK, [Next]_vars, NEW r \in Runs, jobs[r].status = "leased", jobs[r].left >= 0
    PROVE  \/ jobs'[r].status = "done"
           \/ jobs'[r].status = "leased" /\ jobs'[r].worker = jobs[r].worker
<1> DEFINE Goal == \/ jobs'[r].status = "done"
                   \/ jobs'[r].status = "leased" /\ jobs'[r].worker = jobs[r].worker
<1> SUFFICES Goal
  OBVIOUS
<1>1. jobs \in [Runs -> JobRow] /\ jobs[r] \in JobRow
  BY DEF TypeOK
<1>2. ASSUME UNCHANGED jobs PROVE Goal
  BY <1>2
<1>3. ASSUME NEW q \in Runs, CreateJob(q) PROVE Goal
  BY <1>1, <1>3 DEF CreateJob
<1>4. ASSUME NEW w \in Workers, GetJobs(w) \/ GetJobsReplyLost(w) PROVE Goal
  <2>1. PICK L \in SUBSET Runs : (\A q \in L : jobs[q].status = "ready") /\ jobs' = LeaseTo(w, L)
    BY <1>4, BatchIsLeasable DEF GetJobs, GetJobsReplyLost
  <2> QED
    BY <2>1 DEF LeaseTo
<1>5. ASSUME NEW e \in Execs, RenewLease(e) PROVE Goal
  <2>1. \/ UNCHANGED jobs
        \/ jobs' = [jobs EXCEPT ![e[1]].left = Lease]
    BY <1>5 DEF RenewLease
  <2> QED
    BY <1>1, <2>1 DEF JobRow
<1>6. ASSUME NEW e \in Execs, CompleteJob(e) PROVE Goal
  <2>1. \/ UNCHANGED jobs
        \/ jobs' = [jobs EXCEPT ![e[1]] = [jobs[e[1]] EXCEPT !.status = "done", !.left = -1]]
    BY <1>6 DEF CompleteJob
  <2> QED
    BY <1>1, <2>1 DEF JobRow
<1>7. ASSUME ReclaimExpiredLeases PROVE Goal
  <2>1. ~Expired(r)
    BY <1>1 DEF Expired, JobRow
  <2> QED
    BY <1>7, <2>1 DEF ReclaimExpiredLeases
<1>8. ASSUME NEW R \in SUBSET Runs, DeleteDoneJobs(R) PROVE Goal
  BY <1>8 DEF DeleteDoneJobs
<1>9. ASSUME Tick PROVE Goal
  <2>1. jobs'[r] = [jobs[r] EXCEPT !.left = jobs[r].left - 1]
    BY <1>9 DEF Tick
  <2> QED
    BY <1>1, <2>1 DEF JobRow
<1>10. ASSUME NEW m \in Monitors, DeleteMonitor(m) PROVE Goal
  BY <1>2, <1>10 DEF DeleteMonitor
<1>11. ASSUME NEW w \in Workers, StopWorker(w) PROVE Goal
  BY <1>2, <1>11 DEF StopWorker, table
<1>12. ASSUME NEW e \in Execs,
              \/ Submit(e) \/ GiveUp(e) \/ ReceiveAck(e) \/ RenewFails(e) \/ Stall(e)
              \/ StoreResult(e) \/ CheckJob(e) \/ \E s \in Stages : DropCall(e, s)
       PROVE  Goal
  BY <1>2, <1>12
     DEF Submit, GiveUp, ReceiveAck, RenewFails, Stall, StoreResult, CheckJob, DropCall, table
<1>13. ASSUME UNCHANGED vars PROVE Goal
  BY <1>2, <1>13 DEF vars
<1> QED
  BY <1>3, <1>4, <1>5, <1>6, <1>7, <1>8, <1>9, <1>10, <1>11, <1>12, <1>13 DEF Next

\* A live lease ends only by its job being done.
THEOREM LiveLeaseUndisturbedHolds == Spec => LiveLeaseUndisturbed
<1>1. TypeOK /\ [Next]_vars
        => [\A r \in Runs :
              jobs[r].status = "leased" /\ jobs[r].left >= 0
                => \/ jobs'[r].status = "done"
                   \/ jobs'[r].status = "leased" /\ jobs'[r].worker = jobs[r].worker]_vars
  BY LeaseStep
<1> QED
  BY <1>1, TypeCorrect, PTL DEF Spec, LiveLeaseUndisturbed
=============================================================================
