------------------------- MODULE JobLeasesRefinement -------------------------
(***************************************************************************)
(* Proof that JobLeases implements JobLifecycle: every step of the         *)
(* handlers, the workers and the background services is one transition of  *)
(* the job state machine, or none.                                         *)
(***************************************************************************)
EXTENDS JobLeasesProofs

\* The refinement mapping, by name.
State == [r \in Runs |-> jobs[r].status]
Stored == {e[1] : e \in results}
Acked == {f \in Execs : exec[f].phase = "acked"}
Promised == {e[1] : e \in Acked}

\* Every step of JobLeases is a step of JobLifecycle or leaves it unchanged.
LEMMA LifecycleStep ==
    ASSUME TypeOK, Strengthening, [Next]_vars
    PROVE  [Lifecycle!Next]_(Lifecycle!vars)
<1> DEFINE Goal == [Lifecycle!Next]_(Lifecycle!vars)
<1> SUFFICES Goal
  OBVIOUS
<1> USE DEF State, Stored, Promised, Acked
<1>0. jobs \in [Runs -> JobRow] /\ exec \in [Execs -> ExecRec]
  BY DEF TypeOK
<1>1. ASSUME UNCHANGED <<State, Stored, Promised>> PROVE Goal
  BY <1>1 DEF Lifecycle!vars
<1>2. ASSUME UNCHANGED <<jobs, results>>,
             \A x \in Execs : exec'[x].phase = "acked" <=> exec[x].phase = "acked"
      PROVE  UNCHANGED <<State, Stored, Promised>>
  BY <1>2
<1>3. ASSUME NEW r \in Runs, CreateJob(r) PROVE Goal
  <2>1. Lifecycle!Create(r)
    BY <1>0, <1>3 DEF CreateJob, ReadyRow, agents, Lifecycle!Create, Lifecycle!Move
  <2> QED
    BY <2>1 DEF Lifecycle!Next
<1>4. ASSUME NEW w \in Workers, NEW L \in SUBSET Runs, \A r \in L : jobs[r].status = "ready",
             jobs' = LeaseTo(w, L), UNCHANGED <<Stored, Promised>>
      PROVE  Goal
  <2>1. Lifecycle!Grant(L)
    BY <1>4 DEF LeaseTo, Lifecycle!Grant, Lifecycle!Move
  <2> QED
    BY <2>1 DEF Lifecycle!Next
<1>5. ASSUME NEW w \in Workers, GetJobs(w) PROVE Goal
  <2>1. PICK L \in SUBSET Runs :
          /\ \A r \in L : jobs[r].status = "ready"
          /\ jobs' = LeaseTo(w, L)
          /\ exec' = Launch(w, Delivered(L))
    BY <1>5, BatchIsLeasable DEF GetJobs
  <2>2. \A x \in NextExecs(Delivered(L)) : exec[x].phase = "idle"
    BY DEF Strengthening, UnstartedIdle, NextExecs, TypeOK, Execs
  <2>3. \A x \in Execs : exec'[x].phase = "acked" <=> exec[x].phase = "acked"
    BY <2>1, <2>2 DEF Launch
  <2>4. UNCHANGED <<Stored, Promised>>
    BY <1>5, <2>3 DEF GetJobs
  <2> QED
    BY <1>4, <2>1, <2>4
<1>6. ASSUME NEW w \in Workers, GetJobsReplyLost(w) PROVE Goal
  <2>1. PICK L \in SUBSET Runs : (\A r \in L : jobs[r].status = "ready") /\ jobs' = LeaseTo(w, L)
    BY <1>6, BatchIsLeasable DEF GetJobsReplyLost
  <2>2. UNCHANGED <<Stored, Promised>>
    BY <1>6 DEF GetJobsReplyLost, agents
  <2> QED
    BY <1>4, <2>1, <2>2
<1>7. ASSUME NEW e \in Execs, ReceiveAck(e) PROVE Goal
  <2>1. e \in results /\ Finished(e[1]) /\ e[1] \in Runs
    BY <1>7 DEF ReceiveAck, Strengthening, CallsSound, Execs
  <2>2. UNCHANGED <<State, Stored>>
    BY <1>7 DEF ReceiveAck, table
  <2>3. \/ exec' = exec
        \/ /\ exec[e].phase = "sending"
           /\ exec' = [exec EXCEPT ![e] = [exec[e] EXCEPT !.phase = "acked", !.age = 0]]
    BY <1>7 DEF ReceiveAck, Over
  <2>4. UNCHANGED Promised \/ Promised' = Promised \cup {e[1]}
    <3>1. UNCHANGED Acked \/ Acked' = Acked \cup {e}
      BY <1>0, <2>3 DEF ExecRec
    <3> QED
      BY <3>1
  <2>5. CASE Promised' = Promised \cup {e[1]}
    <3>1. Lifecycle!Promise(e[1])
      BY <2>1, <2>2, <2>5 DEF Lifecycle!Promise, Finished
    <3> QED
      BY <2>1, <3>1 DEF Lifecycle!Next
  <2> QED
    BY <1>1, <2>2, <2>4, <2>5
<1>8. ASSUME NEW e \in Execs, StoreResult(e) PROVE Goal
  <2>1. results' = results \cup {e} /\ UNCHANGED <<jobs, exec>> /\ e[1] \in Runs
    BY <1>8 DEF StoreResult, agents, Execs
  <2>2. Lifecycle!Store(e[1])
    BY <2>1 DEF Lifecycle!Store
  <2> QED
    BY <2>1, <2>2 DEF Lifecycle!Next
<1>9. ASSUME NEW e \in Execs, CompleteJob(e) PROVE Goal
  <2>1. UNCHANGED <<Stored, Promised>> /\ e \in results /\ e[1] \in Runs
    BY <1>9 DEF CompleteJob, agents, Strengthening, CallsSound, Stages, Execs
  <2>2. \/ UNCHANGED jobs
        \/ /\ jobs[e[1]].status = "leased"
           /\ jobs' = [jobs EXCEPT ![e[1]] = [jobs[e[1]] EXCEPT !.status = "done", !.left = -1]]
    BY <1>9 DEF CompleteJob, Held
  <2>3. CASE UNCHANGED jobs
    BY <1>1, <2>1, <2>3
  <2>4. CASE ~UNCHANGED jobs
    <3>1. State' = [r \in Runs |-> IF r \in {e[1]} THEN "done" ELSE State[r]]
      BY <1>0, <2>1, <2>2, <2>4 DEF JobRow
    <3>2. Lifecycle!Complete(e[1])
      BY <2>1, <2>2, <2>4, <3>1 DEF Lifecycle!Complete, Lifecycle!Move
    <3> QED
      BY <2>1, <3>2 DEF Lifecycle!Next
  <2> QED
    BY <2>3, <2>4
<1>10. ASSUME ReclaimExpiredLeases PROVE Goal
  <2>1. PICK R \in SUBSET Runs : R = {r \in Runs : Expired(r)}
    OBVIOUS
  <2>2. Lifecycle!Release(R)
    BY <1>10, <2>1 DEF ReclaimExpiredLeases, ReadyRow, Expired, agents,
                       Lifecycle!Release, Lifecycle!Move
  <2> QED
    BY <2>2 DEF Lifecycle!Next
<1>11. ASSUME NEW R \in SUBSET Runs, DeleteDoneJobs(R) PROVE Goal
  <2>1. jobs' = [r \in Runs |-> IF r \in R THEN [jobs[r] EXCEPT !.status = "purged"]
                                ELSE jobs[r]]
    BY <1>11 DEF DeleteDoneJobs
  <2>2. ASSUME NEW r \in Runs PROVE [jobs[r] EXCEPT !.status = "purged"].status = "purged"
    BY <1>0 DEF JobRow
  <2>3. ASSUME NEW r \in Runs
        PROVE  jobs'[r].status = IF r \in R THEN "purged" ELSE jobs[r].status
    BY <2>1, <2>2
  <2>4. State' = [r \in Runs |-> IF r \in R THEN "purged" ELSE State[r]]
    BY <2>3
  <2>5. Lifecycle!Purge(R)
    BY <1>11, <2>4 DEF DeleteDoneJobs, agents, Lifecycle!Purge, Lifecycle!Move
  <2> QED
    BY <2>5 DEF Lifecycle!Next
<1>12. ASSUME NEW e \in Execs, RenewLease(e) PROVE Goal
  <2>1. /\ UNCHANGED results
        /\ UNCHANGED jobs \/ jobs' = [jobs EXCEPT ![e[1]].left = Lease]
        /\ UNCHANGED exec \/ exec' = [exec EXCEPT ![e].age = 0]
    BY <1>12 DEF RenewLease
  <2>2. UNCHANGED State
    BY <1>0, <2>1 DEF JobRow
  <2>3. \A x \in Execs : exec'[x].phase = exec[x].phase
    BY <1>0, <2>1 DEF ExecRec
  <2> QED
    BY <1>1, <2>1, <2>2, <2>3
<1>13. ASSUME Tick PROVE Goal
  <2>1. UNCHANGED State
    BY <1>0, <1>13 DEF Tick, JobRow
  <2>2. \A x \in Execs : exec'[x].phase = exec[x].phase
    BY <1>0, <1>13 DEF Tick, ExecRec
  <2> QED
    BY <1>1, <1>13, <2>1, <2>2 DEF Tick
<1>14. ASSUME NEW e \in Execs, Submit(e) \/ GiveUp(e) PROVE Goal
  <2>1. UNCHANGED <<jobs, results>>
    BY <1>14 DEF Submit, GiveUp, table
  <2>2. \A x \in Execs : exec'[x].phase = "acked" <=> exec[x].phase = "acked"
    BY <1>0, <1>14 DEF Submit, GiveUp, Over, ExecRec
  <2> QED
    BY <1>1, <1>2, <2>1, <2>2
<1>15. ASSUME NEW w \in Workers, StopWorker(w) PROVE Goal
  <2>1. UNCHANGED <<jobs, results>>
    BY <1>15 DEF StopWorker, table
  <2>2. \A x \in Execs : exec'[x].phase = "acked" <=> exec[x].phase = "acked"
    BY <1>0, <1>15 DEF StopWorker, RunningOn, InFlight, ExecRec
  <2> QED
    BY <1>1, <1>2, <2>1, <2>2
<1>16. ASSUME NEW e \in Execs,
              RenewFails(e) \/ Stall(e) \/ CheckJob(e) \/ \E s \in Stages : DropCall(e, s)
       PROVE  Goal
  BY <1>1, <1>2, <1>16 DEF RenewFails, Stall, CheckJob, DropCall, table
<1>17. ASSUME NEW m \in Monitors, DeleteMonitor(m) PROVE Goal
  BY <1>1, <1>2, <1>17 DEF DeleteMonitor, agents
<1>18. ASSUME UNCHANGED vars PROVE Goal
  BY <1>1, <1>2, <1>18 DEF vars
<1> QED
  BY <1>3, <1>5, <1>6, <1>7, <1>8, <1>9, <1>10, <1>11, <1>12, <1>13, <1>14, <1>15,
     <1>16, <1>17, <1>18 DEF Next

\* JobLeases implements JobLifecycle, for every value of the constants.
THEOREM Refinement == Spec => ImplementsLifecycle
<1>1. Init => Lifecycle!Init
  BY DEF Init, NoRow, Lifecycle!Init
<1>2. TypeOK /\ Strengthening /\ [Next]_vars => [Lifecycle!Next]_(Lifecycle!vars)
  BY LifecycleStep
<1> QED
  BY <1>1, <1>2, Invariance, PTL DEF Spec, ImplementsLifecycle, Lifecycle!Spec
=============================================================================
