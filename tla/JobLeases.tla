------------------------------ MODULE JobLeases ------------------------------
(***************************************************************************)
(* The life of a monitoring job in the control plane's database: the table *)
(* app.jobs, the result rows of ts.results_raw, the WorkerService handlers *)
(* (GetJobs, RenewLease, SubmitResult), the lease reaper, the job cleaner, *)
(* and the executions that workers run for the jobs they lease.            *)
(*                                                                         *)
(* One action is one SQL statement or one step of a worker goroutine.      *)
(* SubmitResult runs two or three statements without a transaction, so it  *)
(* is two or three actions and every other actor can run between them.     *)
(*                                                                         *)
(* Time is relative: a lease is the ticks left until lease_expires_at, an  *)
(* execution's age the ticks since it last extended its lease, so time has *)
(* no bound.  Everything that goes wrong outside the code (crash, lost or  *)
(* failed call, stall) costs one of MaxFaults faults.  An execution that   *)
(* met none is "on time": it finishes, submits and renews within ExecTime  *)
(* ticks.  A check's timeout of at most 20s (the renewal threshold) and    *)
(* the submit timeout of 10s stay below the lease of 45s, and so does the  *)
(* renewal interval of 10s plus its 5s timeout when the check is longer.   *)
(***************************************************************************)
EXTENDS Integers, FiniteSets

CONSTANTS
    Runs,           \* the run_ids the scheduler may create jobs under
    Monitors,
    Workers,        \* worker ids; a restarted worker enrolls as a new id
    Global,         \* the region 'global'
    NoWorker,       \* worker_id IS NULL
    MonitorOf,      \* run -> its monitor
    RegionOf,       \* run -> the region the job is for
    WorkerRegion,   \* worker -> the region it serves
    SchedAt,        \* run -> scheduled_at
    DedupWindow,    \* half the width of the scheduler's dedup window
    LongRuns,       \* runs whose timeout exceeds the lease renewal threshold
    Deletable,      \* monitors their user may delete
    Lease,          \* lease duration, in ticks
    ExecTime,       \* ticks an undisturbed execution needs between extensions
    MaxConcurrency, \* the largest max_jobs a worker asks for
    MaxSends,       \* worker -> SubmitResult attempts of one execution
    MaxAttempts,    \* bound: executions of one run
    MaxFaults       \* bound: faults of one behaviour

ASSUME TimingAssumption ==
    /\ Lease \in Nat /\ ExecTime \in Nat /\ ExecTime < Lease
ASSUME BoundsAssumption ==
    /\ MaxConcurrency \in Nat \ {0} /\ MaxSends \in [Workers -> Nat \ {0}]
    /\ MaxAttempts \in Nat \ {0} /\ MaxFaults \in Nat
ASSUME TableAssumption ==
    /\ MonitorOf \in [Runs -> Monitors] /\ SchedAt \in [Runs -> Int]
    /\ DedupWindow \in Nat /\ LongRuns \subseteq Runs
    /\ Deletable \subseteq Monitors /\ NoWorker \notin Workers

\* An execution is the n-th delivery of a run to a worker.  It stands for the
\* event_at the worker stamps on the result, so it is also the key of the row.
Execs == Runs \X (1 .. MaxAttempts)

\* The places a SubmitResult call can be: before UpsertResult, CompleteJob and
\* GetJobByRunID, and the reply committed=true on its way to the worker.
Stages == {"store", "complete", "check", "ok"}

VARIABLES
    jobs,      \* app.jobs: status, worker_id and ticks left of the lease
    due,       \* runs with scheduled_at <= NOW()
    deleted,   \* monitors with deleted_at set
    results,   \* ts.results_raw, by (run_id, event_at)
    started,   \* executions started per run
    exec,      \* the executions, in the workers' memory
    onTime,    \* executions in flight that met no fault
    renewing,  \* executions whose renewal goroutine runs
    calls,     \* SubmitResult calls in flight, per execution and stage
    down,      \* workers that crashed or shut down
    faults     \* faults so far

table == <<jobs, due, deleted, results>>
agents == <<started, exec, onTime, renewing, down>>
vars == <<jobs, due, deleted, results, started, exec, onTime, renewing, calls, down, faults>>

Statuses == {"absent", "ready", "leased", "done", "purged"}
Phases == {"idle", "running", "sending", "acked", "gaveup", "dead"}

\* A row of app.jobs; left counts down while it is leased, and CompleteJob keeps
\* worker_id.
JobRow == [status : Statuses, worker : Workers \cup {NoWorker}, left : -1 .. Lease]
\* An execution: its phase, its worker, ticks since it extended its lease, and
\* submits so far.
ExecRec == [phase : Phases, worker : Workers \cup {NoWorker}, age : 0 .. ExecTime,
            sends : Nat]

\* The types of the rows, of the workers' executions and of the calls in flight.
TypeOK ==
    /\ jobs \in [Runs -> JobRow]
    /\ due \subseteq Runs
    /\ deleted \subseteq Monitors
    /\ results \subseteq Execs
    /\ started \in [Runs -> 0 .. MaxAttempts]
    /\ exec \in [Execs -> ExecRec]
    /\ onTime \subseteq Execs /\ renewing \subseteq Execs
    /\ calls \in [Execs -> [Stages -> Nat]]
    /\ down \subseteq Workers
    /\ faults \in 0 .. MaxFaults

NoRow == [status |-> "absent", worker |-> NoWorker, left |-> -1]
ReadyRow == [status |-> "ready", worker |-> NoWorker, left |-> -1]

Init ==
    /\ jobs = [r \in Runs |-> NoRow]
    /\ due = {} /\ deleted = {} /\ results = {}
    /\ started = [r \in Runs |-> 0]
    /\ exec = [e \in Execs |-> [phase |-> "idle", worker |-> NoWorker,
                                age |-> 0, sends |-> 0]]
    /\ onTime = {} /\ renewing = {}
    /\ calls = [e \in Execs |-> [s \in Stages |-> 0]]
    /\ down = {}
    /\ faults = 0

-----------------------------------------------------------------------------
(* Helpers *)

Active(r) == jobs[r].status \in {"ready", "leased"}

\* Mutation of Held: the worker_id condition is missing.
HeldByAnyone(e) == jobs[e[1]].status = "leased"

\* The row still belongs to the execution's worker: the WHERE clause that
\* RenewLease and CompleteJob share.
Held(e) == jobs[e[1]].status = "leased" /\ jobs[e[1]].worker = exec[e].worker

InFlight(e) == exec[e].phase \in {"running", "sending"}

\* One fault of the environment.
Fault == faults < MaxFaults /\ faults' = faults + 1

\* The call moves from stage s to stage t.
Moved(e, s, t) == [calls EXCEPT ![e] = [calls[e] EXCEPT ![s] = @ - 1, ![t] = @ + 1]]

\* The call at stage s ends.
Ended(e, s) == [calls EXCEPT ![e][s] = @ - 1]

-----------------------------------------------------------------------------
(* The scheduler and the users *)

\* Same monitor and region, scheduled within the dedup window of each other.
Near(q, r) ==
    /\ MonitorOf[q] = MonitorOf[r] /\ RegionOf[q] = RegionOf[r]
    /\ SchedAt[q] - SchedAt[r] \in -DedupWindow .. DedupWindow

\* CreateJobIdempotent.  The job may be scheduled up to 5s ahead of now.
CreateJob(r) ==
    /\ jobs[r].status = "absent"
    /\ MonitorOf[r] \notin deleted
    /\ \A q \in Runs : Near(q, r) => ~Active(q)
    /\ jobs' = [jobs EXCEPT ![r] = ReadyRow]
    /\ due' \in {due, due \cup {r}}
    /\ UNCHANGED <<deleted, results, agents, calls, faults>>

\* The DeleteMonitor RPC marks the monitor's row and no job.
DeleteMonitor(m) ==
    /\ m \in Deletable \ deleted
    /\ deleted' = deleted \cup {m}
    /\ UNCHANGED <<jobs, due, results, agents, calls, faults>>

-----------------------------------------------------------------------------
(* WorkerService.GetJobs *)

\* Mutation of Leasable: the 'global' fallback is missing.
LeasableOwnRegion(w) ==
    {r \in due : jobs[r].status = "ready" /\ RegionOf[r] = WorkerRegion[w]}

\* Mutation of Leasable: a leased row is taken over without waiting for the reaper.
LeasableLeased(w) ==
    {r \in due : /\ jobs[r].status \in {"ready", "leased"}
                 /\ RegionOf[r] \in {WorkerRegion[w], Global}}

Leasable(w) ==
    {r \in due : jobs[r].status = "ready" /\ RegionOf[r] \in {WorkerRegion[w], Global}}

\* ORDER BY: the worker's own region first, then scheduled_at.
Before(w, q, r) ==
    LET own(x) == RegionOf[x] = WorkerRegion[w]
    IN  \/ own(q) /\ ~own(r)
        \/ (own(q) <=> own(r)) /\ SchedAt[q] < SchedAt[r]

\* What LIMIT lets one statement take; ties are broken either way.
Batches(w, limit) ==
    {L \in SUBSET Leasable(w) :
        /\ \/ Cardinality(L) = limit
           \/ L = Leasable(w) /\ Cardinality(L) < limit
        /\ \A r \in L, q \in Leasable(w) \ L : ~Before(w, q, r)}

\* Mutation of LeaseTo: lease_expires_at keeps its old value.
LeaseToOldExpiry(w, L) ==
    [r \in Runs |-> IF r \in L THEN [jobs[r] EXCEPT !.status = "leased", !.worker = w]
                    ELSE jobs[r]]

\* The UPDATE leases the whole batch ...
LeaseTo(w, L) ==
    [r \in Runs |-> IF r \in L THEN [status |-> "leased", worker |-> w, left |-> Lease]
                    ELSE jobs[r]]

\* ... but the join that forms the reply drops jobs of deleted monitors.
Delivered(L) == {r \in L : MonitorOf[r] \notin deleted}

\* The next execution of each run of D.
NextExecs(D) == {e \in Execs : e[1] \in D /\ e[2] = started[e[1]] + 1}

CountStarted(D) == [r \in Runs |-> IF r \in D THEN started[r] + 1 ELSE started[r]]

Launch(w, D) ==
    [e \in Execs |->
       IF e \in NextExecs(D)
       THEN [phase |-> "running", worker |-> w, age |-> 0, sends |-> 0] ELSE exec[e]]

\* The worker starts one goroutine per job of the reply, and one that renews the
\* lease if the check may take long.
GetJobs(w) ==
    /\ w \notin down
    /\ \E limit \in 1 .. MaxConcurrency : \E L \in Batches(w, limit) :
         /\ L # {}
         /\ \A r \in Delivered(L) : started[r] < MaxAttempts
         /\ jobs' = LeaseTo(w, L)
         /\ started' = CountStarted(Delivered(L))
         /\ exec' = Launch(w, Delivered(L))
         /\ onTime' = onTime \cup NextExecs(Delivered(L))
         /\ renewing' = renewing \cup NextExecs(Delivered(L) \cap LongRuns)
    /\ UNCHANGED <<due, deleted, results, calls, down, faults>>

\* The leases are committed and the reply is lost.
GetJobsReplyLost(w) ==
    /\ w \notin down
    /\ Fault
    /\ \E limit \in 1 .. MaxConcurrency : \E L \in Batches(w, limit) :
         L # {} /\ jobs' = LeaseTo(w, L)
    /\ UNCHANGED <<due, deleted, results, agents, calls>>

-----------------------------------------------------------------------------
(* The worker's execution: executeCheck, sendResult, renewLease *)

\* The execution is over in its worker's memory.
Over(e, phase) ==
    /\ exec' = [exec EXCEPT ![e] = [exec[e] EXCEPT !.phase = phase, !.age = 0]]
    /\ onTime' = onTime \ {e} /\ renewing' = renewing \ {e}

\* The check ended, or a submit was answered with an error or committed=false
\* or timed out, which happens to no execution that is on time: (re)submit.
Submit(e) ==
    /\ \/ exec[e].phase = "running"
       \/ exec[e].phase = "sending" /\ e \notin onTime
    /\ exec[e].sends < MaxSends[exec[e].worker]
    /\ exec' = [exec EXCEPT ![e] = [exec[e] EXCEPT !.phase = "sending", !.sends = @ + 1]]
    /\ calls' = [calls EXCEPT ![e]["store"] = @ + 1]
    /\ UNCHANGED <<table, started, onTime, renewing, down, faults>>

\* The attempts are used up: the worker frees its slot and forgets the job.
GiveUp(e) ==
    /\ exec[e].phase = "sending" /\ e \notin onTime
    /\ exec[e].sends = MaxSends[exec[e].worker]
    /\ Over(e, "gaveup")
    /\ UNCHANGED <<table, started, calls, down, faults>>

\* The reply committed=true reaches the worker, which ignores it if it no
\* longer waits.
ReceiveAck(e) ==
    /\ calls[e]["ok"] > 0
    /\ calls' = Ended(e, "ok")
    /\ IF exec[e].phase = "sending" THEN Over(e, "acked")
       ELSE UNCHANGED <<exec, onTime, renewing>>
    /\ UNCHANGED <<table, started, down, faults>>

\* Mutation of RenewLease: the lease is added to the old expiry, not to now.
RenewLeaseFromExpiry(e) ==
    /\ e \in renewing /\ exec[e].age > 0 /\ Held(e)
    /\ jobs' = [jobs EXCEPT ![e[1]].left = @ + Lease]
    /\ exec' = [exec EXCEPT ![e].age = 0]
    /\ UNCHANGED <<due, deleted, results, started, onTime, renewing, calls, down, faults>>

\* A tick of the renewal goroutine and the RenewLease handler it calls: the
\* lease is extended even after it expired, if the reaper did not see it; the
\* goroutine ends for good when the row is no longer the worker's.
RenewLease(e) ==
    /\ e \in renewing /\ exec[e].age > 0
    /\ \/ /\ Held(e)
          /\ jobs' = [jobs EXCEPT ![e[1]].left = Lease]
          /\ exec' = [exec EXCEPT ![e].age = 0]
          /\ UNCHANGED renewing
       \/ /\ ~Held(e)
          /\ renewing' = renewing \ {e}
          /\ UNCHANGED <<jobs, exec>>
    /\ UNCHANGED <<due, deleted, results, started, onTime, calls, down, faults>>

\* The RenewLease call fails: the goroutine ends.
RenewFails(e) ==
    /\ e \in renewing
    /\ Fault
    /\ renewing' = renewing \ {e} /\ onTime' = onTime \ {e}
    /\ UNCHANGED <<table, started, exec, calls, down>>

\* A pause or a slow network: from here the execution may outlive its lease.
Stall(e) ==
    /\ e \in onTime
    /\ Fault
    /\ onTime' = onTime \ {e}
    /\ UNCHANGED <<table, started, exec, renewing, calls, down>>

RunningOn(w) == {e \in Execs : InFlight(e) /\ exec[e].worker = w}

\* The worker process stops, on a crash or on a signal (cancelAllJobs).
StopWorker(w) ==
    /\ w \notin down
    /\ Fault
    /\ down' = down \cup {w}
    /\ exec' = [e \in Execs |-> IF e \in RunningOn(w)
                                THEN [exec[e] EXCEPT !.phase = "dead", !.age = 0]
                                ELSE exec[e]]
    /\ onTime' = onTime \ RunningOn(w) /\ renewing' = renewing \ RunningOn(w)
    /\ UNCHANGED <<table, started, calls>>

-----------------------------------------------------------------------------
(* WorkerService.SubmitResult *)

\* Mutation of StoreResult: an error of the upsert does not stop the handler.
StoreResultIgnoringErrors(e) ==
    /\ calls[e]["store"] > 0
    /\ results' \in {results, results \cup {e}}
    /\ calls' = Moved(e, "store", "complete")
    /\ UNCHANGED <<jobs, due, deleted, agents, faults>>

\* ProcessResult: the upsert does not look at the job.
StoreResult(e) ==
    /\ calls[e]["store"] > 0
    /\ results' = results \cup {e}
    /\ calls' = Moved(e, "store", "complete")
    /\ UNCHANGED <<jobs, due, deleted, agents, faults>>

\* CompleteJob: leased to this worker, or else look at the row again.
CompleteJob(e) ==
    /\ calls[e]["complete"] > 0
    /\ \/ /\ Held(e)
          /\ jobs' = [jobs EXCEPT ![e[1]] = [jobs[e[1]] EXCEPT !.status = "done", !.left = -1]]
          /\ calls' = Moved(e, "complete", "ok")
       \/ /\ ~Held(e)
          /\ calls' = Moved(e, "complete", "check")
          /\ UNCHANGED jobs
    /\ UNCHANGED <<due, deleted, results, agents, faults>>

\* GetJobByRunID after CompleteJob matched no row: done counts as committed,
\* whoever did it; anything else is answered committed=false.
CheckJob(e) ==
    /\ calls[e]["check"] > 0
    /\ \/ /\ jobs[e[1]].status = "done"
          /\ calls' = Moved(e, "check", "ok")
          /\ UNCHANGED onTime
       \/ /\ jobs[e[1]].status # "done"
          /\ calls' = Ended(e, "check")
          /\ onTime' = onTime \ {e}
    /\ UNCHANGED <<table, started, exec, renewing, down, faults>>

\* The request or the reply is lost, a statement fails, or the control plane
\* stops between two statements.
DropCall(e, s) ==
    /\ calls[e][s] > 0
    /\ Fault
    /\ calls' = Ended(e, s)
    /\ onTime' = onTime \ {e}
    /\ UNCHANGED <<table, started, exec, renewing, down>>

-----------------------------------------------------------------------------
(* Background services, and time *)

\* Mutation of Expired: the comparison with NOW() is missing.
ExpiredAny(r) == jobs[r].status = "leased"

Expired(r) == jobs[r].status = "leased" /\ jobs[r].left < 0

\* ReclaimExpiredLeases: one statement for all expired leases.
ReclaimExpiredLeases ==
    /\ \E r \in Runs : Expired(r)
    /\ jobs' = [r \in Runs |-> IF Expired(r) THEN ReadyRow ELSE jobs[r]]
    /\ UNCHANGED <<due, deleted, results, agents, calls, faults>>

\* Mutation of DeleteDoneJobs: the status condition is missing.
DeleteOldJobs(R) ==
    /\ R # {} /\ R \subseteq due
    /\ jobs' = [r \in Runs |-> IF r \in R THEN [jobs[r] EXCEPT !.status = "purged"]
                               ELSE jobs[r]]
    /\ UNCHANGED <<due, deleted, results, agents, calls, faults>>

\* DeleteDoneJobsBefore: done jobs past the retention period, in batches.
DeleteDoneJobs(R) ==
    /\ R # {} /\ R \subseteq due
    /\ \A r \in R : jobs[r].status = "done"
    /\ jobs' = [r \in Runs |-> IF r \in R THEN [jobs[r] EXCEPT !.status = "purged"]
                               ELSE jobs[r]]
    /\ UNCHANGED <<due, deleted, results, agents, calls, faults>>

\* Time passes, but not past the deadline of an execution that is on time.  A
\* job is scheduled at most 5s ahead, which is less than a tick.
Tick ==
    /\ \A e \in onTime : exec[e].age < ExecTime
    /\ jobs' = [r \in Runs |-> IF jobs[r].left >= 0
                               THEN [jobs[r] EXCEPT !.left = jobs[r].left - 1]
                               ELSE jobs[r]]
    /\ due' = {r \in Runs : jobs[r].status # "absent"}
    /\ exec' = [e \in Execs |->
                  IF e \in onTime \cup renewing /\ exec[e].age < ExecTime
                  THEN [exec[e] EXCEPT !.age = exec[e].age + 1]
                  ELSE exec[e]]
    /\ UNCHANGED <<deleted, results, started, onTime, renewing, calls, down, faults>>

-----------------------------------------------------------------------------

Next ==
    \/ \E r \in Runs : CreateJob(r)
    \/ \E m \in Monitors : DeleteMonitor(m)
    \/ \E w \in Workers : GetJobs(w) \/ GetJobsReplyLost(w) \/ StopWorker(w)
    \/ \E e \in Execs : \/ Submit(e) \/ GiveUp(e) \/ ReceiveAck(e)
                        \/ RenewLease(e) \/ RenewFails(e) \/ Stall(e)
                        \/ StoreResult(e) \/ CompleteJob(e) \/ CheckJob(e)
    \/ \E e \in Execs, s \in Stages : DropCall(e, s)
    \/ ReclaimExpiredLeases
    \/ \E R \in SUBSET Runs : DeleteDoneJobs(R)
    \/ Tick

Spec == Init /\ [][Next]_vars

\* Workers poll and run their goroutines, the server finishes the calls it got,
\* the reaper's ticker fires, and time passes.  Nothing is assumed of the
\* scheduler, the users, the cleaner or the faults.
Fairness ==
    /\ \A w \in Workers : WF_vars(GetJobs(w))
    /\ \A e \in Execs : /\ WF_vars(Submit(e))
                        /\ WF_vars(GiveUp(e))
                        /\ WF_vars(ReceiveAck(e))
                        /\ WF_vars(RenewLease(e))
                        /\ WF_vars(StoreResult(e) \/ CompleteJob(e) \/ CheckJob(e))
    /\ WF_vars(ReclaimExpiredLeases)
    /\ WF_vars(Tick)

FairSpec == Spec /\ Fairness

-----------------------------------------------------------------------------
(* Properties *)

Finished(r) == jobs[r].status \in {"done", "purged"}

\* Commit before ACK (WorkerService.SubmitResult): a worker that was told
\* committed=true has its own result row in the database and its job is over,
\* whatever ran between the statements and however late the reply is.
CommitBeforeAck ==
    \A e \in Execs :
        exec[e].phase = "acked" \/ calls[e]["ok"] > 0
            => e \in results /\ Finished(e[1])

\* A job is done only on a result of the worker it was leased to (CompleteJob
\* checks worker_id, but the row it trusts was stored by an earlier statement).
DoneHasHoldersResult ==
    \A r \in Runs :
        Finished(r) => \E e \in results : e[1] = r /\ exec[e].worker = jobs[r].worker

\* An execution that met no fault keeps its lease, with time to spare, until
\* its job is over: leases, renewals and the reaper never take a job from a
\* worker that is on time.
OnTimeHoldsLease ==
    \A e \in Execs :
        e \in onTime => Finished(e[1]) \/ (Held(e) /\ jobs[e[1]].left > 0)

\* Every re-execution of a run is paid for by a fault: without faults a run is
\* executed once, although delivery is only at least once.
ReExecutionNeedsFault == \A r \in Runs : started[r] <= faults + 1

\* A lease that has not expired ends only by its job being done: no other
\* worker, no reaper and no cleaner interferes.
LiveLeaseUndisturbed ==
    [][\A r \in Runs :
         jobs[r].status = "leased" /\ jobs[r].left >= 0
             => \/ jobs'[r].status = "done"
                \/ jobs'[r].status = "leased" /\ jobs'[r].worker = jobs[r].worker]_vars

\* At-least-once processing: a job of a live monitor is eventually done, as
\* long as a worker that serves its region is up.
EventuallyDone ==
    \A r \in Runs :
        jobs[r].status = "ready"
            ~> \/ Finished(r) \/ MonitorOf[r] \in deleted
               \/ \A w \in Workers \ down : RegionOf[r] \notin {WorkerRegion[w], Global}

\* What the documents say and the code does not do (see README.md, findings).

\* queries/monitors.sql:101, "Delete all pending jobs for a monitor (called when
\* monitor is deleted)": no pending job outlives its monitor's deletion.
PendingJobsDieWithMonitor ==
    [][\A r \in Runs : MonitorOf[r] \in deleted' \ deleted
                       => jobs'[r].status \notin {"ready", "leased"}]_vars

\* tests/integration/control_plane_test.go:1231, "Result from wrong worker should
\* not be committed": only the worker the job was last leased to is told so.
WrongWorkerNotCommitted ==
    \A e \in Execs : exec[e].phase = "acked" => exec[e].worker = jobs[e[1]].worker

-----------------------------------------------------------------------------
(* What the table promises, seen without workers, calls and time *)

Lifecycle == INSTANCE JobLifecycle WITH
    state <- [r \in Runs |-> jobs[r].status],
    stored <- {e[1] : e \in results},
    promised <- {e[1] : e \in {f \in Execs : exec[f].phase = "acked"}}

\* JobLeases implements JobLifecycle: ready -> leased -> done with re-leasing,
\* done is final, and it takes a stored result to be done and done to be promised.
ImplementsLifecycle == Lifecycle!Spec
=============================================================================
