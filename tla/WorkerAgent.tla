----------------------------- MODULE WorkerAgent -----------------------------
(***************************************************************************)
(* One worker process from the inside: the poll loop with its back-off,    *)
(* the goroutine of every job it received, the lease-renewal goroutine of  *)
(* each, and activeJobs, the map from runs to cancel functions through     *)
(* which they know of each other and which counts the slots in use.        *)
(*                                                                         *)
(* The control plane is what a worker sees of it: who may have a run, and  *)
(* answers that may be lost, refused or negative.  A run whose lease ends  *)
(* while the worker still has it can be leased to the same worker again:   *)
(* then two executions share one entry of activeJobs.                      *)
(***************************************************************************)
EXTENDS Integers, FiniteSets

CONSTANTS
    Runs,
    LongRuns,        \* timeout above leaseRenewalThreshold: renewed while executed
    Executions,      \* bound: goroutines of executeCheck alive at a time
    None,            \* no entry in activeJobs, no run
    MaxConcurrency,
    MaxAttempts,     \* resultSubmitMaxAttempts
    BaseInterval,    \* pollBaseInterval
    MaxInterval,     \* pollMaxInterval
    MaxFaults        \* bound: faults of one behaviour

ASSUME AgentAssumption ==
    /\ LongRuns \subseteq Runs /\ IsFiniteSet(Runs) /\ IsFiniteSet(Executions)
    /\ None \notin Executions \cup Runs
    /\ MaxConcurrency \in Nat \ {0} /\ MaxAttempts \in Nat \ {0} /\ MaxFaults \in Nat
    /\ BaseInterval \in Nat \ {0} /\ MaxInterval \in Nat /\ BaseInterval <= MaxInterval

VARIABLES
    activeJobs,  \* run -> the execution whose cancel function is registered
    execs,       \* execution -> where executeCheck and sendResult are
    renewals,    \* execution -> where its renewLease goroutine is
    poll,        \* the poll loop: stage, slots it asked for, currentInterval
    ctx,         \* the context of the process: live, done, or the loop has ended
    jobs,        \* run -> its state in the control plane, as far as this worker goes
    settled,     \* runs committed or given up since they were last registered
    leaked,      \* runs whose entry a panic left behind
    faults       \* faults so far

vars == <<activeJobs, execs, renewals, poll, ctx, jobs, settled, leaked, faults>>

ExecStages == {"none", "received", "checking", "submit", "sent", "refresh", "wait"}
RenewalStages == {"none", "waiting", "calling", "retrying"}
Idle == [stage |-> "none", run |-> None, attempt |-> 1]

Live == {e \in Executions : execs[e].stage # "none"}
Registered == {r \in Runs : activeJobs[r] # None}

\* The types of the worker's memory; the poll interval stays between its bounds.
TypeOK ==
    /\ activeJobs \in [Runs -> Executions \cup {None}]
    /\ execs \in [Executions -> [stage : ExecStages, run : Runs \cup {None},
                                 attempt : 1 .. MaxAttempts]]
    /\ renewals \in [Executions -> RenewalStages]
    /\ poll \in [stage : {"timer", "asking", "retrying"}, slots : 0 .. MaxConcurrency,
                 interval : BaseInterval .. MaxInterval]
    /\ ctx \in {"live", "done", "ended"}
    /\ jobs \in [Runs -> {"ready", "leased", "done"}]
    /\ settled \subseteq Runs /\ leaked \subseteq Runs
    /\ faults \in 0 .. MaxFaults

Init ==
    /\ activeJobs = [r \in Runs |-> None]
    /\ execs = [e \in Executions |-> Idle]
    /\ renewals = [e \in Executions |-> "none"]
    /\ poll = [stage |-> "timer", slots |-> 0, interval |-> BaseInterval]
    /\ ctx = "live"
    /\ jobs = [r \in Runs |-> "ready"]
    /\ settled = {}
    /\ leaked = {}
    /\ faults = 0

Fault == faults < MaxFaults /\ faults' = faults + 1

\* A failure that follows from another fault, or from the shutdown, is no new one.
FaultUnless(excused) == IF excused \/ ctx # "live" THEN UNCHANGED faults ELSE Fault
-----------------------------------------------------------------------------
(* pollLoop, pollForJobs, getJobsWithAuthRecovery *)

\* Mutation of NextPollInterval: the doubled interval is not capped.
NextPollIntervalUncapped(received, failed) ==
    IF received < 0 \/ (received > 0 /\ ~failed) THEN BaseInterval ELSE 2 * poll.interval

\* Back to the base interval when there was work or no slot (-1), doubled up to
\* the maximum when a poll found nothing or failed.
NextPollInterval(received, failed) ==
    IF received < 0 \/ (received > 0 /\ ~failed) THEN BaseInterval
    ELSE IF 2 * poll.interval > MaxInterval THEN MaxInterval ELSE 2 * poll.interval

PollDone(received, failed) ==
    poll' = [stage |-> "timer", slots |-> 0, interval |-> NextPollInterval(received, failed)]

\* Mutation of Available: the executions are not counted.
AvailableAlways == MaxConcurrency

Available == MaxConcurrency - Cardinality(Registered)

\* The timer fires: the slots are counted, and GetJobs is called if there is one.
\* An interval is long enough for the goroutines of the last answer to register.
PollForJobs ==
    /\ ctx = "live" /\ poll.stage = "timer"
    /\ \A e \in Executions : execs[e].stage # "received"
    /\ IF Available <= 0 THEN PollDone(-1, FALSE)
       ELSE poll' = [poll EXCEPT !.stage = "asking", !.slots = Available]
    /\ UNCHANGED <<activeJobs, execs, renewals, ctx, jobs, settled, leaked, faults>>

\* A new goroutine for every run of R, whichever.
Started(R) ==
    LET f == CHOOSE g \in [R -> Executions \ Live] : \A r, s \in R : g[r] = g[s] => r = s
    IN  [e \in Executions |->
           IF e \in {f[r] : r \in R}
           THEN [Idle EXCEPT !.stage = "received", !.run = CHOOSE r \in R : f[r] = e]
           ELSE execs[e]]

\* GetJobs leases up to the slots asked for; a goroutine is started for each.
JobsReceived ==
    /\ poll.stage # "timer" /\ ctx = "live"
    /\ \E R \in SUBSET {r \in Runs : jobs[r] = "ready"} :
         /\ Cardinality(R) <= poll.slots
         /\ R = {} => \A r \in Runs : jobs[r] # "ready"
         /\ Cardinality(R) <= Cardinality(Executions \ Live)
         /\ execs' = Started(R)
         /\ jobs' = [r \in Runs |-> IF r \in R THEN "leased" ELSE jobs[r]]
         /\ PollDone(Cardinality(R), FALSE)
    /\ UNCHANGED <<activeJobs, renewals, ctx, settled, leaked, faults>>

\* The call fails, before or after the runs were leased.
PollFails ==
    /\ poll.stage # "timer"
    /\ FaultUnless(poll.stage = "retrying")
    /\ \E R \in SUBSET {r \in Runs : jobs[r] = "ready"} :
         /\ Cardinality(R) <= poll.slots
         /\ jobs' = [r \in Runs |-> IF r \in R THEN "leased" ELSE jobs[r]]
    /\ PollDone(0, TRUE)
    /\ UNCHANGED <<activeJobs, execs, renewals, ctx, settled, leaked>>

\* Unauthenticated: the token is refreshed and the call made once more.
PollUnauthenticated ==
    /\ poll.stage = "asking"
    /\ Fault
    /\ poll' = [poll EXCEPT !.stage = "retrying"]
    /\ UNCHANGED <<activeJobs, execs, renewals, ctx, jobs, settled, leaked>>
-----------------------------------------------------------------------------
(* executeCheck and sendResult *)

At(e, stage) == [execs EXCEPT ![e].stage = stage]

\* Mutation of Returned: renewalCancel is not deferred.
ReturnedStillRenewing(e) == execs' = [execs EXCEPT ![e] = Idle] /\ UNCHANGED renewals

\* executeCheck returns, which cancels the renewals of this execution.
Returned(e) ==
    /\ execs' = [execs EXCEPT ![e] = Idle]
    /\ renewals' = [renewals EXCEPT ![e] = "none"]

\* The job is registered, over whatever entry its run has, and the renewals of
\* a long one started.
Register(e) ==
    LET r == execs[e].run
    IN  /\ execs[e].stage = "received"
        /\ activeJobs' = [activeJobs EXCEPT ![r] = e]
        /\ renewals' = [renewals EXCEPT ![e] = IF r \in LongRuns THEN "waiting" ELSE "none"]
        /\ execs' = At(e, "checking")
        /\ leaked' = leaked \ {r}
        /\ settled' = settled \ {r}
        /\ UNCHANGED <<poll, ctx, jobs, faults>>

\* Mutation of Checked: the slot is released before the result is sent.
CheckedReleases(e) ==
    /\ execs[e].stage = "checking"
    /\ execs' = At(e, "submit")
    /\ activeJobs' = [activeJobs EXCEPT ![execs[e].run] = None]
    /\ UNCHANGED <<renewals, poll, ctx, jobs, settled, leaked, faults>>

\* The HTTP check ends: with an answer, at its timeout, or cancelled.
Checked(e) ==
    /\ execs[e].stage = "checking"
    /\ execs' = At(e, "submit")
    /\ UNCHANGED <<activeJobs, renewals, poll, ctx, jobs, settled, leaked, faults>>

\* Mutation of CompleteJob: it cancels, and does not delete.
CompleteJobCancelsOnly(e) == activeJobs

\* completeJob cancels and removes the entry of the run, whoever registered it.
CompleteJob(e) == [activeJobs EXCEPT ![execs[e].run] = None]

\* isJobActive: sendResult gives up silently once the entry is gone.
Submit(e) ==
    /\ execs[e].stage = "submit"
    /\ IF activeJobs[execs[e].run] = None THEN Returned(e)
       ELSE execs' = At(e, "sent") /\ UNCHANGED renewals
    /\ UNCHANGED <<activeJobs, poll, ctx, jobs, settled, leaked, faults>>

\* The slot is released: committed, or no attempt left.
Released(e) ==
    /\ activeJobs' = CompleteJob(e)
    /\ settled' = settled \cup {execs[e].run}
    /\ leaked' = leaked \ {execs[e].run}
    /\ Returned(e)

\* The attempt failed or was not committed: the next one after a wait, unless
\* this was the last.
AttemptFailed(e) ==
    \/ /\ execs[e].attempt = MaxAttempts
       /\ Released(e)
    \/ /\ execs[e].attempt < MaxAttempts
       /\ execs' = At(e, "wait")
       /\ UNCHANGED <<activeJobs, renewals, settled, leaked>>

\* SubmitResult stores the result and completes the job if the worker has the
\* lease, or finds it done already.
Committed(e) ==
    /\ execs[e].stage = "sent" /\ ctx = "live" /\ jobs[execs[e].run] # "ready"
    /\ jobs' = [jobs EXCEPT ![execs[e].run] = "done"]
    /\ Released(e)
    /\ UNCHANGED <<poll, ctx, faults>>

\* The lease is gone: committed=false.
NotCommitted(e) ==
    /\ execs[e].stage = "sent" /\ ctx = "live" /\ jobs[execs[e].run] = "ready"
    /\ AttemptFailed(e)
    /\ UNCHANGED <<poll, ctx, jobs, faults>>

\* The call fails, or its answer is lost after the job was completed; when the
\* process shuts down every call fails.
SubmitFails(e) ==
    /\ execs[e].stage = "sent"
    /\ FaultUnless(FALSE)
    /\ \/ UNCHANGED jobs
       \/ jobs[execs[e].run] = "leased" /\ jobs' = [jobs EXCEPT ![execs[e].run] = "done"]
    /\ AttemptFailed(e)
    /\ UNCHANGED <<poll, ctx>>

\* Unauthenticated: refreshAPIToken is called.
Unauthenticated(e) ==
    /\ execs[e].stage = "sent"
    /\ Fault
    /\ execs' = At(e, "refresh")
    /\ UNCHANGED <<activeJobs, renewals, poll, ctx, jobs, settled, leaked>>

\* The token is refreshed; this attempt does not count (attempt--).
Refreshed(e) ==
    /\ execs[e].stage = "refresh" /\ ctx = "live"
    /\ execs' = At(e, "submit")
    /\ UNCHANGED <<activeJobs, renewals, poll, ctx, jobs, settled, leaked, faults>>

\* The refresh fails: the attempt counts.
RefreshFails(e) ==
    /\ execs[e].stage = "refresh"
    /\ AttemptFailed(e)
    /\ UNCHANGED <<poll, ctx, jobs, faults>>

\* Mutation of Waited: the answer of waitWithContext is taken the wrong way round.
WaitedInverted(e) ==
    /\ execs[e].stage = "wait"
    /\ IF ctx # "live"
       THEN /\ execs' = [execs EXCEPT ![e] = [execs[e] EXCEPT !.stage = "submit", !.attempt = @ + 1]]
            /\ UNCHANGED renewals
       ELSE Returned(e)
    /\ UNCHANGED <<activeJobs, poll, ctx, jobs, settled, leaked, faults>>

\* waitWithContext: the next attempt, or the end when the process shuts down,
\* without releasing the slot.
Waited(e) ==
    /\ execs[e].stage = "wait"
    /\ IF ctx = "live"
       THEN /\ execs' = [execs EXCEPT ![e] = [execs[e] EXCEPT !.stage = "submit", !.attempt = @ + 1]]
            /\ UNCHANGED renewals
       ELSE Returned(e)
    /\ UNCHANGED <<activeJobs, poll, ctx, jobs, settled, leaked, faults>>

\* WithRecover ends a goroutine that panics; its deferred calls run, but the
\* entry of the run stays.
Panic(e) ==
    /\ execs[e].stage = "checking"
    /\ Fault
    /\ Returned(e)
    /\ leaked' = IF activeJobs[execs[e].run] = e THEN leaked \cup {execs[e].run} ELSE leaked
    /\ UNCHANGED <<activeJobs, poll, ctx, jobs, settled>>
-----------------------------------------------------------------------------
(* renewLease *)

RenewalAt(e, stage) == renewals' = [renewals EXCEPT ![e] = stage]

\* The ticker fires.
Renew(e) ==
    /\ renewals[e] = "waiting" /\ ctx = "live"
    /\ RenewalAt(e, "calling")
    /\ UNCHANGED <<activeJobs, execs, poll, ctx, jobs, settled, leaked, faults>>

\* renewed=true while the worker has the lease, and the goroutine goes on;
\* otherwise it ends, and the check goes on without it.
Renewed(e) ==
    /\ renewals[e] \in {"calling", "retrying"} /\ ctx = "live"
    /\ RenewalAt(e, IF execs[e].run \in Runs /\ jobs[execs[e].run] = "leased"
                    THEN "waiting" ELSE "none")
    /\ UNCHANGED <<activeJobs, execs, poll, ctx, jobs, settled, leaked, faults>>

\* One refresh of the token and one more call; any other failure is final.
RenewFails(e) ==
    /\ renewals[e] \in {"calling", "retrying"}
    /\ FaultUnless(renewals[e] = "retrying")
    /\ \/ renewals[e] = "calling" /\ ctx = "live" /\ RenewalAt(e, "retrying")
       \/ RenewalAt(e, "none")
    /\ UNCHANGED <<activeJobs, execs, poll, ctx, jobs, settled, leaked>>
-----------------------------------------------------------------------------
(* The control plane, and the shutdown of the process *)

\* A lease ends.  Of a run the worker no longer has it always does; while an
\* execution goes on, that takes renewals that fail or results that do not get
\* through for longer than a lease.
LeaseEnds(r) ==
    /\ jobs[r] = "leased"
    /\ IF \E e \in Live : execs[e].run = r THEN Fault ELSE UNCHANGED faults
    /\ jobs' = [jobs EXCEPT ![r] = "ready"]
    /\ UNCHANGED <<activeJobs, execs, renewals, poll, ctx, settled, leaked>>

\* SIGTERM or SIGINT.
Signal ==
    /\ ctx = "live"
    /\ ctx' = "done"
    /\ UNCHANGED <<activeJobs, execs, renewals, poll, jobs, settled, leaked, faults>>

\* The poll loop sees the context done: cancelAllJobs, and the loop ends.
CancelAllJobs ==
    /\ ctx = "done" /\ poll.stage = "timer"
    /\ ctx' = "ended"
    /\ activeJobs' = [r \in Runs |-> None]
    /\ renewals' = [e \in Executions |-> "none"]
    /\ UNCHANGED <<execs, poll, jobs, settled, leaked, faults>>
-----------------------------------------------------------------------------

PollStep == PollForJobs \/ JobsReceived \/ PollFails \/ CancelAllJobs

ExecStep(e) ==
    \/ Register(e) \/ Checked(e) \/ Submit(e) \/ Committed(e) \/ NotCommitted(e)
    \/ SubmitFails(e) \/ Refreshed(e) \/ RefreshFails(e) \/ Waited(e)

RenewalStep(e) == Renew(e) \/ Renewed(e) \/ RenewFails(e)

Next ==
    \/ PollStep \/ PollUnauthenticated
    \/ \E e \in Executions : ExecStep(e) \/ Unauthenticated(e) \/ Panic(e) \/ RenewalStep(e)
    \/ \E r \in Runs : LeaseEnds(r)
    \/ Signal

Spec == Init /\ [][Next]_vars

\* The goroutines run, the timers fire, and the reaper reclaims what is not renewed.
\* Nothing is assumed of the signal.
Fairness ==
    /\ WF_vars(PollStep)
    /\ \A e \in Executions : WF_vars(ExecStep(e))
    /\ \A r \in Runs : WF_vars(LeaseEnds(r) /\ \A e \in Live : execs[e].run # r)

FairSpec == Spec /\ Fairness
-----------------------------------------------------------------------------
(* Properties *)

\* The worker never has more jobs registered than slots, although it counts them
\* before it asks, entries come and go while the answer is under way, and a run it
\* still has may be leased to it again.
SlotsWithinLimit == Cardinality(Registered) <= MaxConcurrency

\* A result is thrown away unsent only when another execution of the run has had
\* its result committed or has spent the attempts, or the process shuts down:
\* the shared entry of a run that is executed twice loses no result before.
DroppedOnlyWhenSettled ==
    [][\A e \in Executions :
         execs[e].stage = "submit" /\ execs'[e].stage = "none"
             => execs[e].run \in settled \/ ctx # "live"]_vars

\* The lease of a run is renewed only while the execution that asks for it goes on:
\* whichever way executeCheck ends, its renewals end with it.
RenewedOnlyWhileExecuting ==
    [][\A e \in Executions :
         renewals[e] = "waiting" /\ renewals'[e] = "calling" => e \in Live]_vars

\* Every run gets done by a worker that is not shut down: failed polls, spent
\* attempts, doubled executions and lost leases neither keep its slots nor stop
\* its polling; only goroutines that panic can use up the slots.
RunsGetDone ==
    \A r \in Runs : <>(jobs[r] = "done" \/ ctx # "live" \/ Cardinality(leaked) >= MaxConcurrency)

\* Every slot comes back, whatever was answered to the result and whichever of two
\* executions holds the entry; except that of a panic, which nobody removes.
SlotsComeBack ==
    \A r \in Runs : [](r \in Registered => <>(r \notin Registered \/ r \in leaked \/ ctx # "live"))
=============================================================================
