------------------------------ MODULE Scheduler ------------------------------
(***************************************************************************)
(* The scheduler: every control-plane instance wakes up each second, tries *)
(* the advisory lock, and in one REPEATABLE READ transaction locks the due *)
(* monitors (FOR UPDATE SKIP LOCKED), inserts a job per region unless an   *)
(* active one is scheduled close to it, and advances next_due_at.  Users   *)
(* change and delete monitors while it runs, workers finish jobs.          *)
(*                                                                         *)
(* Times are relative to now, in ticks, so time has no bound: nextDue is   *)
(* the ticks until next_due_at, at the ticks until a job's scheduled_at.   *)
(* The past is cut off where no action looks any more: an overdue monitor  *)
(* has nextDue 0, and what was scheduled Horizon ticks ago is forgotten.   *)
(***************************************************************************)
EXTENDS LeaderLock, Integers

CONSTANTS
    Monitors,
    RegionsOf,   \* monitor -> its regions
    Cadences,    \* the intervals users choose
    Period,      \* cadence -> the interval with its jitter (applyJitter)
    Window,      \* cadence -> the dedup window (calculateDedupWindow)
    Never,       \* next_due_at IS NULL
    Lookahead,   \* the 5s a job may be scheduled ahead
    WorkTimeout, \* the 30s a scheduling transaction may take
    Horizon,     \* bound: how long the past is remembered
    MaxFaults    \* bound: faults of one behaviour

ASSUME CadenceAssumption ==
    /\ Period \in [Cadences -> Nat] /\ Window \in [Cadences -> Nat]
    /\ \A c \in Cadences : Window[c] < Period[c]
ASSUME SchedulerAssumption ==
    /\ Lookahead \in Nat /\ WorkTimeout \in Nat /\ MaxFaults \in Nat
    /\ Horizon \in Nat /\ Never \notin Int
    /\ \A c \in Cadences : Horizon >= WorkTimeout + Period[c]

VARIABLES
    enabled,  \* monitors with enabled = true
    deleted,  \* monitors with deleted_at set
    cadence,  \* monitor -> interval_ms
    nextDue,  \* monitor -> next_due_at
    lastAt,   \* monitor -> last_scheduled_at
    jobs,     \* app.jobs, as far as scheduling looks at it
    tx,       \* instance -> its transaction's age, rows to do and rows done
    broken,   \* instances whose transaction a failed statement aborted
    faults    \* faults so far

monitorVars == <<enabled, deleted, cadence, nextDue, lastAt>>
vars == <<holds, stage, monitorVars, jobs, tx, broken, faults>>

Regions == UNION {RegionsOf[m] : m \in Monitors}
Ages == 0 .. WorkTimeout
\* A monitor the transaction has locked: when it is scheduled, counted from the
\* start of the transaction, and the regions that get a job.
Row == [monitor : Monitors, at : 0 .. Lookahead, free : SUBSET Regions]
Job == [monitor : Monitors, region : Regions, at : -Horizon .. Lookahead,
        status : {"active", "done"}]
NoTx == [age |-> 0, rows |-> {}, done |-> {}]

\* The types of the monitors' rows, the jobs, the transactions and the lock.
TypeOK ==
    /\ LockTypeOK
    /\ enabled \subseteq Monitors /\ deleted \subseteq Monitors
    /\ cadence \in [Monitors -> Cadences]
    /\ nextDue \in [Monitors -> Nat \cup {Never}]
    /\ lastAt \in [Monitors -> -Horizon .. Lookahead \cup {Never}]
    /\ jobs \subseteq Job
    /\ tx \in [Instances -> [age : Ages, rows : SUBSET Row, done : SUBSET Row]]
    /\ broken \subseteq Instances
    /\ faults \in 0 .. MaxFaults

Init ==
    /\ LockInit
    /\ enabled = Monitors /\ deleted = {}
    /\ cadence \in [Monitors -> Cadences]
    /\ nextDue = [m \in Monitors |-> Never]
    /\ lastAt = [m \in Monitors |-> Never]
    /\ jobs = {}
    /\ tx = [i \in Instances |-> NoTx]
    /\ broken = {}
    /\ faults = 0

Fault == faults < MaxFaults /\ faults' = faults + 1
AtLeast(low, n) == IF n < low THEN low ELSE n

-----------------------------------------------------------------------------
(* The scheduling transaction *)

Live(m) == m \in enabled \ deleted
Due(m) == nextDue[m] = Never \/ nextDue[m] <= Lookahead

\* Mutation of RowLocked: ListDueMonitors selects without FOR UPDATE.
NeverLocked(m) == FALSE

\* A transaction in progress holds the row lock of the monitors it listed.
RowLocked(m) == \E i \in Instances : \E row \in tx[i].rows \cup tx[i].done : row.monitor = m

\* Mutation of ScheduledAt: the first run is not told apart.
ScheduledAtDue(m) == nextDue[m]

\* An overdue or new monitor is scheduled now, another one when it is due.
ScheduledAt(m) == IF nextDue[m] = Never THEN 0 ELSE nextDue[m]

\* scheduled_at BETWEEN windowStart AND windowEnd.
InWindow(m, t, at) == t - at \in -Window[cadence[m]] .. Window[cadence[m]]

\* CreateJobIdempotent finds an active job in the snapshot of the transaction.
Occupied(m, r, at) ==
    \E j \in jobs : /\ j.monitor = m /\ j.region = r /\ j.status = "active"
                    /\ InWindow(m, j.at, at)

\* BeginTx and ListDueMonitors, which takes the snapshot and the row locks, and
\* skips the rows another transaction has locked.
Begin(i) ==
    LET rows == {[monitor |-> m, at |-> ScheduledAt(m),
                  free |-> {r \in RegionsOf[m] : ~Occupied(m, r, ScheduledAt(m))}] :
                 m \in {n \in Monitors : Live(n) /\ Due(n) /\ ~RowLocked(n)}}
    IN  /\ stage[i] = "locked"
        /\ stage' = [stage EXCEPT ![i] = "working"]
        /\ tx' = [tx EXCEPT ![i] = [age |-> 0, rows |-> rows, done |-> {}]]
        /\ UNCHANGED <<holds, monitorVars, jobs, broken, faults>>

\* BeginTx or ListDueMonitors fails: the iteration is over.
BeginFails(i) ==
    /\ stage[i] = "locked"
    /\ Fault
    /\ stage' = [stage EXCEPT ![i] = "unlocking"]
    /\ UNCHANGED <<holds, monitorVars, jobs, tx, broken>>

\* scheduleMonitorTx of one monitor: its jobs and its next_due_at are written in
\* the transaction, where nobody else sees them.
ScheduleMonitor(i, row) ==
    /\ stage[i] = "working" /\ row \in tx[i].rows
    /\ tx' = [tx EXCEPT ![i] = [age |-> tx[i].age, rows |-> tx[i].rows \ {row},
                                done |-> tx[i].done \cup {row}]]
    /\ UNCHANGED <<holds, stage, monitorVars, jobs, broken, faults>>

\* Mutation of ScheduleFails: a failed insert is taken for a duplicate.
ScheduleFailsUnnoticed(i) ==
    /\ stage[i] = "working"
    /\ Fault
    /\ \E row \in tx[i].rows :
         tx' = [tx EXCEPT ![i] = [age |-> tx[i].age, rows |-> tx[i].rows \ {row},
                                  done |-> tx[i].done \cup {[row EXCEPT !.free = {}]}]]
    /\ UNCHANGED <<holds, stage, monitorVars, jobs, broken>>

\* A statement of scheduleMonitorTx fails.  The loop goes on with the next
\* monitor, but Postgres has aborted the transaction and dropped its locks.
ScheduleFails(i) ==
    /\ stage[i] = "working" /\ tx[i].rows # {}
    /\ Fault
    /\ tx' = [tx EXCEPT ![i] = NoTx]
    /\ broken' = broken \cup {i}
    /\ UNCHANGED <<holds, stage, monitorVars, jobs>>

\* The time a row was scheduled for, counted from now.
AtNow(i, row) == row.at - tx[i].age

\* The rows of app.jobs the transaction inserts.
Inserted(i) ==
    UNION {{[monitor |-> row.monitor, region |-> r, at |-> AtNow(i, row),
             status |-> "active"] : r \in row.free} : row \in tx[i].done}

\* Mutation of Advanced: an overdue monitor keeps its cadence and runs after itself.
AdvancedFromDue(i, m) ==
    IF nextDue[m] = Never THEN 0 ELSE nextDue[m]

\* next_due_at of a monitor the transaction has scheduled.
Advanced(i, m) ==
    LET row == CHOOSE row \in tx[i].done : row.monitor = m
    IN  AtLeast(0, AtNow(i, row) + Period[cadence[m]])

\* Commit: the jobs and the new due times appear together.
Commit(i) ==
    LET scheduled == {row.monitor : row \in tx[i].done}
    IN  /\ stage[i] = "working" /\ i \notin broken
        /\ tx[i].rows = {}
        /\ jobs' = jobs \cup Inserted(i)
        /\ nextDue' = [m \in Monitors |-> IF m \in scheduled THEN Advanced(i, m)
                                          ELSE nextDue[m]]
        /\ lastAt' = [m \in Monitors |->
                        IF m \in scheduled
                        THEN AtNow(i, CHOOSE row \in tx[i].done : row.monitor = m)
                        ELSE lastAt[m]]
        /\ tx' = [tx EXCEPT ![i] = NoTx]
        /\ stage' = [stage EXCEPT ![i] = "unlocking"]
        /\ UNCHANGED <<holds, enabled, deleted, cadence, broken, faults>>

\* The transaction ends in a rollback: it was aborted, or the work timeout, the
\* connection or the commit failed.
Rollback(i) ==
    /\ stage[i] = "working"
    /\ \/ i \in broken /\ UNCHANGED faults
       \/ i \notin broken /\ Fault
    /\ broken' = broken \ {i}
    /\ tx' = [tx EXCEPT ![i] = NoTx]
    /\ stage' = [stage EXCEPT ![i] = "unlocking"]
    /\ UNCHANGED <<holds, monitorVars, jobs>>

-----------------------------------------------------------------------------
(* The lock, and the death of an instance *)

database == <<monitorVars, jobs>>

Elect(i, c) == TryLock(i, c) /\ UNCHANGED <<database, tx, broken, faults>>

Resign(i) ==
    /\ UnlockFails(i) \/ \E c \in Conns : Unlock(i, c)
    /\ UNCHANGED <<database, tx, broken, faults>>

LoseSession(i, c) == CloseConn(i, c) /\ UNCHANGED <<database, tx, broken, faults>>

\* The server rolls back what a dead instance had open.
Crash(i) ==
    /\ Fault
    /\ LoseInstance(i)
    /\ tx' = [tx EXCEPT ![i] = NoTx]
    /\ broken' = broken \ {i}
    /\ UNCHANGED database

-----------------------------------------------------------------------------
(* Users, workers and time *)

\* UpdateMonitor changes the row, not its next_due_at; it waits for a row lock.
SetEnabled(m) ==
    /\ m \notin deleted /\ ~RowLocked(m)
    /\ enabled' = IF m \in enabled THEN enabled \ {m} ELSE enabled \cup {m}
    /\ UNCHANGED <<holds, stage, deleted, cadence, nextDue, lastAt, jobs, tx, broken, faults>>

SetInterval(m, c) ==
    /\ m \notin deleted /\ ~RowLocked(m)
    /\ cadence' = [cadence EXCEPT ![m] = c]
    /\ UNCHANGED <<holds, stage, enabled, deleted, nextDue, lastAt, jobs, tx, broken, faults>>

DeleteMonitor(m) ==
    /\ m \notin deleted /\ ~RowLocked(m)
    /\ deleted' = deleted \cup {m}
    /\ UNCHANGED <<holds, stage, enabled, cadence, nextDue, lastAt, jobs, tx, broken, faults>>

\* CompleteJob, seen from here.
JobDone(j) ==
    /\ j.status = "active"
    /\ jobs' = (jobs \ {j}) \cup {[j EXCEPT !.status = "done"]}
    /\ UNCHANGED <<holds, stage, monitorVars, tx, broken, faults>>

\* A transaction does not outlive its context's deadline.
Tick ==
    /\ \A i \in Instances : tx[i].age < WorkTimeout
    /\ nextDue' = [m \in Monitors |-> IF nextDue[m] = Never THEN Never
                                      ELSE AtLeast(0, nextDue[m] - 1)]
    /\ lastAt' = [m \in Monitors |-> IF lastAt[m] = Never THEN Never
                                     ELSE AtLeast(-Horizon, lastAt[m] - 1)]
    /\ jobs' = {[j EXCEPT !.at = @ - 1] : j \in {k \in jobs : k.at > -Horizon}}
    /\ tx' = [i \in Instances |-> IF stage[i] = "working" /\ i \notin broken
                                  THEN [tx[i] EXCEPT !.age = @ + 1] ELSE tx[i]]
    /\ UNCHANGED <<holds, stage, enabled, deleted, cadence, broken, faults>>

-----------------------------------------------------------------------------

Next ==
    \/ \E i \in Instances, c \in Conns : Elect(i, c) \/ LoseSession(i, c)
    \/ \E i \in Instances : \/ Begin(i) \/ BeginFails(i) \/ ScheduleFails(i)
                            \/ Commit(i) \/ Rollback(i) \/ Resign(i) \/ Crash(i)
                            \/ \E row \in tx[i].rows : ScheduleMonitor(i, row)
    \/ \E m \in Monitors : SetEnabled(m) \/ DeleteMonitor(m)
    \/ \E m \in Monitors, c \in Cadences : SetInterval(m, c)
    \/ \E j \in jobs : JobDone(j)
    \/ Tick

Spec == Init /\ [][Next]_vars

\* The lock is granted on whatever connection the pool picks.
FreeForAll(i) == \A c \in Conns : Grantable(i, c) /\ holds[<<i, c>>] = 0

\* The ticker wakes every instance, iterations run to their end, the pool closes
\* a connection at the end of its lifetime, time passes.  An instance is only
\* sure to get the lock when no connection still holds it.
Fairness ==
    /\ \A i \in Instances :
        /\ WF_vars(FreeForAll(i) /\ \E c \in Conns : Elect(i, c))
        /\ WF_vars(Begin(i))
        /\ WF_vars(\E row \in tx[i].rows : ScheduleMonitor(i, row))
        /\ WF_vars(Commit(i) \/ Rollback(i))
        /\ WF_vars(Resign(i))
    /\ \A i \in Instances, c \in Conns : WF_vars(LoseSession(i, c))
    /\ WF_vars(Tick)

FairSpec == Spec /\ Fairness

-----------------------------------------------------------------------------
(* Properties *)

\* Cadence tracking (README of the control plane, "Prevents duplicate
\* scheduling"): two jobs for one region of a monitor, finished or not, are at
\* least the shortest interval apart, though leadership may be lost in the middle
\* of an iteration and two schedulers then work at once.
CadenceKept ==
    \A j, k \in jobs :
        j # k /\ j.monitor = k.monitor /\ j.region = k.region
            => \E c \in Cadences : j.at - k.at \notin 1 - Period[c] .. Period[c] - 1

\* What a transaction found in its snapshot stays right until it commits: no
\* active job is within the dedup window of one it is about to insert, whatever
\* users, workers and another scheduler commit meanwhile.
PendingNeverCollides ==
    \A i \in Instances : \A row \in tx[i].rows \cup tx[i].done : \A j \in jobs :
        /\ j.monitor = row.monitor /\ j.region \in row.free /\ j.status = "active"
        => j.at - AtNow(i, row) \notin -Window[cadence[row.monitor]] .. Window[cadence[row.monitor]]

\* The jobs an iteration adds, when it ends.
NewJobs == IF stage' = stage THEN {} ELSE jobs' \ jobs

\* A monitor that was disabled or deleted while the scheduler worked on it gets no
\* job: users and the scheduler serialise on the row lock.
JobsOnlyForLiveMonitors ==
    [][\A j \in NewJobs : j.monitor \in enabled' \ deleted']_vars

\* A monitor's last_scheduled_at is true: every one of its regions has, or had,
\* a job within the dedup window of it, whatever failed in its transaction.
LastScheduledIsCovered ==
    \A m \in Monitors :
        lastAt[m] # Never /\ lastAt[m] >= -WorkTimeout
            => \A r \in RegionsOf[m] : \E j \in jobs, c \in Cadences :
                 /\ j.monitor = m /\ j.region = r
                 /\ j.at - lastAt[m] \in -Window[c] .. Window[c]

\* A monitor that stays enabled is scheduled again and again, through leaked
\* locks, lost sessions and crashes.
LiveMonitorsAreScheduled ==
    \A m \in Monitors : <>[]Live(m) => []<>(lastAt[m] # Never /\ lastAt[m] >= -WorkTimeout)

\* cmd/control-plane/README.md:178, "Leader election: Only one scheduler creates
\* jobs": no two instances have a monitor scheduled and not yet committed.
OnlyOneSchedules ==
    \A i, k \in Instances : tx[i].done # {} /\ tx[k].done # {} => i = k
=============================================================================
