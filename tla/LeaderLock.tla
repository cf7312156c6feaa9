----------------------------- MODULE LeaderLock -----------------------------
(***************************************************************************)
(* The "leader election" of the background services: the scheduler, the    *)
(* lease reaper and the job cleaner each run in every control-plane        *)
(* instance and take a Postgres advisory lock around one iteration.        *)
(*                                                                         *)
(* An advisory lock belongs to the database session that took it, and a    *)
(* session may take it again.  The services call pg_try_advisory_lock and  *)
(* pg_advisory_unlock on a *sql.DB, which runs each statement on whichever *)
(* pooled connection is free, so lock and unlock may reach different       *)
(* sessions, and the pool may close a session that holds the lock.         *)
(***************************************************************************)
EXTENDS Naturals

CONSTANTS
    Instances,   \* control-plane processes
    Conns,       \* connections of one process's pool
    MaxHold      \* bound: how often one session holds the lock

ASSUME HoldAssumption == MaxHold \in Nat \ {0}

VARIABLES
    holds,   \* session -> how many times it holds the lock
    stage    \* what the service of each instance is doing

lockVars == <<holds, stage>>

\* A database session: a connection of an instance's pool.
Sessions == Instances \X Conns

LockTypeOK ==
    /\ holds \in [Sessions -> 0 .. MaxHold]
    /\ stage \in [Instances -> {"idle", "locked", "working", "unlocking"}]

LockInit ==
    /\ holds = [s \in Sessions |-> 0]
    /\ stage = [i \in Instances |-> "idle"]

\* No other session has the lock.
Grantable(i, c) == \A s \in Sessions \ {<<i, c>>} : holds[s] = 0

\* pg_try_advisory_lock on connection c.  When it is not granted the iteration
\* ends and nothing changes.
TryLock(i, c) ==
    /\ stage[i] = "idle"
    /\ Grantable(i, c)
    /\ holds[<<i, c>>] < MaxHold
    /\ holds' = [holds EXCEPT ![<<i, c>>] = @ + 1]
    /\ stage' = [stage EXCEPT ![i] = "locked"]

\* pg_advisory_unlock on connection c.  On a session that does not hold the lock
\* it answers false and a warning, which is no error, and the answer is not read.
Unlock(i, c) ==
    /\ stage[i] = "unlocking"
    /\ holds' = [holds EXCEPT ![<<i, c>>] = IF @ = 0 THEN 0 ELSE @ - 1]
    /\ stage' = [stage EXCEPT ![i] = "idle"]

\* The unlock statement fails or times out: it is logged and forgotten.
UnlockFails(i) ==
    /\ stage[i] = "unlocking"
    /\ stage' = [stage EXCEPT ![i] = "idle"]
    /\ UNCHANGED holds

\* Mutation of CloseConn: the pool keeps connections for ever.
KeepConn(i, c) == FALSE /\ UNCHANGED lockVars

\* The pool closes connection c: too many idle, idle for too long, or past its
\* lifetime.  The server ends the session and with it the lock.
CloseConn(i, c) ==
    /\ holds[<<i, c>>] > 0
    /\ holds' = [holds EXCEPT ![<<i, c>>] = 0]
    /\ UNCHANGED stage

\* The instance crashes, and is started again.
LoseInstance(i) ==
    /\ holds' = [s \in Sessions |-> IF s[1] = i THEN 0 ELSE holds[s]]
    /\ stage' = [stage EXCEPT ![i] = "idle"]
=============================================================================
