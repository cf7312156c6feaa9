--------------------------- MODULE SchedulerProofs ---------------------------
(***************************************************************************)
(* Proofs, for any number of instances, monitors, regions and cadences, of *)
(* the type invariant of Scheduler, of its safety invariants and of its    *)
(* action property.                                                        *)
(*                                                                         *)
(* None of them is inductive: they rest on the row locks (LockedOnce and   *)
(* LockedLive), on next_due_at being past every job (DueSpaced), and on    *)
(* what a transaction found still being so for the rows it has locked      *)
(* (PendingSpaced, PendingCovered).                                        *)
(***************************************************************************)
EXTENDS Scheduler, TLAPS

-----------------------------------------------------------------------------
(* The inductive invariant *)

\* The monitors an instance has locked, scheduled or not.
Rows(i) == tx[i].rows \cup tx[i].done

\* Only an iteration that is at work has a transaction, unless it is aborted.
TxOpen ==
    \A i \in Instances : /\ i \in broken => stage[i] = "working"
                         /\ stage[i] # "working" \/ i \in broken => tx[i] = NoTx

\* A monitor is locked once, and by one transaction.
LockedOnce ==
    \A i, k \in Instances : \A a \in Rows(i), b \in Rows(k) :
        a.monitor = b.monitor => i = k /\ a = b

\* Nobody disables or deletes a monitor that is locked.
LockedLive ==
    \A i \in Instances : \A row \in Rows(i) :
        row.monitor \in enabled \ deleted /\ row.free \subseteq RegionsOf[row.monitor]

\* A monitor is due no earlier than an interval after each of its jobs.
DueSpaced ==
    \A j \in jobs : /\ nextDue[j.monitor] # Never
                    /\ \E c \in Cadences : j.at + Period[c] <= nextDue[j.monitor]

\* So a job about to be inserted is an interval after each of them.
PendingSpaced ==
    \A i \in Instances : \A row \in Rows(i) : \A j \in jobs :
        j.monitor = row.monitor => \E c \in Cadences : j.at + Period[c] <= AtNow(i, row)

\* A region of a monitor has, or had, a job within the dedup window of a time.
Covered(s, m, r, at) ==
    \E j \in s, c \in Cadences : /\ j.monitor = m /\ j.region = r
                                 /\ j.at - at \in -Window[c] .. Window[c]

\* A region that gets no job has one.
PendingCovered ==
    \A i \in Instances : \A row \in Rows(i) : \A r \in RegionsOf[row.monitor] \ row.free :
        Covered(jobs, row.monitor, r, AtNow(i, row))

\* What is known of the monitors, the jobs and the pending rows.
Tracking ==
    /\ LockedOnce /\ LockedLive /\ DueSpaced /\ PendingSpaced /\ PendingCovered
    /\ PendingNeverCollides /\ CadenceKept /\ LastScheduledIsCovered

Inv == TypeOK /\ TxOpen /\ Tracking

-----------------------------------------------------------------------------
(* Types of what the invariant is about *)

Tx == [age : Ages, rows : SUBSET Row, done : SUBSET Row]

\* The numbers of a cadence.
LEMMA CadenceNumbers ==
    ASSUME NEW c \in Cadences
    PROVE  /\ Period[c] \in Nat /\ Window[c] \in Nat /\ Window[c] < Period[c]
           /\ Horizon >= WorkTimeout + Period[c]
BY CadenceAssumption, SchedulerAssumption

\* A transaction, its rows and the times they are scheduled for.
LEMMA RowTypes ==
    ASSUME TypeOK, NEW i \in Instances
    PROVE  /\ tx[i] \in Tx /\ tx[i].age \in Ages
           /\ tx[i].rows \subseteq Row /\ tx[i].done \subseteq Row
           /\ \A row \in Rows(i) :
                /\ row \in Row /\ row.monitor \in Monitors /\ row.free \subseteq Regions
                /\ AtNow(i, row) \in -WorkTimeout .. Lookahead
                /\ AtNow(i, row) \in Int
<1>1. tx[i] \in Tx
  BY DEF TypeOK, Tx
<1>2. tx[i].age \in Ages /\ tx[i].rows \subseteq Row /\ tx[i].done \subseteq Row
  BY <1>1 DEF Tx
<1>3. ASSUME NEW row \in Rows(i)
      PROVE  /\ row \in Row /\ row.monitor \in Monitors /\ row.free \subseteq Regions
             /\ AtNow(i, row) \in -WorkTimeout .. Lookahead /\ AtNow(i, row) \in Int
  <2>1. row \in Row
    BY <1>2 DEF Rows
  <2>2. row.monitor \in Monitors /\ row.at \in 0 .. Lookahead /\ row.free \subseteq Regions
    BY <2>1 DEF Row
  <2> QED
    BY <1>2, <2>1, <2>2, SchedulerAssumption DEF AtNow, Ages
<1> QED
  BY <1>1, <1>2, <1>3

\* A job, the monitor it is for and that monitor's times.
LEMMA JobTypes ==
    ASSUME TypeOK, NEW j \in jobs
    PROVE  /\ j \in Job /\ j.monitor \in Monitors /\ j.region \in Regions
           /\ j.at \in -Horizon .. Lookahead /\ j.at \in Int
           /\ j.status \in {"active", "done"}
           /\ nextDue[j.monitor] \in Nat \cup {Never}
           /\ cadence[j.monitor] \in Cadences
<1>1. j \in Job
  BY DEF TypeOK
<1>2. /\ j.monitor \in Monitors /\ j.region \in Regions
      /\ j.at \in -Horizon .. Lookahead /\ j.status \in {"active", "done"}
  BY <1>1 DEF Job
<1> QED
  BY <1>1, <1>2, SchedulerAssumption DEF TypeOK

\* A row that is not listed is locked by nobody.
LEMMA NotLocked ==
    ASSUME NEW m, ~RowLocked(m), NEW i \in Instances, NEW row \in Rows(i)
    PROVE  row.monitor # m
BY DEF RowLocked, Rows

-----------------------------------------------------------------------------
(* Transactions that end, and steps that leave them alone *)

\* Dropping rows, and nothing else, breaks no tracking.
LEMMA FewerRows ==
    ASSUME TypeOK, Tracking, UNCHANGED <<monitorVars, jobs>>,
           \A k \in Instances : /\ Rows(k)' \subseteq Rows(k)
                                /\ Rows(k)' # {} => tx'[k].age = tx[k].age
    PROVE  Tracking'
<1>1. \A k \in Instances : \A row \in Rows(k)' :
         row \in Rows(k) /\ AtNow(k, row)' = AtNow(k, row)
  BY DEF AtNow
<1>2. LockedOnce' /\ LockedLive'
  <2>1. LockedOnce'
    BY <1>1 DEF Tracking, LockedOnce
  <2>2. LockedLive'
    BY <1>1 DEF Tracking, LockedLive, monitorVars
  <2> QED
    BY <2>1, <2>2
<1>3. DueSpaced' /\ CadenceKept' /\ LastScheduledIsCovered'
  BY DEF Tracking, DueSpaced, CadenceKept, LastScheduledIsCovered, monitorVars
<1>4. PendingSpaced'
  BY <1>1 DEF Tracking, PendingSpaced, monitorVars
<1>6. PendingCovered'
  BY <1>1 DEF Tracking, PendingCovered
<1>7. PendingNeverCollides'
  <2>1. PendingNeverCollides
    BY DEF Tracking
  <2>2. ASSUME NEW k \in Instances, NEW row \in Rows(k)', NEW j \in jobs',
               j.monitor = row.monitor, j.region \in row.free, j.status = "active"
        PROVE  j.at - AtNow(k, row)'
                 \notin -Window[cadence'[row.monitor]] .. Window[cadence'[row.monitor]]
    BY <1>1, <2>1, <2>2 DEF PendingNeverCollides, Rows, monitorVars
  <2> QED
    BY <2>2 DEF PendingNeverCollides, Rows
<1> QED
  BY <1>2, <1>3, <1>4, <1>6, <1>7 DEF Tracking

\* The transaction of one instance ends without a commit.
LEMMA TxDropped ==
    ASSUME Inv, NEW i \in Instances, tx' = [tx EXCEPT ![i] = NoTx],
           UNCHANGED <<monitorVars, jobs>>
    PROVE  Tracking' /\ tx' \in [Instances -> Tx] /\ tx'[i] = NoTx
           /\ \A k \in Instances \ {i} : tx'[k] = tx[k]
<1>1. tx \in [Instances -> Tx]
  BY DEF Inv, TypeOK, Tx
<1>2. NoTx \in Tx /\ NoTx.rows = {} /\ NoTx.done = {}
  BY SchedulerAssumption DEF NoTx, Tx, Ages
<1>3. tx' \in [Instances -> Tx] /\ tx'[i] = NoTx /\ \A k \in Instances \ {i} : tx'[k] = tx[k]
  BY <1>1, <1>2
<1>4. ASSUME NEW k \in Instances
      PROVE  Rows(k)' \subseteq Rows(k) /\ (Rows(k)' # {} => tx'[k].age = tx[k].age)
  <2>1. CASE k = i
    BY <1>2, <1>3, <2>1 DEF Rows
  <2>2. CASE k # i
    BY <1>3, <2>2 DEF Rows
  <2> QED
    BY <2>1, <2>2
<1>5. Tracking'
  BY <1>4, FewerRows DEF Inv
<1> QED
  BY <1>3, <1>5

\* A step that leaves the transactions and the database alone.
LEMMA TxKept ==
    ASSUME Inv, UNCHANGED <<monitorVars, jobs, tx>>
    PROVE  Tracking' /\ tx' \in [Instances -> Tx]
<1>1. \A k \in Instances : Rows(k)' \subseteq Rows(k) /\ tx'[k].age = tx[k].age
  BY DEF Rows
<1>2. Tracking'
  BY <1>1, FewerRows DEF Inv
<1>3. tx' \in [Instances -> Tx]
  BY DEF Inv, TypeOK, Tx
<1> QED
  BY <1>2, <1>3

-----------------------------------------------------------------------------
(* The lock *)

\* The lock's steps keep its types, and change the stage of one instance.
LEMMA LockTypes ==
    ASSUME LockTypeOK, NEW i \in Instances, NEW c \in Conns,
           TryLock(i, c) \/ Unlock(i, c) \/ UnlockFails(i) \/ CloseConn(i, c) \/ LoseInstance(i)
    PROVE  LockTypeOK'
<1> USE HoldAssumption
<1>0. <<i, c>> \in Sessions
  BY DEF Sessions
<1>1. CASE TryLock(i, c)
  BY <1>0, <1>1 DEF TryLock, LockTypeOK
<1>2. CASE Unlock(i, c)
  BY <1>0, <1>2 DEF Unlock, LockTypeOK
<1>3. CASE UnlockFails(i)
  BY <1>3 DEF UnlockFails, LockTypeOK
<1>4. CASE CloseConn(i, c)
  BY <1>0, <1>4 DEF CloseConn, LockTypeOK
<1>5. CASE LoseInstance(i)
  <2>1. holds' \in [Sessions -> 0 .. MaxHold]
    BY <1>5 DEF LoseInstance, LockTypeOK
  <2>2. stage' \in [Instances -> {"idle", "locked", "working", "unlocking"}]
    BY <1>5 DEF LoseInstance, LockTypeOK
  <2> QED
    BY <2>1, <2>2 DEF LockTypeOK
<1> QED
  BY <1>1, <1>2, <1>3, <1>4, <1>5

\* Moving one instance's iteration on keeps the types of the lock.
LEMMA StageTypes ==
    ASSUME LockTypeOK, NEW i \in Instances,
           NEW s \in {"idle", "locked", "working", "unlocking"},
           stage' = [stage EXCEPT ![i] = s], UNCHANGED holds
    PROVE  LockTypeOK' /\ stage'[i] = s /\ \A k \in Instances \ {i} : stage'[k] = stage[k]
BY DEF LockTypeOK

\* Elect and LoseSession, and Resign.
LEMMA LockSteps ==
    ASSUME Inv, NEW i \in Instances,
           \/ \E c \in Conns : Elect(i, c) \/ LoseSession(i, c)
           \/ Resign(i)
    PROVE  Inv'
<1>0. TypeOK /\ TxOpen /\ LockTypeOK
  BY DEF Inv, TypeOK
<1>1. UNCHANGED <<database, tx, broken, faults>>
  BY DEF Elect, LoseSession, Resign
<1>2. UNCHANGED <<enabled, deleted, cadence, nextDue, lastAt, jobs, tx, broken, faults>>
  BY <1>1 DEF database, monitorVars
<1>3. LockTypeOK'
  <2>1. CASE UnlockFails(i)
    BY <1>0, <2>1 DEF UnlockFails, LockTypeOK
  <2>2. CASE ~UnlockFails(i)
    BY <1>0, <2>2, LockTypes DEF Elect, LoseSession, Resign
  <2> QED
    BY <2>1, <2>2
<1>4. TypeOK'
  BY <1>0, <1>2, <1>3 DEF TypeOK
<1>5. Tracking'
  BY <1>2, TxKept DEF monitorVars
<1>6. /\ \A k \in Instances \ {i} : stage'[k] = stage[k]
      /\ stage'[i] # stage[i] => stage[i] \in {"idle", "unlocking"} /\ stage'[i] \in {"idle", "locked"}
  BY <1>0 DEF Elect, LoseSession, Resign, TryLock, Unlock, UnlockFails, CloseConn, LockTypeOK
<1>7. TxOpen'
  <2> SUFFICES ASSUME NEW k \in Instances
               PROVE  /\ k \in broken' => stage'[k] = "working"
                      /\ stage'[k] # "working" \/ k \in broken' => tx'[k] = NoTx
    BY DEF TxOpen, NoTx
  <2> QED
    BY <1>0, <1>2, <1>6 DEF TxOpen
<1> QED
  BY <1>4, <1>5, <1>7 DEF Inv

\* A transaction ends without a commit: its statement, its begin or its commit
\* failed, or its instance died.
LEMMA Aborts ==
    ASSUME Inv, NEW i \in Instances,
           ScheduleFails(i) \/ Rollback(i) \/ Crash(i)
    PROVE  Inv'
<1>0. TypeOK /\ TxOpen /\ LockTypeOK
  BY DEF Inv, TypeOK
<1>1. tx' = [tx EXCEPT ![i] = NoTx] /\ UNCHANGED <<monitorVars, jobs>>
  BY DEF ScheduleFails, Rollback, Crash, database
<1>2. /\ Tracking' /\ tx' \in [Instances -> Tx] /\ tx'[i] = NoTx
      /\ \A k \in Instances \ {i} : tx'[k] = tx[k]
  BY <1>1, TxDropped
<1>3. faults' \in 0 .. MaxFaults
  BY <1>0, SchedulerAssumption DEF ScheduleFails, Rollback, Crash, Fault, TypeOK
<1>4. /\ broken' \subseteq Instances
      /\ i \in broken' => ScheduleFails(i)
      /\ \A k \in Instances \ {i} : k \in broken' <=> k \in broken
  BY <1>0 DEF ScheduleFails, Rollback, Crash, TypeOK
<1>5. /\ LockTypeOK'
      /\ ScheduleFails(i) => stage'[i] = "working"
      /\ \A k \in Instances \ {i} : stage'[k] = stage[k]
  <2>1. CASE ScheduleFails(i)
    BY <1>0, <2>1 DEF ScheduleFails, LockTypeOK
  <2>2. CASE Rollback(i)
    <3>1. stage' = [stage EXCEPT ![i] = "unlocking"] /\ UNCHANGED holds
          /\ ~ScheduleFails(i)
      BY <1>0, <2>2 DEF Rollback, ScheduleFails, LockTypeOK
    <3> QED
      BY <1>0, <3>1, StageTypes
  <2>3. CASE Crash(i)
    <3>1. holds' \in [Sessions -> 0 .. MaxHold]
      BY <1>0, <2>3, HoldAssumption DEF Crash, LoseInstance, LockTypeOK
    <3>2. stage' = [stage EXCEPT ![i] = "idle"]
      BY <2>3 DEF Crash, LoseInstance
    <3>3. /\ stage' \in [Instances -> {"idle", "locked", "working", "unlocking"}]
          /\ stage'[i] = "idle" /\ \A k \in Instances \ {i} : stage'[k] = stage[k]
      BY <1>0, <3>2 DEF LockTypeOK
    <3>4. ScheduleFails(i) => UNCHANGED stage /\ stage[i] = "working"
      BY DEF ScheduleFails
    <3> QED
      BY <3>1, <3>3, <3>4 DEF LockTypeOK
  <2> QED
    BY <2>1, <2>2, <2>3
<1>6. TypeOK'
  BY <1>0, <1>1, <1>2, <1>3, <1>4, <1>5 DEF TypeOK, Tx, monitorVars
<1>7. TxOpen'
  <2> SUFFICES ASSUME NEW k \in Instances
               PROVE  /\ k \in broken' => stage'[k] = "working"
                      /\ stage'[k] # "working" \/ k \in broken' => tx'[k] = NoTx
    BY DEF TxOpen, NoTx
  <2> QED
    BY <1>0, <1>2, <1>4, <1>5 DEF TxOpen
<1> QED
  BY <1>2, <1>6, <1>7 DEF Inv

\* The transaction cannot be begun.
LEMMA BeginFailing ==
    ASSUME Inv, NEW i \in Instances, BeginFails(i)
    PROVE  Inv'
<1>0. TypeOK /\ TxOpen /\ LockTypeOK
  BY DEF Inv, TypeOK
<1>1. UNCHANGED <<monitorVars, jobs, tx, broken, holds>>
  BY DEF BeginFails
<1>2. /\ stage' = [stage EXCEPT ![i] = "unlocking"] /\ stage[i] = "locked"
      /\ LockTypeOK' /\ stage'[i] = "unlocking"
      /\ \A k \in Instances \ {i} : stage'[k] = stage[k]
  BY <1>0, StageTypes DEF BeginFails
<1>3. faults' \in 0 .. MaxFaults
  BY <1>0, SchedulerAssumption DEF BeginFails, Fault, TypeOK
<1>4. TypeOK'
  BY <1>0, <1>1, <1>2, <1>3 DEF TypeOK, monitorVars
<1>5. Tracking'
  BY <1>1, TxKept
<1>6. TxOpen'
  <2> SUFFICES ASSUME NEW k \in Instances
               PROVE  /\ k \in broken' => stage'[k] = "working"
                      /\ stage'[k] # "working" \/ k \in broken' => tx'[k] = NoTx
    BY DEF TxOpen, NoTx
  <2> QED
    BY <1>0, <1>1, <1>2 DEF TxOpen
<1> QED
  BY <1>4, <1>5, <1>6 DEF Inv

\* A row is scheduled: it is no less locked.
LEMMA Scheduling ==
    ASSUME Inv, NEW i \in Instances, NEW row \in tx[i].rows, ScheduleMonitor(i, row)
    PROVE  Inv'
<1> DEFINE x == [age |-> tx[i].age, rows |-> tx[i].rows \ {row}, done |-> tx[i].done \cup {row}]
<1>0. TypeOK /\ TxOpen /\ LockTypeOK
  BY DEF Inv, TypeOK
<1>1. /\ tx' = [tx EXCEPT ![i] = x] /\ stage[i] = "working"
      /\ UNCHANGED <<monitorVars, jobs, holds, stage, broken, faults>>
  BY DEF ScheduleMonitor
<1>2. /\ x \in Tx /\ x.age = tx[i].age
      /\ x.rows \cup x.done = Rows(i)
  BY <1>0, RowTypes DEF Tx, Rows
<1> HIDE DEF x
<1>3. tx \in [Instances -> Tx]
  BY <1>0 DEF TypeOK, Tx
<1>4. tx' \in [Instances -> Tx] /\ tx'[i] = x /\ \A k \in Instances \ {i} : tx'[k] = tx[k]
  BY <1>1, <1>2, <1>3
<1>5. \A k \in Instances : Rows(k)' = Rows(k) /\ tx'[k].age = tx[k].age
  BY <1>2, <1>4 DEF Rows
<1>6. Tracking'
  BY <1>0, <1>1, <1>5, FewerRows DEF Inv
<1>7. LockTypeOK'
  BY <1>0, <1>1 DEF LockTypeOK
<1>8. TypeOK'
  BY <1>0, <1>1, <1>4, <1>7 DEF TypeOK, Tx, monitorVars
<1>9. TxOpen'
  <2> SUFFICES ASSUME NEW k \in Instances
               PROVE  /\ k \in broken' => stage'[k] = "working"
                      /\ stage'[k] # "working" \/ k \in broken' => tx'[k] = NoTx
    BY DEF TxOpen, NoTx
  <2>1. i \notin broken
    <3>1. tx[i] # NoTx
      BY DEF NoTx
    <3> QED
      BY <1>0, <3>1 DEF TxOpen
  <2> QED
    BY <1>0, <1>1, <1>4, <2>1 DEF TxOpen
<1> QED
  BY <1>6, <1>8, <1>9 DEF Inv

-----------------------------------------------------------------------------
(* The start of a transaction *)

\* A due monitor is scheduled within the look-ahead.
LEMMA ScheduledAtBounds ==
    ASSUME TypeOK, NEW m \in Monitors, Due(m)
    PROVE  /\ ScheduledAt(m) \in 0 .. Lookahead
           /\ nextDue[m] # Never => ScheduledAt(m) = nextDue[m]
<1>1. nextDue[m] \in Nat \cup {Never}
  BY DEF TypeOK
<1> QED
  BY <1>1, SchedulerAssumption DEF Due, ScheduledAt

\* A region that gets no job has one close to it.
LEMMA OccupiedCovers ==
    ASSUME TypeOK, NEW m \in Monitors, NEW r, NEW at, Occupied(m, r, at)
    PROVE  Covered(jobs, m, r, at)
<1>1. cadence[m] \in Cadences
  BY DEF TypeOK
<1> QED
  BY <1>1 DEF Occupied, InWindow, Covered

\* The monitors that were due and free are locked, each once, and what the
\* snapshot says of their jobs is what the invariant keeps.
LEMMA Beginning ==
    ASSUME Inv, NEW i \in Instances, Begin(i)
    PROVE  Inv'
<1> DEFINE free(m) == {r \in RegionsOf[m] : ~Occupied(m, r, ScheduledAt(m))}
           listed == {n \in Monitors : Live(n) /\ Due(n) /\ ~RowLocked(n)}
           rows == {[monitor |-> m, at |-> ScheduledAt(m), free |-> free(m)] : m \in listed}
           x == [age |-> 0, rows |-> rows, done |-> {}]
<1>0. TypeOK /\ TxOpen /\ LockTypeOK /\ Tracking
  BY DEF Inv, TypeOK
<1>1. /\ tx' = [tx EXCEPT ![i] = x] /\ stage' = [stage EXCEPT ![i] = "working"]
      /\ stage[i] = "locked"
      /\ UNCHANGED <<holds, monitorVars, jobs, broken, faults>>
  BY DEF Begin
<1>2. \A row \in rows : /\ row.monitor \in listed /\ row.at = ScheduledAt(row.monitor)
                        /\ row.free = free(row.monitor) /\ row \in Row
  <2>1. ASSUME NEW m \in listed
        PROVE  /\ ScheduledAt(m) \in 0 .. Lookahead /\ free(m) \subseteq Regions
    BY <1>0, <2>1, ScheduledAtBounds DEF Regions
  <2> QED
    BY <2>1 DEF Row
<1>3. \A a, b \in rows : a.monitor = b.monitor => a = b
  OBVIOUS
<1>4. x \in Tx /\ x.age = 0 /\ x.rows = rows /\ x.done = {}
  BY <1>2, SchedulerAssumption DEF Tx, Ages
<1>5. tx' \in [Instances -> Tx] /\ tx'[i] = x /\ \A k \in Instances \ {i} : tx'[k] = tx[k]
  <2>1. tx \in [Instances -> Tx]
    BY <1>0 DEF TypeOK, Tx
  <2> HIDE DEF x
  <2> QED
    BY <1>1, <1>4, <2>1
<1>6. /\ Rows(i)' = rows /\ \A k \in Instances \ {i} : Rows(k)' = Rows(k)
      /\ \A row \in rows : AtNow(i, row)' = ScheduledAt(row.monitor)
      /\ \A k \in Instances \ {i} : \A row : AtNow(k, row)' = AtNow(k, row)
  <2>1. \A row \in rows : ScheduledAt(row.monitor) \in 0 .. Lookahead
    BY <1>0, <1>2, ScheduledAtBounds
  <2>2. \A row \in rows : AtNow(i, row)' = ScheduledAt(row.monitor)
    <3> HIDE DEF rows, x
    <3> QED
      BY <1>2, <1>4, <1>5, <2>1, SchedulerAssumption DEF AtNow
  <2>3. Rows(i)' = rows
    <3> HIDE DEF rows, x
    <3> QED
      BY <1>4, <1>5 DEF Rows
  <2>4. \A k \in Instances \ {i} : Rows(k)' = Rows(k) /\ \A row : AtNow(k, row)' = AtNow(k, row)
    <3> HIDE DEF rows, x
    <3> QED
      BY <1>5 DEF Rows, AtNow
  <2> QED
    BY <2>2, <2>3, <2>4
<1>7. /\ cadence' = cadence /\ nextDue' = nextDue /\ enabled' = enabled /\ deleted' = deleted
      /\ lastAt' = lastAt /\ jobs' = jobs
  BY <1>1 DEF monitorVars
<1>8. \A row \in rows : /\ row.monitor \in Monitors /\ Live(row.monitor) /\ Due(row.monitor)
                        /\ \A k \in Instances : \A b \in Rows(k) : b.monitor # row.monitor
  BY <1>2, NotLocked
<1>9. TypeOK'
  <2>1. LockTypeOK'
    BY <1>0, <1>1, StageTypes
  <2> HIDE DEF x
  <2> QED
    BY <1>0, <1>1, <1>5, <1>7, <2>1 DEF TypeOK, Tx
<1>10. TxOpen'
  <2> HIDE DEF x
  <2>1. stage'[i] = "working" /\ \A k \in Instances \ {i} : stage'[k] = stage[k]
    BY <1>0, <1>1 DEF LockTypeOK
  <2>2. i \notin broken
    BY <1>0, <1>1 DEF TxOpen
  <2> SUFFICES ASSUME NEW k \in Instances
               PROVE  /\ k \in broken' => stage'[k] = "working"
                      /\ stage'[k] # "working" \/ k \in broken' => tx'[k] = NoTx
    BY DEF TxOpen, NoTx
  <2> QED
    BY <1>0, <1>1, <1>5, <2>1, <2>2 DEF TxOpen
<1>11. LockedOnce'
  <2> HIDE DEF rows, x
  <2> SUFFICES ASSUME NEW h \in Instances, NEW k \in Instances,
                      NEW a \in Rows(h)', NEW b \in Rows(k)', a.monitor = b.monitor
               PROVE  h = k /\ a = b
    BY DEF LockedOnce
  <2>1. CASE h = i /\ k = i
    BY <1>3, <1>6, <2>1
  <2>2. CASE h # i /\ k # i
    BY <1>0, <1>6, <2>2 DEF Tracking, LockedOnce
  <2>3. CASE h = i /\ k # i
    BY <1>6, <1>8, <2>3
  <2>4. CASE h # i /\ k = i
    BY <1>6, <1>8, <2>4
  <2> QED
    BY <2>1, <2>2, <2>3, <2>4
<1>12. LockedLive'
  <2>1. \A row \in rows : row.free \subseteq RegionsOf[row.monitor]
    BY <1>2
  <2> HIDE DEF rows, x
  <2> SUFFICES ASSUME NEW k \in Instances, NEW row \in Rows(k)'
               PROVE  /\ row.monitor \in enabled' \ deleted'
                      /\ row.free \subseteq RegionsOf[row.monitor]
    BY DEF LockedLive
  <2>2. CASE k = i
    BY <1>6, <1>7, <1>8, <2>1, <2>2 DEF Live
  <2>3. CASE k # i
    BY <1>0, <1>6, <1>7, <2>3 DEF Tracking, LockedLive
  <2> QED
    BY <2>2, <2>3
<1>13. DueSpaced' /\ CadenceKept' /\ LastScheduledIsCovered'
  <2> HIDE DEF rows, x
  <2> QED
    BY <1>0, <1>7 DEF Tracking, DueSpaced, CadenceKept, LastScheduledIsCovered
<1>14. PendingSpaced'
  <2> HIDE DEF rows, x
  <2> SUFFICES ASSUME NEW k \in Instances, NEW row \in Rows(k)', NEW j \in jobs,
                      j.monitor = row.monitor
               PROVE  \E c \in Cadences : j.at + Period[c] <= AtNow(k, row)'
    BY <1>7 DEF PendingSpaced
  <2>1. CASE k = i
    <3>1. /\ row \in rows /\ AtNow(k, row)' = ScheduledAt(row.monitor)
          /\ Due(row.monitor) /\ row.monitor \in Monitors
      BY <1>6, <1>8, <2>1
    <3>2. nextDue[row.monitor] # Never /\ \E c \in Cadences : j.at + Period[c] <= nextDue[row.monitor]
      BY <1>0 DEF Tracking, DueSpaced
    <3> QED
      BY <1>0, <3>1, <3>2, ScheduledAtBounds
  <2>2. CASE k # i
    BY <1>0, <1>6, <2>2 DEF Tracking, PendingSpaced
  <2> QED
    BY <2>1, <2>2
<1>15. PendingCovered'
  <2>1. ASSUME NEW row \in rows, NEW r \in RegionsOf[row.monitor] \ row.free
        PROVE  Occupied(row.monitor, r, ScheduledAt(row.monitor))
    BY <1>2
  <2> HIDE DEF rows, x
  <2>2. ASSUME NEW k \in Instances, NEW row \in Rows(k)', NEW r \in RegionsOf[row.monitor] \ row.free
        PROVE  Covered(jobs', row.monitor, r, AtNow(k, row)')
    <3>1. CASE k = i
      BY <1>0, <1>6, <1>7, <1>8, <2>1, <3>1, OccupiedCovers
    <3>2. CASE k # i
      BY <1>0, <1>6, <1>7, <3>2 DEF Tracking, PendingCovered
    <3> QED
      BY <3>1, <3>2
  <2> QED
    BY <2>2 DEF PendingCovered
<1>16. PendingNeverCollides'
  <2>1. \A row \in rows : \A r \in row.free : ~Occupied(row.monitor, r, ScheduledAt(row.monitor))
    BY <1>2
  <2> HIDE DEF rows, x
  <2> SUFFICES ASSUME NEW k \in Instances, NEW row \in Rows(k)', NEW j \in jobs,
                      j.monitor = row.monitor, j.region \in row.free, j.status = "active"
               PROVE  j.at - AtNow(k, row)'
                        \notin -Window[cadence[row.monitor]] .. Window[cadence[row.monitor]]
    BY <1>7 DEF PendingNeverCollides, Rows
  <2>2. CASE k = i
    BY <1>6, <2>1, <2>2 DEF Occupied, InWindow
  <2>3. CASE k # i
    BY <1>0, <1>6, <2>3 DEF Tracking, PendingNeverCollides, Rows
  <2> QED
    BY <2>2, <2>3
<1> QED
  BY <1>9, <1>10, <1>11, <1>12, <1>13, <1>14, <1>15, <1>16 DEF Inv, Tracking

-----------------------------------------------------------------------------
(* The commit *)

\* The job a scheduled row stands for in a region.
JobOf(i, row, r) ==
    [monitor |-> row.monitor, region |-> r, at |-> AtNow(i, row), status |-> "active"]

\* What a transaction inserts: jobs of its rows, at the rows' times.
LEMMA InsertedJobs ==
    ASSUME TypeOK, LockedLive, NEW i \in Instances
    PROVE  /\ \A j \in Inserted(i) :
                /\ j \in Job
                /\ \E row \in tx[i].done : \E r \in row.free : j = JobOf(i, row, r)
           /\ \A row \in tx[i].done : \A r \in row.free : JobOf(i, row, r) \in Inserted(i)
<1>1. \A row \in tx[i].done : \A r \in row.free : JobOf(i, row, r) \in Inserted(i)
  BY DEF Inserted, JobOf
<1>2. ASSUME NEW j \in Inserted(i)
      PROVE  \E row \in tx[i].done : \E r \in row.free : j = JobOf(i, row, r)
  BY DEF Inserted, JobOf
<1>3. ASSUME NEW row \in tx[i].done, NEW r \in row.free
      PROVE  JobOf(i, row, r) \in Job
  <2>1. row \in Rows(i)
    BY DEF Rows
  <2>2. /\ row.monitor \in Monitors /\ r \in Regions
        /\ AtNow(i, row) \in -WorkTimeout .. Lookahead
    BY <2>1, RowTypes
  <2>3. Horizon >= WorkTimeout
    <3>1. cadence[row.monitor] \in Cadences
      BY <2>2 DEF TypeOK
    <3> QED
      BY <3>1, CadenceNumbers, SchedulerAssumption
  <2>4. AtNow(i, row) \in -Horizon .. Lookahead
    BY <2>2, <2>3, SchedulerAssumption
  <2> QED
    BY <2>2, <2>4 DEF JobOf, Job
<1> QED
  BY <1>1, <1>2, <1>3

\* The due times and last times after a commit.
LEMMA CommittedTimes ==
    ASSUME Inv, NEW i \in Instances, Commit(i)
    PROVE  /\ \A row \in tx[i].done :
                /\ nextDue'[row.monitor]
                     = AtLeast(0, AtNow(i, row) + Period[cadence[row.monitor]])
                /\ lastAt'[row.monitor] = AtNow(i, row)
           /\ \A m \in Monitors : (\A row \in tx[i].done : row.monitor # m)
                => nextDue'[m] = nextDue[m] /\ lastAt'[m] = lastAt[m]
<1>1. ASSUME NEW row \in tx[i].done
      PROVE  /\ (CHOOSE a \in tx[i].done : a.monitor = row.monitor) = row
             /\ row.monitor \in Monitors
  <2>1. \A a \in tx[i].done : a.monitor = row.monitor => a = row
    BY DEF Inv, Tracking, LockedOnce, Rows
  <2>2. row.monitor \in Monitors
    BY RowTypes DEF Inv, Rows
  <2> QED
    BY <2>1, <2>2
<1>2. ASSUME NEW row \in tx[i].done
      PROVE  /\ nextDue'[row.monitor]
                  = AtLeast(0, AtNow(i, row) + Period[cadence[row.monitor]])
             /\ lastAt'[row.monitor] = AtNow(i, row)
  BY <1>1 DEF Commit, Advanced
<1>3. ASSUME NEW m \in Monitors, \A row \in tx[i].done : row.monitor # m
      PROVE  nextDue'[m] = nextDue[m] /\ lastAt'[m] = lastAt[m]
  BY <1>3 DEF Commit
<1> QED
  BY <1>2, <1>3

\* The jobs and the times of a transaction become visible together.
LEMMA Committing ==
    ASSUME Inv, NEW i \in Instances, Commit(i)
    PROVE  Inv'
<1>0. TypeOK /\ TxOpen /\ LockTypeOK /\ Tracking /\ LockedLive /\ LockedOnce
  BY DEF Inv, TypeOK, Tracking
<1>1. /\ tx' = [tx EXCEPT ![i] = NoTx] /\ stage' = [stage EXCEPT ![i] = "unlocking"]
      /\ stage[i] = "working" /\ i \notin broken
      /\ jobs' = jobs \cup Inserted(i)
      /\ UNCHANGED <<holds, enabled, deleted, cadence, broken, faults>>
  BY DEF Commit
<1>2. /\ tx' \in [Instances -> Tx] /\ tx'[i] = NoTx
      /\ \A k \in Instances \ {i} : tx'[k] = tx[k]
  <2>1. tx \in [Instances -> Tx]
    BY <1>0 DEF TypeOK, Tx
  <2>2. NoTx \in Tx
    BY SchedulerAssumption DEF NoTx, Tx, Ages
  <2> QED
    BY <1>1, <2>1, <2>2
<1>3. \A k \in Instances : \A row \in Rows(k)' :
        k # i /\ row \in Rows(k) /\ AtNow(k, row)' = AtNow(k, row)
  BY <1>2 DEF Rows, AtNow, NoTx
<1>4. \A row \in tx[i].done :
        /\ row \in Rows(i) /\ row.monitor \in Monitors
        /\ cadence[row.monitor] \in Cadences
        /\ AtNow(i, row) \in Int /\ AtNow(i, row) \in -WorkTimeout .. Lookahead
  BY <1>0, RowTypes DEF Rows, TypeOK
<1>5. \A j \in jobs' \ jobs :
        \E row \in tx[i].done : \E r \in row.free : j = JobOf(i, row, r)
  BY <1>0, <1>1, InsertedJobs
<1>6. \A row \in tx[i].done : \A r \in row.free : JobOf(i, row, r) \in jobs'
  BY <1>0, <1>1, InsertedJobs
<1>7. \A k \in Instances : \A b \in Rows(k)' : \A j \in jobs' \ jobs : j.monitor # b.monitor
  BY <1>0, <1>3, <1>4, <1>5 DEF LockedOnce, JobOf
<1>8. \A m, r, at : Covered(jobs, m, r, at) => Covered(jobs', m, r, at)
  <2>1. jobs \subseteq jobs'
    BY <1>1
  <2> QED
    BY <2>1 DEF Covered
<1>9. TypeOK'
  <2>1. LockTypeOK'
    BY <1>0, <1>1, StageTypes
  <2>2. jobs' \subseteq Job
    BY <1>0, <1>1, InsertedJobs DEF TypeOK
  <2>3. nextDue' \in [Monitors -> Nat \cup {Never}] /\ lastAt' \in [Monitors -> -Horizon .. Lookahead \cup {Never}]
    <3>1. DOMAIN nextDue' = Monitors /\ DOMAIN lastAt' = Monitors
          /\ nextDue' = [m \in Monitors |-> nextDue'[m]]
          /\ lastAt' = [m \in Monitors |-> lastAt'[m]]
      BY DEF Commit
    <3>2. ASSUME NEW m \in Monitors
          PROVE  nextDue'[m] \in Nat \cup {Never} /\ lastAt'[m] \in -Horizon .. Lookahead \cup {Never}
      <4>1. ASSUME NEW row \in tx[i].done, row.monitor = m
            PROVE  nextDue'[m] \in Nat \cup {Never} /\ lastAt'[m] \in -Horizon .. Lookahead \cup {Never}
        <5>1. /\ nextDue'[m] = AtLeast(0, AtNow(i, row) + Period[cadence[m]])
              /\ lastAt'[m] = AtNow(i, row)
          BY <4>1, CommittedTimes
        <5>2. Period[cadence[m]] \in Nat /\ Horizon >= WorkTimeout + Period[cadence[m]]
          BY <1>4, <4>1, CadenceNumbers
        <5>3. AtNow(i, row) + Period[cadence[m]] \in Int
          BY <1>4, <5>2
        <5>4. nextDue'[m] \in Nat
          BY <5>1, <5>3 DEF AtLeast
        <5>5. lastAt'[m] \in -Horizon .. Lookahead
          BY <1>4, <5>1, <5>2, SchedulerAssumption
        <5> QED
          BY <5>4, <5>5
      <4>2. CASE \A row \in tx[i].done : row.monitor # m
        BY <1>0, <4>2, CommittedTimes DEF TypeOK
      <4> QED
        BY <4>1, <4>2
    <3> QED
      BY <3>1, <3>2
  <2> QED
    BY <1>0, <1>1, <1>2, <2>1, <2>2, <2>3 DEF TypeOK, Tx
<1>10. TxOpen'
  <2>1. stage'[i] = "unlocking" /\ \A k \in Instances \ {i} : stage'[k] = stage[k]
    BY <1>0, <1>1 DEF LockTypeOK
  <2> SUFFICES ASSUME NEW k \in Instances
               PROVE  /\ k \in broken' => stage'[k] = "working"
                      /\ stage'[k] # "working" \/ k \in broken' => tx'[k] = NoTx
    BY DEF TxOpen, NoTx
  <2> QED
    BY <1>0, <1>1, <1>2, <2>1 DEF TxOpen
<1>11. LockedOnce' /\ LockedLive'
  <2>1. LockedOnce'
    BY <1>0, <1>3 DEF LockedOnce
  <2>2. LockedLive'
    BY <1>0, <1>1, <1>3 DEF LockedLive
  <2> QED
    BY <2>1, <2>2
<1>12. ASSUME NEW j \in jobs', NEW row \in tx[i].done, j.monitor = row.monitor, j \in jobs
       PROVE  \E c \in Cadences : j.at + Period[c] <= AtNow(i, row)
  BY <1>0, <1>4, <1>12 DEF Tracking, PendingSpaced
<1>13. DueSpaced'
  <2> SUFFICES ASSUME NEW j \in jobs'
               PROVE  /\ nextDue'[j.monitor] # Never
                      /\ \E c \in Cadences : j.at + Period[c] <= nextDue'[j.monitor]
    BY DEF DueSpaced
  <2>1. ASSUME NEW row \in tx[i].done, j.monitor = row.monitor
        PROVE  /\ nextDue'[j.monitor] # Never
               /\ \E c \in Cadences : j.at + Period[c] <= nextDue'[j.monitor]
    <3>1. /\ nextDue'[j.monitor] \in Int
          /\ nextDue'[j.monitor] >= AtNow(i, row) + Period[cadence[row.monitor]]
      <4>1. AtNow(i, row) + Period[cadence[row.monitor]] \in Int
        BY <1>4, CadenceNumbers
      <4>2. nextDue'[j.monitor] = AtLeast(0, AtNow(i, row) + Period[cadence[row.monitor]])
        BY <2>1, CommittedTimes
      <4> QED
        BY <4>1, <4>2 DEF AtLeast
    <3>2. CASE j \in jobs
      <4>1. PICK c \in Cadences : j.at + Period[c] <= AtNow(i, row)
        BY <1>12, <2>1, <3>2
      <4>2. j.at \in Int /\ Period[c] \in Nat /\ Period[cadence[row.monitor]] \in Nat
        BY <1>0, <1>4, <3>2, JobTypes, CadenceNumbers
      <4> QED
        BY <1>4, <3>1, <4>1, <4>2, SchedulerAssumption
    <3>3. CASE j \notin jobs
      <4>1. PICK a \in tx[i].done : \E r \in a.free : j = JobOf(i, a, r)
        BY <1>5, <3>3
      <4>2. a = row
        BY <1>0, <1>4, <2>1, <4>1 DEF JobOf, LockedOnce
      <4>3. j.at = AtNow(i, row)
        BY <4>1, <4>2 DEF JobOf
      <4> QED
        BY <1>4, <3>1, <4>3, SchedulerAssumption
    <3> QED
      BY <3>2, <3>3
  <2>2. CASE \A row \in tx[i].done : row.monitor # j.monitor
    <3>1. j \in jobs
      BY <1>5, <2>2 DEF JobOf
    <3> QED
      BY <1>0, <2>2, <3>1, JobTypes, CommittedTimes DEF Tracking, DueSpaced
  <2> QED
    BY <2>1, <2>2
<1>14. PendingSpaced'
  BY <1>0, <1>3, <1>7 DEF Tracking, PendingSpaced
<1>15. PendingCovered'
  <2>1. ASSUME NEW k \in Instances, NEW row \in Rows(k)', NEW r \in RegionsOf[row.monitor] \ row.free
        PROVE  Covered(jobs', row.monitor, r, AtNow(k, row)')
    BY <1>0, <1>3, <1>8 DEF Tracking, PendingCovered
  <2> QED
    BY <2>1 DEF PendingCovered
<1>16. PendingNeverCollides'
  <2> SUFFICES ASSUME NEW k \in Instances, NEW row \in Rows(k)', NEW j \in jobs',
                      j.monitor = row.monitor, j.region \in row.free, j.status = "active"
               PROVE  j.at - AtNow(k, row)'
                        \notin -Window[cadence[row.monitor]] .. Window[cadence[row.monitor]]
    BY <1>1 DEF PendingNeverCollides, Rows
  <2>1. j \in jobs
    BY <1>7
  <2> QED
    BY <1>0, <1>3, <2>1 DEF Tracking, PendingNeverCollides, Rows
<1>17. CadenceKept'
  <2>1. ASSUME NEW j \in jobs, NEW k \in jobs' \ jobs, j.monitor = k.monitor
        PROVE  \E c \in Cadences : /\ j.at - k.at \notin 1 - Period[c] .. Period[c] - 1
                                   /\ k.at - j.at \notin 1 - Period[c] .. Period[c] - 1
    <3>1. PICK row \in tx[i].done : \E r \in row.free : k = JobOf(i, row, r)
      BY <1>5
    <3>2. k.monitor = row.monitor /\ k.at = AtNow(i, row)
      BY <3>1 DEF JobOf
    <3>3. PICK c \in Cadences : j.at + Period[c] <= AtNow(i, row)
      BY <1>1, <1>12, <2>1, <3>2
    <3>4. j.at \in Int /\ Period[c] \in Nat /\ k.at \in Int
      BY <1>0, <1>4, <3>2, JobTypes, CadenceNumbers
    <3> QED
      BY <3>2, <3>3, <3>4
  <2>2. ASSUME NEW j \in jobs' \ jobs, NEW k \in jobs' \ jobs,
               j.monitor = k.monitor, j.region = k.region
        PROVE  j = k
    BY <1>0, <1>4, <1>5, <2>2 DEF JobOf, LockedOnce
  <2> SUFFICES ASSUME NEW j \in jobs', NEW k \in jobs',
                      j # k, j.monitor = k.monitor, j.region = k.region
               PROVE  \E c \in Cadences : j.at - k.at \notin 1 - Period[c] .. Period[c] - 1
    BY DEF CadenceKept
  <2>3. CASE j \in jobs /\ k \in jobs
    BY <1>0, <2>3 DEF Tracking, CadenceKept
  <2>4. CASE ~(j \in jobs /\ k \in jobs)
    BY <2>1, <2>2, <2>4
  <2> QED
    BY <2>3, <2>4
<1>18. LastScheduledIsCovered'
  <2>1. ASSUME NEW m \in Monitors, lastAt'[m] # Never, lastAt'[m] >= -WorkTimeout,
               NEW r \in RegionsOf[m]
        PROVE  Covered(jobs', m, r, lastAt'[m])
    <3>1. ASSUME NEW row \in tx[i].done, row.monitor = m
          PROVE  Covered(jobs', m, r, AtNow(i, row))
      <4>1. CASE r \in row.free
        <5>1. JobOf(i, row, r) \in jobs'
          BY <1>6, <4>1
        <5>2. Window[cadence[m]] \in Nat /\ cadence[m] \in Cadences
          BY <1>4, <3>1, CadenceNumbers
        <5>3. AtNow(i, row) - AtNow(i, row) \in -Window[cadence[m]] .. Window[cadence[m]]
          BY <1>4, <5>2
        <5>4. /\ JobOf(i, row, r).monitor = m /\ JobOf(i, row, r).region = r
              /\ JobOf(i, row, r).at = AtNow(i, row)
          BY <3>1 DEF JobOf
        <5> QED
          BY <5>1, <5>2, <5>3, <5>4 DEF Covered
      <4>2. CASE r \notin row.free
        BY <1>0, <1>4, <1>8, <3>1, <4>2 DEF Tracking, PendingCovered
      <4> QED
        BY <4>1, <4>2
    <3>2. CASE \E row \in tx[i].done : row.monitor = m
      BY <3>1, <3>2, CommittedTimes
    <3>3. CASE \A row \in tx[i].done : row.monitor # m
      <4>1. lastAt'[m] = lastAt[m]
        BY <3>3, CommittedTimes
      <4>2. Covered(jobs, m, r, lastAt[m])
        BY <1>0, <2>1, <4>1 DEF Tracking, LastScheduledIsCovered, Covered
      <4> QED
        BY <1>8, <4>1, <4>2
    <3> QED
      BY <3>2, <3>3
  <2> QED
    BY <2>1 DEF LastScheduledIsCovered, Covered
<1> QED
  BY <1>9, <1>10, <1>11, <1>13, <1>14, <1>15, <1>16, <1>17, <1>18 DEF Inv, Tracking

-----------------------------------------------------------------------------
(* Users and workers *)

\* A user changes a monitor no transaction has locked.
LEMMA UserSteps ==
    ASSUME Inv, NEW m \in Monitors,
           SetEnabled(m) \/ DeleteMonitor(m) \/ \E c \in Cadences : SetInterval(m, c)
    PROVE  Inv'
<1>0. TypeOK /\ TxOpen /\ LockTypeOK /\ Tracking
  BY DEF Inv, TypeOK
<1>1. /\ UNCHANGED <<holds, stage, nextDue, lastAt, jobs, tx, broken, faults>>
      /\ ~RowLocked(m)
  BY DEF SetEnabled, DeleteMonitor, SetInterval
<1>2. /\ enabled' \subseteq Monitors /\ deleted' \subseteq Monitors
      /\ cadence' \in [Monitors -> Cadences]
      /\ \A n \in Monitors \ {m} : /\ n \in enabled' <=> n \in enabled
                                   /\ n \in deleted' <=> n \in deleted
                                   /\ cadence'[n] = cadence[n]
  BY <1>0 DEF SetEnabled, DeleteMonitor, SetInterval, TypeOK
<1>3. \A i \in Instances :
        /\ Rows(i)' = Rows(i)
        /\ \A row \in Rows(i) : /\ AtNow(i, row)' = AtNow(i, row)
                                /\ row.monitor \in Monitors \ {m}
  BY <1>0, <1>1, RowTypes, NotLocked DEF Rows, AtNow
<1>4. TypeOK'
  <2>1. LockTypeOK'
    BY <1>0, <1>1 DEF LockTypeOK
  <2> QED
    BY <1>0, <1>1, <1>2, <2>1 DEF TypeOK
<1>5. TxOpen'
  BY <1>0, <1>1 DEF TxOpen, NoTx
<1>6. LockedOnce' /\ LockedLive'
  <2>1. LockedOnce'
    BY <1>0, <1>3 DEF Tracking, LockedOnce
  <2>2. LockedLive'
    BY <1>0, <1>2, <1>3 DEF Tracking, LockedLive
  <2> QED
    BY <2>1, <2>2
<1>7. DueSpaced' /\ CadenceKept' /\ LastScheduledIsCovered'
  BY <1>0, <1>1 DEF Tracking, DueSpaced, CadenceKept, LastScheduledIsCovered
<1>8. PendingSpaced' /\ PendingCovered'
  <2>1. PendingSpaced'
    BY <1>0, <1>1, <1>3 DEF Tracking, PendingSpaced
  <2>2. PendingCovered'
    BY <1>0, <1>1, <1>3 DEF Tracking, PendingCovered
  <2> QED
    BY <2>1, <2>2
<1>9. PendingNeverCollides'
  <2> SUFFICES ASSUME NEW i \in Instances, NEW row \in Rows(i)', NEW j \in jobs,
                      j.monitor = row.monitor, j.region \in row.free, j.status = "active"
               PROVE  j.at - AtNow(i, row)'
                        \notin -Window[cadence'[row.monitor]] .. Window[cadence'[row.monitor]]
    BY <1>1 DEF PendingNeverCollides, Rows
  <2>1. cadence'[row.monitor] = cadence[row.monitor]
    BY <1>2, <1>3
  <2> QED
    BY <1>0, <1>3, <2>1 DEF Tracking, PendingNeverCollides, Rows
<1> QED
  BY <1>4, <1>5, <1>6, <1>7, <1>8, <1>9 DEF Inv, Tracking

\* A worker finishes a job, which stays where it was.
LEMMA Finishing ==
    ASSUME Inv, NEW j \in jobs, JobDone(j)
    PROVE  Inv'
<1> DEFINE d == [j EXCEPT !.status = "done"]
<1>0. TypeOK /\ TxOpen /\ LockTypeOK /\ Tracking
  BY DEF Inv, TypeOK
<1>1. /\ jobs' = (jobs \ {j}) \cup {d}
      /\ UNCHANGED <<holds, stage, enabled, deleted, cadence, nextDue, lastAt, tx, broken, faults>>
  BY DEF JobDone, monitorVars
<1>2. /\ d \in Job /\ d.monitor = j.monitor /\ d.region = j.region /\ d.at = j.at
      /\ d.status = "done"
  <2>1. j \in Job
    BY <1>0 DEF TypeOK
  <2> QED
    BY <2>1 DEF Job
<1> HIDE DEF d
<1>3. /\ \A i \in Instances : Rows(i)' = Rows(i)
      /\ \A i \in Instances : \A row : AtNow(i, row)' = AtNow(i, row)
  BY <1>1 DEF Rows, AtNow
<1>4. \A k \in jobs' : \E o \in jobs : /\ o.monitor = k.monitor /\ o.region = k.region
                                       /\ o.at = k.at
                                       /\ k = o \/ (k = d /\ o = j)
  BY <1>1, <1>2
<1>5. \A o \in jobs : \E k \in jobs' : /\ o.monitor = k.monitor /\ o.region = k.region
                                       /\ o.at = k.at
  BY <1>1, <1>2
<1>6. TypeOK'
  <2>1. LockTypeOK'
    BY <1>0, <1>1 DEF LockTypeOK
  <2>2. jobs' \subseteq Job
    BY <1>0, <1>1, <1>2 DEF TypeOK
  <2> QED
    BY <1>0, <1>1, <2>1, <2>2 DEF TypeOK
<1>7. TxOpen'
  BY <1>0, <1>1 DEF TxOpen, NoTx
<1>8. LockedOnce' /\ LockedLive'
  <2>1. LockedOnce'
    BY <1>0, <1>3 DEF Tracking, LockedOnce
  <2>2. LockedLive'
    BY <1>0, <1>1, <1>3 DEF Tracking, LockedLive
  <2> QED
    BY <2>1, <2>2
<1>9. DueSpaced'
  BY <1>0, <1>1, <1>4 DEF Tracking, DueSpaced
<1>10. PendingSpaced'
  BY <1>0, <1>3, <1>4 DEF Tracking, PendingSpaced
<1>11. PendingCovered'
  <2>1. \A m, r, at : Covered(jobs, m, r, at) => Covered(jobs', m, r, at)
    BY <1>5 DEF Covered
  <2> QED
    BY <1>0, <1>3, <2>1 DEF Tracking, PendingCovered
<1>12. PendingNeverCollides'
  <2> SUFFICES ASSUME NEW i \in Instances, NEW row \in Rows(i), NEW k \in jobs',
                      k.monitor = row.monitor, k.region \in row.free, k.status = "active"
               PROVE  k.at - AtNow(i, row)
                        \notin -Window[cadence[row.monitor]] .. Window[cadence[row.monitor]]
    BY <1>1, <1>3 DEF PendingNeverCollides, Rows
  <2>1. k \in jobs
    BY <1>1, <1>2
  <2> QED
    BY <1>0, <2>1 DEF Tracking, PendingNeverCollides, Rows
<1>13. CadenceKept'
  <2> SUFFICES ASSUME NEW k \in jobs', NEW l \in jobs',
                      k # l, k.monitor = l.monitor, k.region = l.region
               PROVE  \E c \in Cadences : k.at - l.at \notin 1 - Period[c] .. Period[c] - 1
    BY DEF CadenceKept
  <2>1. PICK o \in jobs : /\ o.monitor = k.monitor /\ o.region = k.region /\ o.at = k.at
                          /\ k = o \/ (k = d /\ o = j)
    BY <1>4
  <2>2. PICK p \in jobs : /\ p.monitor = l.monitor /\ p.region = l.region /\ p.at = l.at
                          /\ l = p \/ (l = d /\ p = j)
    BY <1>4
  <2>3. o # p
    BY <1>1, <1>2, <2>1, <2>2 DEF JobDone
  <2> QED
    BY <1>0, <2>1, <2>2, <2>3 DEF Tracking, CadenceKept
<1>14. LastScheduledIsCovered'
  BY <1>0, <1>1, <1>5 DEF Tracking, LastScheduledIsCovered
<1> QED
  BY <1>6, <1>7, <1>8, <1>9, <1>10, <1>11, <1>12, <1>13, <1>14 DEF Inv, Tracking

-----------------------------------------------------------------------------
(* Time *)

\* A tick moves every job a tick into the past, or forgets it.
LEMMA TickedJobs ==
    ASSUME TypeOK, Tick
    PROVE  /\ jobs' \subseteq Job
           /\ \A x \in jobs' : \E k \in jobs : /\ x = [k EXCEPT !.at = k.at - 1]
                                               /\ x.monitor = k.monitor /\ x.region = k.region
                                               /\ x.at = k.at - 1 /\ x.status = k.status
           /\ \A k \in jobs : k.at > -Horizon =>
                \E x \in jobs' : x.monitor = k.monitor /\ x.region = k.region /\ x.at = k.at - 1
<1> DEFINE aged(k) == [k EXCEPT !.at = k.at - 1]
<1>1. jobs' = {aged(k) : k \in {o \in jobs : o.at > -Horizon}}
  BY DEF Tick
<1>2. ASSUME NEW k \in jobs, k.at > -Horizon
      PROVE  /\ aged(k) \in Job /\ aged(k).monitor = k.monitor /\ aged(k).region = k.region
             /\ aged(k).at = k.at - 1 /\ aged(k).status = k.status
  <2>1. k \in Job
    BY DEF TypeOK
  <2>2. k.at \in -Horizon .. Lookahead
    BY <2>1 DEF Job
  <2>3. k.at - 1 \in -Horizon .. Lookahead
    BY <1>2, <2>2, SchedulerAssumption
  <2> QED
    BY <2>1, <2>3 DEF Job
<1> QED
  <2>1. \A x \in jobs' : \E k \in jobs : k.at > -Horizon /\ x = aged(k)
    BY <1>1
  <2>2. \A k \in jobs : k.at > -Horizon => aged(k) \in jobs'
    BY <1>1
  <2>3. jobs' \subseteq Job
    BY <1>2, <2>1
  <2>4. ASSUME NEW x \in jobs'
        PROVE  \E k \in jobs : /\ x = aged(k)
                               /\ x.monitor = k.monitor /\ x.region = k.region
                               /\ x.at = k.at - 1 /\ x.status = k.status
    <3>1. PICK k \in jobs : k.at > -Horizon /\ x = aged(k)
      BY <2>1
    <3> QED
      BY <1>2, <3>1
  <2>5. ASSUME NEW k \in jobs, k.at > -Horizon
        PROVE  \E x \in jobs' : x.monitor = k.monitor /\ x.region = k.region /\ x.at = k.at - 1
    BY <1>2, <2>2, <2>5
  <2> QED
    BY <2>3, <2>4, <2>5

\* Nothing is forgotten that covers a time of the last WorkTimeout ticks.
LEMMA StillCovered ==
    ASSUME TypeOK, Tick, NEW m, NEW r, NEW at \in Int, at > -WorkTimeout,
           Covered(jobs, m, r, at)
    PROVE  Covered(jobs', m, r, at - 1)
<1>1. PICK k \in jobs, c \in Cadences : /\ k.monitor = m /\ k.region = r
                                        /\ k.at - at \in -Window[c] .. Window[c]
  BY DEF Covered
<1>2. k.at \in Int /\ Window[c] \in Nat /\ Period[c] \in Nat /\ Window[c] < Period[c]
      /\ Horizon >= WorkTimeout + Period[c]
  BY JobTypes, CadenceNumbers
<1>3. k.at > -Horizon
  BY <1>1, <1>2, SchedulerAssumption
<1>4. PICK x \in jobs' : x.monitor = k.monitor /\ x.region = k.region /\ x.at = k.at - 1
  BY <1>3, TickedJobs
<1>5. x.at - (at - 1) \in -Window[c] .. Window[c]
  BY <1>1, <1>2, <1>4
<1> QED
  BY <1>1, <1>4, <1>5 DEF Covered

\* A tick ages the transactions that hold rows.
LEMMA TickedRows ==
    ASSUME TypeOK, TxOpen, Tick
    PROVE  /\ tx' \in [Instances -> Tx]
           /\ \A i \in Instances : /\ Rows(i)' = Rows(i)
                                   /\ tx[i] = NoTx /\ (stage[i] # "working" \/ i \in broken)
                                      => tx'[i] = NoTx
           /\ \A i \in Instances : \A row \in Rows(i) :
                /\ AtNow(i, row)' = AtNow(i, row) - 1
                /\ AtNow(i, row) \in Int /\ AtNow(i, row) > -WorkTimeout
<1>1. ASSUME NEW i \in Instances
      PROVE  /\ tx'[i] \in Tx /\ tx'[i].rows = tx[i].rows /\ tx'[i].done = tx[i].done
             /\ IF stage[i] = "working" /\ i \notin broken
                THEN tx'[i].age = tx[i].age + 1 ELSE tx'[i] = tx[i]
  <2>1. tx[i] \in Tx /\ tx[i].age \in Ages /\ tx[i].age < WorkTimeout
    BY RowTypes DEF Tick
  <2>2. CASE stage[i] = "working" /\ i \notin broken
    <3>1. tx'[i] = [tx[i] EXCEPT !.age = tx[i].age + 1]
      BY <2>2 DEF Tick
    <3>2. tx[i].age + 1 \in Ages
      BY <2>1, SchedulerAssumption DEF Ages
    <3> QED
      BY <2>1, <2>2, <3>1, <3>2 DEF Tx
  <2>3. CASE ~(stage[i] = "working" /\ i \notin broken)
    BY <2>1, <2>3 DEF Tick
  <2> QED
    BY <2>2, <2>3
<1>2. tx' \in [Instances -> Tx]
  <2>1. tx' = [i \in Instances |-> tx'[i]]
    BY DEF Tick
  <2> QED
    BY <1>1, <2>1
<1>3. \A i \in Instances : Rows(i)' = Rows(i)
  BY <1>1 DEF Rows
<1>4. ASSUME NEW i \in Instances, NEW row \in Rows(i)
      PROVE  /\ AtNow(i, row)' = AtNow(i, row) - 1
             /\ AtNow(i, row) \in Int /\ AtNow(i, row) > -WorkTimeout
  <2>1. stage[i] = "working" /\ i \notin broken
    BY DEF TxOpen, Rows, NoTx
  <2>2. tx'[i].age = tx[i].age + 1
    BY <1>1, <2>1
  <2>3. tx[i].age \in Ages /\ tx[i].age < WorkTimeout /\ row \in Row
    BY RowTypes DEF Tick
  <2>4. row.at \in 0 .. Lookahead
    BY <2>3 DEF Row
  <2> QED
    BY <2>2, <2>3, <2>4, SchedulerAssumption DEF AtNow, Ages
<1> QED
  BY <1>1, <1>2, <1>3, <1>4

\* A tick brings the due times closer and moves the last times away.
LEMMA TickedTimes ==
    ASSUME TypeOK, Tick, NEW m \in Monitors
    PROVE  /\ nextDue'[m] \in Nat \cup {Never}
           /\ nextDue'[m] = Never <=> nextDue[m] = Never
           /\ nextDue[m] # Never => nextDue'[m] >= nextDue[m] - 1
           /\ lastAt'[m] \in -Horizon .. Lookahead \cup {Never}
           /\ lastAt'[m] = Never <=> lastAt[m] = Never
           /\ lastAt'[m] # Never /\ lastAt'[m] >= -WorkTimeout
              => /\ lastAt[m] \in Int /\ lastAt[m] > -WorkTimeout
                 /\ lastAt'[m] = lastAt[m] - 1
<1>1. nextDue[m] \in Nat \cup {Never} /\ lastAt[m] \in -Horizon .. Lookahead \cup {Never}
      /\ Horizon > WorkTimeout
  <2>1. cadence[m] \in Cadences
    BY DEF TypeOK
  <2> QED
    BY <2>1, CadenceNumbers, SchedulerAssumption DEF TypeOK
<1>2. /\ nextDue'[m] \in Nat \cup {Never}
      /\ nextDue'[m] = Never <=> nextDue[m] = Never
      /\ nextDue[m] # Never => nextDue'[m] >= nextDue[m] - 1
  <2>1. CASE nextDue[m] = Never
    BY <2>1 DEF Tick
  <2>2. CASE nextDue[m] # Never
    <3>1. nextDue[m] \in Nat /\ nextDue'[m] = AtLeast(0, nextDue[m] - 1)
      BY <1>1, <2>2 DEF Tick
    <3> QED
      BY <2>2, <3>1, SchedulerAssumption DEF AtLeast
  <2> QED
    BY <2>1, <2>2
<1>3. /\ lastAt'[m] \in -Horizon .. Lookahead \cup {Never}
      /\ lastAt'[m] = Never <=> lastAt[m] = Never
      /\ lastAt'[m] # Never /\ lastAt'[m] >= -WorkTimeout
         => /\ lastAt[m] \in Int /\ lastAt[m] > -WorkTimeout
            /\ lastAt'[m] = lastAt[m] - 1
  <2>1. CASE lastAt[m] = Never
    BY <2>1 DEF Tick
  <2>2. CASE lastAt[m] # Never
    <3>1. lastAt[m] \in -Horizon .. Lookahead /\ lastAt'[m] = AtLeast(-Horizon, lastAt[m] - 1)
      BY <1>1, <2>2 DEF Tick
    <3> QED
      BY <1>1, <2>2, <3>1, SchedulerAssumption DEF AtLeast
  <2> QED
    BY <2>1, <2>2
<1> QED
  BY <1>2, <1>3

\* Everything moves by the same tick.
LEMMA Ticking ==
    ASSUME Inv, Tick
    PROVE  Inv'
<1>0. TypeOK /\ TxOpen /\ LockTypeOK /\ Tracking
  BY DEF Inv, TypeOK
<1>1. UNCHANGED <<holds, stage, enabled, deleted, cadence, broken, faults>>
  BY DEF Tick
<1>2. \A x \in jobs' : \E k \in jobs : /\ x = [k EXCEPT !.at = k.at - 1]
                                       /\ x.monitor = k.monitor /\ x.region = k.region
                                       /\ x.at = k.at - 1 /\ x.status = k.status
                                       /\ k.at \in Int /\ k.monitor \in Monitors
  BY <1>0, TickedJobs, JobTypes
<1>3. \A i \in Instances :
        /\ Rows(i)' = Rows(i)
        /\ \A row \in Rows(i) : /\ AtNow(i, row)' = AtNow(i, row) - 1
                                /\ AtNow(i, row) \in Int /\ AtNow(i, row) > -WorkTimeout
                                /\ cadence[row.monitor] \in Cadences
  BY <1>0, TickedRows, RowTypes DEF TypeOK
<1>4. TypeOK'
  <2>1. LockTypeOK'
    BY <1>0, <1>1 DEF LockTypeOK
  <2>2. nextDue' \in [Monitors -> Nat \cup {Never}]
    <3>1. nextDue' = [m \in Monitors |-> nextDue'[m]]
      BY DEF Tick
    <3> QED
      BY <1>0, <3>1, TickedTimes
  <2>3. lastAt' \in [Monitors -> -Horizon .. Lookahead \cup {Never}]
    <3>1. lastAt' = [m \in Monitors |-> lastAt'[m]]
      BY DEF Tick
    <3> QED
      BY <1>0, <3>1, TickedTimes
  <2>4. jobs' \subseteq Job /\ tx' \in [Instances -> Tx]
    BY <1>0, TickedJobs, TickedRows
  <2> QED
    BY <1>0, <1>1, <2>1, <2>2, <2>3, <2>4 DEF TypeOK, Tx
<1>5. TxOpen'
  <2> SUFFICES ASSUME NEW i \in Instances
               PROVE  /\ i \in broken' => stage'[i] = "working"
                      /\ stage'[i] # "working" \/ i \in broken' => tx'[i] = NoTx
    BY DEF TxOpen, NoTx
  <2> QED
    BY <1>0, <1>1, TickedRows DEF TxOpen
<1>6. LockedOnce' /\ LockedLive'
  <2>1. LockedOnce'
    BY <1>0, <1>3 DEF Tracking, LockedOnce
  <2>2. LockedLive'
    BY <1>0, <1>1, <1>3 DEF Tracking, LockedLive
  <2> QED
    BY <2>1, <2>2
<1>7. DueSpaced'
  <2> SUFFICES ASSUME NEW x \in jobs'
               PROVE  /\ nextDue'[x.monitor] # Never
                      /\ \E c \in Cadences : x.at + Period[c] <= nextDue'[x.monitor]
    BY DEF DueSpaced
  <2>1. PICK k \in jobs : /\ x.monitor = k.monitor /\ x.at = k.at - 1 /\ k.at \in Int
                          /\ k.monitor \in Monitors
    BY <1>2
  <2>2. nextDue[k.monitor] # Never
    BY <1>0 DEF Tracking, DueSpaced
  <2>3. PICK c \in Cadences : k.at + Period[c] <= nextDue[k.monitor]
    BY <1>0 DEF Tracking, DueSpaced
  <2>4. /\ nextDue'[k.monitor] # Never /\ nextDue'[k.monitor] \in Nat
        /\ nextDue[k.monitor] \in Nat /\ nextDue'[k.monitor] >= nextDue[k.monitor] - 1
    BY <1>0, <2>1, <2>2, TickedTimes, JobTypes
  <2>5. Period[c] \in Nat
    BY CadenceNumbers
  <2>6. x.at + Period[c] <= nextDue'[k.monitor]
    BY <2>1, <2>3, <2>4, <2>5
  <2> QED
    BY <2>1, <2>4, <2>6
<1>8. PendingSpaced'
  <2> SUFFICES ASSUME NEW i \in Instances, NEW row \in Rows(i), NEW x \in jobs',
                      x.monitor = row.monitor
               PROVE  \E c \in Cadences : x.at + Period[c] <= AtNow(i, row)'
    BY <1>3 DEF PendingSpaced
  <2>1. PICK k \in jobs : x.monitor = k.monitor /\ x.at = k.at - 1 /\ k.at \in Int
    BY <1>2
  <2>2. PICK c \in Cadences : k.at + Period[c] <= AtNow(i, row)
    BY <1>0, <2>1 DEF Tracking, PendingSpaced
  <2>3. Period[c] \in Nat
    BY CadenceNumbers
  <2> QED
    BY <1>3, <2>1, <2>2, <2>3
<1>9. PendingCovered'
  <2>1. ASSUME NEW i \in Instances, NEW row \in Rows(i), NEW r \in RegionsOf[row.monitor] \ row.free
        PROVE  Covered(jobs', row.monitor, r, AtNow(i, row)')
    <3>1. Covered(jobs, row.monitor, r, AtNow(i, row))
      BY <1>0 DEF Tracking, PendingCovered
    <3>2. Covered(jobs', row.monitor, r, AtNow(i, row) - 1)
      BY <1>0, <1>3, <3>1, StillCovered
    <3> QED
      BY <1>3, <3>2
  <2> QED
    BY <1>3, <2>1 DEF PendingCovered
<1>10. PendingNeverCollides'
  <2> SUFFICES ASSUME NEW i \in Instances, NEW row \in Rows(i), NEW x \in jobs',
                      x.monitor = row.monitor, x.region \in row.free, x.status = "active"
               PROVE  x.at - AtNow(i, row)'
                        \notin -Window[cadence[row.monitor]] .. Window[cadence[row.monitor]]
    BY <1>1, <1>3 DEF PendingNeverCollides, Rows
  <2>1. PICK k \in jobs : /\ x.monitor = k.monitor /\ x.region = k.region
                          /\ x.at = k.at - 1 /\ x.status = k.status /\ k.at \in Int
    BY <1>2
  <2>2. k.at - AtNow(i, row)
          \notin -Window[cadence[row.monitor]] .. Window[cadence[row.monitor]]
    BY <1>0, <2>1 DEF Tracking, PendingNeverCollides, Rows
  <2>3. x.at - AtNow(i, row)' = k.at - AtNow(i, row)
    BY <1>3, <2>1
  <2> QED
    BY <2>2, <2>3
<1>11. CadenceKept'
  <2> SUFFICES ASSUME NEW x \in jobs', NEW y \in jobs',
                      x # y, x.monitor = y.monitor, x.region = y.region
               PROVE  \E c \in Cadences : x.at - y.at \notin 1 - Period[c] .. Period[c] - 1
    BY DEF CadenceKept
  <2>1. PICK k \in jobs : /\ x = [k EXCEPT !.at = k.at - 1]
                          /\ x.monitor = k.monitor /\ x.region = k.region
                          /\ x.at = k.at - 1 /\ k.at \in Int
    BY <1>2
  <2>2. PICK l \in jobs : /\ y = [l EXCEPT !.at = l.at - 1]
                          /\ y.monitor = l.monitor /\ y.region = l.region
                          /\ y.at = l.at - 1 /\ l.at \in Int
    BY <1>2
  <2>3. k # l /\ x.at - y.at = k.at - l.at
    BY <2>1, <2>2
  <2> QED
    BY <1>0, <2>1, <2>2, <2>3 DEF Tracking, CadenceKept
<1>12. LastScheduledIsCovered'
  <2>1. ASSUME NEW m \in Monitors, lastAt'[m] # Never, lastAt'[m] >= -WorkTimeout,
               NEW r \in RegionsOf[m]
        PROVE  Covered(jobs', m, r, lastAt'[m])
    <3>1. /\ lastAt[m] # Never /\ lastAt[m] \in Int /\ lastAt[m] > -WorkTimeout
          /\ lastAt'[m] = lastAt[m] - 1
      BY <1>0, <2>1, TickedTimes
    <3>2. Covered(jobs, m, r, lastAt[m])
      BY <1>0, <3>1, SchedulerAssumption DEF Tracking, LastScheduledIsCovered, Covered
    <3> QED
      BY <1>0, <3>1, <3>2, StillCovered
  <2> QED
    BY <2>1 DEF LastScheduledIsCovered, Covered
<1> QED
  BY <1>4, <1>5, <1>6, <1>7, <1>8, <1>9, <1>10, <1>11, <1>12 DEF Inv, Tracking

-----------------------------------------------------------------------------
(* The theorems *)

\* At the start nothing is locked, scheduled or known.
LEMMA Initially ==
    ASSUME Init
    PROVE  Inv
<1>1. NoTx \in Tx /\ NoTx.rows = {} /\ NoTx.done = {}
  BY SchedulerAssumption DEF NoTx, Tx, Ages
<1>2. /\ tx \in [Instances -> Tx]
      /\ \A i \in Instances : tx[i] = NoTx /\ Rows(i) = {}
  BY <1>1 DEF Init, Rows
<1>3. TypeOK
  <2>1. LockTypeOK
    BY HoldAssumption DEF Init, LockInit, LockTypeOK
  <2> QED
    BY <1>2, <2>1, SchedulerAssumption DEF Init, TypeOK, Tx
<1>4. TxOpen
  BY <1>2 DEF Init, TxOpen
<1>5. Tracking
  BY <1>2 DEF Init, Tracking, LockedOnce, LockedLive, DueSpaced, PendingSpaced, PendingCovered,
              PendingNeverCollides, CadenceKept, LastScheduledIsCovered, Rows
<1> QED
  BY <1>3, <1>4, <1>5 DEF Inv

\* Every step keeps the invariant.
LEMMA Inductive ==
    ASSUME Inv, [Next]_vars
    PROVE  Inv'
<1>1. ASSUME NEW i \in Instances, NEW c \in Conns, Elect(i, c) \/ LoseSession(i, c)
      PROVE  Inv'
  BY <1>1, LockSteps
<1>2. ASSUME NEW i \in Instances, Begin(i)
      PROVE  Inv'
  BY <1>2, Beginning
<1>3. ASSUME NEW i \in Instances, BeginFails(i)
      PROVE  Inv'
  BY <1>3, BeginFailing
<1>4. ASSUME NEW i \in Instances, ScheduleFails(i) \/ Rollback(i) \/ Crash(i)
      PROVE  Inv'
  BY <1>4, Aborts
<1>5. ASSUME NEW i \in Instances, Commit(i)
      PROVE  Inv'
  BY <1>5, Committing
<1>6. ASSUME NEW i \in Instances, Resign(i)
      PROVE  Inv'
  BY <1>6, LockSteps
<1>7. ASSUME NEW i \in Instances, NEW row \in tx[i].rows, ScheduleMonitor(i, row)
      PROVE  Inv'
  BY <1>7, Scheduling
<1>8. ASSUME NEW m \in Monitors,
             SetEnabled(m) \/ DeleteMonitor(m) \/ \E c \in Cadences : SetInterval(m, c)
      PROVE  Inv'
  BY <1>8, UserSteps
<1>9. ASSUME NEW j \in jobs, JobDone(j)
      PROVE  Inv'
  BY <1>9, Finishing
<1>10. CASE Tick
  BY <1>10, Ticking
<1>11. CASE UNCHANGED vars
  <2>1. UNCHANGED <<holds, stage, monitorVars, jobs, tx, broken, faults>>
    BY <1>11 DEF vars
  <2>2. Tracking'
    BY <2>1, TxKept
  <2>3. TypeOK'
    BY <2>1 DEF Inv, TypeOK, LockTypeOK, monitorVars
  <2>4. TxOpen'
    BY <2>1 DEF Inv, TxOpen, NoTx
  <2> QED
    BY <2>2, <2>3, <2>4 DEF Inv
<1> QED
  BY <1>1, <1>2, <1>3, <1>4, <1>5, <1>6, <1>7, <1>8, <1>9, <1>10, <1>11 DEF Next

\* The inductive invariant holds in every reachable state.
THEOREM Invariance == Spec => []Inv
<1>1. Init => Inv
  BY Initially
<1>2. Inv /\ [Next]_vars => Inv'
  BY Inductive
<1> QED
  BY <1>1, <1>2, PTL DEF Spec

\* The monitors' rows, the jobs, the transactions and the lock keep their types.
THEOREM TypeCorrect == Spec => []TypeOK
<1>1. Inv => TypeOK
  BY DEF Inv
<1> QED
  BY <1>1, Invariance, PTL

\* Cadence tracking, whoever schedules: two jobs for one region of a monitor are at
\* least the shortest interval apart.
THEOREM CadenceKeptHolds == Spec => []CadenceKept
<1>1. Inv => CadenceKept
  BY DEF Inv, Tracking
<1> QED
  BY <1>1, Invariance, PTL

\* Idempotent creation: what a transaction saw stays true until it commits.
THEOREM PendingNeverCollidesHolds == Spec => []PendingNeverCollides
<1>1. Inv => PendingNeverCollides
  BY DEF Inv, Tracking
<1> QED
  BY <1>1, Invariance, PTL

\* A recorded last_scheduled_at stands for a job in every region.
THEOREM LastScheduledIsCoveredHolds == Spec => []LastScheduledIsCovered
<1>1. Inv => LastScheduledIsCovered
  BY DEF Inv, Tracking
<1> QED
  BY <1>1, Invariance, PTL

\* A step that adds jobs at the end of an iteration is a commit.
LEMMA JobsFromCommits ==
    ASSUME [Next]_vars, stage' # stage, NEW j \in jobs' \ jobs
    PROVE  \E i \in Instances : Commit(i)
BY DEF Next, vars, database, monitorVars, Elect, LoseSession, CloseConn, Begin, BeginFails,
       ScheduleFails, Rollback, Resign, Crash, ScheduleMonitor, SetEnabled, DeleteMonitor,
       SetInterval, JobDone, Tick

\* No job is added for a monitor that is disabled or deleted: users wait for the
\* row locks of the transaction that adds it.
THEOREM JobsOnlyForLiveMonitorsHolds == Spec => JobsOnlyForLiveMonitors
<1>1. ASSUME Inv, [Next]_vars, NEW j \in NewJobs
      PROVE  j.monitor \in enabled' \ deleted'
  <2>1. stage' # stage /\ j \in jobs' \ jobs
    BY <1>1 DEF NewJobs
  <2>2. PICK i \in Instances : Commit(i)
    BY <1>1, <2>1, JobsFromCommits
  <2>3. j \in Inserted(i) /\ enabled' = enabled /\ deleted' = deleted
    BY <2>1, <2>2 DEF Commit
  <2>4. PICK row \in tx[i].done : j.monitor = row.monitor
    BY <2>3 DEF Inserted
  <2> QED
    BY <1>1, <2>3, <2>4 DEF Inv, Tracking, LockedLive, Rows
<1>2. Inv /\ [Next]_vars => [\A j \in NewJobs : j.monitor \in enabled' \ deleted']_vars
  BY <1>1
<1> QED
  BY <1>2, Invariance, PTL DEF Spec, JobsOnlyForLiveMonitors
=============================================================================
