------------------------------ MODULE WorkerAuth ------------------------------
(***************************************************************************)
(* Who a worker is to the control plane: enrollment, the bearer tokens of  *)
(* the worker API with their rotation and revocation, the auth cache of    *)
(* every control-plane instance, heartbeats and the inactivity monitor.    *)
(*                                                                         *)
(* A worker process has several goroutines that call the API with the one  *)
(* token of the process: the poll loop, which enrolls first, and the ones  *)
(* that submit results.  Any instance may serve any call.  One action is   *)
(* one SQL statement with the in-memory work that follows its answer, so   *)
(* handlers of all kinds run between the statements of another.            *)
(*                                                                         *)
(* Time is relative.  Within a tick every goroutine makes one call and     *)
(* comes to rest, unless a fault has slowed it down.                       *)
(***************************************************************************)
EXTENDS AuthCache

CONSTANTS
    Instances,     \* control-plane processes
    Poll,          \* the goroutine of pollLoop: retries a call once
    Senders,       \* goroutines in sendResult: retry for as long as refreshing works
    Reaches,       \* goroutine -> the instances its connections lead to
    NoToken,       \* token_hash IS NULL
    NoInstance,
    MinInterval,   \* WORKER_HEARTBEAT_MIN_UPDATE_INTERVAL
    HealthyAfter,  \* the minute after which ListRegionHealth stops counting a worker
    InactiveAfter, \* the two minutes of MarkWorkerInactive
    StatusAfter,   \* the five minutes of GetWorkerStatus
    WorkerRegion,  \* worker -> its region
    MaxFaults      \* bound: faults of one behaviour

ASSUME HeartbeatAssumption ==
    /\ MinInterval \in Nat \ {0} /\ HealthyAfter \in Nat /\ InactiveAfter \in Nat
    /\ MinInterval < HealthyAfter /\ HealthyAfter < InactiveAfter
    /\ StatusAfter \in Nat /\ InactiveAfter <= StatusAfter
ASSUME AuthAssumption ==
    /\ MaxFaults \in Nat /\ IsFiniteSet(Workers)
    /\ Poll \notin Senders /\ NoToken \notin Tokens /\ NoInstance \notin Instances

Routines == {Poll} \cup Senders
Callers == Workers \X Routines
ASSUME RoutingAssumption == Reaches \in [Routines -> (SUBSET Instances) \ {{}}]

VARIABLES
    rows,      \* app.workers
    held,      \* worker -> apiToken, in its memory
    cache,     \* instance -> its WorkerAuthCache
    tracker,   \* instance -> worker -> ticks until heartbeatTracker lets a write through
    calls,     \* goroutine -> its call of the worker API
    handlers,  \* goroutine -> the EnrollWorker or RenewEnrollment handler it started
    revoking,  \* worker -> the RevokeEnrollment handler
    slow,      \* goroutines a fault slowed down
    quiet,     \* worker -> ticks since a call of it was served
    expired,   \* token -> ticks since it was in a row
    faults     \* faults so far

database == <<rows, expired>>
memory == <<cache, tracker>>
vars == <<rows, held, cache, tracker, calls, handlers, revoking, slow, quiet, expired, faults>>

Statuses == {"none", "enrolled", "active", "inactive", "revoked"}
CallStages == {"off", "ready", "sent", "lookup", "fill", "write", "denied", "renewing", "rest"}
HandlerStages == {"none", "insert", "check", "rotate", "publish"}

WorkerRow == [status : Statuses, token : Tokens \cup {NoToken}, seen : 0 .. StatusAfter + 1]
CallRec == [stage : CallStages, inst : Instances \cup {NoInstance},
            token : Tokens \cup {NoToken}, retried : BOOLEAN]
HandlerRec == [stage : HandlerStages, inst : Instances \cup {NoInstance},
               token : Tokens \cup {NoToken}]

\* The types of the workers' rows, the instances' memory and what is in flight.
TypeOK ==
    /\ rows \in [Workers -> WorkerRow]
    /\ held \in [Workers -> Tokens \cup {NoToken}]
    /\ cache \in [Instances -> Cache]
    /\ tracker \in [Instances -> [Workers -> 0 .. MinInterval]]
    /\ calls \in [Callers -> CallRec]
    /\ handlers \in [Callers -> HandlerRec]
    /\ revoking \in [Workers -> [stage : {"none", "clear", "revoke", "done"},
                                 inst : Instances \cup {NoInstance}]]
    /\ slow \subseteq Callers
    /\ quiet \in [Workers -> 0 .. HealthyAfter + 1]
    /\ expired \in [Tokens -> 0 .. TTL + 1]
    /\ faults \in 0 .. MaxFaults

NoCall(stage) == [stage |-> stage, inst |-> NoInstance, token |-> NoToken, retried |-> FALSE]
\* Only the poll loop counts its retry.
Retry(c, stage, again) == [NoCall(stage) EXCEPT !.retried = again /\ c[2] = Poll]
NoHandler == [stage |-> "none", inst |-> NoInstance, token |-> NoToken]

Init ==
    /\ rows = [w \in Workers |-> [status |-> "none", token |-> NoToken, seen |-> 0]]
    /\ held = [w \in Workers |-> NoToken]
    /\ cache = [i \in Instances |-> EmptyCache]
    /\ tracker = [i \in Instances |-> [w \in Workers |-> 0]]
    /\ calls = [c \in Callers |-> NoCall("off")]
    /\ handlers = [c \in Callers |-> NoHandler]
    /\ revoking = [w \in Workers |-> [stage |-> "none", inst |-> NoInstance]]
    /\ slow = {}
    /\ quiet = [w \in Workers |-> HealthyAfter + 1]
    /\ expired = [t \in Tokens |-> TTL + 1]
    /\ faults = 0

-----------------------------------------------------------------------------
(* Helpers *)

Fault == faults < MaxFaults /\ faults' = faults + 1

\* Nobody knows the token yet: GenerateAPIToken.
Unused ==
    {t \in Tokens : /\ \A w \in Workers : t # rows[w].token /\ t # held[w]
                    /\ \A i \in Instances : t \notin Cached(cache[i])
                    /\ \A c \in Callers : t # calls[c].token /\ t # handlers[c].token}

At(c, stage) == [calls EXCEPT ![c] = [calls[c] EXCEPT !.stage = stage]]

\* The worker is told Unauthenticated.
Denied(c) == calls' = [calls EXCEPT ![c] = Retry(c, "denied", calls[c].retried)]

\* The goroutine is done for this tick.
Rests(c) == calls' = [calls EXCEPT ![c] = NoCall("rest")] /\ slow' = slow \ {c}

\* Some heartbeat of the worker has not reached its row yet.
Writing(w) == \E r \in Routines : calls[<<w, r>>].stage = "write"
-----------------------------------------------------------------------------
(* A call of the worker API: authenticateWorkerToken, touchWorkerHeartbeat *)

\* Mutation of ShouldUpdate: the interval is counted a tick too long.
ShouldUpdateLate(i, w) == [tracker EXCEPT ![i][w] = IF @ = 0 THEN MinInterval + 1 ELSE @]

\* Mutation of ShouldUpdate: a call that may not write pushes the next write away.
ShouldUpdateSliding(i, w) == [tracker EXCEPT ![i][w] = MinInterval]

\* ShouldUpdate notes the time of the write before it is made.
ShouldUpdate(i, w) == [tracker EXCEPT ![i][w] = IF @ = 0 THEN MinInterval ELSE @]

\* The call is authenticated as worker w: it writes a heartbeat if the last
\* one through this instance is old enough, and is served.
Accepted(c, i, w) ==
    /\ tracker' = ShouldUpdate(i, w)
    /\ IF tracker[i][w] = 0
       THEN /\ calls' = [calls EXCEPT ![c] = [NoCall("write") EXCEPT !.inst = i]]
            /\ UNCHANGED <<slow, quiet>>
       ELSE /\ Rests(c)
            /\ quiet' = [quiet EXCEPT ![w] = IF Writing(w) THEN @ ELSE 0]

\* authHeader reads the token of the process, which may have changed since the
\* refresh this goroutine made.
Send(c) ==
    /\ calls[c].stage = "ready"
    /\ calls' = [calls EXCEPT ![c] = [calls[c] EXCEPT !.stage = "sent", !.token = held[c[1]]]]
    /\ UNCHANGED <<database, held, memory, handlers, revoking, slow, quiet, faults>>

\* The cache is asked first.
Authenticate(c, i) ==
    LET t == calls[c].token
        w == Lookup(cache[i], t)
    IN  /\ calls[c].stage = "sent"
        /\ cache' = [cache EXCEPT ![i] = AfterLookup(cache[i], t)]
        /\ IF w # NoWorker THEN Accepted(c, i, w)
           ELSE /\ calls' = [calls EXCEPT ![c] = [calls[c] EXCEPT !.stage = "lookup", !.inst = i]]
                /\ UNCHANGED <<tracker, slow, quiet>>
        /\ UNCHANGED <<database, held, handlers, revoking, faults>>

\* GetWorkerByTokenHash.
Owners(t) ==
    {w \in Workers : rows[w].token = t /\ rows[w].status \in {"enrolled", "active", "inactive"}}

\* A miss: the database decides.
LookUpToken(c) ==
    /\ calls[c].stage = "lookup"
    /\ IF Owners(calls[c].token) = {} THEN Denied(c) ELSE calls' = At(c, "fill")
    /\ UNCHANGED <<database, held, memory, handlers, revoking, slow, quiet, faults>>

\* A failed statement is answered as if the token were wrong.
LookUpFails(c) ==
    /\ calls[c].stage = "lookup"
    /\ Fault
    /\ Denied(c)
    /\ UNCHANGED <<database, held, memory, handlers, revoking, slow, quiet>>

\* The answer of the look-up is cached, although the row may have changed since.
FillCache(c) ==
    LET i == calls[c].inst
    IN  /\ calls[c].stage = "fill"
        /\ \E k \in SetToken(cache[i], calls[c].token, c[1]) : cache' = [cache EXCEPT ![i] = k]
        /\ Accepted(c, i, c[1])
        /\ UNCHANGED <<database, held, handlers, revoking, faults>>

\* UpdateWorkerHeartbeat: the worker is active, whatever its status was.
WriteHeartbeat(c) ==
    LET w == c[1]
    IN  /\ calls[c].stage = "write"
        /\ rows' = [rows EXCEPT ![w] = [rows[w] EXCEPT !.status = "active", !.seen = 0]]
        /\ quiet' = [quiet EXCEPT ![w] = 0]
        /\ Rests(c)
        /\ UNCHANGED <<expired, held, memory, handlers, revoking, faults>>

\* The heartbeat fails: the call is served and the next one tries again.
HeartbeatFails(c) ==
    /\ calls[c].stage = "write"
    /\ Fault
    /\ tracker' = [tracker EXCEPT ![calls[c].inst][c[1]] = 0]
    /\ Rests(c)
    /\ UNCHANGED <<database, held, cache, handlers, revoking, quiet>>

\* The poll loop calls again once, sendResult whenever the refresh succeeded.
DenialIsFinal(c) ==
    /\ calls[c].stage = "denied" /\ c[2] = Poll /\ calls[c].retried
    /\ Rests(c)
    /\ UNCHANGED <<database, held, memory, handlers, revoking, quiet, faults>>
-----------------------------------------------------------------------------
(* EnrollWorker and RenewEnrollment *)

Start(c, i, stage) ==
    /\ handlers[c] = NoHandler
    /\ handlers' = [handlers EXCEPT ![c] = [stage |-> stage, inst |-> i, token |-> NoToken]]
    /\ calls' = [calls EXCEPT ![c] = NoCall("renewing")]

\* Worker.Run enrolls before it polls.
Enroll(w, i) ==
    /\ calls[<<w, Poll>>].stage = "off" /\ rows[w].status = "none"
    /\ Start(<<w, Poll>>, i, "insert")
    /\ UNCHANGED <<database, held, memory, revoking, slow, quiet, faults>>

\* refreshAPIToken: one goroutine of the process at a time (refreshMu).
Refresh(c, i) ==
    /\ calls[c].stage = "denied" /\ (c[2] = Poll => ~calls[c].retried)
    /\ \A r \in Routines : calls[<<c[1], r>>].stage # "renewing"
    /\ Start(c, i, "check")
    /\ UNCHANGED <<database, held, memory, revoking, slow, quiet, faults>>

\* The handler goes on to SetWorkerToken with a new token.
WithNewToken(c) ==
    /\ Unused # {}
    /\ handlers' = [handlers EXCEPT ![c] = [handlers[c] EXCEPT !.stage = "rotate",
                                                             !.token = CHOOSE t \in Unused : TRUE]]

\* The EnrollWorker statement inserts the row, without a token.
InsertWorker(c) ==
    /\ handlers[c].stage = "insert"
    /\ rows' = [rows EXCEPT ![c[1]] = [status |-> "enrolled", token |-> NoToken, seen |-> 0]]
    /\ WithNewToken(c)
    /\ UNCHANGED <<expired, held, memory, calls, revoking, slow, quiet, faults>>

\* The handler is over; the goroutine learns of it if it still waits.  A worker
\* that could not enroll stops.
Answered(c, stage) ==
    /\ handlers' = [handlers EXCEPT ![c] = NoHandler]
    /\ IF calls[c].stage # "renewing" THEN UNCHANGED <<calls, slow>>
       ELSE IF held[c[1]] = NoToken /\ stage = "rest"
       THEN calls' = [calls EXCEPT ![c] = NoCall("off")] /\ slow' = slow \ {c}
       ELSE /\ calls' = [calls EXCEPT ![c] = Retry(c, stage, stage = "ready")]
            /\ slow' = slow \ {c}

\* Mutation of CheckStatus: a revoked worker is renewed.
CheckNothing(c) ==
    /\ handlers[c].stage = "check"
    /\ WithNewToken(c)
    /\ UNCHANGED <<database, held, memory, calls, revoking, slow, quiet, faults>>

\* GetWorkerByID in RenewEnrollment: a revoked worker is told renewed=false.
CheckStatus(c) ==
    /\ handlers[c].stage = "check"
    /\ \/ /\ rows[c[1]].status = "revoked"
          /\ Answered(c, "rest")
       \/ /\ rows[c[1]].status # "revoked"
          /\ WithNewToken(c)
          /\ UNCHANGED <<calls, slow>>
    /\ UNCHANGED <<database, held, memory, revoking, quiet, faults>>

\* SetWorkerToken, whatever the row's status is by now.
RotateToken(c) ==
    /\ handlers[c].stage = "rotate"
    /\ rows' = [rows EXCEPT ![c[1]].token = handlers[c].token]
    /\ expired' = [expired EXCEPT ![handlers[c].token] = 0]
    /\ handlers' = [handlers EXCEPT ![c].stage = "publish"]
    /\ UNCHANGED <<held, memory, calls, revoking, slow, quiet, faults>>

\* Mutation of Learned: a refreshed token is not stored.
LearnedOnce(w, t) == [held EXCEPT ![w] = IF @ = NoToken THEN t ELSE @]

\* The worker stores the token of the answer.
Learned(w, t) == [held EXCEPT ![w] = t]

\* The cache of this instance is brought up to date, and the token sent.  The
\* first token sets the other goroutines of the worker going.
PublishToken(c) ==
    LET i == handlers[c].inst
        w == c[1]
        t == handlers[c].token
    IN  /\ handlers[c].stage = "publish"
        /\ \E k \in SetToken(InvalidateWorker(cache[i], w), t, w) : cache' = [cache EXCEPT ![i] = k]
        /\ handlers' = [handlers EXCEPT ![c] = NoHandler]
        /\ IF calls[c].stage = "renewing"
           THEN /\ held' = Learned(w, t)
                /\ calls' = [d \in Callers |->
                               IF d = c THEN Retry(c, "ready", held[w] # NoToken)
                               ELSE IF d[1] = w /\ calls[d].stage = "off" THEN NoCall("ready")
                               ELSE calls[d]]
                /\ slow' = slow \ {c}
           ELSE UNCHANGED <<held, calls, slow>>
        /\ UNCHANGED <<database, tracker, revoking, quiet, faults>>

\* A statement of the handler fails and the call is answered with an error.
HandlerFails(c) ==
    /\ handlers[c].stage \in {"insert", "check", "rotate"}
    /\ Fault
    /\ Answered(c, "rest")
    /\ UNCHANGED <<database, held, memory, revoking, quiet>>

\* The worker gives up on the call, whose handler goes on, or the answer is lost.
RefreshTimesOut(c) ==
    /\ calls[c].stage = "renewing" /\ held[c[1]] # NoToken
    /\ Fault
    /\ Rests(c)
    /\ UNCHANGED <<database, held, memory, handlers, revoking, quiet>>
-----------------------------------------------------------------------------
(* RevokeEnrollment, and the inactivity monitor *)

RevokeStage(w, stage, i) == revoking' = [revoking EXCEPT ![w] = [stage |-> stage, inst |-> i]]

\* GetWorkerByID finds the worker.
Revoke(w, i) ==
    /\ revoking[w].stage = "none" /\ rows[w].status # "none"
    /\ RevokeStage(w, "clear", i)
    /\ UNCHANGED <<database, held, memory, calls, handlers, slow, quiet, faults>>

\* SetWorkerToken with NULL, whose failure is only logged, and the cache of
\* this instance, and of no other.
ClearToken(w) ==
    LET i == revoking[w].inst
    IN  /\ revoking[w].stage = "clear"
        /\ \/ rows' = [rows EXCEPT ![w].token = NoToken] /\ UNCHANGED faults
           \/ Fault /\ UNCHANGED rows
        /\ cache' = [cache EXCEPT ![i] = InvalidateWorker(cache[i], w)]
        /\ RevokeStage(w, "revoke", i)
        /\ UNCHANGED <<expired, held, tracker, calls, handlers, slow, quiet>>

\* The RevokeWorker statement.
RevokeWorker(w) ==
    /\ revoking[w].stage = "revoke"
    /\ rows' = [rows EXCEPT ![w].status = "revoked"]
    /\ RevokeStage(w, "done", NoInstance)
    /\ UNCHANGED <<expired, held, memory, calls, handlers, slow, quiet, faults>>

\* It fails, and the operator may try again.
RevokeFails(w) ==
    /\ revoking[w].stage = "revoke"
    /\ Fault
    /\ RevokeStage(w, "none", NoInstance)
    /\ UNCHANGED <<database, held, memory, calls, handlers, slow, quiet>>

Unseen(w) == rows[w].status \in {"active", "enrolled"} /\ rows[w].seen > InactiveAfter

\* MarkWorkerInactive: one statement for all workers.
MarkWorkerInactive ==
    /\ \E w \in Workers : Unseen(w)
    /\ rows' = [w \in Workers |-> IF Unseen(w) THEN [rows[w] EXCEPT !.status = "inactive"]
                                  ELSE rows[w]]
    /\ UNCHANGED <<expired, held, memory, calls, handlers, revoking, slow, quiet, faults>>
-----------------------------------------------------------------------------
(* What is reported of workers *)

\* What ListRegionHealth counts.
Healthy(w) == rows[w].status = "active" /\ rows[w].seen <= HealthyAfter

\* GetRegionHealth.
ListRegionHealth(g) == Cardinality({w \in Workers : WorkerRegion[w] = g /\ Healthy(w)})

\* The regions that the users of CreateMonitor and UpdateMonitor are warned about.
ZeroHealthyRegions(G) == {g \in G \ {"global"} : ListRegionHealth(g) = 0}

\* GetWorkerStatus does not rely on the inactivity monitor.
GetWorkerStatus(w) ==
    IF rows[w].status # "revoked" /\ rows[w].seen > StatusAfter THEN "inactive" ELSE rows[w].status

\* ListWorkers, with both filters set.
ListWorkers(g, status) == {w \in Workers : WorkerRegion[w] = g /\ rows[w].status = status}
-----------------------------------------------------------------------------
(* Restarts, pauses, and time *)

\* An instance is restarted: its memory is gone and its calls fail.
Restart(i) ==
    LET hit(c) == calls[c].inst = i
        lost(c) == handlers[c].inst = i
    IN  /\ Fault
        /\ cache' = [cache EXCEPT ![i] = EmptyCache]
        /\ tracker' = [tracker EXCEPT ![i] = [w \in Workers |-> 0]]
        /\ handlers' = [c \in Callers |-> IF lost(c) THEN NoHandler ELSE handlers[c]]
        /\ calls' = [c \in Callers |->
             IF hit(c) \/ (lost(c) /\ calls[c].stage = "renewing")
             THEN NoCall(IF held[c[1]] = NoToken THEN "off" ELSE "rest") ELSE calls[c]]
        /\ revoking' = [w \in Workers |->
             IF revoking[w].inst = i /\ revoking[w].stage # "done"
             THEN [stage |-> "none", inst |-> NoInstance] ELSE revoking[w]]
        /\ slow' = {c \in slow : ~hit(c) /\ ~lost(c)}
        /\ UNCHANGED <<database, held, quiet>>

\* The network or the database makes a goroutine wait for longer than a tick.
Slow(c) ==
    /\ c \notin slow /\ calls[c].stage \notin {"off", "rest"}
    /\ Fault
    /\ slow' = slow \cup {c}
    /\ UNCHANGED <<database, held, memory, calls, handlers, revoking, quiet>>

UpTo(n, max) == IF n < max THEN n + 1 ELSE max

\* Nothing but slow calls lasts longer than a tick, and no call at all stays
\* between the answer of a statement and the cache operation that follows it.
Tick ==
    /\ \A c \in Callers : /\ c \in slow \/ calls[c].stage \in {"off", "rest"}
                          /\ calls[c].stage # "fill" /\ handlers[c].stage # "publish"
    /\ rows' = [w \in Workers |-> [rows[w] EXCEPT !.seen =
                  IF rows[w].status = "none" THEN 0 ELSE UpTo(@, StatusAfter + 1)]]
    /\ cache' = [i \in Instances |-> Aged(cache[i])]
    /\ tracker' = [i \in Instances |-> [w \in Workers |-> IF tracker[i][w] = 0 THEN 0
                                                         ELSE tracker[i][w] - 1]]
    /\ calls' = [c \in Callers |-> IF calls[c].stage = "rest" THEN NoCall("ready") ELSE calls[c]]
    /\ quiet' = [w \in Workers |-> UpTo(quiet[w], HealthyAfter + 1)]
    /\ expired' = [t \in Tokens |-> IF \E w \in Workers : rows[w].token = t THEN 0
                                    ELSE IF t \in Unused THEN TTL + 1
                                    ELSE UpTo(expired[t], TTL + 1)]
    /\ UNCHANGED <<held, handlers, revoking, slow, faults>>
-----------------------------------------------------------------------------

\* A goroutine's call goes on.
CallStep(c) ==
    \/ Send(c) \/ LookUpToken(c) \/ FillCache(c) \/ WriteHeartbeat(c) \/ DenialIsFinal(c)
    \/ \E i \in Reaches[c[2]] : Authenticate(c, i) \/ Refresh(c, i)

HandlerStep(c) == InsertWorker(c) \/ CheckStatus(c) \/ RotateToken(c) \/ PublishToken(c)

Next ==
    \/ \E w \in Workers : \/ \E i \in Reaches[Poll] : Enroll(w, i)
                          \/ \E i \in Instances : Revoke(w, i)
    \/ \E w \in Workers : ClearToken(w) \/ RevokeWorker(w) \/ RevokeFails(w)
    \/ \E c \in Callers : \/ CallStep(c) \/ HandlerStep(c)
                          \/ LookUpFails(c) \/ HeartbeatFails(c) \/ HandlerFails(c)
                          \/ RefreshTimesOut(c) \/ Slow(c)
    \/ \E i \in Instances : Restart(i)
    \/ MarkWorkerInactive
    \/ Tick

Spec == Init /\ [][Next]_vars

\* Goroutines and handlers run, the monitor's ticker fires, time passes.
\* Nothing is assumed of operators, of starting workers or of the faults.
Fairness ==
    /\ \A c \in Callers : WF_vars(CallStep(c)) /\ WF_vars(HandlerStep(c))
    /\ \A w \in Workers : WF_vars(ClearToken(w) \/ RevokeWorker(w))
    /\ WF_vars(MarkWorkerInactive)
    /\ WF_vars(Tick)

FairSpec == Spec /\ Fairness

-----------------------------------------------------------------------------
(* Properties *)

\* A worker whose calls are being served is reported as what it is: neither the
\* writes the heartbeat tracker suppresses, nor failed ones, nor the inactivity
\* monitor make a working worker disappear from its region's health, from the list
\* of active workers or from the answer about its status.
ServedMeansHealthy ==
    \A w \in Workers :
        quiet[w] <= HealthyAfter - MinInterval /\ rows[w].status # "revoked" =>
            /\ Healthy(w) /\ ZeroHealthyRegions({WorkerRegion[w]}) = {}
            /\ GetWorkerStatus(w) = "active" /\ w \in ListWorkers(WorkerRegion[w], "active")

\* The index of every cache names exactly the entries of each worker, so that
\* InvalidateWorker, which goes by the index, leaves nothing behind.
CacheIndexed == \A i \in Instances : IndexMatches(cache[i])

\* A token is good for a call only while it is its worker's token, and for one
\* TTL after it was replaced or cleared, on every instance, even when the cache
\* is filled from a look-up or a rotation that something overtook.
AcceptedTokensAreRecent ==
    [][\A c \in Callers :
         calls[c].stage \in {"sent", "fill"} /\ calls'[c].stage \in {"write", "rest"}
             => calls[c].token = NoToken \/ expired[calls[c].token] <= TTL]_vars

\* After a rotation the instance that made it believes no other token of the
\* worker: what InvalidateWorker drops through the index is all there is.
RotationPurges ==
    [][\A c \in Callers :
         handlers[c].stage = "publish" /\ handlers'[c].stage = "none"
             => \A t \in Tokens : cache'[handlers[c].inst].entries[t].worker = c[1]
                                  => t = handlers[c].token]_vars

\* Nothing of a revoked worker is left in a cache or on its way.
Settled(w) ==
    /\ rows[w].status = "revoked"
    /\ \A i \in Instances, t \in Tokens : cache[i].entries[t].worker # w
    /\ \A r \in Routines : /\ calls[<<w, r>>].stage \notin {"fill", "write"}
                           /\ handlers[<<w, r>>].stage \notin {"insert", "rotate", "publish"}

\* A revocation that has settled is final.  (Before that it is not: a heartbeat
\* or a renewal that was under way can set the worker active again.)
RevocationSettles == [][\A w \in Workers : Settled(w) => Settled(w)']_vars

\* A worker that has enrolled and is not revoked gets a call through again and
\* again: lost answers, failed look-ups, rotations that cross each other and
\* restarted instances leave no worker with a token it cannot replace.
WorkersGetThrough ==
    \A w \in Workers : []<>(held[w] = NoToken \/ revoking[w].stage # "none" \/ quiet[w] = 0)
=============================================================================
