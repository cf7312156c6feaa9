----------------------------- MODULE JobLifecycle -----------------------------
(***************************************************************************)
(* What app.jobs promises: the job state machine ready -> leased -> done   *)
(* of cmd/control-plane/README.md, "At-Least-Once Job Processing", with    *)
(* its results durable before a job is done and before a worker is told.   *)
(***************************************************************************)
CONSTANT Runs

VARIABLES
    state,     \* run -> absent | ready | leased | done | purged
    stored,    \* runs with a durable result
    promised   \* runs some worker was told are committed

vars == <<state, stored, promised>>

Init ==
    /\ state = [r \in Runs |-> "absent"]
    /\ stored = {}
    /\ promised = {}

\* The runs of S move from one state to another, all at once.
Move(S, from, to) ==
    /\ \A r \in S : state[r] = from
    /\ state' = [r \in Runs |-> IF r \in S THEN to ELSE state[r]]

Create(r) == Move({r}, "absent", "ready") /\ UNCHANGED <<stored, promised>>
Grant(S) == Move(S, "ready", "leased") /\ UNCHANGED <<stored, promised>>
Release(S) == Move(S, "leased", "ready") /\ UNCHANGED <<stored, promised>>
Purge(S) == Move(S, "done", "purged") /\ UNCHANGED <<stored, promised>>

Complete(r) ==
    /\ r \in stored
    /\ Move({r}, "leased", "done")
    /\ UNCHANGED <<stored, promised>>

Store(r) == stored' = stored \cup {r} /\ UNCHANGED <<state, promised>>

Promise(r) ==
    /\ r \in stored /\ state[r] \in {"done", "purged"}
    /\ promised' = promised \cup {r}
    /\ UNCHANGED <<state, stored>>

Next ==
    \/ \E r \in Runs : Create(r) \/ Complete(r) \/ Store(r) \/ Promise(r)
    \/ \E S \in SUBSET Runs : Grant(S) \/ Release(S) \/ Purge(S)

Spec == Init /\ [][Next]_vars
=============================================================================
