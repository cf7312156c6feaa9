------------------------------ MODULE AuthCache ------------------------------
(***************************************************************************)
(* WorkerAuthCache, the in-memory cache of one control-plane instance that *)
(* saves the database look-up of a worker's token: which worker a token    *)
(* hash belongs to and for how long that is believed, and an index from    *)
(* workers to their hashes, through which a worker's hashes are dropped.   *)
(*                                                                         *)
(* A cache is a value here; each operator is one critical section of the   *)
(* mutex and returns the cache it leaves behind (a set of caches where the *)
(* order of a Go map decides).  A hash stands for its token.               *)
(***************************************************************************)
EXTENDS Integers, FiniteSets

CONSTANTS
    Workers,
    Tokens,
    NoWorker,
    TTL,         \* ticks an entry is believed
    MaxEntries

ASSUME CacheAssumption == TTL \in Nat \ {0} /\ MaxEntries \in Nat \ {0} /\ NoWorker \notin Workers

\* An entry: its worker and the ticks left until expiresAt; -1 is expired.
Entry == [worker : Workers \cup {NoWorker}, left : -1 .. TTL]
Cache == [entries : [Tokens -> Entry], tokensByWorker : [Workers -> SUBSET Tokens]]

NoEntry == [worker |-> NoWorker, left |-> -1]
EmptyCache == [entries |-> [t \in Tokens |-> NoEntry], tokensByWorker |-> [w \in Workers |-> {}]]

Cached(k) == {t \in Tokens : k.entries[t].worker # NoWorker}
Stale(k) == {t \in Cached(k) : k.entries[t].left < 0}

\* removeTokenLocked, for every token of T: the entry and its place in the index.
Without(k, T) ==
    [entries |-> [t \in Tokens |-> IF t \in T THEN NoEntry ELSE k.entries[t]],
     tokensByWorker |-> [w \in Workers |->
                           k.tokensByWorker[w] \ {t \in T : k.entries[t].worker = w}]]

\* Mutation of Lookup: the expiry of an entry is not looked at.
LookupExpired(k, t) == k.entries[t].worker

\* Get: the worker of a token, or NoWorker on a miss ...
Lookup(k, t) == IF t \in Stale(k) THEN NoWorker ELSE k.entries[t].worker

\* ... which removes an expired entry.
AfterLookup(k, t) == Without(k, {t} \cap Stale(k))

\* evictLocked: expired entries go first, then the oldest ones.  Set adds one
\* entry, so at most one is over the limit.
Evictions(k) ==
    LET p == Without(k, Stale(k))
        oldest == {t \in Cached(p) : \A u \in Cached(p) : p.entries[t].left <= p.entries[u].left}
    IN  IF Cardinality(Cached(p)) <= MaxEntries THEN {p} ELSE {Without(p, {t}) : t \in oldest}

\* Mutation of SetToken: the token is not entered into the worker's index.
SetTokenUnindexed(k, t, w) ==
    Evictions([k EXCEPT !.entries[t] = [worker |-> w, left |-> TTL]])

\* Set: a hash that changes hands leaves the index of its old worker.
SetToken(k, t, w) ==
    Evictions([entries |-> [k.entries EXCEPT ![t] = [worker |-> w, left |-> TTL]],
               tokensByWorker |-> [x \in Workers |->
                   IF x = w THEN k.tokensByWorker[x] \cup {t}
                   ELSE k.tokensByWorker[x] \ {u \in {t} : k.entries[u].worker = x}]])

\* InvalidateWorker drops what the index knows of the worker.
InvalidateWorker(k, w) == Without(k, k.tokensByWorker[w])

\* A tick of the clock.
Aged(k) ==
    [k EXCEPT !.entries = [t \in Tokens |->
        [k.entries[t] EXCEPT !.left = IF @ < 0 THEN -1 ELSE @ - 1]]]

\* The index names exactly the entries of each worker.
IndexMatches(k) ==
    \A w \in Workers : k.tokensByWorker[w] = {t \in Tokens : k.entries[t].worker = w}
=============================================================================
