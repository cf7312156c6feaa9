--------------------------- MODULE WorkerAuthProofs ---------------------------
(***************************************************************************)
(* Proofs about WorkerAuth for any number of workers, goroutines,          *)
(* instances and tokens, and for every TTL: the state keeps its types, the *)
(* index of every auth cache names exactly its entries, no token is good   *)
(* for longer than a TTL after it was replaced or cleared, a rotation      *)
(* leaves no other token of the worker in the cache of its instance, a     *)
(* revocation that has settled is final, and a worker whose calls are      *)
(* served is reported as healthy.                                          *)
(*                                                                         *)
(* The inductive invariant Inv ties what a cache still believes to the age *)
(* of the token (CachesOK), and through RowsOK, CallsOK and HandlersOK the *)
(* answers that are about to be cached to a row of the table.  Health      *)
(* needs three more facts (Enlisted, Noted, Served), and both it and the   *)
(* revocations that no two workers share a token (OwnedOK).                *)
(***************************************************************************)
EXTENDS WorkerAuth, FiniteSetTheorems, TLAPS

-----------------------------------------------------------------------------
(* The operations of the cache *)

\* Removing tokens leaves a cache whose index matches, without those entries.
LEMMA WithoutKeeps ==
    ASSUME NEW k \in Cache, IndexMatches(k), NEW T \in SUBSET Tokens
    PROVE  /\ Without(k, T) \in Cache /\ IndexMatches(Without(k, T))
           /\ \A t \in Tokens : Without(k, T).entries[t] = IF t \in T THEN NoEntry ELSE k.entries[t]
<1>1. NoEntry \in Entry
  BY CacheAssumption DEF NoEntry, Entry
<1>2. k.entries \in [Tokens -> Entry] /\ k.tokensByWorker \in [Workers -> SUBSET Tokens]
  BY DEF Cache
<1>3. \A t \in Tokens : Without(k, T).entries[t] = IF t \in T THEN NoEntry ELSE k.entries[t]
  BY DEF Without
<1>4. \A w \in Workers : Without(k, T).tokensByWorker[w]
                           = k.tokensByWorker[w] \ {t \in T : k.entries[t].worker = w}
  BY DEF Without
<1>5. Without(k, T) \in Cache
  BY <1>1, <1>2 DEF Without, Cache
<1>6. IndexMatches(Without(k, T))
  <2>1. ASSUME NEW w \in Workers
        PROVE  Without(k, T).tokensByWorker[w]
                 = {t \in Tokens : Without(k, T).entries[t].worker = w}
    BY <1>2, <1>3, <1>4, CacheAssumption DEF IndexMatches, NoEntry
  <2> QED
    BY <2>1 DEF IndexMatches
<1> QED
  BY <1>3, <1>5, <1>6

\* What Evictions leaves is such a cache, with some of the entries.
LEMMA EvictionsKeep ==
    ASSUME NEW k \in Cache, IndexMatches(k), NEW p \in Evictions(k)
    PROVE  /\ p \in Cache /\ IndexMatches(p)
           /\ \A t \in Tokens : p.entries[t] = NoEntry \/ p.entries[t] = k.entries[t]
<1> DEFINE q == Without(k, Stale(k))
<1>1. Stale(k) \in SUBSET Tokens
  BY DEF Stale, Cached
<1>2. /\ q \in Cache /\ IndexMatches(q)
      /\ \A t \in Tokens : q.entries[t] = NoEntry \/ q.entries[t] = k.entries[t]
  BY <1>1, WithoutKeeps
<1>3. p = q \/ \E t \in Tokens : p = Without(q, {t})
  BY DEF Evictions, Cached
<1>4. ASSUME NEW t \in Tokens, p = Without(q, {t})
      PROVE  /\ p \in Cache /\ IndexMatches(p)
             /\ \A u \in Tokens : p.entries[u] = NoEntry \/ p.entries[u] = k.entries[u]
  <2> HIDE DEF q
  <2>1. {t} \in SUBSET Tokens
    OBVIOUS
  <2>2. /\ p \in Cache /\ IndexMatches(p)
        /\ \A u \in Tokens : p.entries[u] = IF u \in {t} THEN NoEntry ELSE q.entries[u]
    BY <1>2, <1>4, <2>1, WithoutKeeps
  <2> QED
    BY <1>2, <2>2
<1> QED
  BY <1>2, <1>3, <1>4

\* Set leaves the new entry, at most, and some of the old ones.
LEMMA SetTokenKeeps ==
    ASSUME NEW k \in Cache, IndexMatches(k), NEW t \in Tokens, NEW w \in Workers,
           NEW p \in SetToken(k, t, w)
    PROVE  /\ p \in Cache /\ IndexMatches(p)
           /\ \A u \in Tokens : \/ p.entries[u] = NoEntry
                                \/ u # t /\ p.entries[u] = k.entries[u]
                                \/ u = t /\ p.entries[u] = [worker |-> w, left |-> TTL]
<1> DEFINE q == [entries |-> [k.entries EXCEPT ![t] = [worker |-> w, left |-> TTL]],
                 tokensByWorker |-> [x \in Workers |->
                     IF x = w THEN k.tokensByWorker[x] \cup {t}
                     ELSE k.tokensByWorker[x] \ {u \in {t} : k.entries[u].worker = x}]]
<1>1. k.entries \in [Tokens -> Entry] /\ k.tokensByWorker \in [Workers -> SUBSET Tokens]
  BY DEF Cache
<1>2. [worker |-> w, left |-> TTL] \in Entry
  BY CacheAssumption DEF Entry
<1>3. q \in Cache
  <2>1. q.entries \in [Tokens -> Entry]
    BY <1>1, <1>2
  <2>2. q.tokensByWorker \in [Workers -> SUBSET Tokens]
    BY <1>1
  <2> QED
    BY <2>1, <2>2 DEF Cache
<1>4. IndexMatches(q)
  <2>1. ASSUME NEW x \in Workers
        PROVE  q.tokensByWorker[x] = {u \in Tokens : q.entries[u].worker = x}
    <3>1. k.tokensByWorker[x] = {u \in Tokens : k.entries[u].worker = x}
      BY DEF IndexMatches
    <3>2. \A u \in Tokens : q.entries[u] = IF u = t THEN [worker |-> w, left |-> TTL]
                                           ELSE k.entries[u]
      BY <1>1
    <3>3. q.tokensByWorker[x] = IF x = w THEN k.tokensByWorker[x] \cup {t}
                                ELSE k.tokensByWorker[x] \ {u \in {t} : k.entries[u].worker = x}
      OBVIOUS
    <3> HIDE DEF q
    <3> QED
      BY <3>1, <3>2, <3>3
  <2> QED
    BY <2>1 DEF IndexMatches
<1>5. p \in Evictions(q)
  BY DEF SetToken
<1>6. \A u \in Tokens : q.entries[u] = IF u = t THEN [worker |-> w, left |-> TTL] ELSE k.entries[u]
  BY <1>1
<1> HIDE DEF q
<1>7. /\ p \in Cache /\ IndexMatches(p)
      /\ \A u \in Tokens : p.entries[u] = NoEntry \/ p.entries[u] = q.entries[u]
  BY <1>3, <1>4, <1>5, EvictionsKeep
<1> QED
  BY <1>6, <1>7

\* A look-up removes at most the entry it looked at.
LEMMA AfterLookupKeeps ==
    ASSUME NEW k \in Cache, IndexMatches(k), NEW t
    PROVE  /\ AfterLookup(k, t) \in Cache /\ IndexMatches(AfterLookup(k, t))
           /\ \A u \in Tokens : \/ AfterLookup(k, t).entries[u] = NoEntry
                                \/ AfterLookup(k, t).entries[u] = k.entries[u]
<1>1. {t} \cap Stale(k) \in SUBSET Tokens
  BY DEF Stale, Cached
<1> QED
  BY <1>1, WithoutKeeps DEF AfterLookup

\* InvalidateWorker leaves no entry of the worker, and the others as they are.
LEMMA InvalidateKeeps ==
    ASSUME NEW k \in Cache, IndexMatches(k), NEW w \in Workers
    PROVE  /\ InvalidateWorker(k, w) \in Cache /\ IndexMatches(InvalidateWorker(k, w))
           /\ \A t \in Tokens : /\ InvalidateWorker(k, w).entries[t].worker # w
                                /\ \/ InvalidateWorker(k, w).entries[t] = NoEntry
                                   \/ InvalidateWorker(k, w).entries[t] = k.entries[t]
<1>1. k.tokensByWorker[w] \in SUBSET Tokens
  BY DEF Cache
<1>2. k.tokensByWorker[w] = {t \in Tokens : k.entries[t].worker = w}
  BY DEF IndexMatches
<1> DEFINE q == Without(k, k.tokensByWorker[w])
<1>3. /\ q \in Cache /\ IndexMatches(q)
      /\ \A t \in Tokens : q.entries[t] = IF t \in k.tokensByWorker[w] THEN NoEntry ELSE k.entries[t]
  BY <1>1, WithoutKeeps
<1> HIDE DEF q
<1>4. \A t \in Tokens : q.entries[t].worker # w /\ (q.entries[t] = NoEntry \/ q.entries[t] = k.entries[t])
  BY <1>2, <1>3, CacheAssumption DEF NoEntry
<1> QED
  BY <1>3, <1>4 DEF InvalidateWorker, q

\* A tick changes no worker and no index, and shortens every entry that is believed.
LEMMA AgedKeeps ==
    ASSUME NEW k \in Cache, IndexMatches(k)
    PROVE  /\ Aged(k) \in Cache /\ IndexMatches(Aged(k))
           /\ \A t \in Tokens :
                /\ Aged(k).entries[t].worker = k.entries[t].worker
                /\ Aged(k).entries[t].left >= 0 => Aged(k).entries[t].left = k.entries[t].left - 1
<1>1. k.entries \in [Tokens -> Entry] /\ k.tokensByWorker \in [Workers -> SUBSET Tokens]
  BY DEF Cache
<1> DEFINE e == [t \in Tokens |-> [k.entries[t] EXCEPT !.left = IF @ < 0 THEN -1 ELSE @ - 1]]
<1>2. Aged(k).entries = e /\ Aged(k).tokensByWorker = k.tokensByWorker
  BY DEF Aged, Cache
<1>3. Aged(k) = [entries |-> e, tokensByWorker |-> k.tokensByWorker]
  BY DEF Aged, Cache
<1>4. ASSUME NEW t \in Tokens
      PROVE  /\ e[t] \in Entry /\ e[t].worker = k.entries[t].worker
             /\ e[t].left >= 0 => e[t].left = k.entries[t].left - 1
  <2>1. k.entries[t] \in Entry
    BY <1>1
  <2> QED
    BY <2>1, CacheAssumption DEF Entry
<1> HIDE DEF e
<1>5. e \in [Tokens -> Entry]
  BY <1>4 DEF e
<1>6. Aged(k) \in Cache
  BY <1>1, <1>3, <1>5 DEF Cache
<1>7. IndexMatches(Aged(k))
  BY <1>2, <1>4 DEF IndexMatches
<1> QED
  BY <1>2, <1>4, <1>6, <1>7

-----------------------------------------------------------------------------
(* The inductive invariant *)

\* A call that has a token, or has got as far as the cache, has what it needs.
CallsOK ==
    \A c \in Callers :
        /\ calls[c].stage \notin {"off", "renewing"} => held[c[1]] \in Tokens
        /\ calls[c].stage \in {"ready", "sent"} => calls[c].inst = NoInstance
        /\ calls[c].stage \in {"lookup", "fill"} => calls[c].inst \in Instances
        /\ calls[c].stage \in {"sent", "lookup", "fill"} => calls[c].token \in Tokens
        /\ calls[c].stage = "fill" => expired[calls[c].token] = 0

\* A handler runs on an instance, and its new token has not been replaced while
\* the cache is about to learn it.
HandlersOK ==
    \A c \in Callers :
        /\ handlers[c].stage # "none" => handlers[c].inst \in Instances
        /\ handlers[c].stage \in {"rotate", "publish"} => handlers[c].token \in Tokens
        /\ handlers[c].stage = "publish" => expired[handlers[c].token] = 0

RevokingOK == \A w \in Workers : revoking[w].stage = "clear" => revoking[w].inst \in Instances

RowsOK == \A w \in Workers, t \in Tokens : rows[w].token = t => expired[t] = 0

\* What is still believed of a token was true no longer ago than it is believed.
EntriesOK(k) ==
    \A t \in Tokens : /\ k.entries[t].left >= 0 => expired[t] + k.entries[t].left <= TTL
                      /\ k.entries[t].worker = NoWorker => k.entries[t].left = -1

CachesOK == \A i \in Instances : IndexMatches(cache[i]) /\ EntriesOK(cache[i])

Inv == TypeOK /\ CallsOK /\ HandlersOK /\ RevokingOK /\ RowsOK /\ CachesOK

-----------------------------------------------------------------------------
(* Parts of actions *)

\* A call that is accepted moves on to its heartbeat, or rests.
LEMMA AcceptedKeeps ==
    ASSUME TypeOK, NEW c \in Callers, NEW i \in Instances, NEW w \in Workers, Accepted(c, i, w)
    PROVE  /\ tracker' \in [Instances -> [Workers -> 0 .. MinInterval]]
           /\ slow' \subseteq Callers
           /\ quiet' \in [Workers -> 0 .. HealthyAfter + 1]
           /\ \E r \in CallRec : /\ calls' = [calls EXCEPT ![c] = r]
                                 /\ r.stage \in {"write", "rest"}
<1>1. tracker' \in [Instances -> [Workers -> 0 .. MinInterval]]
  BY HeartbeatAssumption DEF Accepted, ShouldUpdate, TypeOK
<1>2. slow' \subseteq Callers
  BY DEF Accepted, Rests, TypeOK
<1>3. quiet' \in [Workers -> 0 .. HealthyAfter + 1]
  <2>1. quiet \in [Workers -> 0 .. HealthyAfter + 1] /\ 0 \in 0 .. HealthyAfter + 1
    BY HeartbeatAssumption DEF TypeOK
  <2>2. \/ quiet' = quiet
        \/ quiet' = [quiet EXCEPT ![w] = IF Writing(w) THEN quiet[w] ELSE 0]
    BY DEF Accepted
  <2> QED
    BY <2>1, <2>2
<1>4. \E r \in CallRec : calls' = [calls EXCEPT ![c] = r] /\ r.stage \in {"write", "rest"}
  <2>1. NoCall("rest") \in CallRec /\ [NoCall("write") EXCEPT !.inst = i] \in CallRec
    BY DEF NoCall, CallRec, CallStages
  <2>2. NoCall("rest").stage = "rest" /\ [NoCall("write") EXCEPT !.inst = i].stage = "write"
    BY DEF NoCall
  <2> QED
    BY <2>1, <2>2 DEF Accepted, Rests
<1> QED
  BY <1>1, <1>2, <1>3, <1>4

\* A handler that goes on has taken a token of Tokens.
LEMMA NewTokenTaken ==
    ASSUME NEW c \in Callers, WithNewToken(c)
    PROVE  \E t \in Tokens : handlers' = [handlers EXCEPT ![c] = [handlers[c] EXCEPT !.stage = "rotate",
                                                                                  !.token = t]]
<1>1. PICK t \in Unused : t = CHOOSE u \in Unused : TRUE
  BY DEF WithNewToken
<1>2. t \in Tokens
  BY DEF Unused
<1> QED
  BY <1>1, <1>2 DEF WithNewToken

\* A handler that is over leaves its goroutine waiting no more.
LEMMA AnsweredKeeps ==
    ASSUME TypeOK, CallsOK, NEW c \in Callers, Answered(c, "rest")
    PROVE  /\ handlers' = [handlers EXCEPT ![c] = NoHandler]
           /\ slow' \subseteq Callers
           /\ \/ UNCHANGED calls
              \/ \E r \in CallRec : /\ calls' = [calls EXCEPT ![c] = r]
                                    /\ calls[c].stage = "renewing"
                                    /\ r.stage = "off" \/ (r.stage = "rest" /\ held[c[1]] \in Tokens)
<1>1. slow' \subseteq Callers
  BY DEF Answered, TypeOK
<1>2. NoCall("off") \in CallRec /\ Retry(c, "rest", "rest" = "ready") \in CallRec
  BY DEF NoCall, Retry, CallRec, CallStages
<1>3. NoCall("off").stage = "off" /\ Retry(c, "rest", "rest" = "ready").stage = "rest"
  BY DEF NoCall, Retry
<1>4. held[c[1]] \in Tokens \cup {NoToken}
  BY DEF TypeOK, Callers
<1>5. CASE calls[c].stage # "renewing"
  BY <1>1, <1>5 DEF Answered
<1>6. CASE calls[c].stage = "renewing" /\ held[c[1]] = NoToken
  BY <1>1, <1>2, <1>3, <1>6 DEF Answered
<1>7. CASE calls[c].stage = "renewing" /\ held[c[1]] # NoToken
  BY <1>1, <1>2, <1>3, <1>4, <1>7 DEF Answered
<1> QED
  BY <1>5, <1>6, <1>7

\* The calls the actions make are calls.
LEMMA CallRecs ==
    /\ \A s \in CallStages : /\ NoCall(s) \in CallRec
                             /\ NoCall(s).stage = s /\ NoCall(s).inst = NoInstance
    /\ \A c \in Callers, s \in CallStages, again \in BOOLEAN :
         /\ Retry(c, s, again) \in CallRec
         /\ Retry(c, s, again).stage = s /\ Retry(c, s, again).inst = NoInstance
BY DEF NoCall, Retry, CallRec

\* The components of a state that has its types.
LEMMA StateTypes ==
    ASSUME TypeOK
    PROVE  /\ \A c \in Callers : /\ calls[c] \in CallRec /\ handlers[c] \in HandlerRec
                                 /\ c[1] \in Workers
           /\ \A w \in Workers : rows[w] \in WorkerRow
           /\ \A i \in Instances : cache[i] \in Cache
           /\ \A i \in Instances, t \in Tokens : cache[i].entries[t].left \in -1 .. TTL
           /\ \A t \in Tokens : expired[t] \in 0 .. TTL + 1
BY DEF TypeOK, Callers, Cache, Entry

\* A row with another status or token is a row.
LEMMA RowTypes ==
    ASSUME NEW x \in WorkerRow
    PROVE  /\ \A s \in Statuses : [x EXCEPT !.status = s] \in WorkerRow
           /\ \A t \in Tokens \cup {NoToken} : [x EXCEPT !.token = t] \in WorkerRow
BY DEF WorkerRow

\* A statement that writes a row of app.workers keeps the types of the table.
LEMMA RowsTyped ==
    ASSUME rows \in [Workers -> WorkerRow], NEW w \in Workers, NEW x \in WorkerRow
    PROVE  [rows EXCEPT ![w] = x] \in [Workers -> WorkerRow]
OBVIOUS

\* One cache changes: what is new in it is a token that is in a row.
LEMMA CacheKept ==
    ASSUME TypeOK, CachesOK, NEW i \in Instances, NEW k \in Cache, IndexMatches(k),
           cache' = [cache EXCEPT ![i] = k], UNCHANGED expired,
           \A t \in Tokens : \/ k.entries[t] = NoEntry
                             \/ k.entries[t] = cache[i].entries[t]
                             \/ /\ expired[t] = 0 /\ k.entries[t].left = TTL
                                /\ k.entries[t].worker # NoWorker
    PROVE  cache' \in [Instances -> Cache] /\ CachesOK'
<1>1. cache' \in [Instances -> Cache]
  BY DEF TypeOK
<1>2. ASSUME NEW j \in Instances PROVE IndexMatches(cache[j])' /\ EntriesOK(cache[j])'
  <2>1. CASE j = i
    <3>1. cache'[j] = k
      BY <2>1 DEF TypeOK
    <3>2. \A t \in Tokens : /\ k.entries[t].left >= 0 => expired[t] + k.entries[t].left <= TTL
                            /\ k.entries[t].worker = NoWorker => k.entries[t].left = -1
      BY CacheAssumption DEF NoEntry, CachesOK, EntriesOK
    <3>3. IndexMatches(cache'[j])
      BY <3>1
    <3> QED
      BY <3>1, <3>2, <3>3 DEF IndexMatches, EntriesOK
  <2>2. CASE j # i
    <3>1. cache'[j] = cache[j]
      BY <2>2 DEF TypeOK
    <3> QED
      BY <3>1 DEF CachesOK, IndexMatches, EntriesOK
  <2> QED
    BY <2>1, <2>2
<1> QED
  BY <1>1, <1>2 DEF CachesOK

\* Every action keeps the invariant.
LEMMA InvKept == Inv /\ [Next]_vars => Inv'
<1> SUFFICES ASSUME Inv, [Next]_vars PROVE Inv'
  OBVIOUS
<1>0. TypeOK /\ CallsOK /\ HandlersOK /\ RevokingOK /\ RowsOK /\ CachesOK
  BY DEF Inv
<1> USE <1>0
<1>1. ASSUME NEW w \in Workers, NEW i \in Instances, Enroll(w, i) PROVE Inv'
  <2>1. TypeOK'
    BY <1>1, HeartbeatAssumption, CacheAssumption, AuthAssumption DEF Enroll, Start, TypeOK, CallRec, HandlerRec, WorkerRow, Statuses, CallStages, HandlerStages, NoCall, NoHandler, database, memory
  <2>2. CallsOK'
    BY <1>1 DEF Enroll, Start, TypeOK, CallsOK, Callers, CallRec, HandlerRec, NoCall, database, memory
  <2>3. HandlersOK'
    BY <1>1 DEF Enroll, Start, TypeOK, HandlersOK, NoHandler, database, memory
  <2>4. RevokingOK'
    BY <1>1 DEF Enroll, Start, TypeOK, RevokingOK, database, memory
  <2>5. RowsOK'
    BY <1>1 DEF Enroll, Start, TypeOK, RowsOK, HandlersOK, WorkerRow, database, memory
  <2>6. CachesOK'
    BY <1>1 DEF Enroll, Start, TypeOK, CachesOK, EntriesOK, database, memory
  <2> QED
    BY <2>1, <2>2, <2>3, <2>4, <2>5, <2>6 DEF Inv
<1>2. ASSUME NEW w \in Workers, NEW i \in Instances, Revoke(w, i) PROVE Inv'
  <2>1. TypeOK'
    BY <1>2, HeartbeatAssumption, CacheAssumption, AuthAssumption DEF Revoke, RevokeStage, TypeOK, CallRec, HandlerRec, WorkerRow, Statuses, CallStages, HandlerStages, NoCall, NoHandler, database, memory
  <2>2. CallsOK'
    BY <1>2 DEF Revoke, RevokeStage, TypeOK, CallsOK, Callers, CallRec, HandlerRec, NoCall, database, memory
  <2>3. HandlersOK'
    BY <1>2 DEF Revoke, RevokeStage, TypeOK, HandlersOK, NoHandler, database, memory
  <2>4. RevokingOK'
    BY <1>2 DEF Revoke, RevokeStage, TypeOK, RevokingOK, database, memory
  <2>5. RowsOK'
    BY <1>2 DEF Revoke, RevokeStage, TypeOK, RowsOK, HandlersOK, WorkerRow, database, memory
  <2>6. CachesOK'
    BY <1>2 DEF Revoke, RevokeStage, TypeOK, CachesOK, EntriesOK, database, memory
  <2> QED
    BY <2>1, <2>2, <2>3, <2>4, <2>5, <2>6 DEF Inv
<1>3. ASSUME NEW w \in Workers, ClearToken(w) PROVE Inv'
  <2>a. revoking[w].inst \in Instances
    BY <1>3 DEF ClearToken, RevokingOK
  <2> DEFINE i == revoking[w].inst
             k == InvalidateWorker(cache[i], w)
  <2>b. cache[i] \in Cache /\ IndexMatches(cache[i])
    BY <2>a, StateTypes DEF CachesOK
  <2>c. /\ k \in Cache /\ IndexMatches(k)
        /\ \A t \in Tokens : k.entries[t] = NoEntry \/ k.entries[t] = cache[i].entries[t]
    BY <2>b, InvalidateKeeps
  <2>d. cache' = [cache EXCEPT ![i] = k] /\ UNCHANGED expired
    BY <1>3 DEF ClearToken
  <2>e. cache' \in [Instances -> Cache] /\ CachesOK'
    <3> HIDE DEF i, k
    <3>1. i \in Instances
      BY <2>a DEF i
    <3> QED
      BY <2>c, <2>d, <3>1, CacheKept
  <2>1. TypeOK'
    <3>1. rows' \in [Workers -> WorkerRow]
      <4>1. rows \in [Workers -> WorkerRow] /\ [rows[w] EXCEPT !.token = NoToken] \in WorkerRow
        BY RowTypes DEF TypeOK
      <4>2. \/ rows' = [rows EXCEPT ![w] = [rows[w] EXCEPT !.token = NoToken]]
            \/ rows' = rows
        BY <1>3 DEF ClearToken
      <4> QED
        BY <4>1, <4>2, RowsTyped
    <3>2. revoking' \in [Workers -> [stage : {"none", "clear", "revoke", "done"},
                                     inst : Instances \cup {NoInstance}]]
      BY <1>3, <2>a DEF ClearToken, RevokeStage, TypeOK
    <3>3. faults' \in 0 .. MaxFaults
      BY <1>3, AuthAssumption DEF ClearToken, Fault, TypeOK
    <3> QED
      BY <1>3, <2>e, <3>1, <3>2, <3>3 DEF ClearToken, TypeOK
  <2>2. CallsOK'
    BY <1>3 DEF ClearToken, RevokeStage, Fault, TypeOK, CallsOK, Callers, CallRec, HandlerRec, NoCall, database, memory
  <2>3. HandlersOK'
    BY <1>3 DEF ClearToken, RevokeStage, Fault, TypeOK, HandlersOK, NoHandler, database, memory
  <2>4. RevokingOK'
    BY <1>3 DEF ClearToken, RevokeStage, Fault, TypeOK, RevokingOK, database, memory
  <2>5. RowsOK'
    BY <1>3, AuthAssumption DEF ClearToken, TypeOK, RowsOK, WorkerRow
  <2>6. CachesOK'
    BY <2>e
  <2> QED
    BY <2>1, <2>2, <2>3, <2>4, <2>5, <2>6 DEF Inv
<1>4. ASSUME NEW w \in Workers, RevokeWorker(w) PROVE Inv'
  <2>1. TypeOK'
    <3>1. rows' \in [Workers -> WorkerRow]
      <4>1. rows \in [Workers -> WorkerRow] /\ [rows[w] EXCEPT !.status = "revoked"] \in WorkerRow
        BY RowTypes DEF TypeOK, Statuses
      <4>2. rows' = [rows EXCEPT ![w] = [rows[w] EXCEPT !.status = "revoked"]]
        BY <1>4 DEF RevokeWorker
      <4> QED
        BY <4>1, <4>2, RowsTyped
    <3> QED
      BY <1>4, <3>1 DEF RevokeWorker, RevokeStage, TypeOK, database, memory
  <2>2. CallsOK'
    BY <1>4 DEF RevokeWorker, RevokeStage, TypeOK, CallsOK, Callers, CallRec, HandlerRec, NoCall, database, memory
  <2>3. HandlersOK'
    BY <1>4 DEF RevokeWorker, RevokeStage, TypeOK, HandlersOK, NoHandler, database, memory
  <2>4. RevokingOK'
    BY <1>4 DEF RevokeWorker, RevokeStage, TypeOK, RevokingOK, database, memory
  <2>5. RowsOK'
    <3>1. UNCHANGED expired
      BY <1>4 DEF RevokeWorker
    <3>2. rows' = [rows EXCEPT ![w] = [rows[w] EXCEPT !.status = "revoked"]]
      BY <1>4 DEF RevokeWorker
    <3>3. \A x \in Workers : rows[x] \in WorkerRow
      BY StateTypes
    <3>4. \A x \in Workers : rows'[x].token = rows[x].token
      BY <3>2, <3>3 DEF WorkerRow
    <3> QED
      BY <3>1, <3>4 DEF RowsOK
  <2>6. CachesOK'
    BY <1>4 DEF RevokeWorker, RevokeStage, TypeOK, CachesOK, EntriesOK, database, memory
  <2> QED
    BY <2>1, <2>2, <2>3, <2>4, <2>5, <2>6 DEF Inv
<1>5. ASSUME NEW w \in Workers, RevokeFails(w) PROVE Inv'
  <2>1. TypeOK'
    BY <1>5, HeartbeatAssumption, CacheAssumption, AuthAssumption DEF RevokeFails, RevokeStage, Fault, TypeOK, CallRec, HandlerRec, WorkerRow, Statuses, CallStages, HandlerStages, NoCall, NoHandler, database, memory
  <2>2. CallsOK'
    BY <1>5 DEF RevokeFails, RevokeStage, Fault, TypeOK, CallsOK, Callers, CallRec, HandlerRec, NoCall, database, memory
  <2>3. HandlersOK'
    BY <1>5 DEF RevokeFails, RevokeStage, Fault, TypeOK, HandlersOK, NoHandler, database, memory
  <2>4. RevokingOK'
    BY <1>5 DEF RevokeFails, RevokeStage, Fault, TypeOK, RevokingOK, database, memory
  <2>5. RowsOK'
    BY <1>5 DEF RevokeFails, RevokeStage, Fault, TypeOK, RowsOK, HandlersOK, WorkerRow, database, memory
  <2>6. CachesOK'
    BY <1>5 DEF RevokeFails, RevokeStage, Fault, TypeOK, CachesOK, EntriesOK, database, memory
  <2> QED
    BY <2>1, <2>2, <2>3, <2>4, <2>5, <2>6 DEF Inv
<1>6. ASSUME NEW c \in Callers, Send(c) PROVE Inv'
  <2>1. TypeOK'
    <3>1. [calls[c] EXCEPT !.stage = "sent", !.token = held[c[1]]] \in CallRec
      BY StateTypes DEF TypeOK, CallRec, CallStages
    <3> QED
      BY <1>6, <3>1 DEF Send, TypeOK, database, memory
  <2>2. CallsOK'
    BY <1>6 DEF Send, TypeOK, CallsOK, Callers, CallRec, HandlerRec, NoCall, database, memory
  <2>3. HandlersOK'
    BY <1>6 DEF Send, TypeOK, HandlersOK, NoHandler, database, memory
  <2>4. RevokingOK'
    BY <1>6 DEF Send, TypeOK, RevokingOK, database, memory
  <2>5. RowsOK'
    BY <1>6 DEF Send, TypeOK, RowsOK, HandlersOK, WorkerRow, database, memory
  <2>6. CachesOK'
    BY <1>6 DEF Send, TypeOK, CachesOK, EntriesOK, database, memory
  <2> QED
    BY <2>1, <2>2, <2>3, <2>4, <2>5, <2>6 DEF Inv
<1>7. ASSUME NEW c \in Callers, LookUpToken(c) PROVE Inv'
  <2>a. \/ calls' = [calls EXCEPT ![c] = Retry(c, "denied", calls[c].retried)]
        \/ /\ calls' = [calls EXCEPT ![c] = [calls[c] EXCEPT !.stage = "fill"]]
           /\ \E w \in Workers : rows[w].token = calls[c].token
    BY <1>7 DEF LookUpToken, Denied, At, Owners
  <2>b. /\ calls[c] \in CallRec /\ calls[c].retried \in BOOLEAN /\ calls[c].stage = "lookup"
        /\ "denied" \in CallStages /\ "fill" \in CallStages
    BY <1>7, StateTypes DEF LookUpToken, CallRec, CallStages
  <2>c. /\ Retry(c, "denied", calls[c].retried) \in CallRec
        /\ Retry(c, "denied", calls[c].retried).stage = "denied"
    BY <2>b, CallRecs
  <2>1. TypeOK'
    <3>1. [calls[c] EXCEPT !.stage = "fill"] \in CallRec
      BY <2>b DEF CallRec
    <3>2. calls' \in [Callers -> CallRec]
      BY <2>a, <2>c, <3>1 DEF TypeOK
    <3> QED
      BY <1>7, <3>2 DEF LookUpToken, TypeOK, database, memory
  <2>2. CallsOK'
    <3>1. UNCHANGED <<held, expired>>
      BY <1>7 DEF LookUpToken, database
    <3>2. CASE calls' = [calls EXCEPT ![c] = Retry(c, "denied", calls[c].retried)]
      BY <2>b, <2>c, <3>1, <3>2 DEF TypeOK, CallsOK
    <3>3. CASE /\ calls' = [calls EXCEPT ![c] = [calls[c] EXCEPT !.stage = "fill"]]
               /\ \E w \in Workers : rows[w].token = calls[c].token
      <4>1. calls[c].token \in Tokens /\ calls[c].inst \in Instances /\ held[c[1]] \in Tokens
        BY <2>b DEF CallsOK
      <4>2. expired[calls[c].token] = 0
        BY <3>3, <4>1 DEF RowsOK
      <4>3. \A d \in Callers : calls'[d] = IF d = c THEN [calls[c] EXCEPT !.stage = "fill"] ELSE calls[d]
        BY <3>3 DEF TypeOK
      <4> QED
        BY <2>b, <3>1, <4>1, <4>2, <4>3 DEF CallsOK, CallRec
    <3> QED
      BY <2>a, <3>2, <3>3
  <2>3. HandlersOK'
    BY <1>7 DEF LookUpToken, Denied, Retry, At, Owners, TypeOK, HandlersOK, NoHandler, database, memory
  <2>4. RevokingOK'
    BY <1>7 DEF LookUpToken, Denied, Retry, At, Owners, TypeOK, RevokingOK, database, memory
  <2>5. RowsOK'
    BY <1>7 DEF LookUpToken, Denied, Retry, At, Owners, TypeOK, RowsOK, HandlersOK, WorkerRow, database, memory
  <2>6. CachesOK'
    BY <1>7 DEF LookUpToken, Denied, Retry, At, Owners, TypeOK, CachesOK, EntriesOK, database, memory
  <2> QED
    BY <2>1, <2>2, <2>3, <2>4, <2>5, <2>6 DEF Inv
<1>8. ASSUME NEW c \in Callers, FillCache(c) PROVE Inv'
  <2> DEFINE i == calls[c].inst
  <2>a. /\ calls[c].stage = "fill" /\ i \in Instances /\ calls[c].token \in Tokens
        /\ held[c[1]] \in Tokens /\ c[1] \in Workers /\ expired[calls[c].token] = 0
    BY <1>8, StateTypes DEF FillCache, CallsOK
  <2>b. cache[i] \in Cache /\ IndexMatches(cache[i])
    BY <2>a, StateTypes DEF CachesOK
  <2>c. PICK k \in SetToken(cache[i], calls[c].token, c[1]) : cache' = [cache EXCEPT ![i] = k]
    BY <1>8 DEF FillCache
  <2>d. /\ k \in Cache /\ IndexMatches(k)
        /\ \A u \in Tokens :
             \/ k.entries[u] = NoEntry
             \/ u # calls[c].token /\ k.entries[u] = cache[i].entries[u]
             \/ u = calls[c].token /\ k.entries[u] = [worker |-> c[1], left |-> TTL]
    BY <2>a, <2>b, SetTokenKeeps
  <2>e. cache' \in [Instances -> Cache] /\ CachesOK'
    <3>1. UNCHANGED expired
      BY <1>8 DEF FillCache, database
    <3>2. \A u \in Tokens : \/ k.entries[u] = NoEntry
                            \/ k.entries[u] = cache[i].entries[u]
                            \/ /\ expired[u] = 0 /\ k.entries[u].left = TTL
                               /\ k.entries[u].worker # NoWorker
      BY <2>a, <2>d, CacheAssumption
    <3> HIDE DEF i
    <3>3. i \in Instances
      BY <2>a
    <3> QED
      BY <2>c, <2>d, <3>1, <3>2, <3>3, CacheKept
  <2>f. Accepted(c, i, c[1])
    BY <1>8 DEF FillCache
  <2> HIDE DEF i
  <2>g. /\ tracker' \in [Instances -> [Workers -> 0 .. MinInterval]]
        /\ slow' \subseteq Callers
        /\ quiet' \in [Workers -> 0 .. HealthyAfter + 1]
        /\ \E r \in CallRec : /\ calls' = [calls EXCEPT ![c] = r]
                              /\ r.stage \in {"write", "rest"}
    BY <2>a, <2>f, AcceptedKeeps
  <2>1. TypeOK'
    BY <1>8, <2>e, <2>g DEF FillCache, TypeOK, database
  <2>2. CallsOK'
    BY <1>8, <2>a, <2>g DEF FillCache, TypeOK, CallsOK, database
  <2>3. HandlersOK'
    BY <1>8 DEF FillCache, TypeOK, HandlersOK, NoHandler, database, memory
  <2>4. RevokingOK'
    BY <1>8 DEF FillCache, TypeOK, RevokingOK, database, memory
  <2>5. RowsOK'
    BY <1>8 DEF FillCache, TypeOK, RowsOK, HandlersOK, WorkerRow, database, memory
  <2>6. CachesOK'
    BY <2>e
  <2> QED
    BY <2>1, <2>2, <2>3, <2>4, <2>5, <2>6 DEF Inv
<1>9. ASSUME NEW c \in Callers, WriteHeartbeat(c) PROVE Inv'
  <2>1. TypeOK'
    <3>1. c[1] \in Workers /\ NoCall("rest") \in CallRec
      BY StateTypes, CallRecs DEF CallStages
    <3>2. 0 \in 0 .. StatusAfter + 1 /\ 0 \in 0 .. HealthyAfter + 1
      BY HeartbeatAssumption
    <3>3. rows[c[1]] \in WorkerRow
      BY <3>1, StateTypes
    <3>4. [rows[c[1]] EXCEPT !.status = "active", !.seen = 0] \in WorkerRow
      BY <3>2, <3>3 DEF WorkerRow, Statuses
    <3> QED
      BY <1>9, <3>1, <3>2, <3>4 DEF WriteHeartbeat, Rests, TypeOK, memory
  <2>2. CallsOK'
    BY <1>9 DEF WriteHeartbeat, Rests, TypeOK, CallsOK, Callers, CallRec, HandlerRec, NoCall, database, memory
  <2>3. HandlersOK'
    BY <1>9 DEF WriteHeartbeat, Rests, TypeOK, HandlersOK, NoHandler, database, memory
  <2>4. RevokingOK'
    BY <1>9 DEF WriteHeartbeat, Rests, TypeOK, RevokingOK, database, memory
  <2>5. RowsOK'
    BY <1>9 DEF WriteHeartbeat, Rests, TypeOK, RowsOK, HandlersOK, WorkerRow, database, memory
  <2>6. CachesOK'
    BY <1>9 DEF WriteHeartbeat, Rests, TypeOK, CachesOK, EntriesOK, database, memory
  <2> QED
    BY <2>1, <2>2, <2>3, <2>4, <2>5, <2>6 DEF Inv
<1>10. ASSUME NEW c \in Callers, DenialIsFinal(c) PROVE Inv'
  <2>1. TypeOK'
    BY <1>10, HeartbeatAssumption, CacheAssumption, AuthAssumption DEF DenialIsFinal, Rests, TypeOK, CallRec, HandlerRec, WorkerRow, Statuses, CallStages, HandlerStages, NoCall, NoHandler, database, memory
  <2>2. CallsOK'
    BY <1>10 DEF DenialIsFinal, Rests, TypeOK, CallsOK, Callers, CallRec, HandlerRec, NoCall, database, memory
  <2>3. HandlersOK'
    BY <1>10 DEF DenialIsFinal, Rests, TypeOK, HandlersOK, NoHandler, database, memory
  <2>4. RevokingOK'
    BY <1>10 DEF DenialIsFinal, Rests, TypeOK, RevokingOK, database, memory
  <2>5. RowsOK'
    BY <1>10 DEF DenialIsFinal, Rests, TypeOK, RowsOK, HandlersOK, WorkerRow, database, memory
  <2>6. CachesOK'
    BY <1>10 DEF DenialIsFinal, Rests, TypeOK, CachesOK, EntriesOK, database, memory
  <2> QED
    BY <2>1, <2>2, <2>3, <2>4, <2>5, <2>6 DEF Inv
<1>11. ASSUME NEW c \in Callers, NEW i \in Instances, Authenticate(c, i) PROVE Inv'
  <2> DEFINE t == calls[c].token
             w == Lookup(cache[i], t)
             k == AfterLookup(cache[i], t)
  <2>a. /\ calls[c].stage = "sent" /\ t \in Tokens /\ held[c[1]] \in Tokens /\ calls[c] \in CallRec
    BY <1>11, StateTypes DEF Authenticate, CallsOK
  <2>b. cache[i] \in Cache /\ IndexMatches(cache[i])
    BY StateTypes DEF CachesOK
  <2>c. /\ k \in Cache /\ IndexMatches(k)
        /\ \A u \in Tokens : k.entries[u] = NoEntry \/ k.entries[u] = cache[i].entries[u]
    BY <2>b, AfterLookupKeeps
  <2>d. w \in Workers \cup {NoWorker}
    BY <2>a, <2>b DEF Lookup, Cache, Entry
  <2>e. /\ cache' = [cache EXCEPT ![i] = k] /\ UNCHANGED expired
        /\ IF w # NoWorker THEN Accepted(c, i, w)
           ELSE /\ calls' = [calls EXCEPT ![c] = [calls[c] EXCEPT !.stage = "lookup", !.inst = i]]
                /\ UNCHANGED <<tracker, slow, quiet>>
    BY <1>11 DEF Authenticate, database
  <2> HIDE DEF t, w, k
  <2>f. cache' \in [Instances -> Cache] /\ CachesOK'
    BY <2>c, <2>e, CacheKept
  <2>g. /\ tracker' \in [Instances -> [Workers -> 0 .. MinInterval]]
        /\ slow' \subseteq Callers
        /\ quiet' \in [Workers -> 0 .. HealthyAfter + 1]
        /\ \E r \in CallRec : /\ calls' = [calls EXCEPT ![c] = r]
                              /\ \/ r.stage \in {"write", "rest"}
                                 \/ r.stage = "lookup" /\ r.inst = i /\ r.token \in Tokens
    <3>1. CASE w # NoWorker
      BY <2>d, <2>e, <3>1, AcceptedKeeps
    <3>2. CASE w = NoWorker
      <4>1. /\ [calls[c] EXCEPT !.stage = "lookup", !.inst = i] \in CallRec
            /\ [calls[c] EXCEPT !.stage = "lookup", !.inst = i].stage = "lookup"
            /\ [calls[c] EXCEPT !.stage = "lookup", !.inst = i].inst = i
            /\ [calls[c] EXCEPT !.stage = "lookup", !.inst = i].token \in Tokens
        BY <2>a DEF CallRec, CallStages, t
      <4> QED
        BY <2>e, <3>2, <4>1 DEF TypeOK
    <3> QED
      BY <3>1, <3>2
  <2>1. TypeOK'
    BY <1>11, <2>f, <2>g DEF Authenticate, TypeOK, database
  <2>2. CallsOK'
    <3>1. PICK r \in CallRec : /\ calls' = [calls EXCEPT ![c] = r]
                               /\ \/ r.stage \in {"write", "rest"}
                                  \/ r.stage = "lookup" /\ r.inst = i /\ r.token \in Tokens
      BY <2>g
    <3>2. UNCHANGED <<held, expired>>
      BY <1>11 DEF Authenticate, database
    <3> QED
      BY <2>a, <3>1, <3>2 DEF TypeOK, CallsOK
  <2>3. HandlersOK'
    BY <1>11 DEF Authenticate, TypeOK, HandlersOK, NoHandler, database, memory
  <2>4. RevokingOK'
    BY <1>11 DEF Authenticate, TypeOK, RevokingOK, database, memory
  <2>5. RowsOK'
    BY <1>11 DEF Authenticate, TypeOK, RowsOK, HandlersOK, WorkerRow, database, memory
  <2>6. CachesOK'
    BY <2>f
  <2> QED
    BY <2>1, <2>2, <2>3, <2>4, <2>5, <2>6 DEF Inv
<1>12. ASSUME NEW c \in Callers, NEW i \in Instances, Refresh(c, i) PROVE Inv'
  <2>1. TypeOK'
    BY <1>12, HeartbeatAssumption, CacheAssumption, AuthAssumption DEF Refresh, Start, TypeOK, CallRec, HandlerRec, WorkerRow, Statuses, CallStages, HandlerStages, NoCall, NoHandler, database, memory
  <2>2. CallsOK'
    BY <1>12 DEF Refresh, Start, TypeOK, CallsOK, Callers, CallRec, HandlerRec, NoCall, database, memory
  <2>3. HandlersOK'
    BY <1>12 DEF Refresh, Start, TypeOK, HandlersOK, NoHandler, database, memory
  <2>4. RevokingOK'
    BY <1>12 DEF Refresh, Start, TypeOK, RevokingOK, database, memory
  <2>5. RowsOK'
    BY <1>12 DEF Refresh, Start, TypeOK, RowsOK, HandlersOK, WorkerRow, database, memory
  <2>6. CachesOK'
    BY <1>12 DEF Refresh, Start, TypeOK, CachesOK, EntriesOK, database, memory
  <2> QED
    BY <2>1, <2>2, <2>3, <2>4, <2>5, <2>6 DEF Inv
<1>13. ASSUME NEW c \in Callers, InsertWorker(c) PROVE Inv'
  <2>a. c[1] \in Workers /\ handlers[c] \in HandlerRec /\ handlers[c].stage = "insert"
    BY <1>13, StateTypes DEF InsertWorker
  <2>b. PICK t \in Tokens :
          handlers' = [handlers EXCEPT ![c] = [handlers[c] EXCEPT !.stage = "rotate", !.token = t]]
    BY <1>13, NewTokenTaken DEF InsertWorker
  <2>1. TypeOK'
    <3>1. /\ [handlers[c] EXCEPT !.stage = "rotate", !.token = t] \in HandlerRec
          /\ [handlers[c] EXCEPT !.stage = "rotate", !.token = t].stage = "rotate"
          /\ [handlers[c] EXCEPT !.stage = "rotate", !.token = t].inst = handlers[c].inst
          /\ [handlers[c] EXCEPT !.stage = "rotate", !.token = t].token = t
      BY <2>a DEF HandlerRec, HandlerStages
    <3>2. [status |-> "enrolled", token |-> NoToken, seen |-> 0] \in WorkerRow
      BY HeartbeatAssumption DEF WorkerRow, Statuses
    <3> QED
      BY <1>13, <2>b, <3>1, <3>2 DEF InsertWorker, TypeOK, memory
  <2>2. CallsOK'
    BY <1>13 DEF InsertWorker, TypeOK, CallsOK, Callers, CallRec, HandlerRec, NoCall, database, memory
  <2>3. HandlersOK'
    <3>1. /\ [handlers[c] EXCEPT !.stage = "rotate", !.token = t] \in HandlerRec
          /\ [handlers[c] EXCEPT !.stage = "rotate", !.token = t].stage = "rotate"
          /\ [handlers[c] EXCEPT !.stage = "rotate", !.token = t].inst = handlers[c].inst
          /\ [handlers[c] EXCEPT !.stage = "rotate", !.token = t].token = t
      BY <2>a DEF HandlerRec, HandlerStages
    <3> QED
      BY <1>13, <2>a, <2>b, <3>1 DEF InsertWorker, TypeOK, HandlersOK
  <2>4. RevokingOK'
    BY <1>13 DEF InsertWorker, TypeOK, RevokingOK, database, memory
  <2>5. RowsOK'
    BY <1>13, <2>a, AuthAssumption DEF InsertWorker, TypeOK, RowsOK
  <2>6. CachesOK'
    BY <1>13 DEF InsertWorker, TypeOK, CachesOK, EntriesOK, database, memory
  <2> QED
    BY <2>1, <2>2, <2>3, <2>4, <2>5, <2>6 DEF Inv
<1>14. ASSUME NEW c \in Callers, CheckStatus(c) PROVE Inv'
  <2>a. /\ c[1] \in Workers /\ handlers[c] \in HandlerRec /\ handlers[c].stage = "check"
        /\ UNCHANGED <<rows, expired, held, cache, tracker, revoking, quiet, faults>>
    BY <1>14, StateTypes DEF CheckStatus, database, memory
  <2>b. \/ /\ handlers' = [handlers EXCEPT ![c] = NoHandler]
           /\ slow' \subseteq Callers
           /\ \/ UNCHANGED calls
              \/ \E r \in CallRec : /\ calls' = [calls EXCEPT ![c] = r]
                                    /\ \/ r.stage = "off"
                                       \/ r.stage = "rest" /\ held[c[1]] \in Tokens
        \/ /\ \E t \in Tokens : handlers' = [handlers EXCEPT ![c] =
                                  [handlers[c] EXCEPT !.stage = "rotate", !.token = t]]
           /\ UNCHANGED <<calls, slow>>
    BY <1>14, AnsweredKeeps, NewTokenTaken DEF CheckStatus
  <2>c. NoHandler \in HandlerRec /\ NoHandler.stage = "none"
    BY DEF NoHandler, HandlerRec, HandlerStages
  <2>d. \A t \in Tokens : /\ [handlers[c] EXCEPT !.stage = "rotate", !.token = t] \in HandlerRec
                          /\ [handlers[c] EXCEPT !.stage = "rotate", !.token = t].stage = "rotate"
                          /\ [handlers[c] EXCEPT !.stage = "rotate", !.token = t].inst = handlers[c].inst
                          /\ [handlers[c] EXCEPT !.stage = "rotate", !.token = t].token = t
    BY <2>a DEF HandlerRec, HandlerStages
  <2>1. TypeOK'
    <3>1. handlers' \in [Callers -> HandlerRec]
      <4>1. CASE handlers' = [handlers EXCEPT ![c] = NoHandler]
        BY <2>c, <4>1 DEF TypeOK
      <4>2. CASE \E t \in Tokens : handlers' = [handlers EXCEPT ![c] =
                                     [handlers[c] EXCEPT !.stage = "rotate", !.token = t]]
        <5>1. PICK h \in HandlerRec : handlers' = [handlers EXCEPT ![c] = h]
          BY <2>d, <4>2
        <5> QED
          BY <5>1 DEF TypeOK
      <4> QED
        BY <2>b, <4>1, <4>2
    <3>2. calls' \in [Callers -> CallRec] /\ slow' \subseteq Callers
      BY <2>b DEF TypeOK
    <3> QED
      BY <2>a, <3>1, <3>2 DEF TypeOK
  <2>2. CallsOK'
    BY <2>a, <2>b DEF TypeOK, CallsOK
  <2>3. HandlersOK'
    <3>1. CASE handlers' = [handlers EXCEPT ![c] = NoHandler]
      BY <2>a, <2>c, <3>1 DEF TypeOK, HandlersOK
    <3>2. CASE \E t \in Tokens : handlers' = [handlers EXCEPT ![c] =
                                   [handlers[c] EXCEPT !.stage = "rotate", !.token = t]]
      <4>1. PICK h : /\ h.stage = "rotate" /\ h.inst = handlers[c].inst /\ h.token \in Tokens
                     /\ handlers' = [handlers EXCEPT ![c] = h]
        BY <2>d, <3>2
      <4> QED
        BY <2>a, <4>1 DEF TypeOK, HandlersOK
    <3> QED
      BY <2>b, <3>1, <3>2
  <2>4. RevokingOK'
    BY <1>14 DEF CheckStatus, TypeOK, RevokingOK, database, memory
  <2>5. RowsOK'
    BY <1>14 DEF CheckStatus, TypeOK, RowsOK, HandlersOK, WorkerRow, database, memory
  <2>6. CachesOK'
    BY <1>14 DEF CheckStatus, TypeOK, CachesOK, EntriesOK, database, memory
  <2> QED
    BY <2>1, <2>2, <2>3, <2>4, <2>5, <2>6 DEF Inv
<1>15. ASSUME NEW c \in Callers, RotateToken(c) PROVE Inv'
  <2>1. TypeOK'
    <3>1. c[1] \in Workers /\ handlers[c].token \in Tokens /\ handlers[c] \in HandlerRec
      BY <1>15, StateTypes DEF RotateToken, HandlersOK
    <3>2. rows' \in [Workers -> WorkerRow]
      <4>1. /\ rows \in [Workers -> WorkerRow]
            /\ [rows[c[1]] EXCEPT !.token = handlers[c].token] \in WorkerRow
        BY <3>1, RowTypes DEF TypeOK
      <4>2. rows' = [rows EXCEPT ![c[1]] = [rows[c[1]] EXCEPT !.token = handlers[c].token]]
        BY <1>15 DEF RotateToken
      <4> QED
        BY <3>1, <4>1, <4>2, RowsTyped
    <3>3. handlers' \in [Callers -> HandlerRec]
      BY <1>15, <3>1 DEF RotateToken, TypeOK, HandlerRec, HandlerStages
    <3>4. expired' \in [Tokens -> 0 .. TTL + 1]
      BY <1>15, <3>1, CacheAssumption DEF RotateToken, TypeOK
    <3> QED
      BY <1>15, <3>2, <3>3, <3>4 DEF RotateToken, TypeOK, memory
  <2>2. CallsOK'
    BY <1>15 DEF RotateToken, TypeOK, CallsOK, Callers, CallRec, HandlerRec, NoCall, database, memory
  <2>3. HandlersOK'
    BY <1>15 DEF RotateToken, TypeOK, HandlersOK, NoHandler, database, memory
  <2>4. RevokingOK'
    BY <1>15 DEF RotateToken, TypeOK, RevokingOK, database, memory
  <2>5. RowsOK'
    <3>1. handlers[c].token \in Tokens
      BY <1>15 DEF RotateToken, HandlersOK
    <3>2. \A w \in Workers : rows'[w].token \in {rows[w].token, handlers[c].token}
      BY <1>15 DEF RotateToken, TypeOK, WorkerRow
    <3>3. \A t \in Tokens : expired'[t] = IF t = handlers[c].token THEN 0 ELSE expired[t]
      BY <1>15, <3>1 DEF RotateToken, TypeOK
    <3> QED
      BY <3>1, <3>2, <3>3 DEF RowsOK
  <2>6. CachesOK'
    <3>1. \A t \in Tokens : expired'[t] = 0 \/ expired'[t] = expired[t]
      BY <1>15 DEF RotateToken, TypeOK
    <3>2. UNCHANGED cache
      BY <1>15 DEF RotateToken, memory
    <3>3. \A i \in Instances, t \in Tokens : /\ cache[i].entries[t].left \in -1 .. TTL
                                             /\ expired[t] \in 0 .. TTL + 1
      BY StateTypes
    <3>4. \A i \in Instances : EntriesOK(cache[i])'
      BY <3>1, <3>2, <3>3, CacheAssumption DEF CachesOK, EntriesOK
    <3>5. \A i \in Instances : IndexMatches(cache[i])'
      BY <3>2 DEF CachesOK, IndexMatches
    <3> QED
      BY <3>4, <3>5 DEF CachesOK
  <2> QED
    BY <2>1, <2>2, <2>3, <2>4, <2>5, <2>6 DEF Inv
<1>16. ASSUME NEW c \in Callers, PublishToken(c) PROVE Inv'
  <2> DEFINE i == handlers[c].inst
             t == handlers[c].token
             p == InvalidateWorker(cache[i], c[1])
  <2>a. /\ handlers[c].stage = "publish" /\ i \in Instances /\ t \in Tokens
        /\ expired[t] = 0 /\ c[1] \in Workers
    BY <1>16, StateTypes DEF PublishToken, HandlersOK
  <2>b. cache[i] \in Cache /\ IndexMatches(cache[i])
    BY <2>a, StateTypes DEF CachesOK
  <2>c. PICK k \in SetToken(p, t, c[1]) : cache' = [cache EXCEPT ![i] = k]
    BY <1>16 DEF PublishToken
  <2>d. /\ p \in Cache /\ IndexMatches(p)
        /\ \A u \in Tokens : p.entries[u] = NoEntry \/ p.entries[u] = cache[i].entries[u]
    BY <2>a, <2>b, InvalidateKeeps
  <2>e. /\ UNCHANGED <<rows, expired, tracker, revoking, quiet, faults>>
        /\ handlers' = [handlers EXCEPT ![c] = NoHandler]
        /\ \/ /\ held' = [held EXCEPT ![c[1]] = t] /\ slow' \subseteq Callers
              /\ calls[c].stage = "renewing"
              /\ calls' = [d \in Callers |->
                             IF d = c THEN Retry(c, "ready", held[c[1]] # NoToken)
                             ELSE IF d[1] = c[1] /\ calls[d].stage = "off" THEN NoCall("ready")
                             ELSE calls[d]]
           \/ UNCHANGED <<held, calls, slow>>
    <3>1. /\ UNCHANGED <<rows, expired, tracker, revoking, quiet, faults>>
          /\ handlers' = [handlers EXCEPT ![c] = NoHandler]
      BY <1>16 DEF PublishToken, database
    <3>2. CASE calls[c].stage = "renewing"
      <4>1. /\ held' = [held EXCEPT ![c[1]] = t] /\ slow' = slow \ {c}
            /\ calls' = [d \in Callers |->
                           IF d = c THEN Retry(c, "ready", held[c[1]] # NoToken)
                           ELSE IF d[1] = c[1] /\ calls[d].stage = "off" THEN NoCall("ready")
                           ELSE calls[d]]
        BY <1>16, <3>2 DEF PublishToken, Learned
      <4>2. slow' \subseteq Callers
        BY <4>1 DEF TypeOK
      <4> QED
        BY <3>1, <3>2, <4>1, <4>2
    <3>3. CASE calls[c].stage # "renewing"
      <4>1. UNCHANGED <<held, calls, slow>>
        BY <1>16, <3>3 DEF PublishToken
      <4> QED
        BY <3>1, <4>1
    <3> QED
      BY <3>2, <3>3
  <2>f. /\ NoCall("ready") \in CallRec /\ NoCall("ready").stage = "ready"
        /\ NoCall("ready").inst = NoInstance
        /\ Retry(c, "ready", held[c[1]] # NoToken) \in CallRec
        /\ Retry(c, "ready", held[c[1]] # NoToken).stage = "ready"
        /\ Retry(c, "ready", held[c[1]] # NoToken).inst = NoInstance
    <3>1. "ready" \in CallStages /\ (held[c[1]] # NoToken) \in BOOLEAN
      BY DEF CallStages
    <3> QED
      BY <3>1, CallRecs
  <2>g. NoHandler \in HandlerRec /\ NoHandler.stage = "none"
    BY DEF NoHandler, HandlerRec, HandlerStages
  <2> HIDE DEF i, t, p
  <2>h. /\ k \in Cache /\ IndexMatches(k)
        /\ \A u \in Tokens : \/ k.entries[u] = NoEntry
                             \/ u # t /\ k.entries[u] = p.entries[u]
                             \/ u = t /\ k.entries[u] = [worker |-> c[1], left |-> TTL]
    BY <2>a, <2>c, <2>d, SetTokenKeeps
  <2>i. cache' \in [Instances -> Cache] /\ CachesOK'
    <3>1. \A u \in Tokens : \/ k.entries[u] = NoEntry
                            \/ k.entries[u] = cache[i].entries[u]
                            \/ /\ expired[u] = 0 /\ k.entries[u].left = TTL
                               /\ k.entries[u].worker # NoWorker
      BY <2>a, <2>d, <2>h, CacheAssumption
    <3> QED
      BY <2>a, <2>c, <2>e, <2>h, <3>1, CacheKept
  <2>1. TypeOK'
    <3>1. calls' \in [Callers -> CallRec] /\ held' \in [Workers -> Tokens \cup {NoToken}]
      <4>1. calls \in [Callers -> CallRec] /\ held \in [Workers -> Tokens \cup {NoToken}]
        BY DEF TypeOK
      <4> QED
        BY <2>a, <2>e, <2>f, <4>1
    <3>2. handlers' \in [Callers -> HandlerRec] /\ slow' \subseteq Callers
      <4>1. handlers \in [Callers -> HandlerRec] /\ slow \subseteq Callers
        BY DEF TypeOK
      <4> QED
        BY <2>e, <2>g, <4>1
    <3> QED
      BY <2>e, <2>i, <3>1, <3>2 DEF TypeOK
  <2>2. CallsOK'
    <3>1. CASE UNCHANGED <<held, calls, slow>>
      BY <2>e, <3>1 DEF CallsOK
    <3>2. CASE /\ held' = [held EXCEPT ![c[1]] = t]
               /\ calls' = [d \in Callers |->
                             IF d = c THEN Retry(c, "ready", held[c[1]] # NoToken)
                             ELSE IF d[1] = c[1] /\ calls[d].stage = "off" THEN NoCall("ready")
                             ELSE calls[d]]
      <4>1. \A d \in Callers : d[1] \in Workers /\ held'[d[1]] = IF d[1] = c[1] THEN t ELSE held[d[1]]
        BY <3>2, StateTypes DEF TypeOK
      <4>2. ASSUME NEW d \in Callers
            PROVE  calls'[d] = calls[d] \/ (calls'[d].stage = "ready" /\ calls'[d].inst = NoInstance
                                            /\ d[1] = c[1])
        BY <2>f, <3>2
      <4> QED
        BY <2>a, <2>e, <4>1, <4>2 DEF CallsOK
    <3> QED
      BY <2>e, <3>1, <3>2
  <2>3. HandlersOK'
    BY <2>e, <2>g DEF TypeOK, HandlersOK
  <2>4. RevokingOK'
    BY <2>e DEF RevokingOK
  <2>5. RowsOK'
    BY <2>e DEF RowsOK
  <2>6. CachesOK'
    BY <2>i
  <2> QED
    BY <2>1, <2>2, <2>3, <2>4, <2>5, <2>6 DEF Inv
<1>17. ASSUME NEW c \in Callers, LookUpFails(c) PROVE Inv'
  <2>1. TypeOK'
    <3>1. Retry(c, "denied", calls[c].retried) \in CallRec
      BY StateTypes, CallRecs DEF CallRec, CallStages
    <3> QED
      BY <1>17, <3>1, AuthAssumption DEF LookUpFails, Fault, Denied, TypeOK, database, memory
  <2>2. CallsOK'
    BY <1>17 DEF LookUpFails, Fault, Denied, Retry, TypeOK, CallsOK, Callers, CallRec, HandlerRec, NoCall, database, memory
  <2>3. HandlersOK'
    BY <1>17 DEF LookUpFails, Fault, Denied, Retry, TypeOK, HandlersOK, NoHandler, database, memory
  <2>4. RevokingOK'
    BY <1>17 DEF LookUpFails, Fault, Denied, Retry, TypeOK, RevokingOK, database, memory
  <2>5. RowsOK'
    BY <1>17 DEF LookUpFails, Fault, Denied, Retry, TypeOK, RowsOK, HandlersOK, WorkerRow, database, memory
  <2>6. CachesOK'
    BY <1>17 DEF LookUpFails, Fault, Denied, Retry, TypeOK, CachesOK, EntriesOK, database, memory
  <2> QED
    BY <2>1, <2>2, <2>3, <2>4, <2>5, <2>6 DEF Inv
<1>18. ASSUME NEW c \in Callers, HeartbeatFails(c) PROVE Inv'
  <2>1. TypeOK'
    <3>1. NoCall("rest") \in CallRec
      BY CallRecs DEF CallStages
    <3>2. 0 \in 0 .. MinInterval
      BY HeartbeatAssumption
    <3>3. tracker' \in [Instances -> [Workers -> 0 .. MinInterval]]
      BY <1>18, <3>2 DEF HeartbeatFails, TypeOK
    <3> QED
      BY <1>18, <3>1, <3>3, AuthAssumption DEF HeartbeatFails, Fault, Rests, TypeOK, database
  <2>2. CallsOK'
    BY <1>18 DEF HeartbeatFails, Fault, Rests, TypeOK, CallsOK, Callers, CallRec, HandlerRec, NoCall, database, memory
  <2>3. HandlersOK'
    BY <1>18 DEF HeartbeatFails, Fault, Rests, TypeOK, HandlersOK, NoHandler, database, memory
  <2>4. RevokingOK'
    BY <1>18 DEF HeartbeatFails, Fault, Rests, TypeOK, RevokingOK, database, memory
  <2>5. RowsOK'
    BY <1>18 DEF HeartbeatFails, Fault, Rests, TypeOK, RowsOK, HandlersOK, WorkerRow, database, memory
  <2>6. CachesOK'
    BY <1>18 DEF HeartbeatFails, Fault, Rests, TypeOK, CachesOK, EntriesOK, database, memory
  <2> QED
    BY <2>1, <2>2, <2>3, <2>4, <2>5, <2>6 DEF Inv
<1>19. ASSUME NEW c \in Callers, HandlerFails(c) PROVE Inv'
  <2>a. /\ handlers' = [handlers EXCEPT ![c] = NoHandler]
        /\ slow' \subseteq Callers
        /\ \/ UNCHANGED calls
           \/ \E r \in CallRec : /\ calls' = [calls EXCEPT ![c] = r]
                                 /\ \/ r.stage = "off"
                                    \/ r.stage = "rest" /\ held[c[1]] \in Tokens
    BY <1>19, AnsweredKeeps DEF HandlerFails
  <2>b. NoHandler \in HandlerRec /\ NoHandler.stage = "none"
    BY DEF NoHandler, HandlerRec, HandlerStages
  <2>c. faults' \in 0 .. MaxFaults /\ UNCHANGED <<rows, expired, held, cache, tracker, revoking, quiet>>
    BY <1>19, AuthAssumption DEF HandlerFails, Fault, TypeOK, database, memory
  <2>1. TypeOK'
    BY <2>a, <2>b, <2>c DEF TypeOK
  <2>2. CallsOK'
    BY <2>a, <2>c DEF TypeOK, CallsOK
  <2>3. HandlersOK'
    BY <2>a, <2>b, <2>c DEF TypeOK, HandlersOK
  <2>4. RevokingOK'
    BY <1>19 DEF HandlerFails, Fault, TypeOK, RevokingOK, database, memory
  <2>5. RowsOK'
    BY <1>19 DEF HandlerFails, Fault, TypeOK, RowsOK, HandlersOK, WorkerRow, database, memory
  <2>6. CachesOK'
    BY <1>19 DEF HandlerFails, Fault, TypeOK, CachesOK, EntriesOK, database, memory
  <2> QED
    BY <2>1, <2>2, <2>3, <2>4, <2>5, <2>6 DEF Inv
<1>20. ASSUME NEW c \in Callers, RefreshTimesOut(c) PROVE Inv'
  <2>1. TypeOK'
    BY <1>20, HeartbeatAssumption, CacheAssumption, AuthAssumption DEF RefreshTimesOut, Fault, Rests, TypeOK, CallRec, HandlerRec, WorkerRow, Statuses, CallStages, HandlerStages, NoCall, NoHandler, database, memory
  <2>2. CallsOK'
    BY <1>20 DEF RefreshTimesOut, Fault, Rests, TypeOK, CallsOK, Callers, CallRec, HandlerRec, NoCall, database, memory
  <2>3. HandlersOK'
    BY <1>20 DEF RefreshTimesOut, Fault, Rests, TypeOK, HandlersOK, NoHandler, database, memory
  <2>4. RevokingOK'
    BY <1>20 DEF RefreshTimesOut, Fault, Rests, TypeOK, RevokingOK, database, memory
  <2>5. RowsOK'
    BY <1>20 DEF RefreshTimesOut, Fault, Rests, TypeOK, RowsOK, HandlersOK, WorkerRow, database, memory
  <2>6. CachesOK'
    BY <1>20 DEF RefreshTimesOut, Fault, Rests, TypeOK, CachesOK, EntriesOK, database, memory
  <2> QED
    BY <2>1, <2>2, <2>3, <2>4, <2>5, <2>6 DEF Inv
<1>21. ASSUME NEW c \in Callers, Slow(c) PROVE Inv'
  <2>1. TypeOK'
    BY <1>21, HeartbeatAssumption, CacheAssumption, AuthAssumption DEF Slow, Fault, TypeOK, CallRec, HandlerRec, WorkerRow, Statuses, CallStages, HandlerStages, NoCall, NoHandler, database, memory
  <2>2. CallsOK'
    BY <1>21 DEF Slow, Fault, TypeOK, CallsOK, Callers, CallRec, HandlerRec, NoCall, database, memory
  <2>3. HandlersOK'
    BY <1>21 DEF Slow, Fault, TypeOK, HandlersOK, NoHandler, database, memory
  <2>4. RevokingOK'
    BY <1>21 DEF Slow, Fault, TypeOK, RevokingOK, database, memory
  <2>5. RowsOK'
    BY <1>21 DEF Slow, Fault, TypeOK, RowsOK, HandlersOK, WorkerRow, database, memory
  <2>6. CachesOK'
    BY <1>21 DEF Slow, Fault, TypeOK, CachesOK, EntriesOK, database, memory
  <2> QED
    BY <2>1, <2>2, <2>3, <2>4, <2>5, <2>6 DEF Inv
<1>22. ASSUME NEW i \in Instances, Restart(i) PROVE Inv'
  <2>a. EmptyCache \in Cache /\ IndexMatches(EmptyCache) /\ \A t \in Tokens : EmptyCache.entries[t] = NoEntry
    BY CacheAssumption DEF EmptyCache, Cache, NoEntry, Entry, IndexMatches
  <2>1. TypeOK'
    <3>1. NoCall("off") \in CallRec /\ NoCall("rest") \in CallRec
      BY CallRecs DEF CallStages
    <3>2. calls' \in [Callers -> CallRec]
      BY <1>22, <3>1 DEF Restart, TypeOK
    <3>3. handlers' \in [Callers -> HandlerRec]
      BY <1>22 DEF Restart, TypeOK, NoHandler, HandlerRec, HandlerStages
    <3>4. cache' \in [Instances -> Cache]
      BY <1>22, <2>a DEF Restart, TypeOK
    <3>5. tracker' \in [Instances -> [Workers -> 0 .. MinInterval]]
      BY <1>22, HeartbeatAssumption DEF Restart, TypeOK
    <3>6. revoking' \in [Workers -> [stage : {"none", "clear", "revoke", "done"},
                                     inst : Instances \cup {NoInstance}]]
      BY <1>22 DEF Restart, TypeOK
    <3>7. slow' \subseteq Callers /\ faults' \in 0 .. MaxFaults
      BY <1>22, AuthAssumption DEF Restart, Fault, TypeOK
    <3> QED
      BY <1>22, <3>2, <3>3, <3>4, <3>5, <3>6, <3>7 DEF Restart, TypeOK, database
  <2>2. CallsOK'
    BY <1>22 DEF Restart, Fault, TypeOK, CallsOK, Callers, CallRec, HandlerRec, NoCall, database, memory
  <2>3. HandlersOK'
    BY <1>22 DEF Restart, Fault, TypeOK, HandlersOK, NoHandler, database, memory
  <2>4. RevokingOK'
    BY <1>22 DEF Restart, Fault, TypeOK, RevokingOK, database, memory
  <2>5. RowsOK'
    BY <1>22 DEF Restart, Fault, TypeOK, RowsOK, HandlersOK, WorkerRow, database, memory
  <2>6. CachesOK'
    <3>1. cache' = [cache EXCEPT ![i] = EmptyCache] /\ UNCHANGED expired
      BY <1>22 DEF Restart, database
    <3> QED
      BY <2>a, <3>1, CacheKept
  <2> QED
    BY <2>1, <2>2, <2>3, <2>4, <2>5, <2>6 DEF Inv
<1>23. ASSUME MarkWorkerInactive PROVE Inv'
  <2>1. TypeOK'
    <3>1. rows' \in [Workers -> WorkerRow]
      <4>1. \A w \in Workers : /\ rows[w] \in WorkerRow
                               /\ [rows[w] EXCEPT !.status = "inactive"] \in WorkerRow
        BY RowTypes DEF TypeOK, Statuses
      <4> QED
        BY <1>23, <4>1 DEF MarkWorkerInactive
    <3> QED
      BY <1>23, <3>1 DEF MarkWorkerInactive, TypeOK, memory
  <2>2. CallsOK'
    BY <1>23 DEF MarkWorkerInactive, Unseen, TypeOK, CallsOK, Callers, CallRec, HandlerRec, NoCall, database, memory
  <2>3. HandlersOK'
    BY <1>23 DEF MarkWorkerInactive, Unseen, TypeOK, HandlersOK, NoHandler, database, memory
  <2>4. RevokingOK'
    BY <1>23 DEF MarkWorkerInactive, Unseen, TypeOK, RevokingOK, database, memory
  <2>5. RowsOK'
    BY <1>23 DEF MarkWorkerInactive, Unseen, TypeOK, RowsOK, HandlersOK, WorkerRow, database, memory
  <2>6. CachesOK'
    BY <1>23 DEF MarkWorkerInactive, Unseen, TypeOK, CachesOK, EntriesOK, database, memory
  <2> QED
    BY <2>1, <2>2, <2>3, <2>4, <2>5, <2>6 DEF Inv
<1>24. ASSUME Tick PROVE Inv'
  <2>a. ASSUME NEW i \in Instances
        PROVE  /\ cache'[i] \in Cache /\ IndexMatches(cache'[i]) /\ cache'[i] = Aged(cache[i])
               /\ \A t \in Tokens :
                    /\ cache'[i].entries[t].worker = cache[i].entries[t].worker
                    /\ cache'[i].entries[t].left \in -1 .. TTL
                    /\ cache'[i].entries[t].left >= 0 =>
                         cache'[i].entries[t].left = cache[i].entries[t].left - 1
    <3>1. cache'[i] = Aged(cache[i])
      BY <1>24 DEF Tick
    <3>2. cache[i] \in Cache /\ IndexMatches(cache[i])
      BY StateTypes DEF CachesOK
    <3>3. \A k \in Cache, t \in Tokens : k.entries[t].left \in -1 .. TTL
      BY DEF Cache, Entry
    <3> QED
      BY <3>1, <3>2, <3>3, AgedKeeps
  <2>1. TypeOK'
    <3>1. rows' \in [Workers -> WorkerRow]
      <4>1. \A n \in 0 .. StatusAfter + 1 : UpTo(n, StatusAfter + 1) \in 0 .. StatusAfter + 1
        BY HeartbeatAssumption DEF UpTo
      <4>2. 0 \in 0 .. StatusAfter + 1
        BY HeartbeatAssumption
      <4>3. ASSUME NEW w \in Workers
            PROVE  [rows[w] EXCEPT !.seen = IF rows[w].status = "none" THEN 0
                                            ELSE UpTo(@, StatusAfter + 1)] \in WorkerRow
        BY <4>1, <4>2, StateTypes DEF WorkerRow
      <4> QED
        BY <1>24, <4>3 DEF Tick
    <3>2. cache' \in [Instances -> Cache]
      <4>1. cache' = [i \in Instances |-> cache'[i]]
        BY <1>24 DEF Tick
      <4> QED
        BY <2>a, <4>1
    <3>3. tracker' \in [Instances -> [Workers -> 0 .. MinInterval]]
      <4>1. \A n \in 0 .. MinInterval : (IF n = 0 THEN 0 ELSE n - 1) \in 0 .. MinInterval
        BY HeartbeatAssumption
      <4>2. \A i \in Instances, w \in Workers : tracker[i][w] \in 0 .. MinInterval
        BY DEF TypeOK
      <4> QED
        BY <1>24, <4>1, <4>2 DEF Tick
    <3>4. calls' \in [Callers -> CallRec]
      <4>1. NoCall("ready") \in CallRec
        BY CallRecs DEF CallStages
      <4> QED
        BY <1>24, <4>1 DEF Tick, TypeOK
    <3>5. quiet' \in [Workers -> 0 .. HealthyAfter + 1]
      BY <1>24, HeartbeatAssumption DEF Tick, UpTo, TypeOK
    <3>6. expired' \in [Tokens -> 0 .. TTL + 1]
      BY <1>24, CacheAssumption DEF Tick, UpTo, TypeOK
    <3> QED
      BY <1>24, <3>1, <3>2, <3>3, <3>4, <3>5, <3>6 DEF Tick, TypeOK
  <2>2. CallsOK'
    BY <1>24 DEF Tick, UpTo, TypeOK, CallsOK, Callers, CallRec, HandlerRec, NoCall, database, memory
  <2>3. HandlersOK'
    BY <1>24 DEF Tick, UpTo, TypeOK, HandlersOK, NoHandler, database, memory
  <2>4. RevokingOK'
    BY <1>24 DEF Tick, UpTo, TypeOK, RevokingOK, database, memory
  <2>5. RowsOK'
    BY <1>24 DEF Tick, UpTo, TypeOK, RowsOK, HandlersOK, WorkerRow, database, memory
  <2>6. CachesOK'
    <3>1. ASSUME NEW i \in Instances, NEW t \in Tokens, cache'[i].entries[t].left >= 0
          PROVE  expired'[t] + cache'[i].entries[t].left <= TTL
      <4>1. /\ cache[i].entries[t].left = cache'[i].entries[t].left + 1
            /\ cache[i].entries[t].left \in -1 .. TTL /\ expired[t] \in 0 .. TTL + 1
        BY <2>a, <3>1, StateTypes
      <4>2. cache[i].entries[t].worker # NoWorker /\ expired[t] + cache[i].entries[t].left <= TTL
        <5>1. cache[i].entries[t].left >= 0 /\ cache[i].entries[t].left # -1
          BY <2>a, <3>1, <4>1, CacheAssumption
        <5> QED
          BY <5>1 DEF CachesOK, EntriesOK
      <4>3. t \notin Unused
        BY <4>2 DEF Unused, Cached
      <4>4. expired'[t] = 0 \/ expired'[t] = UpTo(expired[t], TTL + 1)
        BY <1>24, <4>3 DEF Tick
      <4>5. expired'[t] <= expired[t] + 1
        BY <4>1, <4>4, CacheAssumption DEF UpTo
      <4>6. expired'[t] \in Int
        BY <4>1, <4>4, CacheAssumption DEF UpTo
      <4>7. cache'[i].entries[t].left \in -1 .. TTL
        BY <2>a
      <4> QED
        BY <4>1, <4>2, <4>5, <4>6, <4>7, CacheAssumption
    <3>2. ASSUME NEW i \in Instances, NEW t \in Tokens, cache'[i].entries[t].worker = NoWorker
          PROVE  cache'[i].entries[t].left = -1
      <4>1. cache[i].entries[t].left = -1
        BY <2>a, <3>2 DEF CachesOK, EntriesOK
      <4>2. cache'[i].entries[t].left \in -1 .. TTL
        BY <2>a
      <4>3. ~(cache'[i].entries[t].left >= 0)
        BY <2>a, <4>1, <4>2, CacheAssumption
      <4> QED
        BY <4>2, <4>3, CacheAssumption
    <3>3. \A i \in Instances : IndexMatches(cache[i])'
      BY <2>a DEF IndexMatches
    <3> QED
      BY <3>1, <3>2, <3>3 DEF CachesOK, EntriesOK
  <2> QED
    BY <2>1, <2>2, <2>3, <2>4, <2>5, <2>6 DEF Inv
<1>25. CASE UNCHANGED vars
  BY <1>25 DEF vars, Inv, TypeOK, CallsOK, HandlersOK, RevokingOK, RowsOK, CachesOK, EntriesOK
<1> QED
  <2>1. \A r \in Routines : Reaches[r] \in SUBSET Instances
    BY RoutingAssumption
  <2>2. \A c \in Callers : c[2] \in Routines
    BY DEF Callers
  <2>3. Poll \in Routines
    BY DEF Routines
  <2> QED
    BY <1>1, <1>2, <1>3, <1>4, <1>5, <1>6, <1>7, <1>8, <1>9, <1>10, <1>11, <1>12, <1>13, <1>14,
       <1>15, <1>16, <1>17, <1>18, <1>19, <1>20, <1>21, <1>22, <1>23, <1>24, <1>25, <2>1, <2>2, <2>3
       DEF Next, CallStep, HandlerStep

\* The invariant holds initially.
LEMMA InitInv == Init => Inv
<1> SUFFICES ASSUME Init PROVE Inv
  OBVIOUS
<1>1. /\ EmptyCache \in Cache /\ IndexMatches(EmptyCache)
      /\ \A t \in Tokens : EmptyCache.entries[t].left = -1
  BY CacheAssumption DEF EmptyCache, Cache, NoEntry, Entry, IndexMatches
<1>2. NoCall("off") \in CallRec /\ NoCall("off").stage = "off"
  BY CallRecs DEF CallStages
<1>3. NoHandler \in HandlerRec /\ NoHandler.stage = "none"
  BY DEF NoHandler, HandlerRec, HandlerStages
<1>4. \A w \in Workers : rows[w] \in WorkerRow /\ rows[w].token = NoToken
  BY HeartbeatAssumption DEF Init, WorkerRow, Statuses
<1>5. TypeOK
  <2>1. rows \in [Workers -> WorkerRow] /\ held \in [Workers -> Tokens \cup {NoToken}]
    BY <1>4 DEF Init
  <2>2. cache \in [Instances -> Cache] /\ tracker \in [Instances -> [Workers -> 0 .. MinInterval]]
    BY <1>1, HeartbeatAssumption DEF Init
  <2>3. calls \in [Callers -> CallRec] /\ handlers \in [Callers -> HandlerRec]
    BY <1>2, <1>3 DEF Init
  <2>4. /\ revoking \in [Workers -> [stage : {"none", "clear", "revoke", "done"},
                                     inst : Instances \cup {NoInstance}]]
        /\ slow \subseteq Callers
    BY DEF Init
  <2>5. /\ quiet \in [Workers -> 0 .. HealthyAfter + 1] /\ expired \in [Tokens -> 0 .. TTL + 1]
        /\ faults \in 0 .. MaxFaults
    BY HeartbeatAssumption, CacheAssumption, AuthAssumption DEF Init
  <2> QED
    BY <2>1, <2>2, <2>3, <2>4, <2>5 DEF TypeOK
<1>6. CallsOK /\ HandlersOK /\ RevokingOK
  BY <1>2, <1>3 DEF Init, CallsOK, HandlersOK, RevokingOK
<1>7. RowsOK
  BY <1>4, AuthAssumption DEF RowsOK
<1>8. CachesOK
  <2>1. \A i \in Instances : cache[i] = EmptyCache
    BY DEF Init
  <2> QED
    BY <1>1, <2>1 DEF CachesOK, EntriesOK, IndexMatches
<1> QED
  BY <1>5, <1>6, <1>7, <1>8 DEF Inv

LEMMA InvHolds == Spec => []Inv
BY InitInv, InvKept, PTL DEF Spec

-----------------------------------------------------------------------------
(* What follows *)

\* Every state of the worker rows, of the instances' memory and of what is in
\* flight has its types: the heartbeat tracker never counts past its interval, no
\* cache entry outlives the TTL.
THEOREM TypesKept == Spec => []TypeOK
<1>1. Inv => TypeOK
  BY DEF Inv
<1> QED
  BY <1>1, InvHolds, PTL

\* Set, Get, InvalidateWorker and evictLocked keep the index of every auth cache
\* equal to its entries, whatever hands tokens are passed to and whatever is evicted.
THEOREM IndexKept == Spec => []CacheIndexed
<1>1. Inv => CacheIndexed
  BY DEF Inv, CachesOK, CacheIndexed
<1> QED
  BY <1>1, InvHolds, PTL

\* A call that was sent is served at once only by the cache.
LEMMA SentStep ==
    ASSUME Inv, [Next]_vars, NEW c \in Callers,
           calls[c].stage = "sent", calls'[c].stage \in {"write", "rest"}
    PROVE  \E i \in Instances : Authenticate(c, i) /\ Lookup(cache[i], calls[c].token) # NoWorker
<1> DEFINE Goal == \E i \in Instances :
                     Authenticate(c, i) /\ Lookup(cache[i], calls[c].token) # NoWorker
<1> SUFFICES Goal
  OBVIOUS
<1>0. calls \in [Callers -> CallRec] /\ TypeOK /\ CallsOK
  BY DEF Inv, TypeOK
<1>1. ASSUME UNCHANGED calls PROVE Goal
  BY <1>1
<1>2. ASSUME NEW d \in Callers, calls[d].stage # "sent", NEW r, calls' = [calls EXCEPT ![d] = r]
      PROVE  Goal
  BY <1>0, <1>2
<1>3. ASSUME NEW w \in Workers, NEW i \in Instances, Enroll(w, i) PROVE Goal
  <2>1. <<w, Poll>> \in Callers
    BY DEF Callers, Routines
  <2> QED
    BY <1>2, <1>3, <2>1 DEF Enroll, Start
<1>4. ASSUME NEW w \in Workers, NEW i \in Instances, Revoke(w, i) PROVE Goal
  BY <1>1, <1>4 DEF Revoke
<1>5. ASSUME NEW w \in Workers, ClearToken(w) \/ RevokeWorker(w) \/ RevokeFails(w) PROVE Goal
  BY <1>1, <1>5 DEF ClearToken, RevokeWorker, RevokeFails
<1>6. ASSUME NEW d \in Callers, InsertWorker(d) \/ RotateToken(d) \/ Slow(d) PROVE Goal
  BY <1>1, <1>6 DEF InsertWorker, RotateToken, Slow
<1>7. ASSUME NEW d \in Callers, Send(d) \/ LookUpToken(d) \/ LookUpFails(d) PROVE Goal
  BY <1>2, <1>7 DEF Send, LookUpToken, LookUpFails, Denied, At
<1>8. ASSUME NEW d \in Callers, FillCache(d) PROVE Goal
  BY <1>2, <1>8 DEF FillCache, Accepted, Rests
<1>9. ASSUME NEW d \in Callers,
             WriteHeartbeat(d) \/ HeartbeatFails(d) \/ DenialIsFinal(d) \/ RefreshTimesOut(d)
      PROVE  Goal
  BY <1>2, <1>9 DEF WriteHeartbeat, HeartbeatFails, DenialIsFinal, RefreshTimesOut, Rests
<1>10. ASSUME NEW d \in Callers, NEW i \in Instances, Refresh(d, i) PROVE Goal
  BY <1>2, <1>10 DEF Refresh, Start
<1>11. ASSUME NEW d \in Callers, NEW stage, Answered(d, stage) PROVE Goal
  BY <1>1, <1>2, <1>11 DEF Answered
<1>12. ASSUME NEW d \in Callers, CheckStatus(d) \/ HandlerFails(d) PROVE Goal
  BY <1>1, <1>11, <1>12 DEF CheckStatus, HandlerFails
<1>13. ASSUME NEW d \in Callers, PublishToken(d) PROVE Goal
  BY <1>0, <1>1, <1>13 DEF PublishToken
<1>14. ASSUME NEW d \in Callers, NEW i \in Instances, Authenticate(d, i) PROVE Goal
  <2>1. CASE d # c
    BY <1>0, <1>14, <2>1 DEF Authenticate, Accepted, Rests
  <2>2. CASE d = c /\ Lookup(cache[i], calls[c].token) = NoWorker
    BY <1>0, <1>14, <2>2 DEF Authenticate, CallRec
  <2> QED
    BY <1>14, <2>1, <2>2
<1>15. ASSUME NEW i \in Instances, Restart(i) PROVE Goal
  <2>1. calls[c].inst # i
    BY <1>0, AuthAssumption DEF CallsOK
  <2> QED
    BY <1>15, <2>1 DEF Restart
<1>16. ASSUME MarkWorkerInactive PROVE Goal
  BY <1>1, <1>16 DEF MarkWorkerInactive
<1>17. ASSUME Tick PROVE Goal
  BY <1>17 DEF Tick
<1>18. ASSUME UNCHANGED vars PROVE Goal
  BY <1>1, <1>18 DEF vars
<1> QED
  <2>1. \A r \in Routines : Reaches[r] \in SUBSET Instances
    BY RoutingAssumption
  <2>2. (\A d \in Callers : d[2] \in Routines) /\ Poll \in Routines
    BY DEF Callers, Routines
  <2> QED
    BY <1>3, <1>4, <1>5, <1>6, <1>7, <1>8, <1>9, <1>10, <1>12, <1>13, <1>14, <1>15, <1>16, <1>17,
       <1>18, <2>1, <2>2 DEF Next, CallStep, HandlerStep

\* No instance accepts a token for longer than a TTL after SetWorkerToken replaced
\* or cleared it, however many instances there are, and whatever restarts, rotations
\* and revocations overtake the look-ups that fill the caches.
THEOREM TokensAreRecent == Spec => AcceptedTokensAreRecent
<1>1. ASSUME Inv, [Next]_vars, NEW c \in Callers,
             calls[c].stage \in {"sent", "fill"}, calls'[c].stage \in {"write", "rest"}
      PROVE  expired[calls[c].token] <= TTL
  <2>1. TypeOK /\ CallsOK /\ CachesOK
    BY <1>1 DEF Inv
  <2>2. CASE calls[c].stage = "fill"
    BY <2>1, <2>2, CacheAssumption DEF CallsOK
  <2>3. CASE calls[c].stage = "sent"
    <3>1. PICK i \in Instances : Lookup(cache[i], calls[c].token) # NoWorker
      BY <1>1, <2>3, SentStep
    <3>2. calls[c].token \in Tokens
      BY <2>1, <2>3 DEF CallsOK
    <3>3. /\ cache[i].entries[calls[c].token].left \in -1 .. TTL
          /\ expired[calls[c].token] \in 0 .. TTL + 1
      BY <2>1, <3>2, StateTypes
    <3>4. cache[i].entries[calls[c].token].left >= 0
      BY <3>1, <3>2, <3>3, CacheAssumption DEF Lookup, Stale, Cached
    <3>5. expired[calls[c].token] + cache[i].entries[calls[c].token].left <= TTL
      BY <2>1, <3>2, <3>4 DEF CachesOK, EntriesOK
    <3> QED
      BY <3>3, <3>4, <3>5, CacheAssumption
  <2> QED
    BY <1>1, <2>2, <2>3
<1>2. Inv /\ [Next]_vars
        => [\A c \in Callers :
              calls[c].stage \in {"sent", "fill"} /\ calls'[c].stage \in {"write", "rest"}
                => calls[c].token = NoToken \/ expired[calls[c].token] <= TTL]_vars
  BY <1>1
<1> QED
  BY <1>2, InvHolds, PTL DEF Spec, AcceptedTokensAreRecent

\* A handler that stops publishing has published, or its instance was restarted.
LEMMA PublishStep ==
    ASSUME Inv, [Next]_vars, NEW c \in Callers,
           handlers[c].stage = "publish", handlers'[c].stage = "none"
    PROVE  PublishToken(c) \/ Restart(handlers[c].inst)
<1> DEFINE Goal == PublishToken(c) \/ Restart(handlers[c].inst)
<1> SUFFICES Goal
  OBVIOUS
<1>0. handlers \in [Callers -> HandlerRec]
  BY DEF Inv, TypeOK
<1>1. ASSUME UNCHANGED handlers PROVE Goal
  BY <1>1
<1>2. ASSUME NEW d \in Callers, handlers[d].stage # "publish", NEW h,
             handlers' = [handlers EXCEPT ![d] = h]
      PROVE  Goal
  BY <1>0, <1>2
<1>3. ASSUME NEW w \in Workers, NEW i \in Instances, Enroll(w, i) PROVE Goal
  <2>1. <<w, Poll>> \in Callers
    BY DEF Callers, Routines
  <2> QED
    BY <1>2, <1>3, <2>1 DEF Enroll, Start, NoHandler
<1>4. ASSUME NEW w \in Workers, NEW i \in Instances, Revoke(w, i) PROVE Goal
  BY <1>1, <1>4 DEF Revoke
<1>5. ASSUME NEW w \in Workers, ClearToken(w) \/ RevokeWorker(w) \/ RevokeFails(w) PROVE Goal
  BY <1>1, <1>5 DEF ClearToken, RevokeWorker, RevokeFails
<1>6. ASSUME NEW d \in Callers,
             \/ Send(d) \/ LookUpToken(d) \/ LookUpFails(d) \/ FillCache(d) \/ WriteHeartbeat(d)
             \/ HeartbeatFails(d) \/ DenialIsFinal(d) \/ RefreshTimesOut(d) \/ Slow(d)
             \/ \E i \in Instances : Authenticate(d, i)
      PROVE  Goal
  BY <1>1, <1>6 DEF Send, LookUpToken, LookUpFails, FillCache, WriteHeartbeat, HeartbeatFails,
                    DenialIsFinal, RefreshTimesOut, Slow, Authenticate
<1>7. ASSUME NEW d \in Callers, NEW i \in Instances, Refresh(d, i) PROVE Goal
  BY <1>2, <1>7 DEF Refresh, Start, NoHandler
<1>8. ASSUME NEW d \in Callers, InsertWorker(d) \/ CheckStatus(d) \/ HandlerFails(d) PROVE Goal
  BY <1>2, <1>8 DEF InsertWorker, CheckStatus, HandlerFails, WithNewToken, Answered
<1>9. ASSUME NEW d \in Callers, RotateToken(d) PROVE Goal
  BY <1>0, <1>9 DEF RotateToken
<1>10. ASSUME NEW d \in Callers, PublishToken(d) PROVE Goal
  <2>1. CASE d = c
    BY <1>10, <2>1
  <2>2. CASE d # c
    BY <1>0, <1>10, <2>2 DEF PublishToken
  <2> QED
    BY <2>1, <2>2
<1>11. ASSUME NEW i \in Instances, Restart(i) PROVE Goal
  BY <1>11 DEF Restart
<1>12. ASSUME MarkWorkerInactive PROVE Goal
  BY <1>1, <1>12 DEF MarkWorkerInactive
<1>13. ASSUME Tick \/ UNCHANGED vars PROVE Goal
  BY <1>1, <1>13 DEF Tick, vars
<1> QED
  <2>1. \A r \in Routines : Reaches[r] \in SUBSET Instances
    BY RoutingAssumption
  <2>2. (\A d \in Callers : d[2] \in Routines) /\ Poll \in Routines
    BY DEF Callers, Routines
  <2> QED
    BY <1>3, <1>4, <1>5, <1>6, <1>7, <1>8, <1>9, <1>10, <1>11, <1>12, <1>13, <2>1, <2>2
       DEF Next, CallStep, HandlerStep

\* After RenewEnrollment has rotated a worker's token, the cache of its instance
\* knows the worker by no other token, even if evictions and tokens that changed
\* hands came before.
THEOREM RotationsPurge == Spec => RotationPurges
<1>1. ASSUME Inv, [Next]_vars, NEW c \in Callers,
             handlers[c].stage = "publish", handlers'[c].stage = "none", NEW t \in Tokens,
             cache'[handlers[c].inst].entries[t].worker = c[1]
      PROVE  t = handlers[c].token
  <2> DEFINE i == handlers[c].inst
             p == InvalidateWorker(cache[i], c[1])
  <2>1. /\ i \in Instances /\ handlers[c].token \in Tokens /\ c[1] \in Workers
        /\ cache \in [Instances -> Cache]
    BY <1>1, StateTypes DEF Inv, HandlersOK, TypeOK
  <2>2. cache[i] \in Cache /\ IndexMatches(cache[i])
    BY <2>1, <1>1 DEF Inv, CachesOK
  <2>3. CASE Restart(i)
    <3>1. cache'[i] = EmptyCache
      BY <2>1, <2>3 DEF Restart
    <3> QED
      BY <1>1, <2>1, <3>1, CacheAssumption DEF EmptyCache, NoEntry
  <2>4. CASE PublishToken(c)
    <3>1. PICK k \in SetToken(p, handlers[c].token, c[1]) : cache' = [cache EXCEPT ![i] = k]
      BY <2>4 DEF PublishToken
    <3>2. /\ p \in Cache /\ IndexMatches(p)
          /\ \A u \in Tokens : p.entries[u].worker # c[1]
      BY <2>1, <2>2, InvalidateKeeps
    <3> HIDE DEF i, p
    <3>3. \A u \in Tokens : \/ k.entries[u] = NoEntry
                            \/ u # handlers[c].token /\ k.entries[u] = p.entries[u]
                            \/ /\ u = handlers[c].token
                               /\ k.entries[u] = [worker |-> c[1], left |-> TTL]
      BY <2>1, <3>1, <3>2, SetTokenKeeps
    <3>4. cache'[i] = k
      BY <2>1, <3>1
    <3>5. k.entries[t].worker = c[1]
      BY <1>1, <3>4 DEF i
    <3> QED
      BY <2>1, <3>2, <3>3, <3>5, CacheAssumption DEF NoEntry
  <2> QED
    BY <1>1, <2>3, <2>4, PublishStep
<1>2. Inv /\ [Next]_vars
        => [\A c \in Callers :
              handlers[c].stage = "publish" /\ handlers'[c].stage = "none"
                => \A t \in Tokens : cache'[handlers[c].inst].entries[t].worker = c[1]
                                     => t = handlers[c].token]_vars
  BY <1>1
<1> QED
  BY <1>2, InvHolds, PTL DEF Spec, RotationPurges

-----------------------------------------------------------------------------
(* A revocation that has settled is final *)

\* What the state associates with a worker.
Knows(w, t) ==
    \/ rows[w].token = t \/ held[w] = t
    \/ \E r \in Routines : calls[<<w, r>>].token = t \/ handlers[<<w, r>>].token = t
    \/ \E i \in Instances : cache[i].entries[t].worker = w

\* No two workers ever share a token.
OwnedOK == \A w, x \in Workers, t \in Tokens : Knows(w, t) /\ Knows(x, t) => w = x

\* Tokens are forgotten, and none is passed on.
RowsShrink == \A w \in Workers : rows'[w].token \in {rows[w].token, NoToken}
CallsShrink == \A c \in Callers : calls'[c].token \in {calls[c].token, NoToken}
HandlersShrink == \A c \in Callers : handlers'[c].token \in {handlers[c].token, NoToken}
CachesShrink ==
    \A i \in Instances, t \in Tokens :
        cache'[i].entries[t].worker \in {cache[i].entries[t].worker, NoWorker}
Shrinks == RowsShrink /\ CallsShrink /\ HandlersShrink /\ CachesShrink /\ UNCHANGED held

\* The tokens of calls and handlers that rest.
LEMMA RestTokens ==
    /\ \A s : NoCall(s).token = NoToken
    /\ \A c, s, again : Retry(c, s, again).token = NoToken
    /\ NoHandler.token = NoToken /\ NoEntry.worker = NoWorker
BY DEF NoCall, Retry, NoHandler, NoEntry

\* A call that is accepted has no further use for its token.
LEMMA AcceptedShrinks ==
    ASSUME TypeOK, NEW c \in Callers, NEW i, NEW w, Accepted(c, i, w)
    PROVE  CallsShrink
<1>1. [NoCall("write") EXCEPT !.inst = i].token = NoToken
  BY DEF NoCall
<1>2. calls' = [calls EXCEPT ![c] = NoCall("rest")]
      \/ calls' = [calls EXCEPT ![c] = [NoCall("write") EXCEPT !.inst = i]]
  BY DEF Accepted, Rests
<1>3. \E r : r.token = NoToken /\ calls' = [calls EXCEPT ![c] = r]
  BY <1>1, <1>2, RestTokens
<1> QED
  BY <1>3 DEF CallsShrink, TypeOK

\* Most actions pass no token on.
LEMMA MostShrink ==
    ASSUME Inv,
           \/ \E w \in Workers, i \in Instances : Enroll(w, i) \/ Revoke(w, i)
           \/ \E w \in Workers : ClearToken(w) \/ RevokeWorker(w) \/ RevokeFails(w)
           \/ \E c \in Callers :
                \/ LookUpToken(c) \/ LookUpFails(c) \/ WriteHeartbeat(c) \/ HeartbeatFails(c)
                \/ DenialIsFinal(c) \/ HandlerFails(c) \/ RefreshTimesOut(c) \/ Slow(c)
                \/ \E i \in Instances : Authenticate(c, i) \/ Refresh(c, i)
           \/ \E i \in Instances : Restart(i)
           \/ MarkWorkerInactive \/ Tick \/ UNCHANGED vars
    PROVE  Shrinks
<1>0. TypeOK /\ CallsOK /\ HandlersOK /\ RevokingOK /\ CachesOK
  BY DEF Inv
<1>1. /\ rows \in [Workers -> WorkerRow]
      /\ calls \in [Callers -> CallRec] /\ handlers \in [Callers -> HandlerRec]
      /\ cache \in [Instances -> Cache] /\ \A i \in Instances : IndexMatches(cache[i])
  BY <1>0 DEF TypeOK, CachesOK
<1> USE <1>1, RestTokens
<1>2. ASSUME NEW w \in Workers, NEW i \in Instances, Enroll(w, i) \/ Revoke(w, i) PROVE Shrinks
  <2>1. RowsShrink /\ CachesShrink /\ UNCHANGED held
    BY <1>2 DEF Enroll, Revoke, RowsShrink, CachesShrink, database, memory
  <2>2. CallsShrink
    BY <1>2 DEF Enroll, Revoke, Start, CallsShrink
  <2>3. HandlersShrink
    BY <1>2 DEF Enroll, Revoke, Start, HandlersShrink
  <2> QED
    BY <2>1, <2>2, <2>3 DEF Shrinks
<1>3. ASSUME NEW w \in Workers, ClearToken(w) PROVE Shrinks
  <2> DEFINE i == revoking[w].inst
             k == InvalidateWorker(cache[i], w)
  <2>1. i \in Instances
    BY <1>0, <1>3 DEF ClearToken, RevokingOK
  <2>2. \A t \in Tokens : k.entries[t] = NoEntry \/ k.entries[t] = cache[i].entries[t]
    BY <2>1, InvalidateKeeps
  <2>3. cache' = [cache EXCEPT ![i] = k]
    BY <1>3 DEF ClearToken
  <2> HIDE DEF i, k
  <2>4. CachesShrink
    BY <2>2, <2>3 DEF CachesShrink
  <2>5. RowsShrink
    BY <1>3 DEF ClearToken, RowsShrink, WorkerRow
  <2>6. CallsShrink /\ HandlersShrink /\ UNCHANGED held
    BY <1>3 DEF ClearToken, CallsShrink, HandlersShrink
  <2> QED
    BY <2>4, <2>5, <2>6 DEF Shrinks
<1>4. ASSUME NEW w \in Workers, RevokeWorker(w) \/ RevokeFails(w) PROVE Shrinks
  <2>1. RowsShrink
    BY <1>4 DEF RevokeWorker, RevokeFails, RowsShrink, WorkerRow, database
  <2>2. CallsShrink /\ HandlersShrink /\ CachesShrink /\ UNCHANGED held
    BY <1>4 DEF RevokeWorker, RevokeFails, CallsShrink, HandlersShrink, CachesShrink, memory
  <2> QED
    BY <2>1, <2>2 DEF Shrinks
<1>5. ASSUME NEW c \in Callers, LookUpToken(c) \/ LookUpFails(c) \/ Slow(c) PROVE Shrinks
  <2>1. CallsShrink
    BY <1>5 DEF LookUpToken, LookUpFails, Slow, Denied, At, CallsShrink, CallRec
  <2>2. RowsShrink /\ HandlersShrink /\ CachesShrink /\ UNCHANGED held
    BY <1>5 DEF LookUpToken, LookUpFails, Slow, RowsShrink, HandlersShrink, CachesShrink,
                database, memory
  <2> QED
    BY <2>1, <2>2 DEF Shrinks
<1>6. ASSUME NEW c \in Callers,
             WriteHeartbeat(c) \/ HeartbeatFails(c) \/ DenialIsFinal(c) \/ RefreshTimesOut(c)
      PROVE  Shrinks
  <2>1. CallsShrink
    BY <1>6 DEF WriteHeartbeat, HeartbeatFails, DenialIsFinal, RefreshTimesOut, Rests, CallsShrink
  <2>2. RowsShrink
    <3>1. CASE WriteHeartbeat(c)
      BY <3>1 DEF WriteHeartbeat, RowsShrink, WorkerRow
    <3>2. CASE HeartbeatFails(c) \/ DenialIsFinal(c) \/ RefreshTimesOut(c)
      BY <3>2 DEF HeartbeatFails, DenialIsFinal, RefreshTimesOut, RowsShrink, database
    <3> QED
      BY <1>6, <3>1, <3>2
  <2>3. HandlersShrink /\ CachesShrink /\ UNCHANGED held
    BY <1>6 DEF WriteHeartbeat, HeartbeatFails, DenialIsFinal, RefreshTimesOut, HandlersShrink,
                CachesShrink, memory
  <2> QED
    BY <2>1, <2>2, <2>3 DEF Shrinks
<1>7. ASSUME NEW c \in Callers, HandlerFails(c) PROVE Shrinks
  <2>1. CallsShrink /\ HandlersShrink
    BY <1>7 DEF HandlerFails, Answered, CallsShrink, HandlersShrink
  <2>2. RowsShrink /\ CachesShrink /\ UNCHANGED held
    BY <1>7 DEF HandlerFails, RowsShrink, CachesShrink, database, memory
  <2> QED
    BY <2>1, <2>2 DEF Shrinks
<1>8. ASSUME NEW c \in Callers, NEW i \in Instances, Authenticate(c, i) PROVE Shrinks
  <2> DEFINE k == AfterLookup(cache[i], calls[c].token)
  <2>1. \A t \in Tokens : k.entries[t] = NoEntry \/ k.entries[t] = cache[i].entries[t]
    BY AfterLookupKeeps
  <2>2. cache' = [cache EXCEPT ![i] = k]
    BY <1>8 DEF Authenticate
  <2> HIDE DEF k
  <2>3. CachesShrink
    BY <2>1, <2>2 DEF CachesShrink
  <2>4. CallsShrink
    <3>1. CASE Accepted(c, i, Lookup(cache[i], calls[c].token))
      BY <1>0, <3>1, AcceptedShrinks
    <3>2. CASE calls' = [calls EXCEPT ![c] = [calls[c] EXCEPT !.stage = "lookup", !.inst = i]]
      BY <3>2 DEF CallsShrink, CallRec
    <3> QED
      BY <1>8, <3>1, <3>2 DEF Authenticate
  <2>5. RowsShrink /\ HandlersShrink /\ UNCHANGED held
    BY <1>8 DEF Authenticate, RowsShrink, HandlersShrink, database
  <2> QED
    BY <2>3, <2>4, <2>5 DEF Shrinks
<1>9. ASSUME NEW c \in Callers, NEW i \in Instances, Refresh(c, i) PROVE Shrinks
  <2>1. CallsShrink
    BY <1>9 DEF Refresh, Start, CallsShrink
  <2>2. HandlersShrink
    BY <1>9 DEF Refresh, Start, HandlersShrink
  <2>3. RowsShrink /\ CachesShrink /\ UNCHANGED held
    BY <1>9 DEF Refresh, RowsShrink, CachesShrink, database, memory
  <2> QED
    BY <2>1, <2>2, <2>3 DEF Shrinks
<1>10. ASSUME NEW i \in Instances, Restart(i) PROVE Shrinks
  <2>1. \A t \in Tokens : EmptyCache.entries[t] = NoEntry
    BY DEF EmptyCache
  <2>2. CachesShrink
    BY <1>10, <2>1 DEF Restart, CachesShrink
  <2>3. RowsShrink /\ CallsShrink /\ HandlersShrink /\ UNCHANGED held
    BY <1>10 DEF Restart, RowsShrink, CallsShrink, HandlersShrink, database
  <2> QED
    BY <2>2, <2>3 DEF Shrinks
<1>11. ASSUME MarkWorkerInactive PROVE Shrinks
  <2>1. RowsShrink
    BY <1>11 DEF MarkWorkerInactive, RowsShrink, WorkerRow
  <2>2. CallsShrink /\ HandlersShrink /\ CachesShrink /\ UNCHANGED held
    BY <1>11 DEF MarkWorkerInactive, CallsShrink, HandlersShrink, CachesShrink, memory
  <2> QED
    BY <2>1, <2>2 DEF Shrinks
<1>12. ASSUME Tick PROVE Shrinks
  <2>1. RowsShrink
    BY <1>12 DEF Tick, RowsShrink, WorkerRow
  <2>2. CachesShrink
    BY <1>12, AgedKeeps DEF Tick, CachesShrink
  <2>3. CallsShrink /\ HandlersShrink /\ UNCHANGED held
    BY <1>12 DEF Tick, CallsShrink, HandlersShrink
  <2> QED
    BY <2>1, <2>2, <2>3 DEF Shrinks
<1>13. ASSUME UNCHANGED vars PROVE Shrinks
  BY <1>13 DEF vars, Shrinks, RowsShrink, CallsShrink, HandlersShrink, CachesShrink
<1> QED
  BY <1>2, <1>3, <1>4, <1>5, <1>6, <1>7, <1>8, <1>9, <1>10, <1>11, <1>12, <1>13

\* A step gives no worker a token that it does not know, unless it is new.
LEMMA KnowsStep ==
    ASSUME Inv, [Next]_vars
    PROVE  \/ \A w \in Workers, t \in Tokens : Knows(w, t)' => Knows(w, t)
           \/ \E x \in Workers, u \in Unused : \A w \in Workers, t \in Tokens :
                 Knows(w, t)' => Knows(w, t) \/ (w = x /\ t = u)
<1> DEFINE Same == \A w \in Workers, t \in Tokens : Knows(w, t)' => Knows(w, t)
           Goal == \/ Same
                   \/ \E x \in Workers, u \in Unused : \A w \in Workers, t \in Tokens :
                        Knows(w, t)' => Knows(w, t) \/ (w = x /\ t = u)
<1> SUFFICES Goal
  OBVIOUS
<1>0. TypeOK /\ CallsOK /\ HandlersOK /\ CachesOK
  BY DEF Inv
<1>1. /\ rows \in [Workers -> WorkerRow] /\ held \in [Workers -> Tokens \cup {NoToken}]
      /\ calls \in [Callers -> CallRec] /\ handlers \in [Callers -> HandlerRec]
      /\ cache \in [Instances -> Cache] /\ \A i \in Instances : IndexMatches(cache[i])
  BY <1>0 DEF TypeOK, CachesOK
<1>2. /\ \A c \in Callers : c[1] \in Workers /\ c[2] \in Routines /\ c = <<c[1], c[2]>>
      /\ \A w \in Workers, r \in Routines : <<w, r>> \in Callers
  BY DEF Callers
<1>a. \A c \in Callers : Knows(c[1], calls[c].token) /\ Knows(c[1], handlers[c].token)
  BY <1>2 DEF Knows
<1> USE <1>1, <1>2, RestTokens, CacheAssumption, AuthAssumption
<1>3. ASSUME Shrinks PROVE Goal
  <2>1. ASSUME NEW w \in Workers, NEW t \in Tokens, Knows(w, t)' PROVE Knows(w, t)
    <3>1. CASE rows'[w].token = t \/ held'[w] = t
      BY <1>3, <3>1 DEF Knows, Shrinks, RowsShrink, CallsShrink, HandlersShrink, CachesShrink
    <3>2. CASE \E r \in Routines : calls'[<<w, r>>].token = t \/ handlers'[<<w, r>>].token = t
      BY <1>3, <3>2 DEF Knows, Shrinks, RowsShrink, CallsShrink, HandlersShrink, CachesShrink
    <3>3. CASE \E j \in Instances : cache'[j].entries[t].worker = w
      BY <1>3, <3>3 DEF Knows, Shrinks, RowsShrink, CallsShrink, HandlersShrink, CachesShrink
    <3> QED
      BY <2>1, <3>1, <3>2, <3>3 DEF Knows
  <2> QED
    BY <2>1
<1>4. ASSUME NEW c \in Callers, Send(c) PROVE Goal
  <2>1. \A d \in Callers : calls'[d].token = IF d = c THEN held[c[1]] ELSE calls[d].token
    BY <1>4 DEF Send, CallRec
  <2>2. UNCHANGED <<rows, held, handlers, cache>>
    BY <1>4 DEF Send, database, memory
  <2>3. ASSUME NEW w \in Workers, NEW t \in Tokens, NEW r \in Routines, calls'[<<w, r>>].token = t
        PROVE  Knows(w, t)
    <3>1. <<w, r>> \in Callers /\ (<<w, r>> = c => c[1] = w)
      BY DEF Callers
    <3>2. calls[<<w, r>>].token = t \/ held[w] = t
      BY <2>1, <2>3, <3>1
    <3> QED
      BY <3>2 DEF Knows
  <2>4. ASSUME NEW w \in Workers, NEW t \in Tokens, Knows(w, t)'
        PROVE  Knows(w, t)
    <3>1. CASE \E r \in Routines : calls'[<<w, r>>].token = t
      BY <2>3, <3>1
    <3>2. CASE ~\E r \in Routines : calls'[<<w, r>>].token = t
      BY <2>2, <2>4, <3>2 DEF Knows
    <3> QED
      BY <3>1, <3>2
  <2> QED
    BY <2>4
<1>5. ASSUME NEW c \in Callers, FillCache(c) PROVE Goal
  <2> DEFINE i == calls[c].inst
  <2>1. i \in Instances /\ calls[c].token \in Tokens /\ UNCHANGED <<rows, held, handlers>>
    BY <1>0, <1>5 DEF FillCache, CallsOK, database
  <2>2. CallsShrink
    BY <1>0, <1>5, AcceptedShrinks DEF FillCache
  <2>3. PICK k \in SetToken(cache[i], calls[c].token, c[1]) : cache' = [cache EXCEPT ![i] = k]
    BY <1>5 DEF FillCache
  <2>4. \A u \in Tokens : \/ k.entries[u] = NoEntry
                          \/ u # calls[c].token /\ k.entries[u] = cache[i].entries[u]
                          \/ /\ u = calls[c].token
                             /\ k.entries[u] = [worker |-> c[1], left |-> TTL]
    BY <2>1, <2>3, SetTokenKeeps
  <2> HIDE DEF i
  <2>5. \A j \in Instances, u \in Tokens :
          \/ cache'[j].entries[u].worker \in {cache[j].entries[u].worker, NoWorker}
          \/ cache'[j].entries[u].worker = c[1] /\ u = calls[c].token
    BY <2>3, <2>4
  <2>6. ASSUME NEW w \in Workers, NEW t \in Tokens, Knows(w, t)' PROVE Knows(w, t)
    <3>1. CASE rows'[w].token = t \/ held'[w] = t
      BY <2>1, <2>2, <2>5, <3>1 DEF Knows, CallsShrink
    <3>2. CASE \E r \in Routines : calls'[<<w, r>>].token = t \/ handlers'[<<w, r>>].token = t
      BY <2>1, <2>2, <2>5, <3>2 DEF Knows, CallsShrink
    <3>3. CASE \E j \in Instances : cache'[j].entries[t].worker = w
      <4>1. PICK j \in Instances : cache'[j].entries[t].worker = w
        BY <3>3
      <4>2. CASE cache[j].entries[t].worker = w
        BY <4>2 DEF Knows
      <4>3. CASE w = c[1] /\ t = calls[c].token
        BY <1>a, <4>3
      <4> QED
        BY <2>5, <4>1, <4>2, <4>3
    <3> QED
      BY <2>6, <3>1, <3>2, <3>3 DEF Knows
  <2> QED
    BY <2>6
<1>6. ASSUME NEW c \in Callers, RotateToken(c) PROVE Goal
  <2>1. \A w \in Workers : rows'[w].token = IF w = c[1] THEN handlers[c].token ELSE rows[w].token
    BY <1>6 DEF RotateToken, WorkerRow
  <2>2. \A d \in Callers : handlers'[d].token = handlers[d].token
    BY <1>6 DEF RotateToken, HandlerRec
  <2>3. UNCHANGED <<held, calls, cache>>
    BY <1>6 DEF RotateToken, memory
  <2>4. ASSUME NEW w \in Workers, NEW t \in Tokens, Knows(w, t)' PROVE Knows(w, t)
    <3>1. CASE rows'[w].token = t \/ held'[w] = t
      BY <2>1, <2>2, <2>3, <3>1 DEF Knows
    <3>2. CASE \E r \in Routines : calls'[<<w, r>>].token = t \/ handlers'[<<w, r>>].token = t
      BY <2>1, <2>2, <2>3, <3>2 DEF Knows
    <3>3. CASE \E j \in Instances : cache'[j].entries[t].worker = w
      BY <2>1, <2>2, <2>3, <3>3 DEF Knows
    <3> QED
      BY <2>4, <3>1, <3>2, <3>3 DEF Knows
  <2> QED
    BY <2>4
<1>7. ASSUME NEW c \in Callers, PublishToken(c) PROVE Goal
  <2> DEFINE i == handlers[c].inst
             p == InvalidateWorker(cache[i], c[1])
  <2>1. i \in Instances /\ handlers[c].token \in Tokens /\ UNCHANGED rows
    BY <1>0, <1>7 DEF PublishToken, HandlersOK, database
  <2>2. HandlersShrink
    BY <1>7 DEF PublishToken, HandlersShrink
  <2>3. CallsShrink
    BY <1>7 DEF PublishToken, CallsShrink
  <2>4. \A w \in Workers : held'[w] = held[w] \/ (w = c[1] /\ held'[w] = handlers[c].token)
    BY <1>7 DEF PublishToken, Learned
  <2>5. PICK k \in SetToken(p, handlers[c].token, c[1]) : cache' = [cache EXCEPT ![i] = k]
    BY <1>7 DEF PublishToken
  <2>6. /\ p \in Cache /\ IndexMatches(p)
        /\ \A u \in Tokens : p.entries[u] = NoEntry \/ p.entries[u] = cache[i].entries[u]
    BY <2>1, InvalidateKeeps
  <2> HIDE DEF i, p
  <2>7. \A u \in Tokens : \/ k.entries[u] = NoEntry
                          \/ u # handlers[c].token /\ k.entries[u] = p.entries[u]
                          \/ /\ u = handlers[c].token
                             /\ k.entries[u] = [worker |-> c[1], left |-> TTL]
    BY <2>1, <2>5, <2>6, SetTokenKeeps
  <2>8. \A j \in Instances, u \in Tokens :
          \/ cache'[j].entries[u].worker \in {cache[j].entries[u].worker, NoWorker}
          \/ cache'[j].entries[u].worker = c[1] /\ u = handlers[c].token
    BY <2>5, <2>6, <2>7
  <2>9. ASSUME NEW w \in Workers, NEW t \in Tokens, Knows(w, t)' PROVE Knows(w, t)
    <3>1. CASE rows'[w].token = t \/ held'[w] = t
      <4>1. CASE rows[w].token = t \/ held[w] = t
        BY <4>1 DEF Knows
      <4>2. CASE w = c[1] /\ t = handlers[c].token
        BY <1>a, <4>2
      <4> QED
        BY <2>1, <2>4, <3>1, <4>1, <4>2
    <3>2. CASE \E r \in Routines : calls'[<<w, r>>].token = t \/ handlers'[<<w, r>>].token = t
      BY <2>1, <2>2, <2>3, <2>4, <2>8, <3>2 DEF Knows, HandlersShrink, CallsShrink
    <3>3. CASE \E j \in Instances : cache'[j].entries[t].worker = w
      <4>1. PICK j \in Instances : cache'[j].entries[t].worker = w
        BY <3>3
      <4>2. CASE cache[j].entries[t].worker = w
        BY <4>2 DEF Knows
      <4>3. CASE w = c[1] /\ t = handlers[c].token
        BY <1>a, <4>3
      <4> QED
        BY <2>8, <4>1, <4>2, <4>3
    <3> QED
      BY <2>9, <3>1, <3>2, <3>3 DEF Knows
  <2> QED
    BY <2>9
<1>8. ASSUME NEW c \in Callers, WithNewToken(c), RowsShrink, UNCHANGED <<held, calls, cache>>
      PROVE  Goal
  <2>1. PICK u \in Unused : \A d \in Callers : handlers'[d].token = IF d = c THEN u
                                                                    ELSE handlers[d].token
    BY <1>8 DEF WithNewToken, HandlerRec
  <2>2. ASSUME NEW w \in Workers, NEW t \in Tokens, Knows(w, t)'
        PROVE  Knows(w, t) \/ (w = c[1] /\ t = u)
    <3>1. CASE rows'[w].token = t \/ held'[w] = t
      BY <1>8, <3>1 DEF RowsShrink, Knows
    <3>2. CASE \E r \in Routines : calls'[<<w, r>>].token = t \/ handlers'[<<w, r>>].token = t
      <4>1. PICK r \in Routines : calls'[<<w, r>>].token = t \/ handlers'[<<w, r>>].token = t
        BY <3>2
      <4>2. <<w, r>> \in Callers
        BY DEF Callers
      <4>3. CASE <<w, r>> = c
        BY <1>8, <2>1, <4>1, <4>2, <4>3 DEF Knows
      <4>4. CASE <<w, r>> # c
        BY <1>8, <2>1, <4>1, <4>2, <4>4 DEF Knows
      <4> QED
        BY <4>3, <4>4
    <3>3. CASE \E j \in Instances : cache'[j].entries[t].worker = w
      BY <1>8, <3>3 DEF Knows
    <3> QED
      BY <2>2, <3>1, <3>2, <3>3 DEF Knows
  <2> QED
    BY <2>2
<1>9. ASSUME NEW c \in Callers, InsertWorker(c) PROVE Goal
  <2>1. RowsShrink
    BY <1>9 DEF InsertWorker, RowsShrink
  <2> QED
    BY <1>8, <1>9, <2>1 DEF InsertWorker, memory
<1>10. ASSUME NEW c \in Callers, CheckStatus(c) PROVE Goal
  <2>1. RowsShrink /\ CachesShrink /\ UNCHANGED <<held, cache>>
    BY <1>10 DEF CheckStatus, RowsShrink, CachesShrink, database, memory
  <2>2. CASE Answered(c, "rest")
    <3>1. CallsShrink /\ HandlersShrink
      BY <2>2 DEF Answered, CallsShrink, HandlersShrink
    <3> QED
      BY <1>3, <2>1, <3>1 DEF Shrinks
  <2>3. CASE WithNewToken(c) /\ UNCHANGED calls
    BY <1>8, <2>1, <2>3
  <2> QED
    BY <1>10, <2>2, <2>3 DEF CheckStatus
<1> QED
  <2>1. \A r \in Routines : Reaches[r] \in SUBSET Instances
    BY RoutingAssumption
  <2>2. Poll \in Routines
    BY DEF Routines
  <2>3. CASE Next
    <3> HIDE DEF Goal
    <3> QED
      BY <1>3, <1>4, <1>5, <1>6, <1>7, <1>9, <1>10, <2>1, <2>2, <2>3, MostShrink
         DEF Next, CallStep, HandlerStep
  <2>4. CASE UNCHANGED vars
    BY <1>3, <2>4, MostShrink
  <2> QED
    BY <2>3, <2>4

\* Tokens that differ from all known ones keep the workers' tokens apart.
LEMMA OwnedHolds == Spec => []OwnedOK
<1>1. Init => OwnedOK
  <2> SUFFICES ASSUME Init, NEW w \in Workers, NEW t \in Tokens, Knows(w, t) PROVE FALSE
    BY DEF OwnedOK
  <2>1. \A r \in Routines : <<w, r>> \in Callers
    BY DEF Callers
  <2>2. \A i \in Instances : cache[i].entries[t].worker = NoWorker
    BY DEF Init, EmptyCache, NoEntry
  <2>3. \A c \in Callers : calls[c].token = NoToken /\ handlers[c].token = NoToken
    BY RestTokens DEF Init
  <2>4. rows[w].token = NoToken /\ held[w] = NoToken
    BY DEF Init
  <2> QED
    BY <2>1, <2>2, <2>3, <2>4, AuthAssumption, CacheAssumption DEF Knows
<1>2. Inv /\ OwnedOK /\ [Next]_vars => OwnedOK'
  <2> SUFFICES ASSUME Inv, OwnedOK, [Next]_vars PROVE OwnedOK'
    OBVIOUS
  <2>1. CASE \A w \in Workers, t \in Tokens : Knows(w, t)' => Knows(w, t)
    BY <2>1 DEF OwnedOK
  <2>2. ASSUME NEW x \in Workers, NEW u \in Unused,
               \A w \in Workers, t \in Tokens : Knows(w, t)' => Knows(w, t) \/ (w = x /\ t = u)
        PROVE  OwnedOK'
    <3>1. u \in Tokens /\ \A w \in Workers : ~Knows(w, u)
      <4>1. \A w \in Workers, r \in Routines : <<w, r>> \in Callers
        BY DEF Callers
      <4>2. \A i \in Instances : cache[i].entries[u].worker = NoWorker
        BY DEF Unused, Cached
      <4> QED
        BY <4>1, <4>2, CacheAssumption DEF Unused, Knows
    <3> QED
      BY <2>2, <3>1 DEF OwnedOK
  <2> QED
    BY <2>1, <2>2, KnowsStep
<1> QED
  BY <1>1, <1>2, InvHolds, PTL DEF Spec

\* A settled revocation stays settled in one step.
LEMMA SettledStep ==
    ASSUME Inv, OwnedOK, [Next]_vars, NEW w \in Workers, Settled(w)
    PROVE  Settled(w)'
<1>0. TypeOK /\ CallsOK /\ HandlersOK /\ RevokingOK /\ CachesOK
  BY DEF Inv
<1>1. /\ rows \in [Workers -> WorkerRow] /\ cache \in [Instances -> Cache]
      /\ calls \in [Callers -> CallRec] /\ handlers \in [Callers -> HandlerRec]
      /\ \A i \in Instances : IndexMatches(cache[i])
  BY <1>0 DEF TypeOK, CachesOK
<1>2. /\ \A c \in Callers : c[1] \in Workers /\ c[2] \in Routines /\ c = <<c[1], c[2]>>
      /\ \A r \in Routines : <<w, r>> \in Callers /\ <<w, r>>[1] = w
  BY DEF Callers
<1>3. /\ rows[w].status = "revoked"
      /\ \A i \in Instances, t \in Tokens : cache[i].entries[t].worker # w
      /\ \A c \in Callers : c[1] = w => /\ calls[c].stage \notin {"fill", "write"}
                                        /\ handlers[c].stage \notin {"insert", "rotate", "publish"}
  BY <1>2 DEF Settled
<1> DEFINE RowKept == rows'[w].status = "revoked"
           CachesKept == \A i \in Instances, t \in Tokens : cache'[i].entries[t].worker # w
           CallsKept == \A c \in Callers : c[1] = w => calls'[c].stage \notin {"fill", "write"}
           HandlersKept == \A c \in Callers :
                             c[1] = w => handlers'[c].stage \notin {"insert", "rotate", "publish"}
           Goal == RowKept /\ CachesKept /\ CallsKept /\ HandlersKept
<1>4. SUFFICES Goal
  BY <1>2 DEF Settled
<1>5. /\ \A s \in CallStages : NoCall(s).stage = s
      /\ \A c \in Callers, s \in CallStages, again \in BOOLEAN : Retry(c, s, again).stage = s
      /\ NoHandler.stage = "none" /\ NoEntry.worker = NoWorker
      /\ {"off", "ready", "denied", "renewing", "rest"} \subseteq CallStages
  BY CallRecs DEF NoHandler, NoEntry, CallStages
<1> USE <1>1, <1>2, <1>3, <1>5, CacheAssumption
<1>6. ASSUME UNCHANGED rows PROVE RowKept
  BY <1>6
<1>7. ASSUME UNCHANGED cache PROVE CachesKept
  BY <1>7
<1>8. ASSUME UNCHANGED calls PROVE CallsKept
  BY <1>8
<1>9. ASSUME UNCHANGED handlers PROVE HandlersKept
  BY <1>9
<1>10. ASSUME NEW c \in Callers, NEW r, calls' = [calls EXCEPT ![c] = r],
              c[1] = w => r.stage \notin {"fill", "write"}
       PROVE  CallsKept
  BY <1>10
<1>11. ASSUME NEW c \in Callers, NEW h, handlers' = [handlers EXCEPT ![c] = h],
              c[1] = w => h.stage \notin {"insert", "rotate", "publish"}
       PROVE  HandlersKept
  BY <1>11
<1>12. ASSUME NEW i \in Instances, NEW k, cache' = [cache EXCEPT ![i] = k],
              \A t \in Tokens : k.entries[t].worker # w
       PROVE  CachesKept
  BY <1>12
<1>13. ASSUME NEW x \in Workers, NEW i \in Instances, Enroll(x, i) PROVE Goal
  <2>1. x # w /\ <<x, Poll>> \in Callers /\ <<x, Poll>>[1] = x
    BY <1>13 DEF Enroll, Callers, Routines
  <2>2. RowKept /\ CachesKept
    BY <1>6, <1>7, <1>13 DEF Enroll, database, memory
  <2>3. CallsKept /\ HandlersKept
    BY <1>10, <1>11, <1>13, <2>1 DEF Enroll, Start
  <2> QED
    BY <2>2, <2>3
<1>14. ASSUME NEW x \in Workers, NEW i \in Instances, Revoke(x, i) PROVE Goal
  BY <1>6, <1>7, <1>8, <1>9, <1>14 DEF Revoke, database, memory
<1>15. ASSUME NEW x \in Workers, ClearToken(x) PROVE Goal
  <2> DEFINE i == revoking[x].inst
             k == InvalidateWorker(cache[i], x)
  <2>1. i \in Instances /\ cache' = [cache EXCEPT ![i] = k]
    BY <1>0, <1>15 DEF ClearToken, RevokingOK
  <2>2. \A t \in Tokens : k.entries[t] = NoEntry \/ k.entries[t] = cache[i].entries[t]
    BY <2>1, InvalidateKeeps
  <2>3. CachesKept
    <3> HIDE DEF i, k
    <3>1. \A t \in Tokens : k.entries[t].worker # w
      BY <2>1, <2>2
    <3> QED
      BY <1>12, <2>1, <3>1
  <2>4. RowKept
    BY <1>15 DEF ClearToken, WorkerRow
  <2>5. CallsKept /\ HandlersKept
    BY <1>8, <1>9, <1>15 DEF ClearToken
  <2> QED
    BY <2>3, <2>4, <2>5
<1>16. ASSUME NEW x \in Workers, RevokeWorker(x) \/ RevokeFails(x) PROVE Goal
  <2>1. RowKept
    <3>1. CASE RevokeFails(x)
      BY <1>6, <3>1 DEF RevokeFails, database
    <3>2. CASE RevokeWorker(x)
      <4>1. rows' = [rows EXCEPT ![x] = [rows[x] EXCEPT !.status = "revoked"]]
        BY <3>2 DEF RevokeWorker
      <4>2. rows[x] \in WorkerRow /\ rows[w] \in WorkerRow
        BY StateTypes
      <4> QED
        BY <4>1, <4>2 DEF WorkerRow
    <3> QED
      BY <1>16, <3>1, <3>2
  <2> QED
    BY <1>7, <1>8, <1>9, <1>16, <2>1 DEF RevokeWorker, RevokeFails, memory
<1>17. ASSUME NEW c \in Callers, LookUpToken(c) PROVE Goal
  <2>1. RowKept /\ CachesKept /\ HandlersKept
    BY <1>6, <1>7, <1>9, <1>17 DEF LookUpToken, database, memory
  <2>2. CASE c[1] = w
    <3>1. calls[c].token \in Tokens /\ Knows(w, calls[c].token)
      <4>1. calls[c].stage = "lookup" /\ calls[c].token \in Tokens
        BY <1>0, <1>17 DEF LookUpToken, CallsOK
      <4>2. PICK r \in Routines : c = <<w, r>>
        BY <2>2 DEF Callers
      <4> QED
        BY <4>1, <4>2 DEF Knows
    <3>2. Owners(calls[c].token) = {}
      <4>1. ASSUME NEW x \in Owners(calls[c].token) PROVE FALSE
        <5>1. x \in Workers /\ rows[x].token = calls[c].token /\ rows[x].status # "revoked"
          BY DEF Owners
        <5>2. Knows(x, calls[c].token)
          BY <5>1 DEF Knows
        <5> QED
          BY <3>1, <5>1, <5>2 DEF OwnedOK
      <4> QED
        BY <4>1
    <3>3. calls' = [calls EXCEPT ![c] = Retry(c, "denied", calls[c].retried)]
      BY <1>17, <3>2 DEF LookUpToken, Denied
    <3>4. calls[c].retried \in BOOLEAN
      BY DEF CallRec
    <3> QED
      BY <1>10, <2>1, <3>3, <3>4
  <2>3. CASE c[1] # w
    BY <1>10, <1>17, <2>1, <2>3 DEF LookUpToken, Denied, At
  <2> QED
    BY <2>2, <2>3
<1>18. ASSUME NEW c \in Callers, Send(c) PROVE Goal
  <2>1. [calls[c] EXCEPT !.stage = "sent", !.token = held[c[1]]].stage = "sent"
    BY DEF CallRec
  <2> QED
    BY <1>6, <1>7, <1>9, <1>10, <1>18, <2>1 DEF Send, database, memory
<1>19. ASSUME NEW c \in Callers, LookUpFails(c) PROVE Goal
  <2>1. calls[c].retried \in BOOLEAN
    BY DEF CallRec
  <2> QED
    BY <1>6, <1>7, <1>9, <1>10, <1>19, <2>1 DEF LookUpFails, Denied, database, memory
<1>20. ASSUME NEW c \in Callers, FillCache(c) PROVE Goal
  <2> DEFINE i == calls[c].inst
  <2>1. c[1] # w /\ i \in Instances /\ calls[c].token \in Tokens
    BY <1>0, <1>20 DEF FillCache, CallsOK
  <2>2. PICK k \in SetToken(cache[i], calls[c].token, c[1]) : cache' = [cache EXCEPT ![i] = k]
    BY <1>20 DEF FillCache
  <2>3. \A u \in Tokens : \/ k.entries[u] = NoEntry
                          \/ u # calls[c].token /\ k.entries[u] = cache[i].entries[u]
                          \/ /\ u = calls[c].token
                             /\ k.entries[u] = [worker |-> c[1], left |-> TTL]
    BY <2>1, <2>2, SetTokenKeeps
  <2>4. RowKept /\ HandlersKept
    BY <1>6, <1>9, <1>20 DEF FillCache, database
  <2>5. CallsKept
    BY <1>10, <1>20, <2>1 DEF FillCache, Accepted, Rests
  <2> HIDE DEF i
  <2>6. \A u \in Tokens : k.entries[u].worker # w
    BY <2>1, <2>3
  <2> QED
    BY <1>12, <2>1, <2>2, <2>4, <2>5, <2>6
<1>21. ASSUME NEW c \in Callers, WriteHeartbeat(c) PROVE Goal
  <2>1. c[1] # w
    BY <1>21 DEF WriteHeartbeat
  <2>2. RowKept
    BY <1>21, <2>1 DEF WriteHeartbeat
  <2> QED
    BY <1>7, <1>9, <1>10, <1>21, <2>2 DEF WriteHeartbeat, Rests, memory
<1>22. ASSUME NEW c \in Callers, HeartbeatFails(c) \/ DenialIsFinal(c) \/ RefreshTimesOut(c) PROVE Goal
  BY <1>6, <1>7, <1>9, <1>10, <1>22
     DEF HeartbeatFails, DenialIsFinal, RefreshTimesOut, Rests, database, memory
<1>23. ASSUME NEW c \in Callers, NEW i \in Instances, Authenticate(c, i) PROVE Goal
  <2> DEFINE t == calls[c].token
             x == Lookup(cache[i], t)
             k == AfterLookup(cache[i], t)
  <2>1. RowKept /\ HandlersKept
    BY <1>6, <1>9, <1>23 DEF Authenticate, database
  <2>2. \A u \in Tokens : k.entries[u] = NoEntry \/ k.entries[u] = cache[i].entries[u]
    BY AfterLookupKeeps
  <2>3. cache' = [cache EXCEPT ![i] = k]
    BY <1>23 DEF Authenticate
  <2>4. \A u \in Tokens : k.entries[u].worker # w
    <3> HIDE DEF k
    <3> QED
      BY <2>2
  <2>5. CachesKept
    <3> HIDE DEF k
    <3> QED
      BY <1>12, <2>3, <2>4
  <2>6. CASE x = NoWorker
    <3>1. calls' = [calls EXCEPT ![c] = [calls[c] EXCEPT !.stage = "lookup", !.inst = i]]
      BY <1>23, <2>6 DEF Authenticate
    <3>2. [calls[c] EXCEPT !.stage = "lookup", !.inst = i].stage = "lookup"
      BY DEF CallRec
    <3> QED
      BY <1>10, <2>1, <2>5, <3>1, <3>2
  <2>7. CASE x # NoWorker
    <3>1. t \in Tokens /\ Knows(c[1], t)
      BY <1>0, <1>23 DEF Authenticate, CallsOK, Knows
    <3>2. cache[i].entries[t].worker = x /\ x \in Workers
      BY <2>7, <3>1 DEF Lookup, Cache, Entry
    <3>3. Knows(x, t)
      BY <3>2 DEF Knows
    <3>4. c[1] # w
      BY <3>1, <3>2, <3>3 DEF OwnedOK
    <3>5. CallsKept
      BY <1>10, <1>23, <2>7, <3>4 DEF Authenticate, Accepted, Rests
    <3> QED
      BY <2>1, <2>5, <3>5
  <2> QED
    BY <2>6, <2>7
<1>24. ASSUME NEW c \in Callers, NEW i \in Instances, Refresh(c, i) PROVE Goal
  BY <1>6, <1>7, <1>10, <1>11, <1>24 DEF Refresh, Start, database, memory
<1>25. ASSUME NEW c \in Callers, InsertWorker(c) PROVE Goal
  <2>1. c[1] # w
    BY <1>25 DEF InsertWorker
  <2>2. RowKept
    BY <1>25, <2>1 DEF InsertWorker
  <2> QED
    BY <1>7, <1>8, <1>11, <1>25, <2>1, <2>2 DEF InsertWorker, WithNewToken, memory
<1>26. ASSUME NEW c \in Callers, Answered(c, "rest") PROVE CallsKept /\ HandlersKept
  <2>1. HandlersKept
    BY <1>11, <1>26 DEF Answered
  <2>2. UNCHANGED calls \/ \E r : calls' = [calls EXCEPT ![c] = r] /\ r.stage \in {"off", "rest"}
    BY <1>26 DEF Answered, NoCall, Retry
  <2>3. CallsKept
    BY <1>8, <1>10, <2>2
  <2> QED
    BY <2>1, <2>3
<1>27. ASSUME NEW c \in Callers, CheckStatus(c) PROVE Goal
  <2>1. RowKept /\ CachesKept
    BY <1>6, <1>7, <1>27 DEF CheckStatus, database, memory
  <2>2. CASE c[1] = w
    BY <1>26, <1>27, <2>1, <2>2 DEF CheckStatus
  <2>3. CASE c[1] # w
    BY <1>8, <1>11, <1>26, <1>27, <2>1, <2>3 DEF CheckStatus, WithNewToken
  <2> QED
    BY <2>2, <2>3
<1>28. ASSUME NEW c \in Callers, HandlerFails(c) PROVE Goal
  BY <1>6, <1>7, <1>26, <1>28 DEF HandlerFails, database, memory
<1>29. ASSUME NEW c \in Callers, RotateToken(c) PROVE Goal
  <2>1. c[1] # w
    BY <1>29 DEF RotateToken
  <2>2. RowKept /\ HandlersKept
    BY <1>29, <2>1 DEF RotateToken
  <2> QED
    BY <1>7, <1>8, <1>29, <2>2 DEF RotateToken, memory
<1>30. ASSUME NEW c \in Callers, PublishToken(c) PROVE Goal
  <2> DEFINE i == handlers[c].inst
             p == InvalidateWorker(cache[i], c[1])
  <2>1. c[1] # w /\ i \in Instances /\ handlers[c].token \in Tokens
    BY <1>0, <1>30 DEF PublishToken, HandlersOK
  <2>2. PICK k \in SetToken(p, handlers[c].token, c[1]) : cache' = [cache EXCEPT ![i] = k]
    BY <1>30 DEF PublishToken
  <2>3. /\ p \in Cache /\ IndexMatches(p)
        /\ \A u \in Tokens : p.entries[u] = NoEntry \/ p.entries[u] = cache[i].entries[u]
    BY <2>1, InvalidateKeeps
  <2>4. RowKept /\ HandlersKept
    BY <1>6, <1>11, <1>30 DEF PublishToken, database
  <2>5. CallsKept
    BY <1>30 DEF PublishToken
  <2> HIDE DEF i, p
  <2>6. \A u \in Tokens : \/ k.entries[u] = NoEntry
                          \/ u # handlers[c].token /\ k.entries[u] = p.entries[u]
                          \/ /\ u = handlers[c].token
                             /\ k.entries[u] = [worker |-> c[1], left |-> TTL]
    BY <2>1, <2>2, <2>3, SetTokenKeeps
  <2>7. \A u \in Tokens : k.entries[u].worker # w
    BY <2>1, <2>3, <2>6
  <2> QED
    BY <1>12, <2>1, <2>2, <2>4, <2>5, <2>7
<1>31. ASSUME NEW c \in Callers, Slow(c) PROVE Goal
  BY <1>6, <1>7, <1>8, <1>9, <1>31 DEF Slow, database, memory
<1>32. ASSUME NEW i \in Instances, Restart(i) PROVE Goal
  <2>1. \A t \in Tokens : EmptyCache.entries[t] = NoEntry
    BY DEF EmptyCache
  <2>2. RowKept /\ CachesKept
    BY <1>6, <1>12, <1>32, <2>1 DEF Restart, database
  <2>3. CallsKept /\ HandlersKept
    BY <1>32 DEF Restart
  <2> QED
    BY <2>2, <2>3
<1>33. ASSUME MarkWorkerInactive PROVE Goal
  <2>1. RowKept
    BY <1>33 DEF MarkWorkerInactive, Unseen
  <2> QED
    BY <1>7, <1>8, <1>9, <1>33, <2>1 DEF MarkWorkerInactive, memory
<1>34. ASSUME Tick PROVE Goal
  <2>1. RowKept
    BY <1>34 DEF Tick, WorkerRow
  <2>2. CachesKept
    <3>1. ASSUME NEW i \in Instances, NEW t \in Tokens PROVE cache'[i].entries[t].worker # w
      <4>1. cache'[i] = Aged(cache[i])
        BY <1>34 DEF Tick
      <4> QED
        BY <4>1, AgedKeeps
    <3> QED
      BY <3>1
  <2>3. CallsKept /\ HandlersKept
    BY <1>34 DEF Tick
  <2> QED
    BY <2>1, <2>2, <2>3
<1>35. ASSUME UNCHANGED vars PROVE Goal
  BY <1>6, <1>7, <1>8, <1>9, <1>35 DEF vars
<1> QED
  <2>1. \A r \in Routines : Reaches[r] \in SUBSET Instances
    BY RoutingAssumption
  <2>2. Poll \in Routines
    BY DEF Routines
  <2> HIDE DEF Goal
  <2> QED
    BY <1>13, <1>14, <1>15, <1>16, <1>17, <1>18, <1>19, <1>20, <1>21, <1>22, <1>23, <1>24, <1>25,
       <1>27, <1>28, <1>29, <1>30, <1>31, <1>32, <1>33, <1>34, <1>35, <2>1, <2>2
       DEF Next, CallStep, HandlerStep

\* Once nothing of a revoked worker is cached or under way, no call, heartbeat,
\* renewal or other worker's token brings it back, whatever else happens.
THEOREM RevocationsSettle == Spec => RevocationSettles
<1>1. Inv /\ OwnedOK /\ [Next]_vars => [\A w \in Workers : Settled(w) => Settled(w)']_vars
  BY SettledStep
<1> QED
  BY <1>1, InvHolds, OwnedHolds, PTL DEF Spec, RevocationSettles

-----------------------------------------------------------------------------
(* A worker whose calls are served is reported as healthy *)

\* A worker without a row has not learned a token and is not being revoked, and
\* only the handler that inserts the row is under way for it.
Enlisted ==
    /\ \A w \in Workers : rows[w].status = "none" => held[w] = NoToken /\ revoking[w].stage = "none"
    /\ \A c \in Callers :
         /\ rows[c[1]].status = "none" => handlers[c].stage \in {"none", "insert"}
         /\ handlers[c].stage = "insert" => rows[c[1]].status = "none" /\ c[2] = Poll

WritingThrough(w, i) ==
    \E r \in Routines : calls[<<w, r>>].stage = "write" /\ calls[<<w, r>>].inst = i

\* A tracker that holds writes back has seen one that reached the row since, or
\* that is under way.
Noted ==
    \A w \in Workers, i \in Instances :
        tracker[i][w] > 0 /\ ~WritingThrough(w, i)
          => /\ rows[w].status \in {"active", "revoked"}
             /\ rows[w].seen <= MinInterval - tracker[i][w]

\* The row is never older than the last served call by more than the interval.
Served ==
    \A w \in Workers :
        /\ quiet[w] <= HealthyAfter => rows[w].seen <= quiet[w] + MinInterval
        /\ quiet[w] <= HealthyAfter - MinInterval => rows[w].status \in {"active", "revoked"}

\* A step enlists a worker by inserting its row, and in no other way.
LEMMA EnlistedStep ==
    ASSUME Inv, Enlisted, [Next]_vars
    PROVE  Enlisted'
<1>0. TypeOK /\ CallsOK
  BY DEF Inv
<1>1. /\ rows \in [Workers -> WorkerRow] /\ held \in [Workers -> Tokens \cup {NoToken}]
      /\ handlers \in [Callers -> HandlerRec]
      /\ revoking \in [Workers -> [stage : {"none", "clear", "revoke", "done"},
                                   inst : Instances \cup {NoInstance}]]
  BY <1>0 DEF TypeOK
<1>2. \A c \in Callers : c[1] \in Workers /\ c[2] \in Routines /\ c = <<c[1], c[2]>>
  BY DEF Callers
<1>3. \A c \in Callers : calls[c].stage \notin {"off", "renewing"} => rows[c[1]].status # "none"
  BY <1>0, <1>2, AuthAssumption DEF CallsOK, Enlisted
<1>4. \A c \in Callers : handlers[c].stage \in {"check", "rotate", "publish"}
                           => rows[c[1]].status # "none"
  BY DEF Enlisted
<1>5. \A w \in Workers : revoking[w].stage # "none" => rows[w].status # "none"
  BY DEF Enlisted
<1> DEFINE RowsFit == \A w \in Workers : rows'[w].status = "none" <=> rows[w].status = "none"
           HeldFit == \A w \in Workers : rows[w].status = "none" => held'[w] = held[w]
           RevokingFit == \A w \in Workers : rows[w].status = "none" => revoking'[w].stage = "none"
           HandlersFit == \A c \in Callers :
                            \/ handlers'[c].stage \in {handlers[c].stage, "none"}
                            \/ handlers'[c].stage # "insert" /\ rows[c[1]].status # "none"
<1> USE <1>1, <1>2
<1>6. ASSUME RowsFit, HeldFit, RevokingFit, HandlersFit
      PROVE  Enlisted'
  BY <1>6 DEF Enlisted
<1>7. ASSUME UNCHANGED rows PROVE RowsFit
  BY <1>7
<1>8. ASSUME UNCHANGED held PROVE HeldFit
  BY <1>8
<1>9. ASSUME UNCHANGED revoking PROVE RevokingFit
  BY <1>9 DEF Enlisted
<1>10. ASSUME UNCHANGED handlers PROVE HandlersFit
  BY <1>10
<1>11. ASSUME NEW c \in Callers, NEW h, handlers' = [handlers EXCEPT ![c] = h],
              h.stage = "none" \/ (h.stage # "insert" /\ rows[c[1]].status # "none")
       PROVE  HandlersFit
  BY <1>11
<1>12. ASSUME NEW x \in Workers, NEW y, rows' = [rows EXCEPT ![x] = y],
              rows[x].status # "none", y.status # "none"
       PROVE  RowsFit
  BY <1>12
<1>13. NoHandler.stage = "none"
  BY DEF NoHandler
<1>14. ASSUME NEW c \in Callers, WithNewToken(c), rows[c[1]].status # "none"
       PROVE  HandlersFit
  <2>1. PICK t \in Tokens :
          handlers' = [handlers EXCEPT ![c] = [handlers[c] EXCEPT !.stage = "rotate", !.token = t]]
    BY <1>14, NewTokenTaken
  <2>2. [handlers[c] EXCEPT !.stage = "rotate", !.token = t].stage = "rotate"
    BY DEF HandlerRec
  <2> QED
    BY <1>11, <1>14, <2>1, <2>2
<1>15. ASSUME NEW x \in Workers, NEW i \in Instances, Enroll(x, i)
       PROVE  Enlisted'
  <2>1. /\ rows[x].status = "none" /\ <<x, Poll>> \in Callers
        /\ UNCHANGED <<rows, held, revoking>>
        /\ handlers' = [handlers EXCEPT ![<<x, Poll>>]
                          = [stage |-> "insert", inst |-> i, token |-> NoToken]]
    BY <1>15 DEF Enroll, Start, database, Callers, Routines
  <2> QED
    BY <2>1 DEF Enlisted
<1>16. ASSUME NEW x \in Workers, NEW i \in Instances, Revoke(x, i)
       PROVE  Enlisted'
  <2>1. RevokingFit
    BY <1>16 DEF Revoke, RevokeStage, Enlisted
  <2> QED
    BY <1>6, <1>7, <1>8, <1>10, <1>16, <2>1 DEF Revoke, database
<1>17. ASSUME NEW x \in Workers, ClearToken(x) \/ RevokeWorker(x) \/ RevokeFails(x)
       PROVE  Enlisted'
  <2>1. rows[x].status # "none"
    BY <1>5, <1>17 DEF ClearToken, RevokeWorker, RevokeFails
  <2>2. RevokingFit
    BY <1>17, <2>1 DEF ClearToken, RevokeWorker, RevokeFails, RevokeStage, Enlisted
  <2>3. RowsFit
    <3>1. CASE ClearToken(x)
      <4>1. [rows[x] EXCEPT !.token = NoToken].status = rows[x].status
        BY DEF WorkerRow
      <4> QED
        BY <1>7, <1>12, <2>1, <3>1, <4>1 DEF ClearToken
    <3>2. CASE RevokeWorker(x)
      <4>1. [rows[x] EXCEPT !.status = "revoked"].status = "revoked"
        BY DEF WorkerRow
      <4> QED
        BY <1>12, <2>1, <3>2, <4>1 DEF RevokeWorker
    <3>3. CASE RevokeFails(x)
      BY <1>7, <3>3 DEF RevokeFails, database
    <3> QED
      BY <1>17, <3>1, <3>2, <3>3
  <2> QED
    BY <1>6, <1>8, <1>10, <1>17, <2>2, <2>3 DEF ClearToken, RevokeWorker, RevokeFails
<1>18. ASSUME NEW c \in Callers,
              \/ Send(c) \/ LookUpToken(c) \/ FillCache(c) \/ DenialIsFinal(c) \/ Slow(c)
              \/ LookUpFails(c) \/ HeartbeatFails(c) \/ RefreshTimesOut(c)
              \/ \E i \in Instances : Authenticate(c, i)
       PROVE  Enlisted'
  <2>1. UNCHANGED <<rows, held, revoking, handlers>>
    BY <1>18 DEF Send, LookUpToken, FillCache, DenialIsFinal, Slow, LookUpFails, HeartbeatFails,
                 RefreshTimesOut, Authenticate, database
  <2> QED
    BY <1>6, <1>7, <1>8, <1>9, <1>10, <2>1
<1>19. ASSUME NEW c \in Callers, WriteHeartbeat(c)
       PROVE  Enlisted'
  <2>1. rows[c[1]].status # "none"
    BY <1>3, <1>19 DEF WriteHeartbeat
  <2> DEFINE y == [rows[c[1]] EXCEPT !.status = "active", !.seen = 0]
  <2>2. y.status = "active"
    <3>1. rows[c[1]] \in WorkerRow
      OBVIOUS
    <3> QED
      BY <3>1 DEF WorkerRow
  <2>3. rows' = [rows EXCEPT ![c[1]] = y] /\ UNCHANGED <<held, revoking, handlers>>
    BY <1>19 DEF WriteHeartbeat
  <2> HIDE DEF y
  <2> QED
    BY <1>6, <1>8, <1>9, <1>10, <1>12, <2>1, <2>2, <2>3
<1>20. ASSUME NEW c \in Callers, NEW i \in Instances, Refresh(c, i)
       PROVE  Enlisted'
  <2>1. rows[c[1]].status # "none"
    BY <1>3, <1>20 DEF Refresh
  <2>2. HandlersFit
    BY <1>11, <1>20, <2>1 DEF Refresh, Start
  <2> QED
    BY <1>6, <1>7, <1>8, <1>9, <1>20, <2>2 DEF Refresh, database
<1>21. ASSUME NEW c \in Callers, InsertWorker(c)
       PROVE  Enlisted'
  <2>1. PICK t \in Tokens :
          handlers' = [handlers EXCEPT ![c] = [handlers[c] EXCEPT !.stage = "rotate", !.token = t]]
    BY <1>21, NewTokenTaken DEF InsertWorker
  <2>2. [handlers[c] EXCEPT !.stage = "rotate", !.token = t].stage = "rotate"
    BY DEF HandlerRec
  <2>3. /\ rows' = [rows EXCEPT ![c[1]] = [status |-> "enrolled", token |-> NoToken, seen |-> 0]]
        /\ UNCHANGED <<held, revoking>> /\ c[2] = Poll
    BY <1>21 DEF InsertWorker, Enlisted
  <2>4. \A d \in Callers : d # c => /\ handlers'[d] = handlers[d]
                                    /\ d[1] = c[1] => handlers[d].stage # "insert"
    BY <2>1, <2>3 DEF Enlisted
  <2>5. handlers'[c].stage = "rotate"
    BY <2>1, <2>2
  <2>6. rows'[c[1]].status = "enrolled" /\ \A w \in Workers : w # c[1] => rows'[w] = rows[w]
    BY <2>3
  <2>7. \A w \in Workers : rows'[w].status = "none" => held'[w] = NoToken /\ revoking'[w].stage = "none"
    BY <2>3, <2>6 DEF Enlisted
  <2>8. \A d \in Callers :
          /\ rows'[d[1]].status = "none" => handlers'[d].stage \in {"none", "insert"}
          /\ handlers'[d].stage = "insert" => rows'[d[1]].status = "none" /\ d[2] = Poll
    BY <2>4, <2>5, <2>6 DEF Enlisted
  <2> QED
    BY <2>7, <2>8 DEF Enlisted
<1>22. ASSUME NEW c \in Callers, CheckStatus(c) \/ HandlerFails(c)
       PROVE  Enlisted'
  <2>1. UNCHANGED <<rows, held, revoking>>
    BY <1>22 DEF CheckStatus, HandlerFails, database
  <2>2. HandlersFit
    <3>1. CASE Answered(c, "rest")
      BY <1>11, <1>13, <3>1 DEF Answered
    <3>2. CASE CheckStatus(c) /\ WithNewToken(c)
      BY <1>4, <1>14, <3>2 DEF CheckStatus
    <3> QED
      BY <1>22, <3>1, <3>2 DEF CheckStatus, HandlerFails
  <2> QED
    BY <1>6, <1>7, <1>8, <1>9, <2>1, <2>2
<1>23. ASSUME NEW c \in Callers, RotateToken(c)
       PROVE  Enlisted'
  <2>1. rows[c[1]].status # "none"
    BY <1>4, <1>23 DEF RotateToken
  <2>2. /\ handlers' = [handlers EXCEPT ![c] = [handlers[c] EXCEPT !.stage = "publish"]]
        /\ rows' = [rows EXCEPT ![c[1]] = [rows[c[1]] EXCEPT !.token = handlers[c].token]]
        /\ UNCHANGED <<held, revoking>>
    BY <1>23 DEF RotateToken
  <2>3. [handlers[c] EXCEPT !.stage = "publish"].stage = "publish"
    BY DEF HandlerRec
  <2>4. HandlersFit
    BY <1>11, <2>1, <2>2, <2>3
  <2>5. [rows[c[1]] EXCEPT !.token = handlers[c].token].status = rows[c[1]].status
    BY DEF WorkerRow
  <2>6. RowsFit
    BY <1>12, <2>1, <2>2, <2>5
  <2> QED
    BY <1>6, <1>8, <1>9, <2>2, <2>4, <2>6
<1>24. ASSUME NEW c \in Callers, PublishToken(c)
       PROVE  Enlisted'
  <2>1. rows[c[1]].status # "none"
    BY <1>4, <1>24 DEF PublishToken
  <2>2. UNCHANGED <<rows, revoking>> /\ handlers' = [handlers EXCEPT ![c] = NoHandler]
    BY <1>24 DEF PublishToken, database
  <2>3. HeldFit
    BY <1>24, <2>1 DEF PublishToken, Learned
  <2>4. HandlersFit
    BY <1>11, <1>13, <2>2
  <2> QED
    BY <1>6, <1>7, <1>9, <2>2, <2>3, <2>4
<1>25. ASSUME NEW i \in Instances, Restart(i)
       PROVE  Enlisted'
  <2>1. UNCHANGED <<rows, held>>
    BY <1>25 DEF Restart, database
  <2>2. RevokingFit
    BY <1>25 DEF Restart, Enlisted
  <2>3. HandlersFit
    BY <1>13, <1>25 DEF Restart
  <2> QED
    BY <1>6, <1>7, <1>8, <2>1, <2>2, <2>3
<1>26. ASSUME MarkWorkerInactive \/ Tick
       PROVE  Enlisted'
  <2>1. UNCHANGED <<held, revoking, handlers>>
    BY <1>26 DEF MarkWorkerInactive, Tick
  <2>2. RowsFit
    <3>1. ASSUME NEW w \in Workers
          PROVE  rows'[w].status = "none" <=> rows[w].status = "none"
      <4>1. rows[w] \in WorkerRow
        OBVIOUS
      <4>2. CASE MarkWorkerInactive
        BY <4>1, <4>2 DEF MarkWorkerInactive, Unseen, WorkerRow
      <4>3. CASE Tick
        BY <4>1, <4>3 DEF Tick, WorkerRow
      <4> QED
        BY <1>26, <4>2, <4>3
    <3> QED
      BY <3>1
  <2> QED
    BY <1>6, <1>8, <1>9, <1>10, <2>1, <2>2
<1>27. ASSUME UNCHANGED vars
       PROVE  Enlisted'
  BY <1>6, <1>7, <1>8, <1>9, <1>10, <1>27 DEF vars
<1> QED
  <2>1. \A r \in Routines : Reaches[r] \in SUBSET Instances
    BY RoutingAssumption
  <2>2. Poll \in Routines
    BY DEF Routines
  <2> HIDE <1>1, <1>2
  <2>3. ASSUME NEW c \in Callers, CallStep(c) \/ HandlerStep(c)
        PROVE  Enlisted'
    <3>1. c[2] \in Routines
      BY <1>2
    <3> QED
      BY <1>18, <1>19, <1>20, <1>21, <1>22, <1>23, <1>24, <2>1, <2>3, <3>1 DEF CallStep, HandlerStep
  <2> QED
    BY <1>15, <1>16, <1>17, <1>18, <1>22, <1>25, <1>26, <1>27, <2>1, <2>2, <2>3 DEF Next

\* A call that is accepted writes a heartbeat, or is kept from it by one that was
\* written recently.
LEMMA AcceptedTracked ==
    ASSUME Inv, Noted, Served, NEW c \in Callers, NEW i \in Instances,
           calls[c].stage # "write", Accepted(c, i, c[1]), UNCHANGED rows
    PROVE  Noted' /\ Served'
<1> DEFINE w == c[1]
<1>1. w \in Workers /\ c[2] \in Routines /\ c = <<w, c[2]>>
  BY DEF Callers
<1>2. \A x \in Workers, r \in Routines : /\ <<x, r>> \in Callers
                                         /\ x # w => <<x, r>> # c
  BY <1>1 DEF Callers
<1>3. /\ calls \in [Callers -> CallRec] /\ quiet \in [Workers -> 0 .. HealthyAfter + 1]
      /\ tracker \in [Instances -> [Workers -> 0 .. MinInterval]]
  BY DEF Inv, TypeOK
<1>4. rows[w] \in WorkerRow /\ tracker[i][w] \in 0 .. MinInterval
  BY <1>1, <1>3, StateTypes DEF Inv
<1>5. CASE tracker[i][w] = 0
  <2> DEFINE call == [NoCall("write") EXCEPT !.inst = i]
  <2>1. call.stage = "write" /\ call.inst = i
    BY DEF NoCall
  <2>2. calls' = [calls EXCEPT ![c] = call] /\ UNCHANGED quiet
    BY <1>5 DEF Accepted
  <2> HIDE DEF call
  <2>3. \A x \in Workers, j \in Instances : x # w \/ j # i => tracker'[j][x] = tracker[j][x]
    BY <1>1, <1>3 DEF Accepted, ShouldUpdate
  <2>4. WritingThrough(w, i)'
    BY <1>1, <1>3, <2>1, <2>2 DEF WritingThrough
  <2>5. \A x \in Workers, j \in Instances : WritingThrough(x, j) => WritingThrough(x, j)'
    <3>1. \A d \in Callers : calls[d].stage = "write" => calls'[d] = calls[d]
      BY <1>3, <2>2
    <3> QED
      BY <1>2, <3>1 DEF WritingThrough
  <2> HIDE DEF w
  <2>6. Noted'
    BY <2>3, <2>4, <2>5 DEF Noted
  <2>7. Served'
    BY <2>2 DEF Served
  <2> QED
    BY <2>6, <2>7
<1>6. CASE tracker[i][w] # 0
  <2>1. /\ calls' = [calls EXCEPT ![c] = NoCall("rest")]
        /\ quiet' = [quiet EXCEPT ![w] = IF Writing(w) THEN quiet[w] ELSE 0]
    BY <1>6 DEF Accepted, Rests
  <2>2. \A x \in Workers, j \in Instances : tracker'[j][x] = tracker[j][x]
    BY <1>3, <1>6 DEF Accepted, ShouldUpdate
  <2>3. \A x \in Workers, j \in Instances : WritingThrough(x, j) => WritingThrough(x, j)'
    <3>1. \A d \in Callers : calls[d].stage = "write" => calls'[d] = calls[d]
      BY <1>3, <2>1
    <3> QED
      BY <1>2, <3>1 DEF WritingThrough
  <2>4. ~Writing(w) => /\ rows[w].status \in {"active", "revoked"}
                       /\ rows[w].seen <= MinInterval
    <3>1. ASSUME ~Writing(w)
          PROVE  /\ rows[w].status \in {"active", "revoked"}
                 /\ rows[w].seen <= MinInterval - tracker[i][w]
      <4>1. ~WritingThrough(w, i) /\ tracker[i][w] > 0
        BY <1>4, <1>6, <3>1, HeartbeatAssumption DEF WritingThrough, Writing
      <4> QED
        BY <1>1, <4>1 DEF Noted
    <3>2. rows[w].seen \in Int
      BY <1>4, HeartbeatAssumption DEF WorkerRow
    <3> QED
      BY <1>4, <3>1, <3>2, HeartbeatAssumption
  <2> HIDE DEF w
  <2>5. Noted'
    BY <2>2, <2>3 DEF Noted
  <2>6. Served'
    <3>1. quiet'[w] = quiet[w] \/ (quiet'[w] = 0 /\ ~Writing(w))
      BY <1>1, <1>3, <2>1
    <3>2. \A x \in Workers : x # w => quiet'[x] = quiet[x]
      BY <1>3, <2>1
    <3>3. MinInterval \in Nat
      BY HeartbeatAssumption
    <3> QED
      BY <2>4, <3>1, <3>2, <3>3 DEF Served
  <2> QED
    BY <2>5, <2>6
<1> QED
  BY <1>5, <1>6

\* Every step keeps the trackers, the rows and the times since the last served calls
\* in line.
LEMMA TrackedStep ==
    ASSUME Inv, OwnedOK, Enlisted, Noted, Served, [Next]_vars
    PROVE  Noted' /\ Served'
<1>0. TypeOK /\ CallsOK /\ HandlersOK /\ CachesOK
  BY DEF Inv
<1>1. /\ calls \in [Callers -> CallRec] /\ rows \in [Workers -> WorkerRow]
      /\ quiet \in [Workers -> 0 .. HealthyAfter + 1]
      /\ tracker \in [Instances -> [Workers -> 0 .. MinInterval]]
  BY <1>0 DEF TypeOK
<1>2. \A c \in Callers : c[1] \in Workers /\ c[2] \in Routines /\ c = <<c[1], c[2]>>
  BY DEF Callers
<1>3. \A w \in Workers, r \in Routines : <<w, r>> \in Callers /\ <<w, r>>[1] = w /\ <<w, r>>[2] = r
  BY DEF Callers
<1>4. \A w \in Workers : /\ rows[w].seen \in Nat /\ rows[w].status \in Statuses
                         /\ quiet[w] \in Nat
  BY <1>1, HeartbeatAssumption DEF WorkerRow
<1>5. \A i \in Instances, w \in Workers : tracker[i][w] \in Nat /\ tracker[i][w] <= MinInterval
  BY <1>1, HeartbeatAssumption
<1>6. MinInterval \in Nat \ {0} /\ HealthyAfter \in Nat /\ InactiveAfter \in Nat /\ StatusAfter \in Nat
      /\ MinInterval < HealthyAfter /\ HealthyAfter < InactiveAfter /\ InactiveAfter <= StatusAfter
  BY HeartbeatAssumption
<1> DEFINE Goal == Noted' /\ Served'
           RowsStay == \A w \in Workers : /\ rows'[w].status = rows[w].status
                                          /\ rows'[w].seen = rows[w].seen
           WritersStay == \A d \in Callers : calls[d].stage = "write" => calls'[d] = calls[d]
<1>7. ASSUME RowsStay, WritersStay, UNCHANGED <<tracker, quiet>>
      PROVE  Goal
  <2>1. \A w \in Workers, i \in Instances : WritingThrough(w, i) => WritingThrough(w, i)'
    BY <1>3, <1>7 DEF WritingThrough
  <2>2. Noted'
    BY <1>7, <2>1 DEF Noted
  <2> QED
    BY <1>7, <2>2 DEF Served
<1>8. ASSUME UNCHANGED rows PROVE RowsStay
  BY <1>8
<1>9. ASSUME UNCHANGED calls PROVE WritersStay
  BY <1>9
<1>10. ASSUME NEW c \in Callers, NEW r, calls' = [calls EXCEPT ![c] = r], calls[c].stage # "write"
       PROVE  WritersStay
  BY <1>1, <1>10
<1>11. ASSUME NEW w \in Workers, NEW t, rows' = [rows EXCEPT ![w] = [rows[w] EXCEPT !.token = t]]
       PROVE  RowsStay
  <2>1. rows[w] \in WorkerRow
    BY <1>1
  <2>2. /\ [rows[w] EXCEPT !.token = t].status = rows[w].status
        /\ [rows[w] EXCEPT !.token = t].seen = rows[w].seen
    BY <2>1 DEF WorkerRow
  <2> QED
    BY <1>1, <1>11, <2>2
<1>12. ASSUME NEW w \in Workers, NEW i \in Instances, Enroll(w, i)
       PROVE  Goal
  <2>1. UNCHANGED <<rows, tracker, quiet>>
    BY <1>12 DEF Enroll, database, memory
  <2>2. <<w, Poll>> \in Callers
    BY <1>3 DEF Routines
  <2>3. WritersStay
    BY <1>10, <1>12, <2>2 DEF Enroll, Start
  <2> QED
    BY <1>7, <1>8, <2>1, <2>3
<1>13. ASSUME NEW w \in Workers, RevokeFails(w) \/ \E i \in Instances : Revoke(w, i)
       PROVE  Goal
  <2>1. UNCHANGED <<rows, tracker, quiet, calls>>
    BY <1>13 DEF RevokeFails, Revoke, database, memory
  <2> QED
    BY <1>7, <1>8, <1>9, <2>1
<1>14. ASSUME NEW w \in Workers, ClearToken(w)
       PROVE  Goal
  <2>1. UNCHANGED <<tracker, quiet, calls>>
        /\ (UNCHANGED rows \/ rows' = [rows EXCEPT ![w] = [rows[w] EXCEPT !.token = NoToken]])
    BY <1>14 DEF ClearToken
  <2> QED
    BY <1>7, <1>8, <1>9, <1>11, <2>1
<1>15. ASSUME NEW w \in Workers, RevokeWorker(w)
       PROVE  Goal
  <2>1. UNCHANGED <<tracker, quiet, calls>>
        /\ rows' = [rows EXCEPT ![w] = [rows[w] EXCEPT !.status = "revoked"]]
    BY <1>15 DEF RevokeWorker, memory
  <2>2. /\ [rows[w] EXCEPT !.status = "revoked"].status = "revoked"
        /\ [rows[w] EXCEPT !.status = "revoked"].seen = rows[w].seen
    <3>1. rows[w] \in WorkerRow
      BY <1>1
    <3> QED
      BY <3>1 DEF WorkerRow
  <2>3. \A x \in Workers : /\ rows'[x].status = rows[x].status \/ rows'[x].status = "revoked"
                           /\ rows'[x].seen = rows[x].seen
    BY <1>1, <2>1, <2>2
  <2>4. \A x \in Workers, i \in Instances : WritingThrough(x, i) => WritingThrough(x, i)'
    BY <2>1 DEF WritingThrough
  <2>5. Noted'
    BY <2>1, <2>3, <2>4 DEF Noted
  <2> QED
    BY <2>1, <2>3, <2>5 DEF Served
<1>16. ASSUME NEW c \in Callers,
              \/ Send(c) \/ LookUpToken(c) \/ LookUpFails(c) \/ DenialIsFinal(c) \/ Slow(c)
              \/ RefreshTimesOut(c) \/ \E i \in Instances : Refresh(c, i)
       PROVE  Goal
  <2>1. UNCHANGED <<rows, tracker, quiet>>
    BY <1>16 DEF Send, LookUpToken, LookUpFails, DenialIsFinal, Slow, RefreshTimesOut, Refresh,
                 database, memory
  <2>2. UNCHANGED calls \/ (calls[c].stage # "write" /\ \E r : calls' = [calls EXCEPT ![c] = r])
    BY <1>16 DEF Send, LookUpToken, LookUpFails, DenialIsFinal, Slow, RefreshTimesOut, Refresh,
                 Denied, At, Rests, Start
  <2>3. WritersStay
    BY <1>9, <1>10, <2>2
  <2> QED
    BY <1>7, <1>8, <2>1, <2>3
<1>17. ASSUME NEW c \in Callers, NEW i \in Instances, Authenticate(c, i)
       PROVE  Goal
  <2> DEFINE t == calls[c].token
             x == Lookup(cache[i], t)
  <2>1. calls[c].stage = "sent" /\ UNCHANGED rows
    BY <1>17 DEF Authenticate, database
  <2>2. CASE x = NoWorker
    <3>1. /\ calls' = [calls EXCEPT ![c] = [calls[c] EXCEPT !.stage = "lookup", !.inst = i]]
          /\ UNCHANGED <<tracker, quiet>>
      BY <1>17, <2>2 DEF Authenticate
    <3>2. WritersStay
      BY <1>10, <2>1, <3>1
    <3> QED
      BY <1>7, <1>8, <2>1, <3>1, <3>2
  <2>3. CASE x # NoWorker
    <3>1. t \in Tokens /\ Knows(c[1], t)
      BY <1>0, <1>2, <2>1 DEF CallsOK, Knows
    <3>2. cache[i] \in Cache
      BY <1>0 DEF TypeOK
    <3>3. cache[i].entries[t].worker = x /\ x \in Workers
      BY <2>3, <3>1, <3>2 DEF Lookup, Cache, Entry
    <3>4. x = c[1]
      BY <1>2, <3>1, <3>3 DEF OwnedOK, Knows
    <3>5. Accepted(c, i, c[1])
      BY <1>17, <2>3, <3>4 DEF Authenticate
    <3> QED
      BY <2>1, <3>5, AcceptedTracked
  <2> QED
    BY <2>2, <2>3
<1>18. ASSUME NEW c \in Callers, FillCache(c)
       PROVE  Goal
  <2>1. /\ calls[c].stage = "fill" /\ calls[c].inst \in Instances /\ UNCHANGED rows
        /\ Accepted(c, calls[c].inst, c[1])
    BY <1>0, <1>18 DEF FillCache, CallsOK, database
  <2> QED
    BY <2>1, AcceptedTracked
<1>19. ASSUME NEW c \in Callers, WriteHeartbeat(c)
       PROVE  Goal
  <2> DEFINE y == [rows[c[1]] EXCEPT !.status = "active", !.seen = 0]
  <2>1. y.status = "active" /\ y.seen = 0
    <3>1. rows[c[1]] \in WorkerRow
      BY <1>1, <1>2
    <3> QED
      BY <3>1 DEF WorkerRow
  <2>2. /\ rows' = [rows EXCEPT ![c[1]] = y] /\ quiet' = [quiet EXCEPT ![c[1]] = 0]
        /\ UNCHANGED tracker /\ calls' = [calls EXCEPT ![c] = NoCall("rest")]
    BY <1>19 DEF WriteHeartbeat, Rests, memory
  <2> HIDE DEF y
  <2>3. /\ rows'[c[1]].status = "active" /\ rows'[c[1]].seen = 0 /\ quiet'[c[1]] = 0
        /\ \A x \in Workers : x # c[1] => rows'[x] = rows[x] /\ quiet'[x] = quiet[x]
    BY <1>1, <1>2, <2>1, <2>2
  <2>4. \A x \in Workers, i \in Instances : x # c[1] /\ WritingThrough(x, i) => WritingThrough(x, i)'
    <3>1. \A d \in Callers : d[1] # c[1] => calls'[d] = calls[d]
      BY <1>1, <2>2
    <3> QED
      BY <1>3, <3>1 DEF WritingThrough
  <2>5. Noted'
    BY <1>5, <1>6, <2>2, <2>3, <2>4 DEF Noted
  <2> QED
    BY <1>6, <2>3, <2>5 DEF Served
<1>20. ASSUME NEW c \in Callers, HeartbeatFails(c)
       PROVE  Goal
  <2> DEFINE i == calls[c].inst
  <2>1. /\ UNCHANGED <<rows, quiet>> /\ calls' = [calls EXCEPT ![c] = NoCall("rest")]
        /\ tracker' = [tracker EXCEPT ![i] = [tracker[i] EXCEPT ![c[1]] = 0]]
    BY <1>20 DEF HeartbeatFails, Rests, database
  <2>2. \A x \in Workers, j \in Instances :
          tracker'[j][x] = IF j = i /\ x = c[1] THEN 0 ELSE tracker[j][x]
    BY <1>1, <1>2, <2>1
  <2>3. \A x \in Workers, j \in Instances :
          ~(j = i /\ x = c[1]) /\ WritingThrough(x, j) => WritingThrough(x, j)'
    <3>1. \A d \in Callers : ~(calls[d].inst = i /\ d[1] = c[1]) => calls'[d] = calls[d]
      BY <1>1, <2>1
    <3> HIDE DEF i
    <3> QED
      BY <1>3, <3>1 DEF WritingThrough
  <2> HIDE DEF i
  <2>4. Noted'
    BY <2>1, <2>2, <2>3 DEF Noted
  <2> QED
    BY <2>1, <2>4 DEF Served
<1>21. ASSUME NEW c \in Callers, InsertWorker(c)
       PROVE  Goal
  <2>1. /\ UNCHANGED <<tracker, quiet, calls>> /\ rows[c[1]].status = "none"
        /\ rows' = [rows EXCEPT ![c[1]] = [status |-> "enrolled", token |-> NoToken, seen |-> 0]]
    BY <1>21 DEF InsertWorker, memory, Enlisted
  <2>2. /\ rows'[c[1]].seen = 0
        /\ \A x \in Workers : x # c[1] => rows'[x] = rows[x]
    BY <1>1, <1>2, <2>1
  <2>3. \A i \in Instances : ~WritingThrough(c[1], i)
    <3>1. held[c[1]] = NoToken
      BY <1>2, <2>1 DEF Enlisted
    <3>2. \A r \in Routines : calls[<<c[1], r>>].stage \in {"off", "renewing"}
      BY <1>0, <1>2, <1>3, <3>1, AuthAssumption DEF CallsOK
    <3> QED
      BY <3>2 DEF WritingThrough
  <2>4. \A i \in Instances : ~(tracker[i][c[1]] > 0)
    BY <1>2, <2>1, <2>3 DEF Noted
  <2>5. \A x \in Workers, i \in Instances : WritingThrough(x, i) => WritingThrough(x, i)'
    BY <2>1 DEF WritingThrough
  <2>6. Noted'
    BY <2>1, <2>2, <2>4, <2>5 DEF Noted
  <2>7. ~(quiet[c[1]] <= HealthyAfter - MinInterval)
    BY <1>2, <2>1 DEF Served
  <2>8. Served'
    BY <1>2, <1>4, <1>6, <2>1, <2>2, <2>7 DEF Served
  <2> QED
    BY <2>6, <2>8
<1>22. ASSUME NEW c \in Callers, CheckStatus(c) \/ HandlerFails(c)
       PROVE  Goal
  <2>1. UNCHANGED <<rows, tracker, quiet>>
    BY <1>22 DEF CheckStatus, HandlerFails, database, memory
  <2>2. UNCHANGED calls \/ (calls[c].stage # "write" /\ \E r : calls' = [calls EXCEPT ![c] = r])
    BY <1>22 DEF CheckStatus, HandlerFails, Answered
  <2>3. WritersStay
    BY <1>9, <1>10, <2>2
  <2> QED
    BY <1>7, <1>8, <2>1, <2>3
<1>23. ASSUME NEW c \in Callers, RotateToken(c)
       PROVE  Goal
  <2>1. /\ UNCHANGED <<tracker, quiet, calls>>
        /\ rows' = [rows EXCEPT ![c[1]] = [rows[c[1]] EXCEPT !.token = handlers[c].token]]
    BY <1>23 DEF RotateToken, memory
  <2>2. RowsStay
    BY <1>2, <1>11, <2>1
  <2> QED
    BY <1>7, <1>9, <2>1, <2>2
<1>24. ASSUME NEW c \in Callers, PublishToken(c)
       PROVE  Goal
  <2>1. UNCHANGED <<rows, tracker, quiet>>
    BY <1>24 DEF PublishToken, database
  <2>2. WritersStay
    <3>1. CASE calls[c].stage = "renewing"
      BY <1>1, <1>24, <3>1 DEF PublishToken
    <3>2. CASE calls[c].stage # "renewing"
      BY <1>9, <1>24, <3>2 DEF PublishToken
    <3> QED
      BY <3>1, <3>2
  <2> QED
    BY <1>7, <1>8, <2>1, <2>2
<1>25. ASSUME NEW i \in Instances, Restart(i)
       PROVE  Goal
  <2>1. /\ UNCHANGED <<rows, quiet>>
        /\ tracker' = [tracker EXCEPT ![i] = [w \in Workers |-> 0]]
    BY <1>25 DEF Restart, database
  <2>2. \A j \in Instances, x \in Workers : tracker'[j][x] = IF j = i THEN 0 ELSE tracker[j][x]
    BY <1>1, <2>1
  <2>3. \A d \in Callers : calls[d].stage = "write" /\ calls[d].inst # i => calls'[d] = calls[d]
    BY <1>25 DEF Restart
  <2>4. \A j \in Instances, x \in Workers : j # i /\ WritingThrough(x, j) => WritingThrough(x, j)'
    BY <1>3, <2>3 DEF WritingThrough
  <2>5. Noted'
    BY <2>1, <2>2, <2>4 DEF Noted
  <2> QED
    BY <2>1, <2>5 DEF Served
<1>26. ASSUME MarkWorkerInactive
       PROVE  Goal
  <2>1. UNCHANGED <<tracker, quiet, calls>>
    BY <1>26 DEF MarkWorkerInactive, memory
  <2>2. \A w \in Workers : /\ rows'[w].seen = rows[w].seen
                           /\ ~(rows[w].seen > InactiveAfter) => rows'[w].status = rows[w].status
    <3>1. ASSUME NEW w \in Workers
          PROVE  /\ rows'[w].seen = rows[w].seen
                 /\ ~(rows[w].seen > InactiveAfter) => rows'[w].status = rows[w].status
      <4>1. rows[w] \in WorkerRow
        BY <1>1
      <4> QED
        BY <1>26, <4>1 DEF MarkWorkerInactive, Unseen, WorkerRow
    <3> QED
      BY <3>1
  <2>3. \A w \in Workers, i \in Instances : WritingThrough(w, i) => WritingThrough(w, i)'
    BY <2>1 DEF WritingThrough
  <2>4. Noted'
    <3> SUFFICES ASSUME NEW w \in Workers, NEW i \in Instances,
                        tracker'[i][w] > 0, ~WritingThrough(w, i)'
                 PROVE  /\ rows'[w].status \in {"active", "revoked"}
                        /\ rows'[w].seen <= MinInterval - tracker'[i][w]
      BY DEF Noted
    <3>1. /\ rows[w].status \in {"active", "revoked"}
          /\ rows[w].seen <= MinInterval - tracker[i][w]
      BY <2>1, <2>3 DEF Noted
    <3>2. ~(rows[w].seen > InactiveAfter)
      BY <1>4, <1>5, <1>6, <3>1
    <3> QED
      BY <2>1, <2>2, <3>1, <3>2
  <2>5. Served'
    <3> SUFFICES ASSUME NEW w \in Workers
                 PROVE  /\ quiet'[w] <= HealthyAfter => rows'[w].seen <= quiet'[w] + MinInterval
                        /\ quiet'[w] <= HealthyAfter - MinInterval
                             => rows'[w].status \in {"active", "revoked"}
      BY DEF Served
    <3>1. /\ quiet[w] <= HealthyAfter => rows[w].seen <= quiet[w] + MinInterval
          /\ quiet[w] <= HealthyAfter - MinInterval => rows[w].status \in {"active", "revoked"}
      BY DEF Served
    <3>2. quiet[w] <= HealthyAfter - MinInterval => ~(rows[w].seen > InactiveAfter)
      BY <1>4, <1>6, <3>1
    <3> QED
      BY <2>1, <2>2, <3>1, <3>2
  <2> QED
    BY <2>4, <2>5
<1>27. ASSUME Tick
       PROVE  Goal
  <2>1. \A w \in Workers : /\ rows'[w].status = rows[w].status
                           /\ rows'[w].seen \in Nat /\ rows'[w].seen <= rows[w].seen + 1
    <3>1. ASSUME NEW w \in Workers
          PROVE  /\ rows'[w].status = rows[w].status
                 /\ rows'[w].seen \in Nat /\ rows'[w].seen <= rows[w].seen + 1
      <4>1. rows[w] \in WorkerRow
        BY <1>1
      <4>2. rows'[w] = [rows[w] EXCEPT !.seen = IF rows[w].status = "none" THEN 0
                                                ELSE UpTo(rows[w].seen, StatusAfter + 1)]
        BY <1>27 DEF Tick
      <4>3. /\ rows'[w].status = rows[w].status
            /\ rows'[w].seen = IF rows[w].status = "none" THEN 0
                               ELSE UpTo(rows[w].seen, StatusAfter + 1)
        BY <4>1, <4>2 DEF WorkerRow
      <4>4. rows[w].seen \in Nat /\ rows[w].seen <= StatusAfter + 1
        BY <1>6, <4>1 DEF WorkerRow
      <4> QED
        BY <1>6, <4>3, <4>4 DEF UpTo
    <3> QED
      BY <3>1
  <2>2. \A w \in Workers : quiet'[w] = UpTo(quiet[w], HealthyAfter + 1)
    BY <1>27 DEF Tick
  <2>3. \A i \in Instances, w \in Workers :
          tracker'[i][w] = IF tracker[i][w] = 0 THEN 0 ELSE tracker[i][w] - 1
    BY <1>27 DEF Tick
  <2>4. \A w \in Workers, i \in Instances : WritingThrough(w, i) => WritingThrough(w, i)'
    <3>1. WritersStay
      BY <1>27 DEF Tick
    <3> QED
      BY <1>3, <3>1 DEF WritingThrough
  <2>5. Noted'
    <3> SUFFICES ASSUME NEW w \in Workers, NEW i \in Instances,
                        tracker'[i][w] > 0, ~WritingThrough(w, i)'
                 PROVE  /\ rows'[w].status \in {"active", "revoked"}
                        /\ rows'[w].seen <= MinInterval - tracker'[i][w]
      BY DEF Noted
    <3>1. tracker[i][w] > 0 /\ tracker'[i][w] = tracker[i][w] - 1
      BY <1>5, <2>3
    <3>2. /\ rows[w].status \in {"active", "revoked"}
          /\ rows[w].seen <= MinInterval - tracker[i][w]
      BY <2>4, <3>1 DEF Noted
    <3>3. /\ rows'[w].status = rows[w].status
          /\ rows'[w].seen \in Nat /\ rows'[w].seen <= rows[w].seen + 1
      BY <2>1
    <3> QED
      BY <1>4, <1>5, <1>6, <3>1, <3>2, <3>3
  <2>6. Served'
    <3> SUFFICES ASSUME NEW w \in Workers
                 PROVE  /\ quiet'[w] <= HealthyAfter => rows'[w].seen <= quiet'[w] + MinInterval
                        /\ quiet'[w] <= HealthyAfter - MinInterval
                             => rows'[w].status \in {"active", "revoked"}
      BY DEF Served
    <3>1. /\ quiet[w] <= HealthyAfter => rows[w].seen <= quiet[w] + MinInterval
          /\ quiet[w] <= HealthyAfter - MinInterval => rows[w].status \in {"active", "revoked"}
      BY DEF Served
    <3>2. quiet[w] \in 0 .. HealthyAfter + 1
      BY <1>1
    <3>3. /\ quiet'[w] <= HealthyAfter => quiet'[w] = quiet[w] + 1
          /\ quiet'[w] \in Nat /\ quiet'[w] <= HealthyAfter - MinInterval => quiet'[w] <= HealthyAfter
      BY <1>6, <2>2, <3>2 DEF UpTo
    <3>4. /\ rows'[w].status = rows[w].status
          /\ rows'[w].seen \in Nat /\ rows'[w].seen <= rows[w].seen + 1
      BY <2>1
    <3>5. quiet'[w] \in Nat
      BY <1>6, <2>2, <3>2 DEF UpTo
    <3> QED
      BY <1>4, <1>6, <3>1, <3>3, <3>4, <3>5
  <2> QED
    BY <2>5, <2>6
<1>28. ASSUME UNCHANGED vars
       PROVE  Goal
  BY <1>7, <1>8, <1>9, <1>28 DEF vars
<1> QED
  <2>1. \A r \in Routines : Reaches[r] \in SUBSET Instances
    BY RoutingAssumption
  <2>2. Poll \in Routines
    BY DEF Routines
  <2> HIDE DEF Goal
  <2>3. ASSUME NEW c \in Callers, CallStep(c) \/ HandlerStep(c)
        PROVE  Goal
    <3>1. c[2] \in Routines
      BY <1>2
    <3> QED
      BY <1>16, <1>17, <1>18, <1>19, <1>21, <1>22, <1>23, <1>24, <2>1, <2>3, <3>1
         DEF CallStep, HandlerStep
  <2>4. Goal
    BY <1>12, <1>13, <1>14, <1>15, <1>16, <1>20, <1>22, <1>25, <1>26, <1>27, <1>28, <2>1, <2>2, <2>3
       DEF Next
  <2> QED
    BY <2>4 DEF Goal

\* The heartbeats that are suppressed and the ones that fail are known to be
\* unnecessary or made up for.
LEMMA HeartbeatsTracked == Spec => [](Enlisted /\ Noted /\ Served)
<1>1. Init => Enlisted /\ Noted /\ Served
  <2> SUFFICES ASSUME Init
               PROVE  Enlisted /\ Noted /\ Served
    OBVIOUS
  <2>1. \A c \in Callers : handlers[c].stage = "none" /\ c[1] \in Workers
    BY DEF Init, NoHandler, Callers
  <2>2. \A w \in Workers : /\ rows[w].status = "none" /\ held[w] = NoToken
                           /\ revoking[w].stage = "none" /\ quiet[w] = HealthyAfter + 1
    BY DEF Init
  <2>3. \A i \in Instances, w \in Workers : tracker[i][w] = 0
    BY DEF Init
  <2>4. Enlisted
    BY <2>1, <2>2 DEF Enlisted
  <2>5. Noted
    BY <2>3 DEF Noted
  <2>6. Served
    BY <2>2, HeartbeatAssumption DEF Served
  <2> QED
    BY <2>4, <2>5, <2>6
<1>2. Inv /\ OwnedOK /\ (Enlisted /\ Noted /\ Served) /\ [Next]_vars
        => (Enlisted /\ Noted /\ Served)'
  BY EnlistedStep, TrackedStep
<1> QED
  BY <1>1, <1>2, InvHolds, OwnedHolds, PTL DEF Spec

\* A worker whose calls are served stays in its region's health, in the list of
\* active workers and in the answer about its status, although most of its
\* heartbeats are never written.
THEOREM ServedMeansHealthyHolds == Spec => []ServedMeansHealthy
<1>1. ASSUME TypeOK, Served, NEW w \in Workers,
             quiet[w] <= HealthyAfter - MinInterval, rows[w].status # "revoked"
      PROVE  /\ Healthy(w) /\ ZeroHealthyRegions({WorkerRegion[w]}) = {}
             /\ GetWorkerStatus(w) = "active" /\ w \in ListWorkers(WorkerRegion[w], "active")
  <2>1. rows[w] \in WorkerRow /\ quiet[w] \in 0 .. HealthyAfter + 1
    BY <1>1 DEF TypeOK
  <2>2. rows[w].seen \in Nat /\ quiet[w] \in Nat
    BY <2>1, HeartbeatAssumption DEF WorkerRow
  <2>3. rows[w].status = "active"
    BY <1>1 DEF Served
  <2>4. rows[w].seen <= HealthyAfter
    <3>1. quiet[w] <= HealthyAfter => rows[w].seen <= quiet[w] + MinInterval
      BY <1>1 DEF Served
    <3> QED
      BY <1>1, <2>2, <3>1, HeartbeatAssumption
  <2>5. Healthy(w)
    BY <2>3, <2>4 DEF Healthy
  <2>6. ListRegionHealth(WorkerRegion[w]) # 0
    <3> DEFINE H == {x \in Workers : WorkerRegion[x] = WorkerRegion[w] /\ Healthy(x)}
    <3>1. IsFiniteSet(H) /\ H # {}
      BY <2>5, AuthAssumption, FS_Subset
    <3>2. Cardinality(H) # 0
      <4> HIDE DEF H
      <4> QED
        BY <3>1, FS_EmptySet
    <3> QED
      BY <3>2 DEF ListRegionHealth
  <2>7. ZeroHealthyRegions({WorkerRegion[w]}) = {}
    BY <2>6 DEF ZeroHealthyRegions
  <2>8. GetWorkerStatus(w) = "active"
    BY <2>2, <2>3, <2>4, HeartbeatAssumption DEF GetWorkerStatus
  <2>9. w \in ListWorkers(WorkerRegion[w], "active")
    BY <2>3 DEF ListWorkers
  <2> QED
    BY <2>5, <2>7, <2>8, <2>9
<1>2. TypeOK /\ Served => ServedMeansHealthy
  BY <1>1 DEF ServedMeansHealthy
<1> QED
  BY <1>2, TypesKept, HeartbeatsTracked, PTL
=============================================================================
