------------------------------ MODULE Reporting ------------------------------
(***************************************************************************)
(* What users are shown of the checks: ts.results_raw as the workers'      *)
(* submissions fill it, the continuous aggregates by hour and by day that  *)
(* the database refreshes on its own schedule, and the answers that        *)
(* MonitorsService and DashboardService compute from them, with their      *)
(* fallbacks from coarse aggregates to finer ones and to the raw rows.     *)
(*                                                                         *)
(* The clock counts hours.  A check is one execution: a run that is        *)
(* executed again has a new event_at and is another check.  Windows count  *)
(* whole hours: the one a window cuts through is left out.                 *)
(***************************************************************************)
EXTENDS MonitorsApi, FiniteSetsExt

CONSTANTS
    Checks,
    RegionOf,  \* check -> the region of the worker that made it
    PageSize,  \* the default limit of GetMonitorResults
    Day,       \* hours of a day, and of the window "24h"
    Week,      \* hours of the window "7d"
    Month,     \* hours of the window "30d"
    Horizon    \* bound: hours of a behaviour

ASSUME ReportingAssumption ==
    /\ {Day, Week, Month, Horizon, PageSize} \subseteq Nat
    /\ 0 < Day /\ Day <= Week /\ Week <= Month
    /\ IsFiniteSet(Checks)

VARIABLES
    now,
    results,  \* check -> its rows in results_raw: how many, of what
    agg1h,    \* check -> rows of it that the buckets of results_agg_1h count
    agg1d     \* check -> rows of it that the buckets of results_agg_1d count

vars == <<apiVars, now, results, agg1h, agg1d>>
reports == <<now, results, agg1h, agg1d>>

NoResult == [rows |-> 0, monitor |-> CHOOSE m \in Monitors : TRUE, owner |-> NoUser,
             hour |-> 0, status |-> "OK"]
ResultStatuses == {"OK", "FAIL"}  \* ERROR counts as FAIL does
Counts == [Checks -> 0 .. 2]

\* The types of the rows (see ApiTypeOK), the results and the aggregates.
TypeOK ==
    /\ ApiTypeOK
    /\ now \in 0 .. Horizon
    /\ results \in [Checks -> [rows : 0 .. 2, monitor : Monitors, owner : Users \cup {NoUser},
                               hour : 0 .. Horizon, status : ResultStatuses]]
    /\ agg1h \in Counts /\ agg1d \in Counts

Init ==
    /\ ApiInit
    /\ now = 0
    /\ results = [k \in Checks |-> NoResult]
    /\ agg1h = [k \in Checks |-> 0]
    /\ agg1d = [k \in Checks |-> 0]

Stored(m) == {k \in Checks : results[k].rows > 0 /\ results[k].monitor = m}
-----------------------------------------------------------------------------
(* Storing results *)

\* Mutation of RowsAfter: an insert without ON CONFLICT.
RowsAfterInsert(k) == IF results[k].rows < 2 THEN results[k].rows + 1 ELSE 2

\* UpsertResult: a check that is submitted again overwrites its row.
RowsAfter(k) == 1

\* ProcessResult of a check that was executed in this hour or the one before, of a
\* monitor that may have been deleted since.
StoreResult(k, m, status) ==
    /\ results[k].rows = 0 /\ monitors[m].owner # NoUser
    /\ \E hour \in {now, now - 1} \cap Nat :
         results' = [results EXCEPT ![k] = [rows |-> RowsAfter(k), monitor |-> m, hour |-> hour,
                                            owner |-> monitors[m].owner, status |-> status]]
    /\ UNCHANGED <<apiVars, now, agg1h, agg1d>>

\* The worker submits the check again: the answer was lost, or committed=false.
ResubmitResult(k) ==
    /\ results[k].rows > 0
    /\ results' = [results EXCEPT ![k].rows = RowsAfter(k)]
    /\ UNCHANGED <<apiVars, now, agg1h, agg1d>>

\* The policies refresh every bucket that is over and has changed.
RefreshHours ==
    /\ agg1h' = [k \in Checks |-> IF results[k].hour < now THEN results[k].rows ELSE agg1h[k]]
    /\ UNCHANGED <<apiVars, now, results, agg1d>>

RefreshDays ==
    /\ agg1d' = [k \in Checks |-> IF results[k].hour \div Day < now \div Day
                                  THEN results[k].rows ELSE agg1d[k]]
    /\ UNCHANGED <<apiVars, now, results, agg1h>>

HourPasses ==
    /\ now < Horizon
    /\ now' = now + 1
    /\ UNCHANGED <<apiVars, results, agg1h, agg1d>>

Next ==
    \/ ApiNext /\ UNCHANGED reports
    \/ \E k \in Checks : \/ ResubmitResult(k)
                         \/ \E m \in Monitors, s \in ResultStatuses : StoreResult(k, m, s)
    \/ RefreshHours \/ RefreshDays \/ HourPasses

Spec == Init /\ [][Next]_vars
-----------------------------------------------------------------------------
(* The statements that read results *)

\* The checks of a monitor whose bucket of h hours starts within a window.
Within(m, window, h) == {k \in Stored(m) : (results[k].hour \div h) * h > now - window}

\* A column of counts, summed over some checks: total_checks and successful_checks.
Sum(counts, K) ==
    [total |-> MapThenSumSet(LAMBDA k : counts[k], K),
     successful |-> MapThenSumSet(LAMBDA k : counts[k], {k \in K : results[k].status = "OK"})]

Raw == [k \in Checks |-> results[k].rows]

GetUptimeData24h(m) == Sum(agg1h, Within(m, Day, 1))
GetUptimeData24hRaw(m) == Sum(Raw, Within(m, Day, 1))
GetUptimeData7d(m) == Sum(agg1h, Within(m, Week, 1))
GetUptimeData30d(m) == Sum(agg1d, Within(m, Month, Day))

\* The points of a timeline: one for each group of checks, here those of a bucket.
Points(counts, K, h) ==
    {[bucket |-> b, data |-> Sum(counts, {k \in K : results[k].hour \div h = b})] :
       b \in {results[k].hour \div h : k \in {j \in K : counts[j] > 0}}}

GetUptimeTimeline24h(m) == Points(Raw, Within(m, Day, 1), 1)
GetUptimeTimeline7d(m) == Points(agg1h, Within(m, Week, 1), 1)

\* The rows of results_agg_1d as they are, a point for each day and region.
GetUptimeTimeline30d(m) ==
    UNION {{[bucket |-> p.bucket, region |-> g, data |-> p.data] :
              p \in Points(agg1d, {k \in Within(m, Month, Day) : RegionOf[k] = g}, Day)} :
             g \in {RegionOf[k] : k \in Checks}}

\* The column uptime_percentage of such a row is a float, but is read into an int32,
\* which fails for the whole answer unless it is a whole number.
Unreadable(p) == (100 * p.data.successful) % p.data.total # 0

Timeline30dFails(m) == \E p \in GetUptimeTimeline30d(m) : Unreadable(p)

\* GetRecentResults: the newest rows of the last hour, up to a limit; which ones
\* are newest within the hour is open.
GetRecentResults(m, limit) ==
    LET K == {k \in Stored(m) : results[k].hour = now}
    IN  {R \in SUBSET K : Cardinality(R) = Min({limit, Cardinality(K)})}

\* GetLatestResultPerMonitor: the newest row of the last minutes, one of this hour.
GetLatestResult(m) == {k \in Stored(m) : results[k].hour = now}
-----------------------------------------------------------------------------
(* The answers *)

\* GetMonitorResults of a monitor the user can open; a limit of 0 is the default.
GetMonitorResults(u, m, limit) ==
    IF ~GetMonitorByUser(u, m) THEN {}
    ELSE GetRecentResults(m, IF limit = 0 THEN PageSize ELSE limit)

\* Mutation of FetchUptime24h: no fallback to the raw rows.
FetchUptime24hAggregate(m) == GetUptimeData24h(m)

\* While no hour is aggregated yet, the raw rows answer.
FetchUptime24h(m) ==
    IF GetUptimeData24h(m).total = 0 THEN GetUptimeData24hRaw(m) ELSE GetUptimeData24h(m)

FetchUptime7d(m) ==
    IF GetUptimeData7d(m).total = 0 THEN FetchUptime24h(m) ELSE GetUptimeData7d(m)

FetchUptime30d(m) ==
    IF GetUptimeData30d(m).total = 0 THEN FetchUptime7d(m) ELSE GetUptimeData30d(m)

\* GetMonitorUptime, for a range, by the number of its hours.
GetMonitorUptime(m, range) ==
    IF range = Day THEN FetchUptime24h(m)
    ELSE IF range = Week THEN FetchUptime7d(m) ELSE FetchUptime30d(m)

\* GetMonitorUptimeTimeline; {} also stands for an error.
GetMonitorUptimeTimeline(m, range) ==
    LET nonEmpty(p, q) == IF p # {} THEN p ELSE q
    IN  IF range = Day THEN GetUptimeTimeline24h(m)
        ELSE IF range = Week THEN nonEmpty(GetUptimeTimeline7d(m), GetUptimeTimeline24h(m))
        ELSE IF Timeline30dFails(m) THEN {}
        ELSE nonEmpty(GetUptimeTimeline30d(m),
                      nonEmpty(GetUptimeTimeline7d(m), GetUptimeTimeline24h(m)))

\* Mutation of Failing: disabled monitors count as failing, too.
FailingAny(u, latest) ==
    {m \in ListMonitorsByUser(u) : latest[m] # {} /\ \E k \in latest[m] : results[k].status # "OK"}

\* The enabled monitors of a user whose latest result is bad.
Failing(u, latest) ==
    {m \in ListMonitorsByUser(u) :
        monitors[m].columns.enabled /\ \E k \in latest[m] : results[k].status # "OK"}

\* GetDashboardOverview, given one latest result (or none) of each monitor.
GetDashboardOverview(u, latest) ==
    LET total == Cardinality(ListMonitorsByUser(u))
        enabled == Cardinality({m \in ListMonitorsByUser(u) : monitors[m].columns.enabled})
        failing == Cardinality(Failing(u, latest))
    IN  [total |-> total, enabled |-> enabled, disabled |-> total - enabled,
         healthy |-> enabled - failing, unhealthy |-> failing]

LatestResults ==
    {f \in [Monitors -> {{}} \cup {{k} : k \in Checks}] :
       \A m \in Monitors : IF GetLatestResult(m) = {} THEN f[m] = {}
                           ELSE \E k \in GetLatestResult(m) : f[m] = {k}}
-----------------------------------------------------------------------------
(* Properties *)

Ranges == {Day, Week, Month}

\* As long as a check of the last day is stored, every range and every timeline has
\* an answer, however far behind the aggregates are; but for percentages of 30 days
\* that cannot be read.
UptimeAnswered ==
    \A m \in Monitors : Within(m, Day, 1) # {} =>
        \A range \in Ranges :
            /\ GetMonitorUptime(m, range).total > 0
            /\ GetMonitorUptimeTimeline(m, range) # {} \/ (range = Month /\ Timeline30dFails(m))

\* What the comment on time_range in proto/openseer/v1/monitors.proto:160 says: the
\* timeline is there for "30d", too.
Timeline30dAnswered ==
    \A m \in Monitors : Within(m, Day, 1) # {} => GetMonitorUptimeTimeline(m, Month) # {}

\* No answer counts a check more than once or one that was not stored: aggregates
\* may be late, and submissions repeated, but together they never count too much.
UptimeCountsStoredChecks ==
    \A m \in Monitors, range \in Ranges :
        /\ GetMonitorUptime(m, range).total <= Cardinality(Within(m, range, 1))
        /\ MapThenSumSet(LAMBDA p : p.data.total, GetMonitorUptimeTimeline(m, range))
              <= Cardinality(Within(m, range, 1))

\* A user who can open a monitor sees only checks that were made for that user: an
\* id that was used once never leads to the history of another user's monitor.
ResultsOfOwner ==
    \A u \in Users, m \in Monitors :
        /\ \A R \in GetMonitorResults(u, m, 0) : \A k \in R : results[k].owner = u
        /\ GetMonitorByUser(u, m) => \A k \in Within(m, Month, 1) : results[k].owner = u

\* The dashboard's numbers add up, whichever of its two statements saw more.
DashboardAddsUp ==
    \A u \in Users, latest \in LatestResults :
        LET o == GetDashboardOverview(u, latest)
        IN  /\ o.enabled + o.disabled = o.total /\ o.healthy + o.unhealthy = o.enabled
            /\ o.healthy >= 0 /\ o.disabled >= 0
=============================================================================
