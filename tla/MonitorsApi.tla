----------------------------- MODULE MonitorsApi -----------------------------
(***************************************************************************)
(* MonitorsService: what users, each signed in for the call, do to the rows *)
(* of app.monitors.  UpdateMonitor reads the row, merges the request into  *)
(* it and writes every column back, in two statements without a            *)
(* transaction, so that updates of one monitor can overlap each other and  *)
(* a deletion.                                                             *)
(*                                                                         *)
(* Of the columns a user sets, enabled and regions stand for all: one that *)
(* is taken as it is and one that is normalised.  The scheduler's columns  *)
(* are in Scheduler.                                                       *)
(***************************************************************************)
EXTENDS Integers, FiniteSets

CONSTANTS
    Monitors,     \* ids, which the users choose
    Users,
    NoUser,
    Updates,      \* bound: UpdateMonitor handlers at a time
    Spellings,    \* region names as users write them
    Normalize,    \* spelling -> the trimmed lower-case name, "global" for a blank one
    Absent,       \* a field that a request leaves out
    Requests      \* the requests of CreateMonitor and UpdateMonitor

Request == [enabled : BOOLEAN \cup {Absent}, regions : SUBSET Spellings]
NormalRegions == {Normalize[s] : s \in Spellings} \cup {"global"}

ASSUME ApiAssumption ==
    /\ NoUser \notin Users /\ Absent \notin BOOLEAN /\ Requests \subseteq Request
    /\ Monitors # {} /\ IsFiniteSet(Monitors)

VARIABLES
    monitors,  \* app.monitors
    updates,   \* UpdateMonitor handlers between their two statements
    acked,     \* monitor -> what its user asked for and was told it has, column by column
    raced      \* monitors with updates that overlapped

apiVars == <<monitors, updates, acked, raced>>

Columns == [enabled : BOOLEAN, regions : (SUBSET NormalRegions) \ {{}}]
NoColumns == [enabled |-> FALSE, regions |-> {"global"}]
MonitorRow == [owner : Users \cup {NoUser}, deleted : BOOLEAN, columns : Columns]
NoRow == [owner |-> NoUser, deleted |-> FALSE, columns |-> NoColumns]
NoRequest == [enabled |-> Absent, regions |-> {}]
NoUpdate == [user |-> NoUser, monitor |-> CHOOSE m \in Monitors : TRUE,
             request |-> NoRequest, existing |-> NoColumns]

\* The types of the rows and handlers; a stored monitor has a region to run in,
\* and only normalised ones, which the regions of the workers are compared with.
ApiTypeOK ==
    /\ monitors \in [Monitors -> MonitorRow]
    /\ updates \in [Updates -> [user : Users \cup {NoUser}, monitor : Monitors,
                                request : Requests \cup {NoRequest}, existing : Columns]]
    /\ acked \in [Monitors -> Columns]
    /\ raced \subseteq Monitors

ApiInit ==
    /\ monitors = [m \in Monitors |-> NoRow]
    /\ updates = [h \in Updates |-> NoUpdate]
    /\ acked = [m \in Monitors |-> NoColumns]
    /\ raced = {}

-----------------------------------------------------------------------------
(* Reading: the statements that the handlers start with *)

\* GetMonitorByUser: the user's own, unless deleted.
GetMonitorByUser(u, m) == monitors[m].owner = u /\ ~monitors[m].deleted

\* ListMonitorsByUser.
ListMonitorsByUser(u) == {m \in Monitors : monitors[m].owner = u /\ ~monitors[m].deleted}

\* GetMonitor: the monitor, or none for NotFound.
GetMonitor(u, m) == IF GetMonitorByUser(u, m) THEN {monitors[m].columns} ELSE {}

ListMonitors(u) == {[id |-> m, columns |-> monitors[m].columns] : m \in ListMonitorsByUser(u)}

\* Mutation of NormalizeList: the names are stored as they were written.
NormalizeListNot(regions) == regions

\* Spellings of one region become one entry.
NormalizeList(regions) == {Normalize[s] : s \in regions}

\* Mutation of Merged: a column that the request leaves out falls back to its default.
MergedWithDefaults(request, existing) ==
    [enabled |-> IF request.enabled = Absent THEN TRUE ELSE request.enabled,
     regions |-> IF request.regions = {} THEN existing.regions ELSE NormalizeList(request.regions)]

\* The columns that UpdateMonitor writes: those of the request over those it read.
Merged(request, existing) ==
    [enabled |-> IF request.enabled = Absent THEN existing.enabled ELSE request.enabled,
     regions |-> IF request.regions = {} THEN existing.regions ELSE NormalizeList(request.regions)]

\* What a user knows after an update: the columns that the request names are new.
Told(request, before) ==
    [enabled |-> IF request.enabled \in BOOLEAN THEN request.enabled ELSE before.enabled,
     regions |-> IF request.regions = {} THEN before.regions
                 ELSE {Normalize[s] : s \in request.regions}]

\* The defaults of CreateMonitor.
Defaulted(request) == Merged(request, [enabled |-> TRUE, regions |-> {"global"}])
-----------------------------------------------------------------------------
(* The handlers *)

\* Mutation of IdTaken: a deleted monitor no longer occupies its id.
IdTakenByLive(m) == monitors[m].owner # NoUser /\ ~monitors[m].deleted

\* The primary key: deleted rows stay in the table.
IdTaken(m) == monitors[m].owner # NoUser

\* CreateMonitor: one INSERT, which fails when the id is taken.
CreateMonitor(u, m, request) ==
    /\ ~IdTaken(m)
    /\ monitors' = [monitors EXCEPT ![m] =
                      [owner |-> u, deleted |-> FALSE, columns |-> Defaulted(request)]]
    /\ acked' = [acked EXCEPT ![m] = Defaulted(request)]
    /\ UNCHANGED <<updates, raced>>

UpdatesOf(m) == {h \in Updates : updates[h].user # NoUser /\ updates[h].monitor = m}

\* UpdateMonitor, first statement: the user's row is read.
ReadMonitor(h, u, m, request) ==
    /\ updates[h] = NoUpdate /\ GetMonitorByUser(u, m)
    /\ updates' = [updates EXCEPT ![h] = [user |-> u, monitor |-> m, request |-> request,
                                         existing |-> monitors[m].columns]]
    /\ raced' = IF UpdatesOf(m) = {} THEN raced ELSE raced \cup {m}
    /\ acked' = IF UpdatesOf(m) = {} THEN acked ELSE [acked EXCEPT ![m] = NoColumns]
    /\ UNCHANGED monitors

\* Mutation of Written: the whole row is written back, with deleted_at as it was read.
WrittenWithDeletedAt(h) ==
    [monitors[updates[h].monitor] EXCEPT
        !.columns = Merged(updates[h].request, updates[h].existing), !.deleted = FALSE]

\* UpdateMonitorByUser: the row of this id and user, deleted or not.
Written(h) ==
    [monitors[updates[h].monitor] EXCEPT
        !.columns = Merged(updates[h].request, updates[h].existing)]

\* UpdateMonitor, second statement: every column is written, and the result answered.
WriteMonitor(h) ==
    LET m == updates[h].monitor
    IN  /\ updates[h].user # NoUser /\ monitors[m].owner = updates[h].user
        /\ monitors' = [monitors EXCEPT ![m] = Written(h)]
        /\ updates' = [updates EXCEPT ![h] = NoUpdate]
        /\ acked' = IF m \in raced THEN acked
                    ELSE [acked EXCEPT ![m] = Told(updates[h].request, acked[m])]
        /\ UNCHANGED raced

\* The second statement fails and nothing is written.
WriteFails(h) ==
    /\ updates[h].user # NoUser
    /\ updates' = [updates EXCEPT ![h] = NoUpdate]
    /\ UNCHANGED <<monitors, acked, raced>>

\* DeleteMonitor sets deleted_at, and succeeds whether or not there is such a row.
DeleteMonitor(u, m) ==
    /\ GetMonitorByUser(u, m)
    /\ monitors' = [monitors EXCEPT ![m].deleted = TRUE]
    /\ UNCHANGED <<updates, acked, raced>>

ApiNext ==
    \/ \E u \in Users, m \in Monitors, request \in Requests :
         \/ CreateMonitor(u, m, request)
         \/ \E h \in Updates : ReadMonitor(h, u, m, request)
    \/ \E h \in Updates : WriteMonitor(h) \/ WriteFails(h)
    \/ \E u \in Users, m \in Monitors : DeleteMonitor(u, m)
-----------------------------------------------------------------------------
(* Properties *)

\* What a user was told about a monitor is what GetMonitor and ListMonitors answer,
\* as long as no two updates of it overlapped: an update changes nothing its request
\* does not name, whatever it read before, and failed updates do not disturb it.
AcknowledgedChangesKept ==
    \A u \in Users, m \in Monitors \ raced :
        /\ GetMonitor(u, m) \subseteq {acked[m]}
        /\ \A x \in ListMonitors(u) : x.id = m => x.columns = acked[m]

\* A deleted monitor stays deleted: an update that read the row before the deletion
\* and writes all of its columns after it does not bring the monitor back.
DeletedStaysDeleted == [][\A m \in Monitors : monitors[m].deleted => monitors'[m].deleted]_apiVars
=============================================================================
