--------------------------- MODULE ReportingProofs ---------------------------
(***************************************************************************)
(* Proofs, for any number of users, monitors, overlapping updates and      *)
(* checks, of what users are told by MonitorsApi and Reporting: the type   *)
(* invariant, that acknowledged changes are kept, that deletions last,     *)
(* that results are shown to nobody else, that the dashboard adds up, and  *)
(* that no aggregate counts a check more often than it is stored.          *)
(***************************************************************************)
EXTENDS Reporting, SumTheorems, TLAPS

-----------------------------------------------------------------------------
(* The inductive invariant *)

\* The row an update is about is its user's.
UpdatesOwned ==
    \A h \in Updates : updates[h].user # NoUser =>
        /\ updates[h].user \in Users /\ updates[h].request \in Requests
        /\ monitors[updates[h].monitor].owner = updates[h].user

\* A deleted row is somebody's, and keeps its id from being used again.
DeletedOwned == \A m \in Monitors : monitors[m].deleted => monitors[m].owner # NoUser

\* As long as no two updates of a monitor overlapped there is at most one, and what
\* it read is still in the row, which is what the user was told.
Undisturbed ==
    \A m \in Monitors \ raced :
        /\ monitors[m].columns = acked[m]
        /\ \A h \in UpdatesOf(m) : updates[h].existing = monitors[m].columns
        /\ \A g, h \in UpdatesOf(m) : g = h

\* Results are stored for the owner of their monitor, whoever that is for good.
ResultsOwned ==
    \A k \in Checks : results[k].rows > 0 =>
        /\ monitors[results[k].monitor].owner # NoUser
        /\ results[k].owner = monitors[results[k].monitor].owner

\* A check is stored once, and no aggregate counts more of it than is stored.
CountedOnce ==
    \A k \in Checks : /\ results[k].rows <= 1
                      /\ agg1h[k] <= results[k].rows /\ agg1d[k] <= results[k].rows

ApiInv == ApiTypeOK /\ UpdatesOwned /\ DeletedOwned /\ Undisturbed

Inv == TypeOK /\ ApiInv /\ ResultsOwned /\ CountedOnce

-----------------------------------------------------------------------------
(* Rows, requests and handlers *)

UpdateRec == [user : Users \cup {NoUser}, monitor : Monitors,
              request : Requests \cup {NoRequest}, existing : Columns]
ResultRec == [rows : 0 .. 2, monitor : Monitors, owner : Users \cup {NoUser},
              hour : 0 .. Horizon, status : ResultStatuses]

\* The empty rows and handlers are rows and handlers.
LEMMA EmptyTypes ==
    /\ NoColumns \in Columns /\ NoRow \in MonitorRow /\ NoUpdate \in UpdateRec
    /\ NoRow.owner = NoUser /\ NoRow.deleted = FALSE /\ NoRow.columns = NoColumns
    /\ NoUpdate.user = NoUser
<1>1. NoColumns \in Columns
  BY DEF NoColumns, Columns, NormalRegions
<1>2. NoRow \in MonitorRow /\ NoRow.owner = NoUser /\ NoRow.deleted = FALSE
      /\ NoRow.columns = NoColumns
  BY <1>1 DEF NoRow, MonitorRow
<1>3. (CHOOSE m \in Monitors : TRUE) \in Monitors
  BY ApiAssumption
<1>4. NoUpdate \in UpdateRec /\ NoUpdate.user = NoUser
  BY <1>1, <1>3 DEF NoUpdate, UpdateRec
<1> QED
  BY <1>1, <1>2, <1>4

\* The fields of a stored row and of a handler.
LEMMA ApiTypes ==
    ASSUME ApiTypeOK
    PROVE  /\ monitors \in [Monitors -> MonitorRow] /\ updates \in [Updates -> UpdateRec]
           /\ \A m \in Monitors : /\ monitors[m] \in MonitorRow
                                  /\ monitors[m].columns \in Columns
                                  /\ monitors[m].owner \in Users \cup {NoUser}
           /\ \A h \in Updates : /\ updates[h] \in UpdateRec
                                 /\ updates[h].monitor \in Monitors
                                 /\ updates[h].existing \in Columns
<1>1. monitors \in [Monitors -> MonitorRow] /\ updates \in [Updates -> UpdateRec]
  BY DEF ApiTypeOK, UpdateRec
<1>2. ASSUME NEW m \in Monitors
      PROVE  /\ monitors[m] \in MonitorRow /\ monitors[m].columns \in Columns
             /\ monitors[m].owner \in Users \cup {NoUser}
  <2>1. monitors[m] \in MonitorRow
    BY <1>1
  <2> QED
    BY <2>1 DEF MonitorRow
<1>3. ASSUME NEW h \in Updates
      PROVE  /\ updates[h] \in UpdateRec /\ updates[h].monitor \in Monitors
             /\ updates[h].existing \in Columns
  <2>1. updates[h] \in UpdateRec
    BY <1>1
  <2> QED
    BY <2>1 DEF UpdateRec
<1> QED
  BY <1>1, <1>2, <1>3

\* UpdateMonitor writes columns, and those a user expects when it has read what
\* the user was told.
LEMMA MergedIsTold ==
    ASSUME NEW request \in Requests, NEW existing \in Columns
    PROVE  /\ Merged(request, existing) \in Columns
           /\ Told(request, existing) = Merged(request, existing)
<1>1. request \in Request
  BY ApiAssumption
<1>2. request.enabled \in BOOLEAN \cup {Absent} /\ request.regions \in SUBSET Spellings
  BY <1>1 DEF Request
<1>3. existing.enabled \in BOOLEAN /\ existing.regions \in (SUBSET NormalRegions) \ {{}}
  BY DEF Columns
<1>4. NormalizeList(request.regions) \subseteq NormalRegions
      /\ (request.regions # {} => NormalizeList(request.regions) # {})
  BY <1>2 DEF NormalizeList, NormalRegions
<1>5. Merged(request, existing) \in Columns
  BY <1>2, <1>3, <1>4 DEF Merged, Columns
<1>6. request.enabled \in BOOLEAN <=> request.enabled # Absent
  BY <1>2, ApiAssumption
<1>7. Told(request, existing) = Merged(request, existing)
  BY <1>6 DEF Told, Merged, NormalizeList
<1> QED
  BY <1>5, <1>7

-----------------------------------------------------------------------------
(* The handlers of MonitorsService *)

\* A row keeps its owner and stays deleted.
RowsLast ==
    \A m \in Monitors :
        /\ monitors[m].owner # NoUser => monitors'[m].owner = monitors[m].owner
        /\ monitors[m].deleted => monitors'[m].deleted

\* A new row is no row that was deleted, and no handler knows of it yet.
LEMMA Creating ==
    ASSUME ApiInv, NEW u \in Users, NEW m \in Monitors, NEW request \in Requests,
           CreateMonitor(u, m, request)
    PROVE  ApiInv' /\ RowsLast
<1> DEFINE cols == Defaulted(request)
           row == [owner |-> u, deleted |-> FALSE, columns |-> cols]
<1>0. ApiTypeOK /\ monitors \in [Monitors -> MonitorRow] /\ monitors[m].owner = NoUser
  BY ApiTypes DEF ApiInv, CreateMonitor, IdTaken
<1>1. cols \in Columns
  <2>1. [enabled |-> TRUE, regions |-> {"global"}] \in Columns
    BY DEF Columns, NormalRegions
  <2> QED
    BY <2>1, MergedIsTold DEF Defaulted
<1>2. row \in MonitorRow /\ row.owner = u /\ row.deleted = FALSE /\ row.columns = cols
  BY <1>1 DEF MonitorRow
<1>3. /\ monitors' = [monitors EXCEPT ![m] = row] /\ acked' = [acked EXCEPT ![m] = cols]
      /\ updates' = updates /\ raced' = raced
  BY DEF CreateMonitor
<1> HIDE DEF row, cols
<1>4. /\ monitors' \in [Monitors -> MonitorRow] /\ monitors'[m] = row
      /\ \A n \in Monitors \ {m} : monitors'[n] = monitors[n]
  BY <1>0, <1>2, <1>3
<1>5. /\ acked' \in [Monitors -> Columns] /\ acked'[m] = cols
      /\ \A n \in Monitors \ {m} : acked'[n] = acked[n]
  BY <1>0, <1>1, <1>3 DEF ApiTypeOK
<1>6. \A h \in Updates : updates[h].user # NoUser => updates[h].monitor # m
  BY <1>0, ApiAssumption DEF ApiInv, UpdatesOwned
<1>7. ApiTypeOK'
  BY <1>0, <1>3, <1>4, <1>5 DEF ApiTypeOK
<1>8. UpdatesOwned'
  BY <1>0, <1>3, <1>4, <1>6, ApiTypes DEF ApiInv, UpdatesOwned
<1>9. Undisturbed'
  <2> SUFFICES ASSUME NEW n \in Monitors \ raced
               PROVE  /\ monitors'[n].columns = acked'[n]
                      /\ \A h \in UpdatesOf(n)' : updates[h].existing = monitors'[n].columns
                      /\ \A g, h \in UpdatesOf(n)' : g = h
    BY <1>3 DEF Undisturbed
  <2>1. UpdatesOf(n)' = UpdatesOf(n)
    BY <1>3 DEF UpdatesOf
  <2>2. CASE n = m
    BY <1>2, <1>4, <1>5, <1>6, <2>1, <2>2 DEF UpdatesOf
  <2>3. CASE n # m
    BY <1>4, <1>5, <2>1, <2>3 DEF ApiInv, Undisturbed
  <2> QED
    BY <2>2, <2>3
<1>10. RowsLast /\ DeletedOwned'
  BY <1>0, <1>2, <1>4, ApiAssumption DEF ApiInv, DeletedOwned, RowsLast
<1> QED
  BY <1>7, <1>8, <1>9, <1>10 DEF ApiInv

\* The columns that are read are what the user was told, unless updates overlap.
LEMMA Reading ==
    ASSUME ApiInv, NEW u \in Users, NEW m \in Monitors, NEW request \in Requests,
           NEW h \in Updates, ReadMonitor(h, u, m, request)
    PROVE  ApiInv' /\ RowsLast
<1> DEFINE x == [user |-> u, monitor |-> m, request |-> request, existing |-> monitors[m].columns]
<1>0. /\ ApiTypeOK /\ updates \in [Updates -> UpdateRec] /\ updates[h].user = NoUser
      /\ monitors[m].owner = u
  BY ApiTypes, EmptyTypes DEF ApiInv, ReadMonitor, GetMonitorByUser
<1>1. /\ x \in UpdateRec /\ x.user = u /\ x.monitor = m /\ x.request = request
      /\ x.existing = monitors[m].columns
  BY <1>0, ApiTypes DEF UpdateRec
<1>2. /\ updates' = [updates EXCEPT ![h] = x] /\ monitors' = monitors
      /\ raced' = IF UpdatesOf(m) = {} THEN raced ELSE raced \cup {m}
      /\ acked' = IF UpdatesOf(m) = {} THEN acked ELSE [acked EXCEPT ![m] = NoColumns]
  BY DEF ReadMonitor
<1> HIDE DEF x
<1>3. /\ updates' \in [Updates -> UpdateRec] /\ updates'[h] = x
      /\ \A g \in Updates \ {h} : updates'[g] = updates[g]
  BY <1>0, <1>1, <1>2
<1>4. /\ acked' \in [Monitors -> Columns] /\ raced' \subseteq Monitors /\ raced \subseteq raced'
      /\ \A n \in Monitors \ raced' : acked'[n] = acked[n]
  BY <1>0, <1>2, EmptyTypes DEF ApiTypeOK
<1>5. ApiTypeOK'
  BY <1>0, <1>2, <1>3, <1>4 DEF ApiTypeOK, UpdateRec
<1>6. UpdatesOwned'
  BY <1>0, <1>1, <1>2, <1>3 DEF ApiInv, UpdatesOwned
<1>7. Undisturbed'
  <2> SUFFICES ASSUME NEW n \in Monitors \ raced'
               PROVE  /\ monitors[n].columns = acked[n]
                      /\ \A g \in UpdatesOf(n)' : updates'[g].existing = monitors[n].columns
                      /\ \A f, g \in UpdatesOf(n)' : f = g
    BY <1>2, <1>4 DEF Undisturbed
  <2>1. n \notin raced
    BY <1>4
  <2>2. CASE n = m
    <3>1. UpdatesOf(m) = {}
      BY <1>2, <2>2
    <3>2. UpdatesOf(m)' = {h}
      BY <1>1, <1>3, <3>1, ApiAssumption DEF UpdatesOf
    <3> QED
      BY <1>1, <1>3, <2>1, <2>2, <3>2 DEF ApiInv, Undisturbed
  <2>3. CASE n # m
    <3>1. UpdatesOf(n)' = UpdatesOf(n) /\ h \notin UpdatesOf(n)
      BY <1>0, <1>1, <1>3, <2>3 DEF UpdatesOf
    <3>2. \A g \in UpdatesOf(n) : updates'[g] = updates[g]
      BY <1>3, <3>1 DEF UpdatesOf
    <3> QED
      BY <2>1, <3>1, <3>2 DEF ApiInv, Undisturbed
  <2> QED
    BY <2>2, <2>3
<1>8. RowsLast /\ DeletedOwned'
  BY <1>2 DEF ApiInv, DeletedOwned, RowsLast
<1> QED
  BY <1>5, <1>6, <1>7, <1>8 DEF ApiInv

\* A handler that ends, and changes nothing.
LEMMA Forgetting ==
    ASSUME ApiInv, NEW h \in Updates, updates' = [updates EXCEPT ![h] = NoUpdate]
    PROVE  /\ updates' \in [Updates -> UpdateRec] /\ updates'[h].user = NoUser
           /\ \A g \in Updates \ {h} : updates'[g] = updates[g]
           /\ \A m \in Monitors : UpdatesOf(m)' = UpdatesOf(m) \ {h}
<1>1. updates \in [Updates -> UpdateRec]
  BY ApiTypes DEF ApiInv
<1>2. /\ updates' \in [Updates -> UpdateRec] /\ updates'[h].user = NoUser
      /\ \A g \in Updates \ {h} : updates'[g] = updates[g]
  BY <1>1, EmptyTypes
<1>3. ASSUME NEW m \in Monitors
      PROVE  UpdatesOf(m)' = UpdatesOf(m) \ {h}
  BY <1>2 DEF UpdatesOf
<1> QED
  BY <1>2, <1>3

\* The second statement writes what the user expects, or updates overlapped.
LEMMA Writing ==
    ASSUME ApiInv, NEW h \in Updates, WriteMonitor(h)
    PROVE  ApiInv' /\ RowsLast
<1> DEFINE m == updates[h].monitor
           cols == Merged(updates[h].request, updates[h].existing)
           row == [monitors[m] EXCEPT !.columns = cols]
<1>0. /\ ApiTypeOK /\ m \in Monitors /\ monitors \in [Monitors -> MonitorRow]
      /\ updates[h].user # NoUser /\ updates[h].request \in Requests
      /\ updates[h].existing \in Columns
      /\ updates' = [updates EXCEPT ![h] = NoUpdate] /\ raced' = raced
  BY ApiTypes DEF ApiInv, UpdatesOwned, WriteMonitor
<1>1. cols \in Columns
  BY <1>0, MergedIsTold
<1>2. /\ row \in MonitorRow /\ row.owner = monitors[m].owner
      /\ row.deleted = monitors[m].deleted /\ row.columns = cols
  <2>1. monitors[m] \in MonitorRow
    BY <1>0
  <2> HIDE DEF cols
  <2> QED
    BY <1>1, <2>1 DEF MonitorRow
<1>3. /\ monitors' = [monitors EXCEPT ![m] = row]
      /\ acked' = IF m \in raced THEN acked
                  ELSE [acked EXCEPT ![m] = Told(updates[h].request, acked[m])]
  BY DEF WriteMonitor, Written
<1>4. h \in UpdatesOf(m)
  BY <1>0 DEF UpdatesOf
<1>5. m \notin raced => Told(updates[h].request, acked[m]) = cols
  <2>1. m \notin raced => acked[m] = updates[h].existing
    BY <1>0, <1>4 DEF ApiInv, Undisturbed
  <2> QED
    BY <1>0, <2>1, MergedIsTold
<1> HIDE DEF row, cols, m
<1>6. /\ monitors' \in [Monitors -> MonitorRow] /\ monitors'[m] = row
      /\ \A n \in Monitors \ {m} : monitors'[n] = monitors[n]
  BY <1>0, <1>2, <1>3
<1>7. /\ acked' \in [Monitors -> Columns] /\ (m \notin raced => acked'[m] = cols)
      /\ \A n \in Monitors \ {m} : acked'[n] = acked[n]
  BY <1>0, <1>1, <1>3, <1>5 DEF ApiTypeOK
<1>8. /\ updates' \in [Updates -> UpdateRec] /\ updates'[h].user = NoUser
      /\ \A g \in Updates \ {h} : updates'[g] = updates[g]
      /\ \A n \in Monitors : UpdatesOf(n)' = UpdatesOf(n) \ {h}
  BY <1>0, Forgetting
<1>9. ApiTypeOK'
  BY <1>0, <1>6, <1>7, <1>8 DEF ApiTypeOK, UpdateRec
<1>10. UpdatesOwned'
  <2> SUFFICES ASSUME NEW g \in Updates, updates'[g].user # NoUser
               PROVE  /\ updates'[g].user \in Users /\ updates'[g].request \in Requests
                      /\ monitors'[updates'[g].monitor].owner = updates'[g].user
    BY DEF UpdatesOwned
  <2>1. g # h /\ updates'[g] = updates[g]
    BY <1>8
  <2>2. monitors'[updates[g].monitor].owner = monitors[updates[g].monitor].owner
    BY <1>0, <1>2, <1>6, ApiTypes
  <2> QED
    BY <2>1, <2>2 DEF ApiInv, UpdatesOwned
<1>11. Undisturbed'
  <2> SUFFICES ASSUME NEW n \in Monitors \ raced
               PROVE  /\ monitors'[n].columns = acked'[n]
                      /\ \A g \in UpdatesOf(n)' : updates'[g].existing = monitors'[n].columns
                      /\ \A f, g \in UpdatesOf(n)' : f = g
    BY <1>0 DEF Undisturbed
  <2>1. /\ \A f, g \in UpdatesOf(n) : f = g
        /\ \A g \in UpdatesOf(n) : updates[g].existing = monitors[n].columns
        /\ monitors[n].columns = acked[n]
    BY DEF ApiInv, Undisturbed
  <2>2. CASE n = m
    <3>1. UpdatesOf(n)' = {}
      BY <1>4, <1>8, <2>1, <2>2
    <3> QED
      BY <1>2, <1>6, <1>7, <2>2, <3>1
  <2>3. CASE n # m
    <3>1. \A g \in UpdatesOf(n)' : g \in UpdatesOf(n) /\ updates'[g] = updates[g]
      BY <1>8 DEF UpdatesOf
    <3> QED
      BY <1>6, <1>7, <2>1, <2>3, <3>1
  <2> QED
    BY <2>2, <2>3
<1>12. RowsLast /\ DeletedOwned'
  <2>1. \A n \in Monitors : monitors'[n].owner = monitors[n].owner
                            /\ monitors'[n].deleted = monitors[n].deleted
    BY <1>2, <1>6
  <2> QED
    BY <2>1 DEF ApiInv, DeletedOwned, RowsLast
<1> QED
  BY <1>9, <1>10, <1>11, <1>12 DEF ApiInv

\* A failed second statement leaves everything as the user knows it.
LEMMA WriteFailing ==
    ASSUME ApiInv, NEW h \in Updates, WriteFails(h)
    PROVE  ApiInv' /\ RowsLast
<1>1. /\ updates' = [updates EXCEPT ![h] = NoUpdate]
      /\ monitors' = monitors /\ acked' = acked /\ raced' = raced
  BY DEF WriteFails
<1>2. /\ updates' \in [Updates -> UpdateRec] /\ updates'[h].user = NoUser
      /\ \A g \in Updates \ {h} : updates'[g] = updates[g]
      /\ \A n \in Monitors : UpdatesOf(n)' = UpdatesOf(n) \ {h}
  BY <1>1, Forgetting
<1>3. ApiTypeOK'
  BY <1>1, <1>2 DEF ApiInv, ApiTypeOK, UpdateRec
<1>4. UpdatesOwned'
  BY <1>1, <1>2 DEF ApiInv, UpdatesOwned
<1>5. Undisturbed'
  BY <1>1, <1>2 DEF ApiInv, Undisturbed, UpdatesOf
<1>6. RowsLast /\ DeletedOwned'
  BY <1>1 DEF ApiInv, DeletedOwned, RowsLast
<1> QED
  BY <1>3, <1>4, <1>5, <1>6 DEF ApiInv

\* A deletion sets one column that no update writes.
LEMMA Deleting ==
    ASSUME ApiInv, NEW u \in Users, NEW m \in Monitors, DeleteMonitor(u, m)
    PROVE  ApiInv' /\ RowsLast
<1> DEFINE row == [monitors[m] EXCEPT !.deleted = TRUE]
<1>0. ApiTypeOK /\ monitors \in [Monitors -> MonitorRow] /\ monitors[m].owner = u
  BY ApiTypes DEF ApiInv, DeleteMonitor, GetMonitorByUser
<1>1. /\ row \in MonitorRow /\ row.owner = monitors[m].owner /\ row.deleted
      /\ row.columns = monitors[m].columns
  <2>1. monitors[m] \in MonitorRow
    BY <1>0
  <2> QED
    BY <2>1 DEF MonitorRow
<1>2. /\ monitors' = [monitors EXCEPT ![m] = row]
      /\ updates' = updates /\ acked' = acked /\ raced' = raced
  BY DEF DeleteMonitor
<1> HIDE DEF row
<1>3. monitors' \in [Monitors -> MonitorRow]
  BY <1>0, <1>1, <1>2
<1>4. \A n \in Monitors : /\ monitors'[n].owner = monitors[n].owner
                          /\ monitors'[n].columns = monitors[n].columns
                          /\ monitors'[n].deleted <=> monitors[n].deleted \/ n = m
  BY <1>0, <1>1, <1>2
<1>5. ApiTypeOK'
  BY <1>0, <1>2, <1>3 DEF ApiTypeOK
<1>6. UpdatesOwned'
  BY <1>0, <1>2, <1>4, ApiTypes DEF ApiInv, UpdatesOwned
<1>7. Undisturbed'
  BY <1>2, <1>4 DEF ApiInv, Undisturbed, UpdatesOf
<1>8. RowsLast /\ DeletedOwned'
  BY <1>0, <1>4, ApiAssumption DEF ApiInv, DeletedOwned, RowsLast
<1> QED
  BY <1>5, <1>6, <1>7, <1>8 DEF ApiInv

\* Every step of the service keeps the invariant, the owners and the deletions.
LEMMA ApiSteps ==
    ASSUME ApiInv, ApiNext \/ UNCHANGED apiVars
    PROVE  ApiInv' /\ RowsLast
<1>1. CASE UNCHANGED apiVars
  BY <1>1 DEF apiVars, ApiInv, ApiTypeOK, UpdatesOwned, DeletedOwned, Undisturbed, UpdatesOf, RowsLast
<1>2. ASSUME NEW u \in Users, NEW m \in Monitors, NEW request \in Requests,
             CreateMonitor(u, m, request)
      PROVE  ApiInv' /\ RowsLast
  BY <1>2, Creating
<1>3. ASSUME NEW u \in Users, NEW m \in Monitors, NEW request \in Requests,
             NEW h \in Updates, ReadMonitor(h, u, m, request)
      PROVE  ApiInv' /\ RowsLast
  BY <1>3, Reading
<1>4. ASSUME NEW h \in Updates, WriteMonitor(h)
      PROVE  ApiInv' /\ RowsLast
  BY <1>4, Writing
<1>5. ASSUME NEW h \in Updates, WriteFails(h)
      PROVE  ApiInv' /\ RowsLast
  BY <1>5, WriteFailing
<1>6. ASSUME NEW u \in Users, NEW m \in Monitors, DeleteMonitor(u, m)
      PROVE  ApiInv' /\ RowsLast
  BY <1>6, Deleting
<1> QED
  BY <1>1, <1>2, <1>3, <1>4, <1>5, <1>6 DEF ApiNext

-----------------------------------------------------------------------------
(* Results and aggregates *)

\* The fields of a stored result, and the counts of the aggregates.
LEMMA ResultTypes ==
    ASSUME TypeOK
    PROVE  /\ results \in [Checks -> ResultRec]
           /\ \A k \in Checks : /\ results[k] \in ResultRec /\ results[k].rows \in 0 .. 2
                                /\ results[k].monitor \in Monitors
                                /\ results[k].hour \in 0 .. Horizon
                                /\ agg1h[k] \in 0 .. 2 /\ agg1d[k] \in 0 .. 2
<1>1. results \in [Checks -> ResultRec]
  BY DEF TypeOK, ResultRec
<1>2. ASSUME NEW k \in Checks
      PROVE  /\ results[k] \in ResultRec /\ results[k].rows \in 0 .. 2
             /\ results[k].monitor \in Monitors /\ results[k].hour \in 0 .. Horizon
  <2>1. results[k] \in ResultRec
    BY <1>1
  <2> QED
    BY <2>1 DEF ResultRec
<1>3. \A k \in Checks : agg1h[k] \in 0 .. 2 /\ agg1d[k] \in 0 .. 2
  BY DEF TypeOK, Counts
<1> QED
  BY <1>1, <1>2, <1>3

\* A step of the service does not disturb the results.
LEMMA ServiceSteps ==
    ASSUME Inv, ApiNext \/ UNCHANGED apiVars, UNCHANGED reports
    PROVE  Inv'
<1>1. ApiInv' /\ RowsLast
  BY ApiSteps DEF Inv
<1>2. now' = now /\ results' = results /\ agg1h' = agg1h /\ agg1d' = agg1d
  BY DEF reports
<1>3. TypeOK'
  BY <1>1, <1>2 DEF Inv, TypeOK, ApiInv
<1>4. ResultsOwned'
  <2>1. \A k \in Checks : results[k].monitor \in Monitors
    BY ResultTypes DEF Inv
  <2> QED
    BY <1>1, <1>2, <2>1 DEF Inv, ResultsOwned, RowsLast
<1>5. CountedOnce'
  BY <1>2 DEF Inv, CountedOnce
<1> QED
  BY <1>1, <1>3, <1>4, <1>5 DEF Inv

\* A result is stored with the owner its monitor has at that moment.
LEMMA Storing ==
    ASSUME Inv, NEW k \in Checks, NEW m \in Monitors, NEW status \in ResultStatuses,
           StoreResult(k, m, status)
    PROVE  Inv'
<1>0. /\ TypeOK /\ ApiInv /\ ResultsOwned /\ CountedOnce
      /\ results \in [Checks -> ResultRec] /\ monitors[m].owner \in Users
      /\ now \in 0 .. Horizon
  BY ResultTypes, ApiTypes DEF Inv, ApiInv, StoreResult, TypeOK
<1>1. PICK hour \in {now, now - 1} \cap Nat :
         results' = [results EXCEPT ![k] = [rows |-> RowsAfter(k), monitor |-> m, hour |-> hour,
                                            owner |-> monitors[m].owner, status |-> status]]
  BY DEF StoreResult
<1> DEFINE x == [rows |-> 1, monitor |-> m, hour |-> hour, owner |-> monitors[m].owner,
                 status |-> status]
<1>2. hour \in 0 .. Horizon
  BY <1>0, <1>1, ReportingAssumption
<1>3. x \in ResultRec /\ x.rows = 1 /\ x.monitor = m /\ x.owner = monitors[m].owner
  BY <1>0, <1>2 DEF ResultRec
<1>4. results' = [results EXCEPT ![k] = x]
  BY <1>1 DEF RowsAfter
<1> HIDE DEF x
<1>5. /\ results' \in [Checks -> ResultRec] /\ results'[k] = x
      /\ \A l \in Checks \ {k} : results'[l] = results[l]
  BY <1>0, <1>3, <1>4
<1>6. /\ UNCHANGED <<monitors, updates, acked, raced, now, agg1h, agg1d>>
      /\ results[k].rows = 0
  BY DEF StoreResult, apiVars
<1>7. ApiInv' /\ TypeOK'
  <2>1. ApiInv'
    BY <1>0, <1>6, ApiSteps DEF apiVars
  <2> QED
    BY <1>0, <1>5, <1>6, <2>1 DEF TypeOK, ApiInv, ResultRec
<1>8. ResultsOwned'
  BY <1>0, <1>3, <1>5, <1>6, ApiAssumption DEF ResultsOwned
<1>9. CountedOnce'
  <2> SUFFICES ASSUME NEW l \in Checks
               PROVE  /\ results'[l].rows <= 1
                      /\ agg1h[l] <= results'[l].rows /\ agg1d[l] <= results'[l].rows
    BY <1>6 DEF CountedOnce
  <2>1. CASE l = k
    <3>1. agg1h[k] <= 0 /\ agg1d[k] <= 0 /\ agg1h[k] \in 0 .. 2 /\ agg1d[k] \in 0 .. 2
      BY <1>0, <1>6, ResultTypes DEF CountedOnce
    <3> QED
      BY <1>3, <1>5, <2>1, <3>1
  <2>2. CASE l # k
    BY <1>0, <1>5, <2>2 DEF CountedOnce
  <2> QED
    BY <2>1, <2>2
<1> QED
  BY <1>7, <1>8, <1>9 DEF Inv

\* A check that is submitted again stays one row.
LEMMA Resubmitting ==
    ASSUME Inv, NEW k \in Checks, ResubmitResult(k)
    PROVE  Inv'
<1> DEFINE x == [results[k] EXCEPT !.rows = 1]
<1>0. TypeOK /\ ApiInv /\ ResultsOwned /\ CountedOnce /\ results \in [Checks -> ResultRec]
  BY ResultTypes DEF Inv
<1>1. /\ x \in ResultRec /\ x.rows = 1 /\ x.monitor = results[k].monitor
      /\ x.owner = results[k].owner
  <2>1. results[k] \in ResultRec
    BY <1>0
  <2> QED
    BY <2>1 DEF ResultRec
<1>2. /\ results' = [results EXCEPT ![k] = x] /\ results[k].rows > 0
      /\ UNCHANGED <<monitors, updates, acked, raced, now, agg1h, agg1d>>
  BY DEF ResubmitResult, RowsAfter, apiVars
<1> HIDE DEF x
<1>3. /\ results' \in [Checks -> ResultRec] /\ results'[k] = x
      /\ \A l \in Checks \ {k} : results'[l] = results[l]
  BY <1>0, <1>1, <1>2
<1>4. ApiInv' /\ TypeOK'
  <2>1. ApiInv'
    BY <1>0, <1>2, ApiSteps DEF apiVars
  <2> QED
    BY <1>0, <1>2, <1>3, <2>1 DEF TypeOK, ApiInv, ResultRec
<1>5. ResultsOwned'
  BY <1>0, <1>1, <1>2, <1>3 DEF ResultsOwned
<1>6. CountedOnce'
  <2>1. results[k].rows = 1
    BY <1>0, <1>2, ResultTypes DEF CountedOnce
  <2> QED
    BY <1>0, <1>1, <1>2, <1>3, <2>1 DEF CountedOnce
<1> QED
  BY <1>4, <1>5, <1>6 DEF Inv

\* An aggregate takes over what is stored, and time goes by.
LEMMA Aggregating ==
    ASSUME Inv, RefreshHours \/ RefreshDays \/ HourPasses
    PROVE  Inv'
<1>0. TypeOK /\ ApiInv /\ ResultsOwned /\ CountedOnce
  BY DEF Inv
<1>1. UNCHANGED <<monitors, updates, acked, raced, results>>
  BY DEF RefreshHours, RefreshDays, HourPasses, apiVars
<1>2. \A k \in Checks : results[k].rows \in 0 .. 2 /\ results[k].rows <= results[k].rows
  BY <1>0, ResultTypes
<1>3. /\ agg1h' \in Counts /\ agg1d' \in Counts
      /\ \A k \in Checks : /\ agg1h'[k] \in {agg1h[k], results[k].rows}
                           /\ agg1d'[k] \in {agg1d[k], results[k].rows}
  <2>1. CASE RefreshHours
    <3>1. agg1d' = agg1d
          /\ agg1h' = [k \in Checks |-> IF results[k].hour < now THEN results[k].rows ELSE agg1h[k]]
      BY <2>1 DEF RefreshHours
    <3> QED
      BY <1>0, <1>2, <3>1, ResultTypes DEF Counts, TypeOK
  <2>2. CASE RefreshDays
    <3>1. agg1h' = agg1h
          /\ agg1d' = [k \in Checks |-> IF results[k].hour \div Day < now \div Day
                                        THEN results[k].rows ELSE agg1d[k]]
      BY <2>2 DEF RefreshDays
    <3> QED
      BY <1>0, <1>2, <3>1, ResultTypes DEF Counts, TypeOK
  <2>3. CASE HourPasses
    BY <1>0, <2>3 DEF HourPasses, TypeOK
  <2> QED
    BY <2>1, <2>2, <2>3
<1>4. now' \in 0 .. Horizon
  BY <1>0, ReportingAssumption DEF RefreshHours, RefreshDays, HourPasses, TypeOK
<1>5. ApiInv'
  BY <1>0, <1>1, ApiSteps DEF apiVars
<1>6. TypeOK'
  BY <1>0, <1>1, <1>3, <1>4, <1>5 DEF TypeOK, ApiInv
<1>7. ResultsOwned'
  BY <1>0, <1>1 DEF ResultsOwned
<1>8. CountedOnce'
  BY <1>0, <1>1, <1>2, <1>3 DEF CountedOnce
<1> QED
  BY <1>5, <1>6, <1>7, <1>8 DEF Inv

-----------------------------------------------------------------------------
(* Sums of checks *)

\* A total is the sum it is defined by.
LEMMA TotalIsSum ==
    ASSUME NEW counts, NEW K
    PROVE  Sum(counts, K).total = Sums(counts, K)[K]
<1>1. Sum(counts, K).total = MapThenSumSet(LAMBDA k : counts[k], K)
  BY DEF Sum
<1>2. MapThenSumSet(LAMBDA k : counts[k], K) = Sums(counts, K)[K]
  BY DEF MapThenSumSet, MapThenFoldSet, Sums, SumStep, Pick
<1> QED
  BY <1>1, <1>2

\* A total of checks that are counted once at most is no more than the checks, and
\* no less than any of their counts.
LEMMA Totals ==
    ASSUME NEW K, IsFiniteSet(K), NEW counts, \A k \in K : counts[k] \in 0 .. 1
    PROVE  /\ Sum(counts, K).total \in Nat
           /\ Sum(counts, K).total <= Cardinality(K)
           /\ \A k \in K : counts[k] <= Sum(counts, K).total
<1> DEFINE C == [k \in K |-> {k}]
<1>1. \A k \in K : counts[k] \in Nat /\ counts[k] <= 1
  OBVIOUS
<1>2. Sums(counts, K)[K] \in Nat /\ \A k \in K : counts[k] <= Sums(counts, K)[K]
  BY <1>1, SumsAreNaturals
<1>3. \A k \in K : C[k] \subseteq K /\ counts[k] \in Nat /\ counts[k] <= Cardinality(C[k])
  <2>1. \A k \in K : Cardinality(C[k]) = 1
    BY FS_Singleton
  <2> QED
    BY <1>1, <2>1
<1>4. \A j, k \in K : j # k => C[j] \cap C[k] = {}
  OBVIOUS
<1>5. Together(C, K) = K
  BY DEF Together
<1> HIDE DEF C
<1>6. Sums(counts, K)[K] <= Cardinality(K)
  <2>1. \A s \in SUBSET K : Sums(counts, K)[s] <= Cardinality(Together(C, s))
    BY <1>3, <1>4, SumsAreBounded
  <2> QED
    BY <1>5, <2>1
<1> QED
  BY <1>2, <1>6, TotalIsSum

\* What a window reads: stored checks, each counted once at most, and by the raw
\* rows exactly once.
LEMMA Windows ==
    ASSUME Inv, NEW m \in Monitors, NEW window \in Nat, NEW h \in Nat \ {0}
    PROVE  /\ Within(m, window, h) \subseteq Stored(m) /\ Stored(m) \subseteq Checks
           /\ IsFiniteSet(Within(m, window, h))
           /\ \A k \in Within(m, window, h) :
                /\ agg1h[k] \in 0 .. 1 /\ agg1d[k] \in 0 .. 1
                /\ Raw[k] \in 0 .. 1 /\ Raw[k] = 1
                /\ results[k].hour \in Nat
<1>1. Within(m, window, h) \subseteq Stored(m) /\ Stored(m) \subseteq Checks
  BY DEF Within, Stored
<1>2. IsFiniteSet(Within(m, window, h))
  BY <1>1, FS_Subset, ReportingAssumption
<1>3. ASSUME NEW k \in Within(m, window, h)
      PROVE  /\ agg1h[k] \in 0 .. 1 /\ agg1d[k] \in 0 .. 1
             /\ Raw[k] \in 0 .. 1 /\ Raw[k] = 1
             /\ results[k].hour \in Nat
  <2>1. k \in Checks /\ results[k].rows > 0
    BY <1>1 DEF Stored
  <2>2. /\ results[k].rows \in 0 .. 2 /\ results[k].hour \in Nat
        /\ agg1h[k] \in 0 .. 2 /\ agg1d[k] \in 0 .. 2
    BY <2>1, ResultTypes, ReportingAssumption DEF Inv
  <2>3. results[k].rows <= 1 /\ agg1h[k] <= results[k].rows /\ agg1d[k] <= results[k].rows
    BY <2>1 DEF Inv, CountedOnce
  <2> QED
    BY <2>1, <2>2, <2>3 DEF Raw
<1> QED
  BY <1>1, <1>2, <1>3

\* A shorter window, in whichever buckets, reads no more than a longer one by hours.
LEMMA WindowsGrow ==
    ASSUME Inv, NEW m \in Monitors, NEW v \in Nat, NEW w \in Nat, v <= w, NEW h \in Nat \ {0}
    PROVE  Within(m, v, h) \subseteq Within(m, w, 1)
<1> SUFFICES ASSUME NEW k \in Within(m, v, h)
             PROVE  k \in Within(m, w, 1)
  OBVIOUS
<1>1. /\ k \in Stored(m) /\ results[k].hour \in Nat
      /\ (results[k].hour \div h) * h > now - v
  BY Windows DEF Within
<1>2. (results[k].hour \div h) * h <= results[k].hour
      /\ (results[k].hour \div h) * h \in Int
  BY <1>1
<1>3. now \in Nat
  BY ReportingAssumption DEF Inv, TypeOK
<1>4. (results[k].hour \div 1) * 1 = results[k].hour
  BY <1>1
<1>5. (results[k].hour \div 1) * 1 > now - w
  BY <1>1, <1>2, <1>3, <1>4
<1> QED
  BY <1>1, <1>5 DEF Within

-----------------------------------------------------------------------------
(* The answers *)

\* A total over one of the three columns of counts, in a window no longer than a range.
LEMMA WindowTotals ==
    ASSUME Inv, NEW m \in Monitors, NEW v \in Nat, NEW w \in Nat, v <= w, NEW h \in Nat \ {0},
           NEW counts \in {Raw, agg1h, agg1d}
    PROVE  /\ Sum(counts, Within(m, v, h)).total \in Nat
           /\ Sum(counts, Within(m, v, h)).total <= Cardinality(Within(m, w, 1))
           /\ counts = Raw /\ Within(m, v, h) # {} => Sum(counts, Within(m, v, h)).total > 0
<1> DEFINE K == Within(m, v, h)
<1>1. IsFiniteSet(K) /\ \A k \in K : counts[k] \in 0 .. 1 /\ (counts = Raw => counts[k] = 1)
  BY Windows
<1>2. K \subseteq Within(m, w, 1)
  BY WindowsGrow
<1>3. IsFiniteSet(Within(m, w, 1))
  BY Windows
<1> HIDE DEF K
<1>4. Cardinality(K) \in Nat /\ Cardinality(Within(m, w, 1)) \in Nat
      /\ Cardinality(K) <= Cardinality(Within(m, w, 1))
  BY <1>1, <1>2, <1>3, FS_Subset, FS_CardinalityType
<1>5. /\ Sum(counts, K).total \in Nat /\ Sum(counts, K).total <= Cardinality(K)
      /\ \A k \in K : counts[k] <= Sum(counts, K).total
  BY <1>1, Totals
<1>6. counts = Raw /\ K # {} => Sum(counts, K).total > 0
  BY <1>1, <1>5
<1>7. Sum(counts, K).total <= Cardinality(Within(m, w, 1))
  BY <1>4, <1>5
<1> QED
  BY <1>5, <1>6, <1>7 DEF K

\* The answer to every range counts no more than the stored checks of that range,
\* and counts something when there is a check of the last day.
LEMMA UptimeTotals ==
    ASSUME Inv, NEW m \in Monitors, NEW range \in Ranges
    PROVE  /\ GetMonitorUptime(m, range).total \in Nat
           /\ GetMonitorUptime(m, range).total <= Cardinality(Within(m, range, 1))
           /\ Within(m, Day, 1) # {} => GetMonitorUptime(m, range).total > 0
<1> USE ReportingAssumption
<1>1. /\ Day \in Nat \ {0} /\ Week \in Nat /\ Month \in Nat /\ Day <= Week /\ Week <= Month
      /\ Day <= Month
  OBVIOUS
<1>2. ASSUME NEW w \in {Day, Week, Month}
      PROVE  /\ FetchUptime24h(m).total \in Nat
             /\ FetchUptime24h(m).total <= Cardinality(Within(m, w, 1))
             /\ Within(m, Day, 1) # {} => FetchUptime24h(m).total > 0
  <2>1. w \in Nat /\ Day <= w /\ 1 \in Nat \ {0}
    BY <1>1
  <2>2. /\ GetUptimeData24h(m).total \in Nat
        /\ GetUptimeData24h(m).total <= Cardinality(Within(m, w, 1))
    BY <1>1, <2>1, WindowTotals DEF GetUptimeData24h
  <2>3. /\ GetUptimeData24hRaw(m).total \in Nat
        /\ GetUptimeData24hRaw(m).total <= Cardinality(Within(m, w, 1))
        /\ Within(m, Day, 1) # {} => GetUptimeData24hRaw(m).total > 0
    BY <1>1, <2>1, WindowTotals DEF GetUptimeData24hRaw
  <2> QED
    BY <2>2, <2>3 DEF FetchUptime24h
<1>3. ASSUME NEW w \in {Week, Month}
      PROVE  /\ FetchUptime7d(m).total \in Nat
             /\ FetchUptime7d(m).total <= Cardinality(Within(m, w, 1))
             /\ Within(m, Day, 1) # {} => FetchUptime7d(m).total > 0
  <2>1. w \in Nat /\ Week <= w /\ 1 \in Nat \ {0}
    BY <1>1
  <2>2. /\ GetUptimeData7d(m).total \in Nat
        /\ GetUptimeData7d(m).total <= Cardinality(Within(m, w, 1))
    BY <1>1, <2>1, WindowTotals DEF GetUptimeData7d
  <2> QED
    BY <1>2, <2>2 DEF FetchUptime7d
<1>4. /\ FetchUptime30d(m).total \in Nat
      /\ FetchUptime30d(m).total <= Cardinality(Within(m, Month, 1))
      /\ Within(m, Day, 1) # {} => FetchUptime30d(m).total > 0
  <2>1. /\ GetUptimeData30d(m).total \in Nat
        /\ GetUptimeData30d(m).total <= Cardinality(Within(m, Month, 1))
    BY <1>1, WindowTotals DEF GetUptimeData30d
  <2> QED
    BY <1>3, <2>1 DEF FetchUptime30d
<1>5. CASE range = Day
  BY <1>2, <1>5 DEF GetMonitorUptime
<1>6. CASE range # Day /\ range = Week
  BY <1>3, <1>6 DEF GetMonitorUptime
<1>7. CASE range # Day /\ range # Week
  BY <1>4, <1>7 DEF GetMonitorUptime, Ranges
<1> QED
  BY <1>5, <1>6, <1>7

-----------------------------------------------------------------------------
(* The points of the timelines *)

\* The checks that the points of a timeline count.
Counted(P) == MapThenSumSet(LAMBDA p : p.data.total, P)

\* It is a sum over a function.
LEMMA PointSum ==
    ASSUME NEW P
    PROVE  Counted(P) = Sums([p \in P |-> p.data.total], P)[P]
<1> DEFINE f == [p \in P |-> p.data.total]
           F(g) == [s \in SUBSET P |-> SumStep(f, g, s)]
           G(g) == [s \in SUBSET P |-> IF s = {} THEN 0
                                       ELSE Pick(s).data.total + g[s \ {Pick(s)}]]
<1>1. Counted(P) = (CHOOSE g : g = G(g))[P]
  BY DEF Counted, MapThenSumSet, MapThenFoldSet, Pick
<1>2. \A g : F(g) = G(g)
  <2>1. ASSUME NEW g, NEW s \in SUBSET P
        PROVE  F(g)[s] = G(g)[s]
    BY DEF SumStep, Pick
  <2> QED
    BY <2>1
<1>3. Sums(f, P) = CHOOSE g : g = F(g)
  BY DEF Sums
<1> HIDE DEF F, G
<1>4. (CHOOSE g : g = F(g)) = (CHOOSE g : g = G(g))
  BY <1>2
<1> QED
  BY <1>1, <1>3, <1>4

\* Points of disjoint sets of checks have together no more than there are checks.
LEMMA PointTotals ==
    ASSUME NEW P, IsFiniteSet(P), NEW U, IsFiniteSet(U), NEW C,
           \A p \in P : /\ C[p] \subseteq U
                        /\ p.data.total \in Nat /\ p.data.total <= Cardinality(C[p]),
           \A p, q \in P : p # q => C[p] \cap C[q] = {}
    PROVE  Counted(P) \in Nat /\ Counted(P) <= Cardinality(U)
<1> DEFINE f == [p \in P |-> p.data.total]
<1>1. Counted(P) = Sums(f, P)[P]
  BY PointSum
<1>2. \A p \in P : C[p] \subseteq U /\ f[p] \in Nat /\ f[p] <= Cardinality(C[p])
  OBVIOUS
<1> HIDE DEF f
<1>3. Sums(f, P)[P] <= Cardinality(Together(C, P)) /\ Sums(f, P)[P] \in Nat
  <2>1. \A s \in SUBSET P : Sums(f, P)[s] <= Cardinality(Together(C, s))
    BY <1>2, SumsAreBounded
  <2>2. \A s \in SUBSET P : Sums(f, P)[s] \in Nat
    BY <1>2, SumsAreNaturals
  <2> QED
    BY <2>1, <2>2
<1>4. Together(C, P) \subseteq U
  BY DEF Together
<1>5. /\ Cardinality(Together(C, P)) <= Cardinality(U)
      /\ Cardinality(Together(C, P)) \in Nat /\ Cardinality(U) \in Nat
  BY <1>4, FS_Subset, FS_CardinalityType
<1> QED
  BY <1>1, <1>3, <1>5

\* A timeline in buckets of h hours counts no check in two of its points.
LEMMA PointsTotals ==
    ASSUME NEW K, IsFiniteSet(K), NEW h, NEW counts, \A k \in K : counts[k] \in 0 .. 1
    PROVE  /\ Counted(Points(counts, K, h)) \in Nat
           /\ Counted(Points(counts, K, h)) <= Cardinality(K)
<1> DEFINE bucket(k) == results[k].hour \div h
           cell(b) == {k \in K : results[k].hour \div h = b}
           point(b) == [bucket |-> b, data |-> Sum(counts, cell(b))]
           counted == {j \in K : counts[j] > 0}
           P == Points(counts, K, h)
           F == [k \in counted |-> point(bucket(k))]
           C == [p \in P |-> cell(p.bucket)]
<1>1. P = {point(b) : b \in {bucket(k) : k \in counted}}
  BY DEF Points
<1>2. IsFiniteSet(P)
  <2>1. F \in Surjection(counted, P)
    <3>1. \A k \in counted : point(bucket(k)) \in P
      BY <1>1
    <3>2. \A p \in P : \E k \in counted : p = point(bucket(k))
      BY <1>1
    <3> HIDE DEF P, counted, point, bucket
    <3> QED
      BY <3>1, <3>2 DEF Surjection
  <2>2. IsFiniteSet(counted)
    BY FS_Subset
  <2> HIDE DEF F, P, counted
  <2> QED
    BY <2>1, <2>2, FS_Surjection
<1>3. \A p \in P : p = point(p.bucket)
  <2>1. ASSUME NEW p \in P
        PROVE  p = point(p.bucket)
    <3>1. PICK b : p = point(b)
      BY <1>1
    <3>2. p.bucket = b
      BY <3>1
    <3> HIDE DEF P, point
    <3> QED
      BY <3>1, <3>2
  <2> QED
    BY <2>1
<1>4. ASSUME NEW p \in P
      PROVE  /\ C[p] = cell(p.bucket) /\ C[p] \subseteq K
             /\ p.data.total \in Nat /\ p.data.total <= Cardinality(C[p])
  <2>1. C[p] = cell(p.bucket) /\ C[p] \subseteq K
    OBVIOUS
  <2>2. p.data = Sum(counts, C[p])
    BY <1>3, <2>1
  <2>3. IsFiniteSet(C[p])
    BY <2>1, FS_Subset
  <2> HIDE DEF C, P
  <2>4. \A k \in C[p] : counts[k] \in 0 .. 1
    BY <2>1
  <2> QED
    BY <2>1, <2>2, <2>3, <2>4, Totals
<1>5. ASSUME NEW p \in P, NEW q \in P, p # q
      PROVE  C[p] \cap C[q] = {}
  <2>1. p.bucket # q.bucket
    BY <1>3, <1>5
  <2>2. C[p] = cell(p.bucket) /\ C[q] = cell(q.bucket)
    BY <1>4
  <2> HIDE DEF C, P
  <2> QED
    BY <2>1, <2>2
<1> HIDE DEF P, C
<1>6. Counted(P) \in Nat /\ Counted(P) <= Cardinality(K)
  BY <1>2, <1>4, <1>5, PointTotals
<1> QED
  BY <1>6 DEF P

\* Neither does the timeline by days and regions.
LEMMA RegionPointsTotals ==
    ASSUME Inv, NEW m \in Monitors
    PROVE  /\ Counted(GetUptimeTimeline30d(m)) \in Nat
           /\ Counted(GetUptimeTimeline30d(m)) <= Cardinality(Within(m, Month, Day))
<1> DEFINE K == Within(m, Month, Day)
           day(k) == results[k].hour \div Day
           ofRegion(g) == {k \in K : RegionOf[k] = g}
           cell(b, g) == {k \in ofRegion(g) : results[k].hour \div Day = b}
           point(b, g) == [bucket |-> b, region |-> g, data |-> Sum(agg1d, cell(b, g))]
           counted == {j \in K : agg1d[j] > 0}
           P == GetUptimeTimeline30d(m)
           F == [k \in counted |-> point(day(k), RegionOf[k])]
           C == [p \in P |-> cell(p.bucket, p.region)]
<1>1. IsFiniteSet(K) /\ K \subseteq Checks /\ \A k \in K : agg1d[k] \in 0 .. 1
  BY Windows, ReportingAssumption
<1>2. \A p : p \in P <=> \E k \in counted : p = point(day(k), RegionOf[k])
  <2>1. ASSUME NEW g, NEW q
        PROVE  q \in Points(agg1d, ofRegion(g), Day)
                 <=> \E k \in counted : /\ RegionOf[k] = g
                                        /\ q = [bucket |-> day(k), data |-> Sum(agg1d, cell(day(k), g))]
    BY DEF Points
  <2>2. \A p : p \in P <=> \E g \in {RegionOf[k] : k \in Checks} :
                 \E q \in Points(agg1d, ofRegion(g), Day) :
                    p = [bucket |-> q.bucket, region |-> g, data |-> q.data]
    <3> DEFINE shown(g) == {[bucket |-> q.bucket, region |-> g, data |-> q.data] :
                              q \in Points(agg1d, ofRegion(g), Day)}
    <3>1. P = UNION {shown(g) : g \in {RegionOf[k] : k \in Checks}}
      BY DEF GetUptimeTimeline30d
    <3> HIDE DEF P, ofRegion
    <3> QED
      BY <3>1
  <2>3. ASSUME NEW k \in counted
        PROVE  /\ RegionOf[k] \in {RegionOf[l] : l \in Checks}
               /\ [bucket |-> day(k), data |-> Sum(agg1d, cell(day(k), RegionOf[k]))]
                     \in Points(agg1d, ofRegion(RegionOf[k]), Day)
    BY <1>1, <2>1
  <2>4. ASSUME NEW k \in counted
        PROVE  point(day(k), RegionOf[k]) \in P
    <3> DEFINE q == [bucket |-> day(k), data |-> Sum(agg1d, cell(day(k), RegionOf[k]))]
    <3>1. point(day(k), RegionOf[k])
            = [bucket |-> q.bucket, region |-> RegionOf[k], data |-> q.data]
      OBVIOUS
    <3> HIDE DEF P
    <3> QED
      BY <2>2, <2>3, <3>1
  <2>5. ASSUME NEW p \in P
        PROVE  \E k \in counted : p = point(day(k), RegionOf[k])
    <3>1. PICK g \in {RegionOf[k] : k \in Checks} :
             \E q \in Points(agg1d, ofRegion(g), Day) :
                p = [bucket |-> q.bucket, region |-> g, data |-> q.data]
      BY <2>2
    <3>2. PICK q \in Points(agg1d, ofRegion(g), Day) :
             p = [bucket |-> q.bucket, region |-> g, data |-> q.data]
      BY <3>1
    <3>3. PICK k \in counted : /\ RegionOf[k] = g
                               /\ q = [bucket |-> day(k), data |-> Sum(agg1d, cell(day(k), g))]
      <4> HIDE DEF ofRegion, cell, counted, day
      <4> QED
        BY <2>1, <3>2
    <3> QED
      BY <3>2, <3>3
  <2> QED
    BY <2>4, <2>5
<1> HIDE DEF P, K
<1>3. IsFiniteSet(P)
  <2>1. F \in Surjection(counted, P)
    <3>1. \A k \in counted : point(day(k), RegionOf[k]) \in P
      BY <1>2
    <3>2. \A p \in P : \E k \in counted : p = point(day(k), RegionOf[k])
      BY <1>2
    <3> HIDE DEF P, counted, point, day
    <3> QED
      BY <3>1, <3>2 DEF Surjection
  <2>2. IsFiniteSet(counted)
    BY <1>1, FS_Subset
  <2> HIDE DEF F, P, counted
  <2> QED
    BY <2>1, <2>2, FS_Surjection
<1>4. \A p \in P : p = point(p.bucket, p.region)
  <2>1. ASSUME NEW p \in P
        PROVE  p = point(p.bucket, p.region)
    <3>1. PICK k \in counted : p = point(day(k), RegionOf[k])
      BY <1>2
    <3>2. p.bucket = day(k) /\ p.region = RegionOf[k]
      BY <3>1
    <3> HIDE DEF point, day
    <3> QED
      BY <3>1, <3>2
  <2> QED
    BY <2>1
<1>5. ASSUME NEW p \in P
      PROVE  /\ C[p] = cell(p.bucket, p.region) /\ C[p] \subseteq K
             /\ p.data.total \in Nat /\ p.data.total <= Cardinality(C[p])
  <2>1. C[p] = cell(p.bucket, p.region) /\ C[p] \subseteq K
    OBVIOUS
  <2>2. p.data = Sum(agg1d, C[p])
    BY <1>4, <2>1
  <2>3. IsFiniteSet(C[p])
    BY <1>1, <2>1, FS_Subset
  <2> HIDE DEF C
  <2>4. \A k \in C[p] : agg1d[k] \in 0 .. 1
    BY <1>1, <2>1
  <2> QED
    BY <2>1, <2>2, <2>3, <2>4, Totals
<1>6. ASSUME NEW p \in P, NEW q \in P, p # q
      PROVE  C[p] \cap C[q] = {}
  <2>1. p.bucket # q.bucket \/ p.region # q.region
    BY <1>4, <1>6
  <2>2. C[p] = cell(p.bucket, p.region) /\ C[q] = cell(q.bucket, q.region)
    BY <1>5
  <2> HIDE DEF C
  <2> QED
    BY <2>1, <2>2
<1> HIDE DEF C
<1>7. Counted(P) \in Nat /\ Counted(P) <= Cardinality(K)
  BY <1>1, <1>3, <1>5, <1>6, PointTotals
<1> QED
  BY <1>7 DEF P, K

\* No points count nothing.
LEMMA NoPoints == Counted({}) = 0
<1> DEFINE f == [p \in {} |-> p.data.total]
<1>1. \A k \in {} : f[k] \in Nat
  OBVIOUS
<1> HIDE DEF f
<1>2. Sums(f, {})[{}] = 0
  BY <1>1, FS_EmptySet, SumsRecursion
<1> QED
  BY <1>2, PointSum DEF f

-----------------------------------------------------------------------------
(* The timelines *)

\* The timeline of every range counts no more than the stored checks of that range.
LEMMA TimelineTotals ==
    ASSUME Inv, NEW m \in Monitors, NEW range \in Ranges
    PROVE  Counted(GetMonitorUptimeTimeline(m, range)) <= Cardinality(Within(m, range, 1))
<1> DEFINE N == Cardinality(Within(m, range, 1))
           T24 == GetUptimeTimeline24h(m)
           T7 == GetUptimeTimeline7d(m)
           T30 == GetUptimeTimeline30d(m)
<1>1. /\ Day \in Nat \ {0} /\ Week \in Nat /\ Month \in Nat /\ Day <= Week /\ Week <= Month
      /\ range \in Nat /\ 1 \in Nat \ {0} /\ Day <= range
      /\ range # Day => Week <= range
  BY ReportingAssumption DEF Ranges
<1>2. ASSUME NEW v \in Nat, NEW h \in Nat \ {0}, v <= range, NEW c \in Nat,
             c <= Cardinality(Within(m, v, h))
      PROVE  c <= N
  <2>1. IsFiniteSet(Within(m, v, h)) /\ IsFiniteSet(Within(m, range, 1))
    BY <1>1, Windows
  <2>2. Within(m, v, h) \subseteq Within(m, range, 1)
    BY <1>1, <1>2, WindowsGrow
  <2>3. /\ Cardinality(Within(m, v, h)) \in Nat /\ N \in Nat
        /\ Cardinality(Within(m, v, h)) <= N
    BY <2>1, <2>2, FS_Subset, FS_CardinalityType
  <2> QED
    BY <1>2, <2>3
<1>3. ASSUME NEW v \in Nat, NEW counts \in {Raw, agg1h}
      PROVE  /\ Counted(Points(counts, Within(m, v, 1), 1)) \in Nat
             /\ Counted(Points(counts, Within(m, v, 1), 1)) <= Cardinality(Within(m, v, 1))
  <2>1. IsFiniteSet(Within(m, v, 1)) /\ \A k \in Within(m, v, 1) : counts[k] \in 0 .. 1
    BY <1>1, Windows
  <2> QED
    BY <2>1, PointsTotals
<1>4. Counted({}) <= N
  <2>1. N \in Nat
    BY <1>1, Windows, FS_CardinalityType
  <2> QED
    BY <2>1, NoPoints
<1>5. Counted(T24) <= N
  <2>1. Counted(T24) \in Nat /\ Counted(T24) <= Cardinality(Within(m, Day, 1))
    BY <1>1, <1>3 DEF GetUptimeTimeline24h
  <2> HIDE DEF N, T24
  <2> QED
    BY <1>1, <1>2, <2>1
<1>6. ASSUME range # Day
      PROVE  Counted(T7) <= N
  <2>1. Counted(T7) \in Nat /\ Counted(T7) <= Cardinality(Within(m, Week, 1))
    BY <1>1, <1>3 DEF GetUptimeTimeline7d
  <2> HIDE DEF N, T7
  <2> QED
    BY <1>1, <1>2, <1>6, <2>1
<1>7. ASSUME range = Month
      PROVE  Counted(T30) <= N
  <2>1. Counted(T30) \in Nat /\ Counted(T30) <= Cardinality(Within(m, Month, Day))
    BY RegionPointsTotals
  <2>2. Month <= range
    BY <1>1, <1>7
  <2> HIDE DEF N, T30
  <2> QED
    BY <1>1, <1>2, <2>1, <2>2
<1>8. range = Day \/ range = Week \/ range = Month
  BY DEF Ranges
<1>9. GetMonitorUptimeTimeline(m, range) \in
        {T24} \cup (IF range # Day THEN {T7} ELSE {})
              \cup (IF range = Month THEN {T30, {}} ELSE {})
  BY <1>8 DEF GetMonitorUptimeTimeline
<1> HIDE DEF N, T24, T7, T30
<1>10. Counted(GetMonitorUptimeTimeline(m, range)) <= N
  BY <1>4, <1>5, <1>6, <1>7, <1>9
<1> QED
  BY <1>10 DEF N

\* As long as there is a check of the last day, every range has a point, or its
\* percentages cannot be read.
LEMMA TimelineAnswered ==
    ASSUME Inv, NEW m \in Monitors, NEW range \in Ranges, Within(m, Day, 1) # {}
    PROVE  \/ GetMonitorUptimeTimeline(m, range) # {}
           \/ range = Month /\ Timeline30dFails(m)
<1>1. GetUptimeTimeline24h(m) # {}
  <2>1. PICK k \in Within(m, Day, 1) : TRUE
    OBVIOUS
  <2>2. Raw[k] > 0
    BY <2>1, Windows, ReportingAssumption
  <2> QED
    BY <2>1, <2>2 DEF GetUptimeTimeline24h, Points
<1>2. range = Day \/ range = Week \/ range = Month
  BY DEF Ranges
<1> QED
  BY <1>1, <1>2 DEF GetMonitorUptimeTimeline

-----------------------------------------------------------------------------
(* The theorems *)

\* At the start there is nothing to tell.
LEMMA Initially ==
    ASSUME Init
    PROVE  Inv
<1>0. ApiInit /\ now = 0 /\ results = [k \in Checks |-> NoResult]
      /\ agg1h = [k \in Checks |-> 0] /\ agg1d = [k \in Checks |-> 0]
  BY DEF Init
<1>1. ApiTypeOK
  BY <1>0, EmptyTypes DEF ApiInit, ApiTypeOK, UpdateRec
<1>2. UpdatesOwned /\ DeletedOwned
  BY <1>0, EmptyTypes DEF ApiInit, UpdatesOwned, DeletedOwned
<1>3. Undisturbed
  <2>1. \A m \in Monitors : UpdatesOf(m) = {} /\ monitors[m].columns = acked[m]
    BY <1>0, EmptyTypes DEF ApiInit, UpdatesOf
  <2> QED
    BY <2>1 DEF Undisturbed
<1>4. NoResult \in ResultRec /\ NoResult.rows = 0
  <2>1. (CHOOSE m \in Monitors : TRUE) \in Monitors
    BY ApiAssumption
  <2> QED
    BY <2>1, ReportingAssumption DEF NoResult, ResultRec, ResultStatuses
<1>5. TypeOK
  BY <1>0, <1>1, <1>4, ReportingAssumption DEF TypeOK, Counts, ResultRec
<1>6. ResultsOwned /\ CountedOnce
  BY <1>0, <1>4 DEF ResultsOwned, CountedOnce
<1> QED
  BY <1>1, <1>2, <1>3, <1>5, <1>6 DEF Inv, ApiInv

\* Every step keeps the invariant.
LEMMA Inductive ==
    ASSUME Inv, [Next]_vars
    PROVE  Inv'
<1>1. CASE UNCHANGED vars
  BY <1>1, ServiceSteps DEF vars, reports
<1>2. CASE ApiNext /\ UNCHANGED reports
  BY <1>2, ServiceSteps
<1>3. ASSUME NEW k \in Checks, ResubmitResult(k)
      PROVE  Inv'
  BY <1>3, Resubmitting
<1>4. ASSUME NEW k \in Checks, NEW m \in Monitors, NEW s \in ResultStatuses, StoreResult(k, m, s)
      PROVE  Inv'
  BY <1>4, Storing
<1>5. CASE RefreshHours \/ RefreshDays \/ HourPasses
  BY <1>5, Aggregating
<1> QED
  BY <1>1, <1>2, <1>3, <1>4, <1>5 DEF Next

\* The inductive invariant holds in every reachable state.
THEOREM Invariance == Spec => []Inv
<1>1. Init => Inv
  BY Initially
<1>2. Inv /\ [Next]_vars => Inv'
  BY Inductive
<1> QED
  BY <1>1, <1>2, PTL DEF Spec

\* The rows, handlers, results and aggregates keep their types.
THEOREM TypeCorrect == Spec => []TypeOK
<1>1. Inv => TypeOK
  BY DEF Inv
<1> QED
  BY <1>1, Invariance, PTL

\* What a user was told of a monitor is what is read of it later.
THEOREM AcknowledgedChangesKeptHolds == Spec => []AcknowledgedChangesKept
<1>1. Inv => AcknowledgedChangesKept
  BY DEF Inv, ApiInv, Undisturbed, AcknowledgedChangesKept, GetMonitor, ListMonitors
<1> QED
  BY <1>1, Invariance, PTL

\* No update brings a deleted monitor back, and no creation takes over its row.
THEOREM DeletedStaysDeletedHolds == Spec => DeletedStaysDeleted
<1>1. Inv /\ [Next]_vars => [\A m \in Monitors : monitors[m].deleted => monitors'[m].deleted]_apiVars
  <2> SUFFICES ASSUME Inv, [Next]_vars, ~UNCHANGED apiVars
               PROVE  \A m \in Monitors : monitors[m].deleted => monitors'[m].deleted
    OBVIOUS
  <2>1. ApiNext
    BY DEF Next, vars, ResubmitResult, StoreResult, RefreshHours, RefreshDays, HourPasses
  <2> QED
    BY <2>1, ApiSteps DEF Inv, RowsLast
<1> QED
  BY <1>1, Invariance, PTL DEF Spec, DeletedStaysDeleted

\* A user sees results of a monitor only if they were made for that user.
THEOREM ResultsOfOwnerHolds == Spec => []ResultsOfOwner
<1>1. ASSUME Inv, NEW u \in Users, NEW m \in Monitors, GetMonitorByUser(u, m), NEW k \in Stored(m)
      PROVE  results[k].owner = u
  BY <1>1 DEF Inv, ResultsOwned, Stored, GetMonitorByUser
<1>2. ASSUME Inv, NEW u \in Users, NEW m \in Monitors,
             NEW R \in GetMonitorResults(u, m, 0), NEW k \in R
      PROVE  results[k].owner = u
  <2>1. GetMonitorByUser(u, m) /\ R \in GetRecentResults(m, PageSize)
    BY <1>2 DEF GetMonitorResults
  <2>2. k \in Stored(m)
    BY <2>1 DEF GetRecentResults
  <2> QED
    BY <1>1, <1>2, <2>1, <2>2
<1>3. Inv => ResultsOfOwner
  BY <1>1, <1>2 DEF ResultsOfOwner, Within
<1> QED
  BY <1>3, Invariance, PTL

\* The dashboard adds up, whatever the two statements behind it saw.
THEOREM DashboardAddsUpHolds == Spec => []DashboardAddsUp
<1>1. ASSUME NEW u \in Users, NEW latest \in LatestResults
      PROVE  LET o == GetDashboardOverview(u, latest)
             IN  /\ o.enabled + o.disabled = o.total /\ o.healthy + o.unhealthy = o.enabled
                 /\ o.healthy >= 0 /\ o.disabled >= 0
  <2> DEFINE on == {m \in ListMonitorsByUser(u) : monitors[m].columns.enabled}
  <2>1. IsFiniteSet(ListMonitorsByUser(u))
    BY ApiAssumption, FS_Subset DEF ListMonitorsByUser
  <2>2. on \subseteq ListMonitorsByUser(u) /\ Failing(u, latest) \subseteq on
    BY DEF Failing
  <2>3. /\ IsFiniteSet(on) /\ IsFiniteSet(Failing(u, latest))
        /\ Cardinality(on) <= Cardinality(ListMonitorsByUser(u))
        /\ Cardinality(Failing(u, latest)) <= Cardinality(on)
    BY <2>1, <2>2, FS_Subset
  <2>4. /\ Cardinality(ListMonitorsByUser(u)) \in Nat /\ Cardinality(on) \in Nat
        /\ Cardinality(Failing(u, latest)) \in Nat
    BY <2>1, <2>3, FS_CardinalityType
  <2> QED
    BY <2>3, <2>4 DEF GetDashboardOverview
<1>2. DashboardAddsUp
  BY <1>1 DEF DashboardAddsUp
<1> QED
  BY <1>2, PTL

\* Every range answers while a check of the last day is stored, however far behind
\* the aggregates are.
THEOREM UptimeAnsweredHolds == Spec => []UptimeAnswered
<1>1. Inv => UptimeAnswered
  BY UptimeTotals, TimelineAnswered DEF UptimeAnswered
<1> QED
  BY <1>1, Invariance, PTL

\* No answer counts more checks than are stored, resubmitted and aggregated twice as
\* they may be.
THEOREM UptimeCountsStoredChecksHolds == Spec => []UptimeCountsStoredChecks
<1>1. Inv => UptimeCountsStoredChecks
  BY UptimeTotals, TimelineTotals DEF UptimeCountsStoredChecks, Counted
<1> QED
  BY <1>1, Invariance, PTL
=============================================================================
