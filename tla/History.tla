------------------------------- MODULE History -------------------------------
(***************************************************************************)
(* What the controller keeps of past queries and what it says of them: the *)
(* table queries with its hourly totals, retention, the migration that     *)
(* fills the totals of an older database, pages of the history, and the    *)
(* counts of a time window for statistics and for the dashboard.           *)
(*                                                                         *)
(* A row is its id and the time of its event; an archive pass and a count  *)
(* hold archiveMu, a page does not. Time passes in ticks. Filters select   *)
(* among rows and are left out; so are the totals by domain, client and    *)
(* type, which every statement treats as it does query_hourly_totals, and  *)
(* the limits of the queue, which Archive models.                          *)
(***************************************************************************)
EXTENDS Naturals, Sequences, FiniteSets, SequencesExt, FiniteSetsExt, Subsequences

CONSTANTS
    HourLength,        \* ticks of an hour
    StatsWindow,       \* ticks of the rolling window, 24 hours
    Retention,         \* ticks that rows are kept
    Delays,            \* how old an event may be when it arrives
    RowsPerPrune,      \* retentionDeleteBatch
    RowsPerInsert,     \* archiveBatch
    RowsPerPage,       \* the limit of a page
    LegacyRows,        \* rows of a database that has no totals
    MaxHistoryClock, MaxRowId, MaxHistoryFaults   \* bounds

ASSUME HistoryAssumption ==
    /\ HourLength \in Nat \ {0} /\ StatsWindow \in Nat \ {0}
    /\ Retention \in Nat /\ Retention >= StatsWindow
    /\ Delays \subseteq Nat
    /\ RowsPerPrune \in Nat \ {0} /\ RowsPerInsert \in Nat \ {0} /\ RowsPerPage \in Nat \ {0}
    /\ MaxHistoryClock \in Nat /\ MaxRowId \in Nat /\ IsFiniteSet(LegacyRows)
    /\ \A r \in LegacyRows : r.id \in 1 .. MaxRowId /\ r.time \in 0 .. MaxHistoryClock

VARIABLES
    clock,         \* the time
    batch,         \* events that wait for the archive
    rows, lastId,  \* table queries, and the last id it has given
    totals,        \* table query_hourly_totals
    migrated,      \* marker hourly_aggregates_v1
    up,            \* the store is open
    pass,          \* the archive pass: its place, its time and its chunk
    count,         \* the count: its kind, its time, its events, what it has found and,
                   \* for EventsCountedOnce, what it should find
    reader,        \* a client that follows next_cursor, what it was shown and the
                   \* last id that was there when it began
    pruned,        \* what the last retention has done, for TotalsMatchRows
    historyFaults  \* statements that failed and ends of the process, bounded

dbVars == <<rows, lastId, totals, migrated, pruned>>
historyVars == <<clock, batch, dbVars, up, pass, count, reader, historyFaults>>

NoPass == [at |-> "idle", now |-> 0, chunk |-> <<>>]
NoCount == [at |-> "idle", kind |-> "none", now |-> 0, volatile |-> <<>>, found |-> <<0, 0>>,
            least |-> <<0, 0>>, due |-> <<0, 0>>]
NoReader == [at |-> "idle", cursor |-> 0, shown |-> <<>>, had |-> 0]

Hours == 0 .. (MaxHistoryClock \div HourLength)
Hour(t) == t \div HourLength
Before(t, span) == IF t > span THEN t - span ELSE 0
TotalsOf(rs) == [h \in Hours |-> Cardinality({r \in rs : Hour(r.time) = h})]

HistoryInit ==
    /\ clock \in {0} \cup {r.time : r \in LegacyRows}
    /\ rows \in {{}, {r \in LegacyRows : r.time <= clock}}
    /\ batch = <<>> /\ lastId = Max({0} \cup {r.id : r \in rows})
    /\ totals = [h \in Hours |-> 0] /\ migrated = FALSE /\ up = FALSE
    /\ pass = NoPass /\ count = NoCount /\ reader = NoReader
    /\ pruned = [to |-> 0, upTo |-> 0]
    /\ historyFaults = 0

HistoryFault == historyFaults < MaxHistoryFaults /\ historyFaults' = historyFaults + 1

-----------------------------------------------------------------------------
(* The store opens and ends. *)

(* InitDB; the totals of old rows and the marker commit together. *)
StoreOpens ==
    /\ ~ up /\ up' = TRUE /\ migrated' = TRUE
    /\ totals' = IF migrated THEN totals ELSE TotalsOf(rows)
    /\ UNCHANGED <<clock, batch, rows, lastId, pruned, pass, count, reader, historyFaults>>

(* A crash, or an end whose flush did not take place. The database keeps   *)
(* what was committed; a client keeps its cursor.                          *)
StoreEnds ==
    /\ up /\ HistoryFault
    /\ up' = FALSE /\ batch' = <<>> /\ pass' = NoPass /\ count' = NoCount
    /\ UNCHANGED <<clock, dbVars, reader>>

EventArrives ==
    \E d \in Delays :
        /\ up /\ d <= clock /\ lastId + Len(batch) + Len(pass.chunk) < MaxRowId
        /\ batch' = Append(batch, clock - d)
        /\ UNCHANGED <<clock, dbVars, up, pass, count, reader, historyFaults>>

ClockTicks ==
    /\ clock < MaxHistoryClock /\ clock' = clock + 1
    /\ UNCHANGED <<batch, dbVars, up, pass, count, reader, historyFaults>>

-----------------------------------------------------------------------------
(* An archive pass, under archiveMu. *)

(* Mutant: a pass and a count may overlap. *)
ArchiveIsFree == pass.at = "idle"

ArchiveFree == pass.at = "idle" /\ count.at \in {"idle", "asked"}

PassBegins ==
    /\ up /\ ArchiveFree
    /\ pass' = [at |-> "claim", now |-> clock, chunk |-> <<>>]
    /\ UNCHANGED <<clock, batch, dbVars, up, count, reader, historyFaults>>

ClaimChunk ==
    /\ pass.at = "claim"
    /\ LET size == Min({Len(batch), RowsPerInsert})
       IN /\ pass' = IF size = 0 THEN [pass EXCEPT !.at = "prune"]
                     ELSE [pass EXCEPT !.at = "insert", !.chunk = SubSeq(batch, 1, size)]
          /\ batch' = SubSeq(batch, size + 1, Len(batch))
    /\ UNCHANGED <<clock, dbVars, up, count, reader, historyFaults>>

NewRows(chunk) == {[id |-> lastId + i, time |-> chunk[i]] : i \in DOMAIN chunk}

(* One transaction: the rows, then upsertHourlyAggregates. *)
InsertChunk ==
    /\ pass.at = "insert"
    /\ rows' = rows \cup NewRows(pass.chunk) /\ lastId' = lastId + Len(pass.chunk)
    /\ totals' = [h \in Hours |-> totals[h] + TotalsOf(NewRows(pass.chunk))[h]]
    /\ pass' = [pass EXCEPT !.at = "claim", !.chunk = <<>>]
    /\ UNCHANGED <<clock, batch, migrated, pruned, up, count, reader, historyFaults>>

(* Rolled back: restoreArchiveBatch, and the pass ends. *)
InsertRolledBack ==
    /\ pass.at = "insert" /\ HistoryFault
    /\ batch' = pass.chunk \o batch /\ pass' = NoPass
    /\ UNCHANGED <<clock, dbVars, up, count, reader>>

Expired(cutoff) == {r \in rows : r.time < cutoff}

(* The first rows by id, no more than retentionDeleteBatch. *)
Deleted(cutoff) ==
    {r \in Expired(cutoff) : Cardinality({e \in Expired(cutoff) : e.id <= r.id}) <= RowsPerPrune}

(* Mutant: the hour of the cutoff keeps its total. *)
KeepsCutoffHour(kept, cutoff) ==
    [h \in Hours |-> IF h < Hour(cutoff) THEN 0 ELSE totals[h]]

(* Hours up to that of the cutoff are deleted, and that one is counted     *)
(* again from the rows that are not expired.                               *)
TotalsAfter(kept, cutoff) ==
    [h \in Hours |-> IF h > Hour(cutoff) THEN totals[h]
                     ELSE IF h < Hour(cutoff) THEN 0
                     ELSE Cardinality({r \in kept : r.time >= cutoff /\ Hour(r.time) = h})]

PruneOldEvents ==
    LET cutoff == Before(pass.now, Retention)
        kept == rows \ Deleted(cutoff)
    IN /\ pass.at = "prune"
       /\ rows' = kept /\ totals' = TotalsAfter(kept, cutoff)
       /\ pruned' = [to |-> cutoff, upTo |-> lastId]
       /\ pass' = NoPass
       /\ UNCHANGED <<clock, batch, lastId, migrated, up, count, reader, historyFaults>>

(* Logged; the pass succeeds. *)
PruneFails ==
    /\ pass.at = "prune" /\ HistoryFault /\ pass' = NoPass
    /\ UNCHANGED <<clock, batch, dbVars, up, count, reader>>

-----------------------------------------------------------------------------
(* Counts: getStatsAt and GetDashboardStatsWithComparison. *)

Times(s) == {[id |-> i, time |-> s[i]] : i \in DOMAIN s}
Within(rs, from, to) == Cardinality({r \in rs : r.time >= from /\ r.time < to})

(* The rolling window; for the dashboard the two windows up to now.        *)
WindowsOf(kind, now, rs) ==
    LET from == Before(now, StatsWindow)
    IN IF kind = "stats" THEN <<Within(rs, from, MaxHistoryClock + 1), 0>>
       ELSE <<Within(rs, from, now + 1), Within(rs, Before(from, StatsWindow), from)>>

Plus(a, b) == <<a[1] + b[1], a[2] + b[2]>>

CountAsked ==
    \E kind \in {"stats", "dashboard"} :
        /\ up /\ count.at = "idle"
        /\ count' = [NoCount EXCEPT !.at = "asked", !.kind = kind, !.now = clock]
        /\ UNCHANGED <<clock, batch, dbVars, up, pass, reader, historyFaults>>

(* Rows that the last retention has not found expired. *)
Unexpired == {r \in rows : r.time >= pruned.to \/ r.id > pruned.upTo}

(* A request has its time before it has archiveMu: it may be older than    *)
(* the last pass.                                                          *)
CountBegins ==
    LET Windows(rs) == Plus(WindowsOf(count.kind, count.now, rs),
                            WindowsOf(count.kind, count.now, Times(batch)))
    IN /\ count.at = "asked" /\ ArchiveFree
       /\ count' = [count EXCEPT !.at = "stored", !.volatile = batch,
                                 !.least = Windows(Unexpired), !.due = Windows(rows)]
       /\ UNCHANGED <<clock, batch, dbVars, up, pass, reader, historyFaults>>

(* Statistics take whole hours from the totals, the dashboard only rows.   *)
WholeHours(now) ==
    SumOver(totals, {h \in Hours : h > Hour(Before(now, StatsWindow))})

CountStored ==
    /\ count.at = "stored"
    /\ count' = IF count.kind = "stats"
                THEN [count EXCEPT !.at = "partial", !.found = <<WholeHours(count.now), 0>>]
                ELSE [count EXCEPT !.at = "volatile", !.found = WindowsOf("dashboard", count.now, rows)]
    /\ UNCHANGED <<clock, batch, dbVars, up, pass, reader, historyFaults>>

(* The rows of the hour in which the window begins. *)
CountPartial ==
    LET from == Before(count.now, StatsWindow)
    IN /\ count.at = "partial"
       /\ count' = [count EXCEPT !.at = "volatile",
                       !.found = Plus(@, <<Within(rows, from, (Hour(from) + 1) * HourLength), 0>>)]
       /\ UNCHANGED <<clock, batch, dbVars, up, pass, reader, historyFaults>>

CountVolatile ==
    /\ count.at = "volatile"
    /\ count' = [count EXCEPT !.at = "done",
                    !.found = Plus(@, WindowsOf(count.kind, count.now, Times(count.volatile)))]
    /\ UNCHANGED <<clock, batch, dbVars, up, pass, reader, historyFaults>>

CountReturns ==
    /\ count.at = "done" /\ count' = NoCount
    /\ UNCHANGED <<clock, batch, dbVars, up, pass, reader, historyFaults>>

-----------------------------------------------------------------------------
(* Pages of GET /api/v1/history. *)

ReaderBegins ==
    /\ up /\ reader.at = "idle"
    /\ reader' = [at |-> "reading", cursor |-> 0, shown |-> <<>>, had |-> lastId]
    /\ UNCHANGED <<clock, batch, dbVars, up, pass, count, historyFaults>>

Matches(cursor) == {r.id : r \in {q \in rows : cursor = 0 \/ q.id < cursor}}

(* Newest first, one more than the limit. *)
Selected(cursor) ==
    LET newest == Descending(Matches(cursor))
    IN SubSeq(newest, 1, Min({Len(newest), RowsPerPage + 1}))

(* Mutant: the cursor is taken from the row that is not shown. *)
CursorOfExtraRow(selected) == Last(selected)

NextCursor(selected) == selected[RowsPerPage]

QueryHistory ==
    LET selected == Selected(reader.cursor)
        hasMore == Len(selected) > RowsPerPage
    IN /\ up /\ reader.at = "reading"
       /\ reader' = [reader EXCEPT
              !.shown = @ \o SubSeq(selected, 1, Min({Len(selected), RowsPerPage})),
              !.cursor = IF hasMore THEN NextCursor(selected) ELSE @,
              !.at = IF hasMore THEN "reading" ELSE "done"]
       /\ UNCHANGED <<clock, batch, dbVars, up, pass, count, historyFaults>>

HistoryNext ==
    \/ StoreOpens \/ StoreEnds \/ EventArrives \/ ClockTicks
    \/ PassBegins \/ ClaimChunk \/ InsertChunk \/ InsertRolledBack \/ PruneOldEvents \/ PruneFails
    \/ CountAsked \/ CountBegins \/ CountStored \/ CountPartial \/ CountVolatile \/ CountReturns
    \/ ReaderBegins \/ QueryHistory

HistorySpec == HistoryInit /\ [][HistoryNext]_historyVars

-----------------------------------------------------------------------------
(* The hourly totals count every row once, whatever was inserted late,     *)
(* rolled back, migrated, pruned in part or lost in a crash; only rows     *)
(* that the last retention found expired are not counted any more.         *)
TotalsMatchRows ==
    up => \A h \in Hours :
        totals[h] = Cardinality({r \in Unexpired : Hour(r.time) = h})

(* A count finds every event of its windows exactly once, in the totals,   *)
(* in a row or in the queue, while events arrive and passes wait to move   *)
(* them from the queue to the table. Statistics whose request waited for a *)
(* pass may leave out rows that it found expired and has yet to delete.    *)
EventsCountedOnce ==
    count.at = "done" =>
        \A w \in 1 .. 2 :
            /\ count.least[w] <= count.found[w] /\ count.found[w] <= count.due[w]
            /\ count.kind = "dashboard" => count.found[w] = count.due[w]

(* Who follows next_cursor is shown rows newest first, none twice, and     *)
(* every row that was there at the first page and is still there, whatever *)
(* is inserted, pruned or restarted between two pages.                     *)
PagesComplete ==
    /\ \A i \in 1 .. Len(reader.shown) - 1 : reader.shown[i] > reader.shown[i + 1]
    /\ \A r \in rows :
        r.id <= reader.had /\ (reader.at = "done" \/ (reader.cursor # 0 /\ r.id >= reader.cursor))
            => r.id \in ToSet(reader.shown)
=============================================================================
