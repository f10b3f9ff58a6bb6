# Resolix in TLA+

Resolix is a DNS resolver with a dashboard, written in Go. A *controller* keeps the query
history and the configuration; *agents* answer DNS queries near the clients, forward
their query events to the controller and pull their configuration from it. The same
program is both; one node alone is a controller that also answers queries.

This directory holds TLA+ models of the parts of Resolix whose correctness depends on
the order in which goroutines, requests, files and nodes act, configurations that
check them with TLC, and proofs of their main invariants that TLAPS checks for every
value of the constants. Paths are relative to the repository; `internal/` stands for
`webgui/internal/`.

## 1. The system

| component | state | operations | what is hard | correct when |
|---|---|---|---|---|
| **event forwarder** (agent), `internal/forwarder` | backlog and batch in flight under `backlogMu`, `dropNewEvents`, wake-up and health report channels, `forwarder-backlog.json` | `EnqueueEvent`, the sending loop of `Start`, `sendBatch`, `flushBacklog` in two goroutines, `ReportHealth` and its goroutine, `loadBacklog`, `Stop` | handlers, worker and flushers interleave; retries; crash at any point; limits in bytes | no event is lost or counted twice, the file follows the queue, no wake-up is lost, admission reopens after an outage, `Stop` ends |
| **query archive** (controller), `internal/storage/archive.go`, `main.go` | queue under `batchMu`, chunk in flight, SQLite | `AddEvent`, `RunArchiver`, `archiveStep`, `FlushArchive`, the shutdown sequence | failing and ambiguous transactions, two goroutines that archive, servers that stop late | every event is a row or a counted drop, also after the shutdown |
| **live event stream**, `internal/api/broadcast.go`, `dashboard.go` | event ring, subscribers and their channels | `BroadcastEvent`, `handleStream`, subscribe, catch up | storing and broadcasting are two steps; slow readers; reconnection with `Last-Event-ID` | a stream shows every event once and in order, or is told to reconnect |
| **configuration synchronization**, `internal/api/configuration.go`, `internal/forwarder`, `internal/dnsroutes` | seven stores on each node, revisions, generations | snapshot, application with rollback, heartbeats, reload of edited files | edits during a snapshot, failing writes, lost answers, restarts | an agent comes to run the controller's configuration and reports what it runs |
| **DNS cache**, `internal/dnsserver/cache*.go`, `runtime.go` | LRU of answers, flights, refresh slots, `cacheGeneration`, `runtimeMu` | lookup, coalesced fetch, stale answer with refresh, clear, `ApplySettings` | answers under way while the cache is cleared or settings replaced | nothing fetched before a clearing is cached after it; nobody waits for ever |
| **upstream pool**, `internal/upstream`, `setup.go` | lists of resolvers, caches of resolvers for routes and clients, circuits | exchange (strict, weighted, parallel), reload of `upstreams.json`, new bootstrap servers | replacement under queries, all upstreams ill, concurrent reloads | the pool follows the file, caches hold no replaced resolver, somebody is asked |
| **filter engine**, `internal/filter` | sources, rules of each, indexes, history of three versions | refresh by ticker or request, rollback, replacement of subscriptions | fetches in parallel batch the rebuilding of the indexes | the indexes follow the rules, a removed source has no rules |
| **DNS pipeline and rewrites**, `internal/dnsserver/pipeline.go`, `internal/rewrites` | rules and their file, what each stage reads | `Resolve` up to the cache, the chase of CNAMEs, edits of the rewrites | every store has a lock of its own and changes between two stages | a chain ends, what stood throughout a query was obeyed, the rules are those a restart loads |
| **access control and limiter**, `internal/dnsserver`, `api/doh.go` | lists and rates in force, token buckets and their order | `ServeDNS`, DoH, `Resolve` up to the limiter, `ApplySettings`, cleanup | cleanup, eviction and new rates meet use | nobody gains or loses by a bucket that was taken away |
| **MagicDNS**, `internal/magicdns` | snapshot of records, its file, access token, the agent's copy | `Sync`, `Apply`, distribution to agents | failed fetches, file and memory, late answers | records are never replaced by older ones |
| **node registry**, `internal/storage/nodes.go` | statuses, tombstones in memory and SQLite, index of names | heartbeats, decommission, restore | heartbeats that race with a decommission, full inventory | a decommissioned node does not come back by itself |
| **web sessions and logins**, `internal/api/security.go` | sessions, failures of each address and of all | login, logout, validation, cleanup, an event stream's check | limits, expiry under several requests, slow comparisons | an ended session is silent, nobody keeps others out |
| **controller TLS**, `internal/controllertls` | CA and leaf, pin file of the agent | creation, migration, rotation, trust on first use | processes that share a directory, crash between file and memory | one authority, one pin, never replaced |
| **retention and history**, `internal/storage` | rows and hourly totals | prune in batches, totals at insertion, pages, counts of a window | late events, crash between batches, the queue read before the rows | totals match the rows, a count finds each event once, pages miss nothing |

Bold components have a module. The other parts (statistics that feed charts, stores of
settings, environment, logger, parser of the legacy log, health probes, listeners, HTTP
routing, the dashboard's JavaScript) are listed in `PROJECT.json` with the reason why
they are not modelled.

How they interact: a DNS handler asks the pipeline, which asks the cache, which asks the
pool; its event goes to `AddEvent` and `BroadcastEvent` on a controller and to
`EnqueueEvent` on an agent. The forwarder posts batches to the ingest handler of the
controller, which calls `AddEvent` and `BroadcastEvent`. The same transport pulls routes
and snapshots; applying one replaces the stores of filter, rewrites, clients, upstreams
and settings and clears the cache. `main.go` starts and stops all of it in a fixed order.

## 2. Modules

| module | models | lines of code | abstract |
|---|---|---|---|
| `Forwarder` | the forwarder | `internal/forwarder` | an event is its number, its sizes are constants |
| `Archive` | archive and shutdown | `archive.go`, `storage.go`, `main.go` | an event is its place in the queue |
| `EventStream` | ring, broadcast, stream | `broadcast.go`, `dashboard.go`, `storage.go` | an event is its ID |
| `ConfigSync` | controller, agent and operators | `configuration.go`, `controller_transport.go`, `nodes.go`, stores | a store holds one value; a revision is the content |
| `DnsCache` | cache, coalescing, settings | `cache.go`, `cache_pipeline.go`, `runtime.go` | an answer is the version of the configuration it was asked under |
| `UpstreamPool` | pool, its callers and its reload | `pool.go`, `upstream_query.go`, `setup.go` | a resolver is its upstream and the version of its bootstrap servers |
| `FilterSources` | filter engine and its handlers | `filter.go`, `sources.go`, `subscriptions.go`, `history.go`, `config_subscriptions.go`, `filtering.go` | a list is its content and whether it holds exceptions; user rules are a version |
| `DnsPipeline` | stages of a query, rewrites and their edits | `pipeline.go`, `runtime.go`, `rewrites.go` | a name is a model value with what is above it; a rule leads from a name to a name |
| `ClientLimits` | lists, DoH's rule, token buckets | `acl.go`, `pipeline.go`, `doh.go` | an address has two keys; time is ticks |
| `Nodes` | inventory and tombstones with their handlers | `nodes.go`, `ingest.go` | time is the order in which nodes were seen |
| `MagicDns` | `Syncer`, stores of controller and agent | `internal/magicdns`, `controller_transport.go` | a snapshot is the version of the inventory |
| `ControllerTls` | files, controllers and agents | `internal/controllertls` | an authority is a number |
| `WebSessions` | sessions, streams, waiting times | `security.go`, `dashboard.go` | a session is the number of its token |
| `History` | table, totals, pages and counts | `archive.go`, `maintenance.go`, `history.go`, `stats.go`, `dashboard_stats.go` | a row is its id and its time |
| `Delivery` | nothing: what the forwarder promises | | goroutines, sizes and files are gone |
| `Subsequences` | elements in their order, what is kept of a sequence, sums, which the ring, the order of the limiter, the history and the forwarder's sizes need | `storage.go`, `acl.go`, `history.go`, `stats.go` | |
| `CommonLemmas` | facts about subsequences, slices, sums, orders, minimum and maximum that the proofs share | | |
| `ForwarderProofs`, `ArchiveProofs`, `ConfigSyncProofs`, `DnsCacheProofs`, `PoolProofs`, `FilterProofs` | theorems about the module each extends, `ArchiveProofs` about `History` as well; `ForwarderProofs` shows as well that `Forwarder` implements `Delivery` | | |
| `ClusterProofs` | theorems about the smaller modules, each by itself: `Nodes`, `MagicDns`, `ControllerTls`, `WebSessions`, `ClientLimits`, `EventStream` and `DnsPipeline` | | |
| `MC...` | instances for TLC where a configuration alone cannot give the constants; `MCResolver`, `MCServices` and `MCCluster` run one of several components | | |

Conventions. A critical section of a mutex is one step, and so is each access to an
atomic or a channel; what a function does between two of them is part of the step before.
A goroutine's place is a `pc`. An operator that begins with the word *Mutant* in its
comment is what a plausible mistake would make of the next definition; nothing in
the specifications uses it. Bounds of a model are constants whose names begin with `Max`
and whose comments begin with *bound*, and `Reporting`, which leaves the reporter out of a run; other constants are sizes and limits of the code.
`PROJECT.json` names the lines each definition stands for.

### Forwarder

`EnqueueEvent` is `Offer` (reads `dropNewEvents` without a lock), `Admit` or `Refuse`
(under `TryLock`) and `Signal` (after unlocking). The worker loop is `LoopEnds` to
`DrainDeadline`: it claims a batch, sends it, settles the answer under the lock
(acknowledged, retried, discarded after `MaxRetryAttempts`) and notifies. The
persistence goroutine debounces and flushes; `flushBacklog`, which the worker also calls
when it ends, takes a snapshot under `backlogMu`, writes, renames (`FlushPublishes`) and
drops what it trimmed for the byte cap (`FlushTrims`), or fails. `ReportHealth` puts the
upstreams' health into a channel of one place, in place of an older report, and the
reporter goroutine takes it, sends it and stores the verdict in `dropNewEvents`
(`ReporterTakes`, `ReportAnswered`, `ReporterSettles`), while the worker stores those of
its batches. `BootReads` to `Start` is `NewForwarder`, `loadBacklog` and the beginning of `Start`. `ProcessEnds` is a crash or exit at any point: only `file` stays.

### Archive

`AddEvent` is two steps, since the ring and the queue have different locks; the second
drops the oldest event of a full queue. `archiveStep` is `StepBegins` (takes
`archiveMu`), `Claim`, `InsertCommits` or `InsertFails`, `StepEnds`; a failed chunk is put
back in front and the excess dropped. A transaction that reports an error may have
committed (`again`). `main` flushes, waits for the servers (`late` when it stopped
waiting), flushes again until its deadline (`gaveUp`) and closes.

### EventStream

A producer stores an event, which gives it the next ID, and broadcasts it later. A
stream subscribes, reads the ring beyond its `Last-Event-ID`, and follows its channel;
`BroadcastEvent` drops at a full channel and expels after too many drops.

### ConfigSync

The controller reads store after store while operators edit. The agent's goroutine
pulls the routes, fetches the snapshot, applies it store by store in the order of
`applyConfigStores` and, when a store fails, applies the previous one. A store is on
disk (`file`) and in use (`live`); two of them come into use only after all are stored.
Heartbeats carry the generation that an operator's request increments.

### DnsCache

A query looks its key up (`Hit`, `Miss`, `GetStale`), joins or leads a flight, asks,
stores, completes the flight. The read lock of `runtimeMu` is the set of `Readers`; a
waiting writer keeps new readers out. `RefreshAsync` takes a slot and spawns a goroutine
that takes the lock by itself.

### UpstreamPool

`Save`, `Poll` and `Reload...` are the API handlers and the poller around `reloadMu`; a
reload reads the file under that lock. `Lookup` and `BuildCached` are the double-checked
caches. `Exchange`, `ReadMode`, `Try`, `Await`, `Race` are the selection modes; `Fail`
and `Succeed` with `OpenCircuit` and `CloseCircuit` count the outcome in two accesses, as
`exchangeContext` does, also for exchanges whose query has left the race.

### FilterSources

A source is an object, not an id: `ReplaceURLSources` keeps an object whose options are the
same and creates another otherwise, so that a download for a replaced one is recognised.
`EditStore`, `ListStore`, `ReplaceURLSources`, then the loading of histories and the requests
for updates are the handler of an edit, in the order of the code and with no lock across
them. The loop's places are the cases of `StartUpdateLoop`; a batch is `Collect` (sources and
`beginRuleUpdateBatch`), the downloads, `EndBatch` and `ApplyIndexes`, which are the two
critical sections of `endRuleUpdateBatch`. The generation of the rules is whether it has
moved since the copy was taken, which is all that is compared. `updateAll` is never set by
a caller and is left out; the minute of a scheduled source is any set of sources.

### Delivery

The abstract specification of the forwarder: events wait in order, a batch of the
oldest is sent, a batch is forgotten only with a final answer or when it is counted as
lost, and what is *kept* outlives the process and comes back in its order. `Forwarder`
refines it with `waiting` the backlog, `sending` the batch in flight, `kept` the events
that the file holds and nobody has settled (`owed`), and `answer` the worker's outcome
before it is settled (`Promise`, at the end of `Forwarder`).

### DnsPipeline

A query goes from stage to stage: `StageRewrites`, `StageMagicDns`, `StagePrivatePtr`,
`StageSafeSearch`, `StageFilter`, `AskUpstream`; a CNAME (`Chase`) starts them again for
its target with the links so far. An edit of the rewrites is saved before or after it
changes memory, as in the code, and undone when the save fails; a crash may come between. The other stores are one value each.
A query remembers which rules and blocks stood since its start, for the property only.

### ClientLimits

A query arrives at `ServeDNS` or over HTTPS and is admitted, in a second step, in
`Resolve`; settings may change in between. `TakeToken` is `allowAtRate`. `memory` is a
history variable: the buckets as though nothing but the lack of room removed any.

### Nodes

A heartbeat or batch is two or three steps (the early look at the tombstones, the status,
the latencies), a decommission is three (what it read of the status, table and memory,
the latencies). Statements may report an error whether or not they were executed.

### MagicDns

The steps of `Sync` under `syncMu` are `HaveToken`, `Lists` or `Unauthorized`, `Saves`,
`Publishes`, `Clears`, `Succeeds`, or a failure; the agent's goroutine fetches, saves,
publishes and clears. Both nodes restart at any point from their files.

### ControllerTls

`writeNewFile` links a complete file and fails when the name exists, so several
processes may race for it (`FileAfter`). An agent accepts a connection by its pin, or
persists the authority it is shown first. A foreign machine may present an authority.

### WebSessions

Ages instead of times. A login is checked (`LoginBegins`), compared, and counted or
reset, in separate steps. A stream's request is let through by the middleware
(`StreamOpens`); with a `Last-Event-ID`, `handleStream` then reads the page of missed
events (`StreamReadsPage`) and writes it without looking at the session again
(`StreamReplays`). In its loop an event comes, is checked against the session, and is
written. `sinceFailure` and `late` are history for the properties: a page is late or not
at will once the session has ended, since what is in it may have come before or after.

### History

An archive pass claims chunks and inserts rows with their totals or rolls back; retention
prunes batch by batch and then the totals. A count is asked for at some time (`CountAsked`),
waits for `archiveMu`, copies the queue under it and then reads the totals, the rows of the
hour in which its window begins, and the copy. A pass may come between the request and the
count: what it found expired and has not deleted yet is out of the totals, though it is
still in the window of the request, which is why `EventsCountedOnce` bounds statistics
from both sides and the dashboard, which reads rows only, exactly. A
reader follows cursors from page to page, without `archiveMu`. `pruned` is what the last
retention took.

## 3. Runs

Every run is exhaustive within its bounds.

| run | states about | properties |
|---|---|---|
| `forwarder_core` | persistent backlog, two legacy events and one offered, one crash or exit | `Conservation`: what was offered is queued, sent, counted as dropped or in a call; `SizeAccounting`; `QueueInOrder`; `FileMirrorsQueue`: when the persister rests the file is the queue; `DeliversAtLeastOnce`: the steps are those of `Delivery` |
| `forwarder_live` | no history directory, two events, the health reporter | `NoLostWake`; `QueueDrains`; `StopCompletes`; `AdmissionReopens`: however verdicts of batches and reports overtake each other, an outage that is over does not leave admission closed |
| `archive` | five events, queue of three, mark two, chunks of two | `EventsAccounted`; `NoLostArchiveWake`; `ShutdownDurable`; `QueueArchived` |
| `stream_order` | two events | violation of `OnlySlowStreamsMiss` |
| `sync` | three stores, two edits, one request, two faults | `RunsAppliedRevision`; `RequestKept`; `ConfigConverges` |
| `sync_report` | all stores, one edit, two faults | violation of `ReportsAppliedRevision` |
| `resolver` | `DnsCache`: two keys, two queries, one entry, one flight, one slot, one change, one clearing; `UpstreamPool`: two upstreams, two queries, two of: failed exchanges, saves, settings | `EntriesCurrent`; `AnswersFresh`; `WaitersHaveLeader`; `ResolversCurrent`; `AsksSomeone`; `PoolFollowsFile`; no deadlock |
| `cache_servfail` | one key, one query | violation of `ServfailExpires` |
| `filters` | one subscription, two options, two requests, two edits, one ticker, two of: rollbacks, edits of user rules, restarts | `PublishedIsCurrent`; `ClassifiedUnderPolicy`; `RequestsNotLost` |
| `services` | `EventStream`: five events, ring of three, one stream; `History`: three rows, one fault, two ticks of an hour; `DnsPipeline`: four names, one query, two edits, one fault, one other change | `StreamInOrder`; `StreamComplete`: a live stream lacks only what was dropped or is beyond the scan limit; `TotalsMatchRows`; `EventsCountedOnce`; `PagesComplete`; `ChainSound`: a chain leads from name to name without return or excess, and is given up as a loop only at a name that is in it or when it is full; `StandingPolicyHolds`; `RewritesMatchFile` |
| `cluster` | `Nodes`: three nodes, two names, two slots, two requests; `MagicDns`: two callers, three versions, two faults and restarts; `ControllerTls`: two controllers, two agents; `ClientLimits`: three clients, two buckets, three settings; `WebSessions`: two addresses, one session, one stream | `DecommissionHolds`; `NamesIndexed`; `RecordsNeverGoBack`; `OneAuthority`; `LimitsAsThoughKept`; `OnlyFailuresWait`; `EndedIsSilent`: an ended session is over for good and the loop of its streams silent |
| `stream_replay` | `WebSessions`: one address, one session, one stream | violation of `NothingAfterEnd` |

`resolver`, `services` and `cluster` are suites: the components of a suite share no state, and the
first state chooses the one that runs, so that their state spaces add up. Those that do
not run keep one of their initial states. Types are stated as `TypeOK` in the modules
whose proofs rest on them; where a type says something (a retry limit, a bound of a
queue) the theorem says it for all constants, and no run is spent on it.

**Bounds.** Capacities are as small as lets the interesting case happen and leaves
something over: a chunk smaller than the queue, a queue smaller than the number of
events, a ring smaller than the events and a scan smaller than the ring, a cache with
fewer entries than keys, a file cap below the legacy events. The legacy events of
`forwarder_core` exceed the cap by one byte, so that trimming happens with an event in
flight. That run leaves out the reporter, which touches nothing of the others but
`dropNewEvents` (`ReporterOnly` in the proofs); batches close and reopen admission there,
and the theorems hold with it. Faults are bounded by two because the hazards are a fault
inside the handling of another: a rollback that fails, a crash after a failed flush. The
cache has one slot for refreshes, so that two keys find none free; two refreshes at once,
of different keys, are what the theorems cover. The pool follows two queries together in
the caches, where they meet, and one beyond (`AloneBeyondCaches`): two queries that ask
upstreams share only the circuits, which every query reads anew. Two exchanges are under
way at once (`FewExchanges`): those of one race, or one that its query has left beside one
of the next query.
`filters` has one subscription, since two share only the batch, the set of ids and the
signal, and the file of user rules is a second member of the batch; it follows
rollbacks and edits of user rules beside the loop but not beside another request
(`MeetsNoOther`), so that two edits can still meet each other in full.
A reader of the history and a count share nothing but the table, which neither changes,
so `services` follows one of them at a time (`OneReader`). The inventory of `cluster` has
a slot less than nodes, so that an eviction meets a decommission; one session is the
limit, so that a login ends another's.
Symmetry is used for interchangeable queries and keys, and for the names and the requests
of the inventory, in runs without liveness.

**Where a run may stop.** `CHECK_DEADLOCK FALSE` stands in the runs of systems that
end: a forwarder that has stopped and may not start again, an archive that is closed, a
stream that is closed, a configuration with no edits left, a filter engine with nothing
left to fetch. The cache and the pool never stop, and `resolver` checks for deadlock.

**Fairness.** Weak fairness of a goroutine is the Go scheduler; of a ticker, that it
fires. Beyond that:

- `forwarder_live`: nothing is assumed of the answers to batches, because the retry limit
  must bound them. The health checker reports again and again while the node is up,
  and the reporter's goroutine is scheduled.
  `AdmissionReopens` has the premise that from some time on no report fails, which says
  nothing of batches, of verdicts still on their way, or of whether the reporter is alive
  and is given a report.
- `archive`: a transaction that is tried for ever commits at last (strong fairness of
  `InsertCommits`); SQLite is local and the code retries for ever.
- `sync`: requests for routes and snapshots that are sent again and again are answered
  at last (strong fairness); the code retries at every tick. Faults are bounded.

## 4. What TLC refuted

- `stream_order`: by the comment of `BroadcastEvent`, an event reaches every subscriber
  unless its channel is full. Two producers that store in one order and broadcast in the other make a fast stream skip
  the older event, because it drops IDs at or below the last one written.
- `sync_report`: after a failed application whose rollback failed as well, the new
  snapshot can be in the stores while filter engine and pool use the old one; the next
  pass finds the wanted revision in the stores and reports it as applied.
- `cache_servfail`: the README bounds the life of a cached SERVFAIL by one second, but
  optimistic caching keeps the expired entry and answers with it.
- `stream_replay`: `handleStream` promises that a revoked or expired session stops receiving
  telemetry, but the page of missed events for a `Last-Event-ID` is read and written
  without asking for the session: when it ends after the middleware has let the request
  through, the page holds what was stored since, and is written. The loop that follows
  does ask, so it is one page at most.

`PROJECT.json` quotes the lines under `findings`.

## 5. Proofs

TLAPS checks the theorems below for all values of the constants that satisfy the named
assumptions of the module. Each rests on an inductive invariant that TLC accepted first.

| theorem | argument |
|---|---|
| `ForwarderProofs!TypeCorrect` | `IInv` is the types and `Shape`: how the places of the goroutines fit the variables they own (a batch exists only between claim and settlement, one flusher holds `persistMu`, calls that passed the check are within the offers); the adaptive size stays in its range by `BatchSizeBounds` |
| `ForwarderProofs!EventsConserved` | `Tally`, the conservation law with the lengths of batch and backlog as numbers and without the guard, is inductive with `IInv`: every step moves as many events out as in, a trim included (`WithoutType`) |
| `ForwarderProofs!WakeNeverLost` | inductive with `IInv`: every step that makes the backlog non-empty leaves a token or a call that will |
| `ForwarderProofs!QueueAlwaysInOrder` | `Ordered`: batch, backlog and what is still to be read of the file form one line in the order of admission, and so do the file and every snapshot; `Runs`: what a flusher has trimmed is a contiguous run of the line, and whatever is admitted after a snapshot is younger than all of it |
| `ForwarderProofs!SizesAccounted` | `Sized`: the count is the size of the batch plus that of the backlog, and inductive with `IInv`; the size of a concatenation is the sum of the sizes (`SumOfConcat`), and leaving events out takes theirs with them (`BytesLeftOut`) |
| `ForwarderProofs!FileStaysMirror` | `Mirrored`: a change of the queue is followed by its news (`NewsPending`), which stays until the persistence goroutine leaves its wait to act upon it; so whoever writes without news writes the queue of now, and what the file leaves out leaves the queue (`LineTrims`, `TrimsAll`), unless it is being sent and the file is marked stale. Only one flusher is past `persistMu`, so no older copy can follow |
| `ForwarderProofs!Durable` | `Care`: what is owed is in the file, in the line of a process that runs, in every snapshot about to be published, and in no trim |
| `ForwarderProofs!ForwarderDelivers` | the refinement of `Delivery`, action by action, from both: a settlement takes the batch and what is owed of it, a trim is a loss that is counted, a boot starts with the line of the file |
| `ArchiveProofs!ArchiveTypeCorrect` | `Shape`: a claimed chunk belongs to the holder of `archiveMu`, whose place it decides; servers that stopped have no call under way; a chunk put back is cut to the limit |
| `ArchiveProofs!ArchiveAccounted` | each step moves events between queue, chunk, rows and drops |
| `ArchiveProofs!ArchiveWakeNeverLost` | a queue at its mark leaves a token unless the archiver is on its way |
| `ArchiveProofs!ShutdownLosesNothing` | from the accounting and the last part of `Shape`: after servers that stopped in time and a flush that did not give up, queue and chunk are empty and nothing can fill them |
| `ArchiveProofs!TotalsStayRight` | `TotalsInv`: totals are right from the migration on, also while the store is closed, and retention goes forward (`RetentionForward`), so that a later cutoff never finds less expired than an earlier one; a chunk adds to each hour what it has of it (`DisjointSizes`), and at a retention the hours before that of the cutoff have no row left and those after it lose none (`HourForward`) |
| `ArchiveProofs!CountsAreExact` | `CountInv`: while a count runs no pass does, so rows, totals and the copy stay; the whole hours are a partition of the rows after the first hour (`SumOfParts`), and with the rows of that hour they lie between the rows that retention keeps in the window and all rows in it (`StatsFound`) |
| `ArchiveProofs!PagesAreComplete` | `PagesInv`: a page that is not the last leaves a cursor at or below whatever was shown, and everything from the cursor up that was there at the beginning has been shown; a page is the largest ids below the cursor (`PageIs`), and new ids are above all that the client can miss |
| `ConfigSyncProofs!RequestIsKept` | `Behind`: without a restart of the controller no generation that the agent or an answer knows is ahead of the controller's; with `RequestKept` itself and the integers of `Counters` this is inductive |
| `ConfigSyncProofs!RunsWhatIsReported` | `Holds`: as long as no rollback has failed, disk and server agree while no store has been replaced, and hold the reported revision, and during an application the way back leads to it; `Replaced`: an application that has come to a place of the list has put the target into every store before it, on disk and, unless it is deferred, in use. A pass that ends with the last store has therefore replaced all of them |
| `DnsCacheProofs!CacheStaysCurrent` | `Fetched`: an answer under way carries the generation at which it was asked; when that is still the present one, it was asked after the last clearing |
| `DnsCacheProofs!WaitersAreLed` | `Led`: who fetches has the flight of its key, who has a flight fetches its key, and who waits for a flight waits for the one of the key. Whoever completes a flight wakes all who wait for it in the same step |
| `DnsCacheProofs!AnswersAreFresh` | `Fresh`, on top of the two others: what a query holds of its own is not older than its beginning, and settings are replaced only when no query is under way, so that whatever a flight has fetched is of the present settings until those who wait have it |
| `PoolProofs!CachesStayCurrent` | inductive list by list (`ListsFresh`): a list is built and stored under the lock under which the bootstrap servers are replaced and the caches emptied |
| `PoolProofs!PoolEndsWithFile` | `ReloadInv`: one handler at a time is amid a reload (`OneReloads`), what it has read is the file or somebody waits to read it again (`ReadsLast`), and the bootstrap servers go first (`BootFirst`) |
| `PoolProofs!NobodyFailsUnasked` | `QueriesPay`: a query that still owes a question is about to ask, has a list that is not empty, or has the fallback list left; `Healthy` never makes an empty list of one that is not |
| `FilterProofs!ShapeCorrect` | each id has one object in the list and one under download at most, so a replacement finds an object nobody holds; a batch is dirty only while it is open, and closed while its indexes are put in place |
| `FilterProofs!PublishedCurrent` | with `Shape`: the copy under construction is current unless rules changed since (`CopyIsCurrent`), and an object without a download has no rules, so a first empty answer changes nothing |
| `FilterProofs!PolicyKept` | with both: a history holds exceptions only if its source is `allow_only`, wherever it is: in the source, in the file, and in the hands of a request or download that reads or writes it (`Classed`) |
| `FilterProofs!RequestsReachLoop` | inductive with `Shape`: an id is put down before the signal and taken after it |
| `ClusterProofs!DecommissionedStayAway` | while no statement has failed memory and table agree (`TombstonesAgree`), so what is buried is what memory says, which the status and the latencies look at under the same lock |
| `ClusterProofs!NamesStayIndexed` | `WarningsExact`: when only some identities change and the names they leave and enter are regrouped, the warnings of all others stay right |
| `ClusterProofs!RecordsStayForward` | `Forward`: each place on the way from the tailnet to an agent's records is at least as new as the next; `OneSync` keeps two attempts from overtaking each other |
| `ClusterProofs!AuthorityIsOne` | who serves holds what is in the file; a pin in memory is the pin in the file; files appear once |
| `ClusterProofs!OthersMayLogIn` | what is remembered of an address is not younger than its last failure |
| `ClusterProofs!EndedStaySilent` | no session becomes younger but a live one that is used; a stream that is late is not alive when its loop checks. The theorem is about the loop: the page before it is what `stream_replay` refutes |
| `ClusterProofs!NobodyForgottenEarly` | a bucket is what the memory says, who has none is remembered as full (`KeptTrack`), and the order of the list is the order of idle times (`OldestFirst`), so that the first is the longest unused; a bucket that has been idle for a second is full at every rate (`FullWhenIdle`) |
| `ClusterProofs!ClientsReadInOrder` | the ring is in the order of the IDs, so that a page of it is (`EventsAfterIs`), and `lastID` is at or above whatever was written (`WrittenInOrder`) |
| `ClusterProofs!NothingFallsBetween` | `StreamReached`: from its subscription on, whatever a stream without `Last-Event-ID` can expect is in its channel; the header of another has everything below it behind it (`before`), and the page has what the ring had above it, up to its last ID. An event that the loop leaves out is below the last one written, is that one, or is the one the client named |
| `ClusterProofs!RestartKeepsRewrites` | how far memory and file may be apart at each place of an edit: memory is ahead of the file while the edit may still be undone, and behind it while it is to be published (`EditInv`) |
| `ClusterProofs!ChainsStaySound`, `ClusterProofs!StandingPolicyObeyed` | `QueriesSound`, both at once since a chase ends at a name that was looked up: the links are as many as the depth, each leads to the owner of the next and the last to the present name, owners are pairwise different and none is the present name, what is refused is in the chain or beyond its limit, and each stage that a query has passed leaves no rule that stood throughout; a finite set of rules that cover a name has one of the narrowest, so that a lookup that finds nothing means there is none (`MinimalElement`) |

The assumptions are the ones the modules state: positive capacities, a minimum batch not
above the maximum, a wake-up mark not above the queue, entries whose admission size
exceeds their encoded size. TLC evaluates them in every run.

The set of nodes is assumed to be finite, and so are the rows of an older database, the rules there may be and what is
above a name, since the narrowest rule is chosen among them; the list of stores that an
application works through is any sequence of them; no handler is called `"free"`. The
numbers of queries, processes, requests and events are arbitrary.

Two things about the prover shaped the models. It knows nothing of `SelectSeq`, `SortSeq`,
folds and the operators of `TLC`, so what is kept of a sequence is defined in `Subsequences`
by the places that are kept, and a sum by the size of a set of pairs; `KeepIs`, `DescendingIs`
and `SumOfParts` say what that gives, and `MCServices` lets TLC compare the definitions with
those of the community modules. And it cannot use a theorem that takes an operator, so an induction over
finite sets is made once, first-order, from the well-foundedness of their strict subsets
(`MinimalElement`).

**Only model-checked.** Liveness (fairness and `ENABLED` are outside the prover), with the
convergence of `ConfigSync`; the types of the modules without a theorem that says so, and
the bounds in the types of `FilterSources` (`ShapeCorrect` proves them without the bounds).
Every invariant of a run is also a theorem.

## 6. Not modelled

Time is reduced to the order of events, or to ticks: delays, debounce intervals and
cooldowns are steps that may happen. Contents (names, records, rules, JSON) are values.
Not modelled inside the modelled parts: identities of forwarded events at the controller
(there are none, so a batch whose answer is lost is stored twice, which is what `Delivery`
promises), the client's side of the stream, generations of single nodes, the validation
of edited settings, ECS, DNS64, probes and transports of upstreams, the syntax of rules
and the limits of downloads, filters and groupings of the history, CSRF tokens and
proxies, two logins from one address at once, an ingested batch that names no node (it
skips the status), and the change of tailnet at a start, which empties the records
(`main.go:633`). The parts of section 1 without a module, and the reasons, are in `PROJECT.json`.

Races that the code allows, so that no property could hold, and that reading it for the
models brought up:

- A query admitted without a list is resolved under the settings of a moment later
  (`dnsserver/pipeline.go:135`); both steps are in `ClientLimits`.
- Event IDs start again with the process, so that a client which reconnects with an older
  `Last-Event-ID` misses events (`api/dashboard.go:189`).
- Generations of requests to synchronize start again as well (`api/configuration.go:541`);
  `RequestKept` is stated without a restart, and the periodic pass repairs it.
- Of two edits of the subscriptions the engine may keep the earlier
  (`api/config_subscriptions.go:41`), and the file of user rules may be read before and set
  after another reading (`filter/sources.go:120`), though `api/filtering.go:287` says that a
  change takes effect immediately.
- The history of a source is written after `e.mu` is released (`filter/history.go:85`), so
  that of a source created anew meanwhile may be overwritten.

## 7. Plan

Done, in this order: `Forwarder`, `Archive`, `EventStream`, `ConfigSync`, `DnsCache`,
`UpstreamPool`, `FilterSources`, since a silent loss of events or divergence of
configuration is the worst the system can do; then `Delivery` with its refinement,
`Nodes`, `MagicDns`, `ControllerTls`, `History`, `DnsPipeline`, `ClientLimits`, `WebSessions`.

Open:

1. The composition of `Forwarder` with the ingest handler and `Archive` over a network that
   loses answers: every event that an agent is told was accepted is a row or a counted drop.
2. The buckets of the statistics under late events, and the circuits of `UpstreamPool` with
   their cooldowns as ticks.
3. Theorems: the types of the modules that have none yet, and a refinement of `Archive` and
   of `ConfigSync` to what they promise, as `Forwarder` has one in `Delivery`.
