------------------------------ MODULE Forwarder ------------------------------
(***************************************************************************)
(* The agent's event forwarder (webgui/internal/forwarder): DNS handlers   *)
(* put query events in a bounded in-memory backlog, one worker goroutine   *)
(* sends them to the controller in adaptive batches with bounded retries,  *)
(* and a persistence goroutine mirrors the backlog into                    *)
(* forwarder-backlog.json, so that a restarted agent resumes where the     *)
(* crashed one stopped.  A health reporter shares the ingest endpoint and  *)
(* with it the flag that freezes admission during an outage.               *)
(*                                                                         *)
(* Every critical section of backlogMu is one step; whatever the code does *)
(* after unlocking (wake-up signals, admission flag, file writes) is a     *)
(* step of its own, so other goroutines run in between.                    *)
(***************************************************************************)
EXTENDS Integers, Sequences, Functions, FiniteSetsExt, Subsequences

CONSTANTS
  Persistent,        \* whether cfg.HistoryDir gives the backlog a file
  MaxOffers,         \* bound: how many events the DNS handlers offer
  MaxLegacy,         \* bound: how many events an earlier version left behind
  RawSize,           \* bytes of an event's persisted JSON entry
  ItemSize,          \* backlogItemSize: an upper bound of the entry and a comma
  MetaSize,          \* bytes of the header and footer around the entries
  MaxBacklogSize,    \* cfg.MaxBacklogSize
  MinBatch,          \* minForwardBatchSize
  MaxBatch,          \* maxForwardBatchSize, also the initial batch size
  BatchGrowth,       \* what a successful batch adds to its size
  MaxRetryAttempts,  \* cfg.MaxRetryAttempts, 0 for no limit
  Reporting,         \* whether upstream health is reported; FALSE bounds a run
  MaxEnds            \* bound: how often the process may crash or exit

\* An event is named by its place in the order of admission; the first ones
\* may come from the file an earlier version of the program left.
Events == 1 .. (MaxLegacy + MaxOffers)

ASSUME PersistentAssumption == Persistent \in BOOLEAN /\ Reporting \in BOOLEAN

ASSUME BoundAssumption == MaxOffers \in Nat /\ MaxLegacy \in Nat /\ MaxEnds \in Nat

ASSUME SizeAssumption ==
  /\ RawSize \in [Events -> Nat \ {0}] /\ ItemSize \in [Events -> Nat]
  /\ \A e \in Events : ItemSize[e] > RawSize[e]
  /\ MetaSize \in Nat \ {0}
  /\ MaxBacklogSize \in Nat \ {0}

ASSUME BatchAssumption ==
  /\ MinBatch \in Nat \ {0} /\ MaxBatch \in Nat /\ MinBatch <= MaxBatch
  /\ BatchGrowth \in Nat

ASSUME RetryAssumption == MaxRetryAttempts \in Nat

VARIABLES
  phase,          \* the process: "down", "loading" (inside NewForwarder), "up" or
                  \* "stopping" (Stop was called)
  unread,         \* what loadBacklog has still to add to the backlog
  \* the queue, guarded by backlogMu
  backlog,        \* events waiting, oldest first
  inFlight,       \* the batch being sent
  totalSize,      \* backlogTotalSize
  \* channels and atomics
  wake,           \* token in wakeChan
  persistWake,    \* token in persistWake
  dropNew,        \* dropNewEvents
  \* EnqueueEvent calls under way
  offers,         \* how many events were ever offered
  admitted,       \* how many events were ever admitted
  checked,        \* calls that have read dropNewEvents as false
  signalling,     \* calls that have appended and not signalled yet
  \* the worker loop of Start: place, local variables, answer to the batch
  wpc, draining, drainOver, attempt, adaptive, outcome,
  healthReports,  \* report in the channel of that name
  hpc,            \* place of the health reporter
  \* the persistence goroutine, and flushBacklog in either goroutine
  ppc, persistMu, fpc, snap,
  file,           \* forwarder-backlog.json
  \* counters of this process
  taken,          \* events offered to this process or loaded by it
  sent, dropped,
  \* history, for the properties
  owed,           \* events that are in the file's care, see DurableUntilSettled
  fileStale,      \* the file is known to differ from the queue
  ends            \* how often the process ended

queueVars  == <<backlog, inFlight, totalSize>>
callVars   == <<offers, admitted, checked, signalling>>
workerVars == <<wpc, draining, drainOver, attempt, adaptive, outcome>>
healthVars == <<healthReports, hpc>>
flushVars  == <<ppc, persistMu, fpc, snap, file, fileStale>>

vars == <<phase, unread, queueVars, wake, persistWake, dropNew, callVars, workerVars,
          healthVars, flushVars, taken, sent, dropped, owed, ends>>

Flushers == {"worker", "persister"}

(***************************************************************************)
(* Sizes: what admission counts, and the length of the file with these     *)
(* entries, their commas, the header and the footer.                       *)
(***************************************************************************)
SumOf(size, s) == SumOver([i \in DOMAIN s |-> size[s[i]]], DOMAIN s)

QueueBytes(s) == SumOf(ItemSize, s)

EncodedBytes(s) ==
  MetaSize + SumOf(RawSize, s) + (IF s = <<>> THEN 0 ELSE Len(s) - 1)

\* items without the k entries that follow the first n.
WithoutOldestQueued(items, n, k) ==
  SubSeq(items, 1, n) \o SubSeq(items, n + k + 1, Len(items))

(***************************************************************************)
(* encodeBoundedBacklog: the counts of oldest queued entries that, left    *)
(* out, make the file fit.  In-flight entries (the first n) are never left *)
(* out; when they alone are too long the set is empty and encoding fails.  *)
(***************************************************************************)
TrimCounts(items, n) ==
  {k \in 0 .. (Len(items) - n) :
     EncodedBytes(WithoutOldestQueued(items, n, k)) <= MaxBacklogSize}

Queue == inFlight \o backlog

NoSnap == [items |-> <<>>, n |-> 0, trimmed |-> {}]

Running == phase \in {"up", "stopping"}

-----------------------------------------------------------------------------
(***************************************************************************)
(* EnqueueEvent, called by any number of DNS handlers at once, also while  *)
(* the process is stopping: the DNS listeners stop after the forwarder.    *)
(***************************************************************************)

CallFrame ==
  UNCHANGED <<phase, unread, inFlight, dropNew, workerVars, healthVars, flushVars,
              sent, owed, ends>>

\* dropNewEvents is read without a lock.
Offer ==
  /\ Running
  /\ offers < MaxOffers
  /\ offers' = offers + 1
  /\ taken' = taken + 1
  /\ IF dropNew
       THEN dropped' = dropped + 1 /\ UNCHANGED checked
       ELSE checked' = checked + 1 /\ UNCHANGED dropped
  /\ CallFrame
  /\ UNCHANGED <<backlog, totalSize, wake, persistWake, admitted, signalling>>

\* TryLock succeeds and the event fits in the byte limit.
Admit ==
  LET e == admitted + 1
  IN  /\ checked > 0
      /\ totalSize + ItemSize[e] <= MaxBacklogSize
      /\ checked' = checked - 1
      /\ admitted' = e
      /\ backlog' = Append(backlog, e)
      /\ totalSize' = totalSize + ItemSize[e]
      /\ signalling' = signalling + 1
      /\ CallFrame
      /\ UNCHANGED <<wake, persistWake, offers, taken, dropped>>

\* TryLock fails because another goroutine holds backlogMu, or the event does
\* not fit: it is dropped and counted.
Refuse ==
  /\ checked > 0
  /\ checked' = checked - 1
  /\ dropped' = dropped + 1
  /\ CallFrame
  /\ UNCHANGED <<backlog, totalSize, wake, persistWake, offers, admitted,
                 signalling, taken>>

\* signalBacklogPersistence: the channel holds one token.
SignalPersistence == persistWake' = (persistWake \/ Persistent)

\* The signals at the end of the call, after backlogMu was released.
Signal ==
  /\ signalling > 0
  /\ signalling' = signalling - 1
  /\ SignalPersistence
  /\ wake' = TRUE
  /\ CallFrame
  /\ UNCHANGED <<backlog, totalSize, offers, admitted, checked, taken, dropped>>

-----------------------------------------------------------------------------
(***************************************************************************)
(* The worker loop of Start.                                               *)
(***************************************************************************)

WorkerFrame == UNCHANGED <<phase, unread, callVars, healthVars, flushVars, taken, ends>>

LoopFrame ==
  WorkerFrame /\ UNCHANGED <<totalSize, dropNew, attempt, adaptive, outcome,
                             sent, dropped, owed>>

\* Stop is noticed at the top of the loop and in the two waits, not before.
NowDraining == draining \/ phase = "stopping"

\* The loop ends: the deferred flushBacklog is next.
LoopEnds ==
  /\ wpc = "top"
  /\ NowDraining
  /\ drainOver \/ backlog = <<>>
  /\ draining' = TRUE
  /\ wpc' = "flush"
  /\ LoopFrame
  /\ UNCHANGED <<backlog, inFlight, wake, persistWake, drainOver>>

\* Mutant: emptiness is checked before the lock is taken, so that an event
\* may be admitted in between.
LoopSleepsUnchecked ==
  /\ wpc = "top"
  /\ ~NowDraining
  /\ wpc' = "wait"
  /\ LoopFrame
  /\ UNCHANGED <<backlog, inFlight, wake, persistWake, draining, drainOver>>

LoopSleeps ==
  /\ wpc = "top"
  /\ ~NowDraining
  /\ backlog = <<>>
  /\ wpc' = "wait"
  /\ LoopFrame
  /\ UNCHANGED <<backlog, inFlight, wake, persistWake, draining, drainOver>>

\* Mutant: the wait does not listen to stopChan.
WakeUpByTokenOnly ==
  /\ wpc = "wait"
  /\ wake /\ wake' = FALSE
  /\ wpc' = "top"
  /\ LoopFrame
  /\ UNCHANGED <<backlog, inFlight, persistWake, draining, drainOver>>

WakeUp ==
  /\ wpc = "wait"
  /\ \/ wake /\ wake' = FALSE /\ UNCHANGED draining
     \/ phase = "stopping" /\ draining' = TRUE /\ UNCHANGED wake
  /\ wpc' = "top"
  /\ LoopFrame
  /\ UNCHANGED <<backlog, inFlight, persistWake, drainOver>>

BatchSize == Min({Len(backlog), MaxBatch, Max({adaptive, MinBatch})})

\* The oldest events become the in-flight batch; their bytes stay counted.
TakeBatch ==
  /\ wpc = "top"
  /\ backlog # <<>>
  /\ ~(NowDraining /\ drainOver)
  /\ draining' = NowDraining
  /\ inFlight' = SubSeq(backlog, 1, BatchSize)
  /\ backlog' = SubSeq(backlog, BatchSize + 1, Len(backlog))
  /\ wpc' = "send"
  /\ LoopFrame
  /\ UNCHANGED <<wake, persistWake, drainOver>>

(***************************************************************************)
(* The controller's answers to a batch.  "failed": no connection, a        *)
(* timeout, 408 or 5xx, and whether the controller has ingested the batch  *)
(* is not known; "throttled": 413 or 429; "permanent": any other 4xx.      *)
(***************************************************************************)
Answers == {"ok", "failed", "throttled", "permanent"}

Permanent(o) == o = "permanent"

SendFrame ==
  WorkerFrame /\ UNCHANGED <<queueVars, wake, persistWake, draining, drainOver,
                             attempt, adaptive, sent, dropped>>

\* The controller's side of sendBatch.
Answer(o) ==
  /\ wpc = "send"
  /\ outcome' = o
  /\ wpc' = "answered"
  /\ SendFrame
  /\ UNCHANGED <<dropNew, owed>>

SetDropNew(ok) == dropNew' = ~ok

\* sendBatch returns: its deferred function freezes or reopens admission.
SendReturns ==
  /\ wpc = "answered"
  /\ SetDropNew(outcome = "ok")
  /\ wpc' = "settle"
  /\ SendFrame
  /\ UNCHANGED <<outcome, owed>>

SettleFrame ==
  /\ outcome' = "ok"
  /\ WorkerFrame
  /\ UNCHANGED <<wake, persistWake, dropNew, draining, drainOver>>

\* Mutant: the bytes of the batch stay counted.
ReleaseInFlightKeepsBytes ==
  /\ inFlight' = <<>>
  /\ attempt' = 0
  /\ wpc' = "notify"
  /\ UNCHANGED <<backlog, totalSize>>

\* Mutant: finishInFlight(true), the batch is kept although it was settled.
ReleaseInFlightRequeues ==
  /\ inFlight' = <<>>
  /\ backlog' = inFlight \o backlog
  /\ attempt' = 0
  /\ wpc' = "notify"
  /\ UNCHANGED totalSize

\* finishInFlight(false)
ReleaseInFlight ==
  /\ inFlight' = <<>>
  /\ totalSize' = totalSize - QueueBytes(inFlight)
  /\ attempt' = 0
  /\ wpc' = "notify"
  /\ UNCHANGED backlog

Settled ==
  /\ wpc = "settle"
  /\ outcome = "ok"
  /\ ReleaseInFlight
  /\ sent' = sent + Len(inFlight)
  /\ adaptive' = Min({MaxBatch, Len(inFlight) + BatchGrowth})
  /\ owed' = owed \ Range(inFlight)
  /\ SettleFrame
  /\ UNCHANGED dropped

RetriesExhausted == MaxRetryAttempts > 0 /\ attempt >= MaxRetryAttempts

Discarded ==
  /\ wpc = "settle"
  /\ outcome # "ok"
  /\ Permanent(outcome) \/ RetriesExhausted
  /\ ReleaseInFlight
  /\ dropped' = dropped + Len(inFlight)
  /\ owed' = owed \ Range(inFlight)
  /\ SettleFrame
  /\ UNCHANGED <<adaptive, sent>>

\* Mutant: retries are not counted.
RetryUncounted == attempt

NextAttempt == attempt + 1

\* Mutant: the failed batch goes to the end of the queue.
RequeueBatchLast == backlog' = backlog \o inFlight /\ inFlight' = <<>>

RequeueBatch == backlog' = inFlight \o backlog /\ inFlight' = <<>>

\* requeueBatch, the adaptive shrink and the retry count.
Requeued ==
  /\ wpc = "settle"
  /\ outcome # "ok"
  /\ ~Permanent(outcome)
  /\ ~RetriesExhausted
  /\ RequeueBatch
  /\ adaptive' = IF outcome = "throttled"
                   THEN Max({MinBatch, Len(inFlight) \div 2}) ELSE adaptive
  /\ attempt' = NextAttempt
  /\ wpc' = "notifyRetry"
  /\ SettleFrame
  /\ UNCHANGED <<totalSize, sent, dropped, owed>>

\* signalBacklogPersistence at the end of finishInFlight and requeueBatch.
Notify ==
  /\ wpc \in {"notify", "notifyRetry"}
  /\ SignalPersistence
  /\ wpc' = IF wpc = "notify" THEN "top" ELSE "backoff"
  /\ LoopFrame
  /\ UNCHANGED <<backlog, inFlight, wake, draining, drainOver>>

\* The retry wait ends by its timer, by Stop, or with the drain deadline.
BackoffEnds ==
  /\ wpc = "backoff"
  /\ draining' = NowDraining
  /\ wpc' = IF draining /\ drainOver THEN "flush" ELSE "top"
  /\ LoopFrame
  /\ UNCHANGED <<backlog, inFlight, wake, persistWake, drainOver>>

\* Five seconds after draining began.
DrainDeadline ==
  /\ draining
  /\ ~drainOver
  /\ drainOver' = TRUE
  /\ LoopFrame
  /\ UNCHANGED <<backlog, inFlight, wake, persistWake, wpc, draining>>

-----------------------------------------------------------------------------
(***************************************************************************)
(* ReportHealth and startHealthReporter: the health checker leaves its     *)
(* latest result in a channel of one place, and a goroutine sends it as a  *)
(* health-only payload. It goes through sendBatch too, concurrently with   *)
(* the worker, and so reopens (or freezes) admission.                      *)
(***************************************************************************)
ReporterFrame ==
  UNCHANGED <<phase, unread, queueVars, wake, persistWake, callVars, workerVars,
              flushVars, taken, sent, dropped, owed, ends>>

\* An older report that still waits is replaced.
ReportHealth ==
  /\ Reporting /\ Running
  /\ healthReports' = TRUE
  /\ ReporterFrame
  /\ UNCHANGED <<hpc, dropNew>>

ReporterTakes ==
  /\ hpc = "wait"
  /\ healthReports /\ healthReports' = FALSE
  /\ hpc' = "send"
  /\ ReporterFrame
  /\ UNCHANGED dropNew

\* The controller's side of sendBatch, or its absence.
ReportAnswered ==
  /\ hpc = "send"
  /\ hpc' \in {"accepted", "failed"}
  /\ ReporterFrame
  /\ UNCHANGED <<healthReports, dropNew>>

\* Mutant: the goroutine returns when a report fails.
EndsAtFailure(result) == IF result = "failed" THEN "done" ELSE "wait"

\* A report that failed is logged.
AfterReport(result) == "wait"

ReporterSettles ==
  /\ hpc \in {"accepted", "failed"}
  /\ SetDropNew(hpc = "accepted")
  /\ hpc' = AfterReport(hpc)
  /\ ReporterFrame
  /\ UNCHANGED healthReports

ReporterStops ==
  /\ hpc = "wait"
  /\ phase = "stopping"
  /\ hpc' = "done"
  /\ ReporterFrame
  /\ UNCHANGED <<healthReports, dropNew>>

-----------------------------------------------------------------------------
(***************************************************************************)
(* runBacklogPersistence, and flushBacklog wherever it is called.          *)
(***************************************************************************)

PersisterFrame ==
  UNCHANGED <<phase, unread, queueVars, wake, dropNew, callVars, workerVars, healthVars,
              persistMu, fpc, snap, file, fileStale, taken, sent, dropped, owed, ends>>

PersisterWakes ==
  /\ ppc = "select"
  /\ persistWake
  /\ persistWake' = FALSE
  /\ ppc' = "debounce"
  /\ PersisterFrame

\* The 250 ms timer, cut short by Stop.
DebounceEnds ==
  /\ ppc = "debounce"
  /\ ppc' = "flush"
  /\ PersisterFrame
  /\ UNCHANGED persistWake

PersisterStops ==
  /\ ppc = "select"
  /\ phase = "stopping"
  /\ ppc' = "last"
  /\ PersisterFrame
  /\ UNCHANGED persistWake

WantsFlush(f) ==
  IF f = "worker" THEN wpc = "flush" ELSE ppc \in {"flush", "last"}

FlushFrame ==
  UNCHANGED <<phase, unread, inFlight, wake, persistWake, dropNew, callVars, draining,
              drainOver, attempt, adaptive, outcome, healthVars, taken, sent, ends>>

\* flushBacklog returns: persistMu is released and the caller goes on.
FlushReturns(f) ==
  /\ persistMu' = "free"
  /\ fpc' = [fpc EXCEPT ![f] = "idle"]
  /\ snap' = [snap EXCEPT ![f] = NoSnap]
  /\ wpc' = IF f = "worker" THEN "done" ELSE wpc
  /\ ppc' = IF f = "worker" THEN ppc
            ELSE IF ppc = "last" THEN "done" ELSE "select"
  /\ UNCHANGED file

\* Mutant: flushBacklog does not take persistMu.
PersistMuIgnored == TRUE

PersistMuFree == persistMu = "free"

\* Without a backlog path there is nothing to do.
FlushSkips(f) ==
  /\ ~Persistent
  /\ WantsFlush(f)
  /\ PersistMuFree
  /\ FlushReturns(f)
  /\ FlushFrame
  /\ UNCHANGED <<backlog, totalSize, fileStale, dropped, owed>>

\* Mutant: the batch being sent is left out of the file.
SnapshotWithoutInFlight == [items |-> backlog, n |-> 0, trimmed |-> {}]

Snapshot == [items |-> Queue, n |-> Len(inFlight), trimmed |-> {}]

\* persistMu is taken, then the queue is copied under backlogMu.
FlushBegins(f) ==
  /\ Persistent
  /\ WantsFlush(f)
  /\ fpc[f] = "idle"
  /\ PersistMuFree
  /\ persistMu' = f
  /\ fpc' = [fpc EXCEPT ![f] = "write"]
  /\ snap' = [snap EXCEPT ![f] = Snapshot]
  /\ FlushFrame
  /\ UNCHANGED <<backlog, totalSize, wpc, ppc, file, fileStale, dropped, owed>>

\* The bounded copy replaces the file in one rename.
FlushPublishes(f) ==
  LET s == snap[f]
      Leave(k) == Range(SubSeq(s.items, s.n + 1, s.n + k))
  IN  /\ fpc[f] = "write"
      /\ \E k \in TrimCounts(s.items, s.n) :
           /\ \A j \in TrimCounts(s.items, s.n) : k <= j
           /\ file' = WithoutOldestQueued(s.items, s.n, k)
           /\ snap' = [snap EXCEPT ![f].trimmed = Leave(k)]
           /\ owed' = (owed \ Leave(k)) \cup (Range(file') \cap Range(Queue))
      /\ fpc' = [fpc EXCEPT ![f] = "trim"]
      /\ FlushFrame
      /\ UNCHANGED <<backlog, totalSize, persistMu, wpc, ppc, fileStale, dropped>>

\* Encoding, writing, syncing or renaming fails and the old file stays, or the
\* new file is in place but its mode cannot be set: nothing is trimmed.
FlushFails(f) ==
  /\ fpc[f] \in {"write", "trim"}
  /\ fileStale' = TRUE
  /\ FlushReturns(f)
  /\ FlushFrame
  /\ UNCHANGED <<backlog, totalSize, dropped, owed>>

\* dropPersistTrimmed: what the file left out leaves the backlog too, unless
\* it is being sent by now.  These events are a run of the backlog (see
\* QueueInOrder): the k of them after the first n.
FlushTrims(f) ==
  /\ fpc[f] = "trim"
  /\ \E n \in 0 .. Len(backlog) : \E k \in 0 .. (Len(backlog) - n) :
       /\ \A i \in DOMAIN backlog :
            backlog[i] \in snap[f].trimmed <=> i \in (n + 1) .. (n + k)
       /\ backlog' = WithoutOldestQueued(backlog, n, k)
       /\ totalSize' = totalSize - QueueBytes(SubSeq(backlog, n + 1, n + k))
       /\ dropped' = dropped + k
  /\ fileStale' = (Range(inFlight) \cap snap[f].trimmed # {})
  /\ FlushReturns(f)
  /\ FlushFrame
  /\ UNCHANGED owed

-----------------------------------------------------------------------------
(***************************************************************************)
(* The life of the process.                                                *)
(***************************************************************************)

Stop ==
  /\ phase = "up"
  /\ phase' = "stopping"
  /\ UNCHANGED <<unread, queueVars, wake, persistWake, dropNew, callVars, workerVars,
                 healthVars, flushVars, taken, sent, dropped, owed, ends>>

\* Everything but the file is gone.  A crash may come at any time; an orderly
\* exit comes when Start has returned or main has waited long enough for it.
ProcessEnds ==
  /\ phase # "down"
  /\ ends < MaxEnds
  /\ ends' = ends + 1
  /\ phase' = "down" /\ unread' = <<>>
  /\ backlog' = <<>> /\ inFlight' = <<>> /\ totalSize' = 0
  /\ wake' = FALSE /\ persistWake' = FALSE /\ dropNew' = FALSE
  /\ checked' = 0 /\ signalling' = 0
  /\ wpc' = "off" /\ draining' = FALSE /\ drainOver' = FALSE
  /\ attempt' = 0 /\ adaptive' = MaxBatch /\ outcome' = "ok"
  /\ healthReports' = FALSE /\ hpc' = "off"
  /\ ppc' = "off" /\ persistMu' = "free"
  /\ fpc' = [f \in Flushers |-> "idle"]
  /\ snap' = [f \in Flushers |-> NoSnap]
  /\ taken' = 0 /\ sent' = 0 /\ dropped' = 0
  /\ UNCHANGED <<offers, admitted, file, fileStale, owed>>

BootFrame ==
  UNCHANGED <<inFlight, persistWake, dropNew, callVars, draining, drainOver, attempt,
              adaptive, outcome, healthReports, persistMu, fpc, snap, sent, ends>>

\* NewForwarder reads the file.  It is a new process: only loadBacklog runs
\* until Start.
BootReads ==
  /\ phase = "down"
  /\ phase' = "loading"
  /\ unread' = IF Persistent THEN file ELSE <<>>
  /\ fileStale' = FALSE
  /\ BootFrame
  /\ UNCHANGED <<backlog, totalSize, wake, wpc, hpc, ppc, file, taken, dropped, owed>>

\* The file cannot be read and stays, or is quarantined under another name.
BootIgnores ==
  /\ phase = "down"
  /\ file # <<>>
  /\ phase' = "loading"
  /\ fileStale' = TRUE
  /\ file' \in {file, <<>>}
  /\ owed' = {}
  /\ BootFrame
  /\ UNCHANGED <<unread, backlog, totalSize, wake, wpc, hpc, ppc, taken, dropped>>

LoadFrame == BootFrame /\ UNCHANGED <<phase, wake, wpc, hpc, ppc, file>>

\* loadBacklog keeps an entry when the limit has room for it.
LoadKeeps ==
  /\ unread # <<>>
  /\ totalSize + ItemSize[Head(unread)] <= MaxBacklogSize
  /\ unread' = Tail(unread)
  /\ backlog' = Append(backlog, Head(unread))
  /\ totalSize' = totalSize + ItemSize[Head(unread)]
  /\ taken' = taken + 1
  /\ LoadFrame
  /\ UNCHANGED <<dropped, owed, fileStale>>

LoadDrops ==
  /\ unread # <<>>
  /\ totalSize + ItemSize[Head(unread)] > MaxBacklogSize
  /\ unread' = Tail(unread)
  /\ dropped' = dropped + 1
  /\ taken' = taken + 1
  /\ owed' = owed \ {Head(unread)}
  /\ fileStale' = TRUE
  /\ LoadFrame
  /\ UNCHANGED <<backlog, totalSize>>

\* loadBacklog leaves a wake-up, and Start starts the goroutines.
Start ==
  /\ phase = "loading"
  /\ unread = <<>>
  /\ phase' = "up"
  /\ wake' = (backlog # <<>>)
  /\ wpc' = "top" /\ ppc' = "select"
  /\ hpc' = (IF Reporting THEN "wait" ELSE "off")
  /\ BootFrame
  /\ UNCHANGED <<unread, backlog, totalSize, file, fileStale, taken, dropped, owed>>

-----------------------------------------------------------------------------
\* Before the first start: the file an earlier version left, if any, which may
\* have been written under a larger limit.
LegacyFiles == {[i \in 1 .. k |-> i] : k \in 0 .. MaxLegacy}

Init ==
  /\ phase = "down" /\ unread = <<>>
  /\ backlog = <<>> /\ inFlight = <<>> /\ totalSize = 0
  /\ wake = FALSE /\ persistWake = FALSE /\ dropNew = FALSE
  /\ offers = 0 /\ admitted = MaxLegacy /\ checked = 0 /\ signalling = 0
  /\ wpc = "off" /\ draining = FALSE /\ drainOver = FALSE
  /\ attempt = 0 /\ adaptive = MaxBatch /\ outcome = "ok"
  /\ healthReports = FALSE /\ hpc = "off"
  /\ ppc = "off" /\ persistMu = "free"
  /\ fpc = [f \in Flushers |-> "idle"] /\ snap = [f \in Flushers |-> NoSnap]
  /\ file \in LegacyFiles /\ fileStale = FALSE
  /\ taken = 0 /\ sent = 0 /\ dropped = 0
  /\ owed = {} /\ ends = 0

Worker ==
  \/ LoopEnds \/ LoopSleeps \/ WakeUp \/ TakeBatch
  \/ \E o \in Answers : Answer(o)
  \/ SendReturns \/ Settled \/ Discarded \/ Requeued \/ Notify \/ BackoffEnds

Reporter ==
  ReportHealth \/ ReporterTakes \/ ReportAnswered \/ ReporterSettles \/ ReporterStops

Persister == PersisterWakes \/ DebounceEnds \/ PersisterStops

Flush(f) ==
  \/ FlushSkips(f)
  \/ FlushBegins(f) \/ FlushPublishes(f) \/ FlushFails(f) \/ FlushTrims(f)

Boot == BootReads \/ BootIgnores \/ LoadKeeps \/ LoadDrops \/ Start

Next ==
  \/ Offer \/ Admit \/ Refuse \/ Signal
  \/ Worker \/ DrainDeadline
  \/ Reporter
  \/ Persister
  \/ \E f \in Flushers : Flush(f)
  \/ Stop \/ ProcessEnds \/ Boot

Spec == Init /\ [][Next]_vars

(***************************************************************************)
(* Fairness.  Goroutines that can run do run; a request returns within the *)
(* client's ten-second timeout; timers fire, so that the health checker    *)
(* keeps reporting until Stop.  Nothing is assumed of offers, of what the  *)
(* controller answers to batches and reports, of crashes and of Stop.      *)
(***************************************************************************)
Fairness ==
  /\ WF_vars(Admit \/ Refuse) /\ WF_vars(Signal)
  /\ WF_vars(Worker) /\ WF_vars(DrainDeadline)
  /\ WF_vars(phase = "up" /\ ReportHealth)
  /\ WF_vars(ReporterTakes \/ ReportAnswered \/ ReporterSettles \/ ReporterStops)
  /\ WF_vars(Persister) /\ \A f \in Flushers : WF_vars(Flush(f))

FairSpec == Spec /\ Fairness

-----------------------------------------------------------------------------
\* The types of the forwarder's state, and the bounds that the retry counter
\* and the adaptive batch size keep (totalSize: see SizeAccounting).
QueueTypes ==
  /\ phase \in {"down", "loading", "up", "stopping"}
  /\ unread \in Seq(Events) /\ backlog \in Seq(Events) /\ inFlight \in Seq(Events)
  /\ wake \in BOOLEAN /\ persistWake \in BOOLEAN /\ dropNew \in BOOLEAN

CallTypes ==
  /\ offers \in 0 .. MaxOffers /\ admitted \in Nat
  /\ checked \in Nat /\ signalling \in Nat

WorkerTypes ==
  /\ wpc \in {"top", "wait", "send", "answered", "settle", "notify",
              "notifyRetry", "backoff", "flush", "done", "off"}
  /\ draining \in BOOLEAN /\ drainOver \in BOOLEAN
  /\ attempt \in Nat /\ (MaxRetryAttempts > 0 => attempt <= MaxRetryAttempts)
  /\ adaptive \in 1 .. MaxBatch /\ outcome \in Answers

ReporterTypes ==
  /\ healthReports \in BOOLEAN
  /\ hpc \in {"wait", "send", "accepted", "failed", "done", "off"}

PersistenceTypes ==
  /\ ppc \in {"select", "debounce", "flush", "last", "done", "off"}
  /\ persistMu \in Flushers \cup {"free"}
  /\ fpc \in [Flushers -> {"idle", "write", "trim"}]
  /\ snap \in [Flushers -> [items : Seq(Events), n : Nat, trimmed : SUBSET Events]]
  /\ file \in Seq(Events) /\ fileStale \in BOOLEAN

CounterTypes ==
  /\ taken \in Nat /\ sent \in Nat /\ dropped \in Nat
  /\ owed \subseteq Events /\ ends \in Nat

TypeOK ==
  /\ QueueTypes /\ CallTypes /\ WorkerTypes
  /\ ReporterTypes /\ PersistenceTypes /\ CounterTypes

\* Every event offered to this process, and every event it loaded from the
\* file, is queued, in flight, acknowledged (sent), counted in dropped, or
\* still inside EnqueueEvent, and only one of these: no path through sending,
\* requeueing, dropping and trimming loses or double-counts an event.
Conservation ==
  phase # "down" => taken = sent + dropped + Len(Queue) + checked

\* backlogTotalSize is the size of what is queued and in flight and never
\* above the limit, although handlers, worker and dropPersistTrimmed all
\* change it while a batch is outside the backlog.
SizeAccounting ==
  totalSize = QueueBytes(Queue) /\ totalSize <= MaxBacklogSize

InOrder(s) == \A i, j \in DOMAIN s : i < j => s[i] < s[j]

\* Events are queued, sent and persisted in the order of their admission and
\* none twice, through requeues, trims, crashes and restarts; and what a flush
\* trims stays a run of the backlog.
QueueInOrder ==
  /\ InOrder(Queue) /\ InOrder(file)
  /\ \A f \in Flushers : \A i, j, h \in DOMAIN backlog :
       (i < j /\ j < h /\ {backlog[i], backlog[h]} \subseteq snap[f].trimmed)
         => backlog[j] \in snap[f].trimmed

\* The worker never sleeps on a non-empty backlog with nobody left to wake it.
NoLostWake == wpc = "wait" /\ backlog # <<>> => wake \/ signalling > 0

\* Nothing is under way that would still change the file.
PersistenceQuiet ==
  /\ Persistent
  /\ ppc = "select" /\ ~persistWake /\ signalling = 0
  /\ wpc \notin {"notify", "notifyRetry"} /\ fpc["worker"] = "idle"
  /\ ~fileStale

\* When the persistence goroutine has nothing to do, the file holds exactly
\* the events that are queued or in flight, unless the latest flush failed or
\* left out an event in flight: no change of the queue is missed, and no older
\* copy of the queue has replaced a newer one.
FileMirrorsQueue == PersistenceQuiet => Range(file) = Range(Queue)

\* An event that reached the file stays there until the controller has it or
\* its drop is counted, whatever crashes and restarts happen; the exceptions
\* are events trimmed for the cap and files that could not be read.
DurableUntilSettled == owed \subseteq Range(file)

\* The forwarder delivers at least once and in order: all of the above is a
\* queue whose batch is given up only by a final answer, which loses nothing
\* uncounted, and which starts with what its file kept (see Delivery).
Verdict ==
  IF wpc # "settle" THEN "none"
  ELSE IF outcome = "ok" THEN "accepted"
  ELSE IF Permanent(outcome) \/ RetriesExhausted THEN "hopeless"
  ELSE "unclear"

Promise ==
  INSTANCE Delivery WITH up <- Running, waiting <- backlog, sending <- inFlight,
                         answer <- Verdict, kept <- owed, lost <- dropped

DeliversAtLeastOnce == Promise!Spec

\* Every queued event leaves the queue: the retry limit bounds how long a
\* failing batch blocks the events behind it.
QueueDrains ==
  \A e \in Events :
    (e \in Range(Queue) /\ phase = "up") ~> (e \notin Range(Queue) \/ phase # "up")

\* However batches fail, and however late an outage lets a failed one store its
\* verdict over that of a report, admission opens again and again once reports
\* no longer fail: no outage ends the reporter or leaves it without a report,
\* although the backlog may be empty and no batch is left that could reopen.
AdmissionReopens ==
  Reporting /\ <>[](phase = "up" /\ hpc # "failed") => []<>~dropNew

\* After Stop the worker and the persistence goroutine both return.
StopCompletes ==
  phase = "stopping" ~> (phase = "down" \/ (wpc = "done" /\ ppc = "done"))
=============================================================================
