------------------------------- MODULE Archive -------------------------------
(***************************************************************************)
(* The controller's asynchronous archive (webgui/internal/storage/archive  *)
(* and the shutdown sequence of webgui/main.go).  AddEvent puts every      *)
(* query event in a bounded queue in memory; the archiver goroutine moves  *)
(* the queue into SQLite in chunks, one transaction each, and puts a chunk *)
(* back when its transaction fails.  At shutdown main flushes the queue    *)
(* itself, waits for the HTTP and DNS servers, flushes again and closes    *)
(* the database, while the archiver may still be on its way out.           *)
(*                                                                         *)
(* A critical section of batchMu is one step.  archiveMu is held, together *)
(* with a read lock of dbMu, from StepBegins to the end of the archive     *)
(* step.  Retention deletes rows after a successful pass; it changes       *)
(* nothing here, where rows are counted when they are committed.           *)
(***************************************************************************)
EXTENDS Integers, Sequences, Functions, FiniteSetsExt

CONSTANTS
  MaxAdds,      \* bound: how many events are ever added
  MaxAgain,     \* bound: how many rows are committed and reported as failed
  Limit,        \* archiveLimit, ARCHIVE_QUEUE_CAPACITY
  Mark,         \* archiveMark, ARCHIVE_TRIGGER_SIZE
  WriteBatch    \* archiveBatch, ARCHIVE_WRITE_BATCH_SIZE

\* archiveLimits brings the configured values into these ranges.
ASSUME LimitAssumption ==
  /\ MaxAdds \in Nat /\ MaxAgain \in Nat
  /\ Limit \in Nat \ {0}
  /\ Mark \in 1 .. Limit
  /\ WriteBatch \in 1 .. Limit

VARIABLES
  phase,          \* main: "serving", then the shutdown steps "flush1", "waiting",
                  \* "flush2", "closing", "closed"
  \* AddEvent
  begun,          \* calls ever made
  calling,        \* calls that are in the ring and not in the queue yet
  stopped,        \* the HTTP and DNS servers have stopped: no call is made any more
  \* the queue, guarded by batchMu; an event is its place in the order of queueing
  queued,         \* events ever queued
  pending,        \* waiting, oldest first
  dropped,        \* batchDropped
  ready,          \* token in archiveReady
  \* archiveStep, which archiveMu lets one goroutine at a time execute
  archiveMu,      \* its holder, or "free"
  claimed,        \* the chunk being inserted (batchInFlight is its length)
  apc,            \* the archiver: "select", "step", "backoff", "done"
  mpc,            \* main's flush: "try", "backoff"
  late,           \* main stopped waiting for the servers before they stopped
  gaveUp,         \* the final flush ran into its deadline
  \* SQLite
  inserted,       \* rows ever committed
  again           \* rows committed by transactions that reported a failure

queueVars    == <<queued, pending, dropped, ready>>
callVars     == <<begun, calling, stopped>>
stepVars     == <<archiveMu, claimed, apc, mpc>>
databaseVars == <<inserted, again>>
shutdownVars == <<phase, late, gaveUp>>

vars == <<callVars, queueVars, stepVars, databaseVars, shutdownVars>>

Archivers == {"archiver", "main"}

\* The context of the background goroutines.
Cancelled == phase # "serving"

Flushing == phase \in {"flush1", "flush2"}

-----------------------------------------------------------------------------
(***************************************************************************)
(* AddEvent.  Between its insert into the ring (under eventsMu) and the    *)
(* queue (under batchMu) any number of other calls may overtake it.        *)
(***************************************************************************)

AddBegins ==
  /\ ~stopped
  /\ begun < MaxAdds
  /\ begun' = begun + 1
  /\ calling' = calling + 1
  /\ UNCHANGED <<stopped, queueVars, stepVars, databaseVars, shutdownVars>>

\* A full queue loses its oldest event to the new one.
MakeRoom ==
  /\ pending' = Append(IF Len(pending) >= Limit THEN Tail(pending) ELSE pending,
                       queued + 1)
  /\ dropped' = dropped + (IF Len(pending) >= Limit THEN 1 ELSE 0)

\* Mutant: the archiver is woken one event too late.
SignalArchiverLate == ready' = (ready \/ Len(pending') > Mark)

\* At the high-water mark, still under batchMu.
SignalArchiver == ready' = (ready \/ Len(pending') >= Mark)

AddQueues ==
  /\ calling > 0
  /\ calling' = calling - 1
  /\ queued' = queued + 1
  /\ MakeRoom
  /\ SignalArchiver
  /\ UNCHANGED <<begun, stopped, stepVars, databaseVars, shutdownVars>>

-----------------------------------------------------------------------------
(***************************************************************************)
(* archiveStep, executed by the archiver and by main's flushes.            *)
(***************************************************************************)

StepFrame == UNCHANGED <<callVars, phase, late, gaveUp>>

Wants(f) ==
  IF f = "archiver" THEN apc = "step" ELSE Flushing /\ mpc = "try"

\* Both locks are taken and the database is still open.
StepBegins(f) ==
  /\ Wants(f)
  /\ archiveMu = "free"
  /\ phase # "closed"
  /\ archiveMu' = f
  /\ StepFrame
  /\ UNCHANGED <<queueVars, claimed, apc, mpc, databaseVars>>

\* The archiver comes too late: the step returns without an error.
StepFindsClosed ==
  /\ Wants("archiver")
  /\ archiveMu = "free"
  /\ phase = "closed"
  /\ apc' = "select"
  /\ StepFrame
  /\ UNCHANGED <<queueVars, archiveMu, claimed, mpc, databaseVars>>

ChunkSize == Min({Len(pending), WriteBatch})

\* claimArchiveBatch
Claim(f) ==
  /\ archiveMu = f
  /\ claimed = <<>>
  /\ pending # <<>>
  /\ claimed' = SubSeq(pending, 1, ChunkSize)
  /\ pending' = SubSeq(pending, ChunkSize + 1, Len(pending))
  /\ StepFrame
  /\ UNCHANGED <<queued, dropped, ready, archiveMu, apc, mpc, databaseVars>>

\* insertArchiveBatch commits and the next chunk is claimed.
InsertCommits(f) ==
  /\ archiveMu = f
  /\ claimed # <<>>
  /\ claimed' = <<>>
  /\ inserted' = inserted + Len(claimed)
  /\ StepFrame
  /\ UNCHANGED <<queueVars, archiveMu, apc, mpc, again>>

\* Mutant: the chunk is not put back.
RestoreNothing == UNCHANGED <<pending, dropped>>

\* restoreArchiveBatch: the chunk goes back to the front, and what the queue
\* has no room for, from the oldest on, is dropped.
Restore ==
  LET combined == claimed \o pending
      excess   == Max({0, Len(combined) - Limit})
  IN  /\ pending' = SubSeq(combined, excess + 1, Len(combined))
      /\ dropped' = dropped + excess

\* The step fails, because the transaction did or because the context ended.
\* A commit may report a failure and have happened all the same.
InsertFails(f) ==
  /\ archiveMu = f
  /\ claimed # <<>>
  /\ \E rows \in {0, Len(claimed)} :
       again + rows <= MaxAgain /\ inserted' = inserted + rows /\ again' = again + rows
  /\ Restore
  /\ claimed' = <<>>
  /\ archiveMu' = "free"
  /\ IF f = "archiver" THEN apc' = "backoff" /\ UNCHANGED mpc
                       ELSE mpc' = "backoff" /\ UNCHANGED apc
  /\ StepFrame
  /\ UNCHANGED <<queued, ready>>

\* main's flush is over, with success or not.
FlushReturns ==
  /\ phase' = IF phase = "flush1" THEN "waiting" ELSE "closing"
  /\ mpc' = "try"

\* Nothing is left to claim: the step returns.
StepEnds(f) ==
  /\ archiveMu = f
  /\ claimed = <<>>
  /\ pending = <<>>
  /\ archiveMu' = "free"
  /\ IF f = "archiver" THEN apc' = "select" /\ UNCHANGED <<mpc, phase>>
                       ELSE FlushReturns /\ UNCHANGED apc
  /\ UNCHANGED <<callVars, queueVars, claimed, databaseVars, late, gaveUp>>

Step(f) ==
  StepBegins(f) \/ Claim(f) \/ InsertCommits(f) \/ InsertFails(f) \/ StepEnds(f)

-----------------------------------------------------------------------------
(***************************************************************************)
(* RunArchiver                                                             *)
(***************************************************************************)

ArchiverFrame ==
  UNCHANGED <<callVars, queued, pending, dropped, archiveMu, claimed, mpc,
              databaseVars, shutdownVars>>

\* Mutant: there is no ticker.
ArchiverWakesByTokenOnly ==
  /\ apc = "select"
  /\ ready /\ ready' = FALSE
  /\ apc' = "step"
  /\ ArchiverFrame

\* By the ticker or by a token.  With the context cancelled as well, select
\* may still choose these.
ArchiverWakes ==
  /\ apc = "select"
  /\ UNCHANGED ready \/ (ready /\ ready' = FALSE)
  /\ apc' = "step"
  /\ ArchiverFrame

ArchiverRetries ==
  /\ apc = "backoff"
  /\ apc' = "step"
  /\ ArchiverFrame
  /\ UNCHANGED ready

ArchiverStops ==
  /\ apc \in {"select", "backoff"}
  /\ Cancelled
  /\ apc' = "done"
  /\ ArchiverFrame
  /\ UNCHANGED ready

-----------------------------------------------------------------------------
(***************************************************************************)
(* The shutdown sequence of main.                                          *)
(***************************************************************************)

MainFrame ==
  UNCHANGED <<begun, calling, queueVars, archiveMu, claimed, apc, databaseVars>>

\* A signal, or a server that failed: the context is cancelled.
Shutdown ==
  /\ phase = "serving"
  /\ phase' = "flush1"
  /\ MainFrame
  /\ UNCHANGED <<stopped, mpc, late, gaveUp>>

\* flushArchiveQueue tries again after a delay,
FlushRetries ==
  /\ Flushing
  /\ mpc = "backoff"
  /\ mpc' = "try"
  /\ MainFrame
  /\ UNCHANGED <<stopped, shutdownVars>>

\* until its deadline.
FlushGivesUp ==
  /\ Flushing
  /\ archiveMu # "main"
  /\ gaveUp' = (phase = "flush2")
  /\ FlushReturns
  /\ MainFrame
  /\ UNCHANGED <<stopped, late>>

\* The HTTP and DNS servers return once their handlers have.
ServersStop ==
  /\ Cancelled
  /\ calling = 0
  /\ ~stopped
  /\ stopped' = TRUE
  /\ MainFrame
  /\ UNCHANGED <<mpc, shutdownVars>>

\* Mutant: main does not wait for the servers before the final flush.
ServersAwaitedNever == late' = FALSE

\* main waits for both servers, each until a deadline.
ServersAwaited == late' = ~stopped

WaitEnds ==
  /\ phase = "waiting"
  /\ ServersAwaited
  /\ phase' = "flush2"
  /\ MainFrame
  /\ UNCHANGED <<stopped, mpc, gaveUp>>

\* Store.Close takes dbMu, so no archive step is under way.
Close ==
  /\ phase = "closing"
  /\ archiveMu = "free"
  /\ phase' = "closed"
  /\ MainFrame
  /\ UNCHANGED <<stopped, mpc, late, gaveUp>>

-----------------------------------------------------------------------------
Init ==
  /\ phase = "serving" /\ late = FALSE /\ gaveUp = FALSE
  /\ begun = 0 /\ calling = 0 /\ stopped = FALSE
  /\ queued = 0 /\ pending = <<>> /\ dropped = 0 /\ ready = FALSE
  /\ archiveMu = "free" /\ claimed = <<>> /\ apc = "select" /\ mpc = "try"
  /\ inserted = 0 /\ again = 0

Archiver == ArchiverWakes \/ ArchiverRetries \/ ArchiverStops \/ StepFindsClosed

Next ==
  \/ AddBegins \/ AddQueues
  \/ \E f \in Archivers : Step(f)
  \/ Archiver
  \/ Shutdown \/ FlushRetries \/ FlushGivesUp \/ ServersStop \/ WaitEnds \/ Close

Spec == Init /\ [][Next]_vars

(***************************************************************************)
(* Fairness.  The archiver runs when it can, its ticker fires, and the     *)
(* database does not refuse every transaction for ever.                    *)
(***************************************************************************)
Fairness ==
  /\ WF_vars(AddQueues) /\ WF_vars(Archiver)
  /\ \A f \in Archivers : WF_vars(Step(f)) /\ SF_vars(InsertCommits(f))

FairSpec == Spec /\ Fairness

-----------------------------------------------------------------------------
\* The types of the archive's state.  The queue and the chunk keep their
\* bounds also when a failed chunk comes back to a queue that has filled up.
TypeOK ==
  /\ phase \in {"serving", "flush1", "waiting", "flush2", "closing", "closed"}
  /\ late \in BOOLEAN /\ gaveUp \in BOOLEAN
  /\ begun \in Nat /\ calling \in Nat /\ stopped \in BOOLEAN
  /\ queued \in Nat /\ dropped \in Nat /\ ready \in BOOLEAN
  /\ pending \in Seq(Nat) /\ Len(pending) <= Limit
  /\ archiveMu \in Archivers \cup {"free"}
  /\ claimed \in Seq(Nat) /\ Len(claimed) <= WriteBatch
  /\ apc \in {"select", "step", "backoff", "done"} /\ mpc \in {"try", "backoff"}
  /\ inserted \in Nat /\ again \in 0 .. MaxAgain

\* Every queued event is waiting, in the chunk being inserted, a row, or
\* counted in batchDropped, and only one of these, except for the rows of
\* transactions whose failure was reported after they had been committed.
EventsAccounted ==
  queued + again = Len(pending) + Len(claimed) + inserted + dropped

\* The final flush captures everything: when the database is closed after a
\* flush that succeeded, and the servers stopped in time, every event ever
\* added is a row or a counted drop, also those that handlers added during
\* the first flush and those the dying archiver had claimed.
ShutdownDurable ==
  phase \in {"closing", "closed"} /\ ~late /\ ~gaveUp
    => begun + again = inserted + dropped

\* As long as the program serves, the archiver never waits for its ticker (a
\* minute) with the queue at the high-water mark: the token is there.
NoLostArchiveWake ==
  ~Cancelled /\ apc = "select" /\ Len(pending) >= Mark => ready

\* Every queued event is archived, or dropped for newer ones, in the end, also
\* one of too few for a token and one whose transactions failed.
QueueArchived ==
  \A e \in 1 .. MaxAdds :
    e \in Range(pending \o claimed)
      ~> (e \notin Range(pending \o claimed) \/ Cancelled)
=============================================================================
