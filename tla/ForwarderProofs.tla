--------------------------- MODULE ForwarderProofs ---------------------------
(***************************************************************************)
(* Proofs about the forwarder for every number of events, every size and   *)
(* every batch, retry and backlog limit.                                   *)
(*                                                                         *)
(* The types are not inductive by themselves: that an admitted event is    *)
(* one of Events, that a batch is never empty and that a snapshot's slices *)
(* stay inside it depend on how the goroutines' places fit together        *)
(* (Shape).  Conservation, NoLostWake and SizeAccounting rest on both.     *)
(* The order and the care of the events (DInv, below) rest on these and on *)
(* each other, and the mirror in the file (Mirrored) on all of them.       *)
(***************************************************************************)
EXTENDS Forwarder, CommonLemmas

USE DEF QueueTypes, CallTypes, WorkerTypes, ReporterTypes, PersistenceTypes, CounterTypes

Sending == {"send", "answered", "settle"}

\* How the places of the goroutines and the variables they own fit together.
Shape ==
  /\ wpc \in Sending <=> inFlight # <<>>
  /\ Len(inFlight) <= MaxBatch
  /\ admitted + checked <= MaxLegacy + offers
  /\ \A f \in Flushers : snap[f].n <= Len(snap[f].items)
  /\ \A f \in Flushers : fpc[f] # "idle" <=> persistMu = f
  /\ fpc["worker"] # "idle" => wpc = "flush"
  /\ unread # <<>> => phase = "loading"
  /\ ~Running => /\ wpc = "off" /\ ppc = "off" /\ persistMu = "free"
                 /\ checked = 0 /\ signalling = 0
  /\ phase = "down" => backlog = <<>> /\ taken = 0 /\ sent = 0 /\ dropped = 0

\* Conservation without its guard: a process that is down has nothing.
Balance == taken = sent + dropped + Len(Queue) + checked

IInv == TypeOK /\ Shape

\* Leaving k entries out shortens a sequence by k.
LEMMA WithoutType ==
  ASSUME NEW S, NEW s \in Seq(S),
         NEW n \in 0 .. Len(s), NEW k \in 0 .. (Len(s) - n)
  PROVE  /\ WithoutOldestQueued(s, n, k) \in Seq(S)
         /\ Len(WithoutOldestQueued(s, n, k)) = Len(s) - k
<1>0. Len(s) \in Nat  BY LenProperties
<1> DEFINE front == SubSeq(s, 1, n)
           back  == SubSeq(s, n + k + 1, Len(s))
<1>1. front \in Seq(S) /\ Len(front) = n
  BY <1>0, SliceType
<1>2. back \in Seq(S) /\ Len(back) = Len(s) - n - k
  BY <1>0, SliceType
<1> HIDE DEF front, back
<1>3. front \o back \in Seq(S) /\ Len(front \o back) = Len(front) + Len(back)
  BY <1>1, <1>2, ConcatProperties
<1>4. front \o back \in Seq(S) /\ Len(front \o back) = Len(s) - k
  BY <1>0, <1>1, <1>2, <1>3
<1> QED  BY <1>4 DEF WithoutOldestQueued, front, back

\* Min of three numbers.
LEMMA MinOfThree ==
  ASSUME NEW a \in Int, NEW b \in Int, NEW c \in Int
  PROVE  /\ Min({a, b, c}) \in {a, b, c}
         /\ Min({a, b, c}) <= a /\ Min({a, b, c}) <= b /\ Min({a, b, c}) <= c
<1>1. \E x \in {a, b, c} : \A y \in {a, b, c} : x =< y
  <2>1. CASE a <= b /\ a <= c  BY <2>1
  <2>2. CASE b <= a /\ b <= c  BY <2>2
  <2>3. CASE c <= a /\ c <= b  BY <2>3
  <2> QED  BY <2>1, <2>2, <2>3
<1> QED  BY <1>1 DEF Min

\* A batch is a non-empty prefix of a non-empty backlog.
LEMMA BatchSizeBounds ==
  ASSUME TypeOK, backlog # <<>>
  PROVE  BatchSize \in 1 .. Len(backlog) /\ BatchSize <= MaxBatch
<1>1. Len(backlog) \in Nat /\ Len(backlog) >= 1
  BY LenProperties, EmptySeq DEF TypeOK
<1>2. MinBatch \in Nat /\ MaxBatch \in Nat /\ MinBatch >= 1 /\ MaxBatch >= 1
  BY BatchAssumption
<1>3. adaptive \in Int /\ adaptive >= 1  BY <1>2 DEF TypeOK
<1>4. PICK wish \in Int : wish = Max({adaptive, MinBatch}) /\ wish >= 1
  <2>1. Max({adaptive, MinBatch}) \in {adaptive, MinBatch}
    BY <1>2, <1>3, MaxOfTwo
  <2> QED  BY <2>1, <1>2, <1>3
<1>5. PICK len \in Int : len = Len(backlog) /\ len >= 1
  BY <1>1
<1>6. LET m == Min({len, MaxBatch, wish})
      IN  m \in {len, MaxBatch, wish} /\ m <= len /\ m <= MaxBatch
  <2> MaxBatch \in Int  BY <1>2
  <2> QED  BY MinOfThree
<1> QED  BY <1>2, <1>4, <1>5, <1>6 DEF BatchSize

-----------------------------------------------------------------------------
\* The constants as the steps below use them.
LEMMA Bounds ==
  /\ MaxOffers \in Nat /\ MaxLegacy \in Nat /\ Persistent \in BOOLEAN
  /\ MaxRetryAttempts \in Nat /\ BatchGrowth \in Nat
  /\ MinBatch \in Nat \ {0} /\ MaxBatch \in Nat \ {0} /\ MinBatch <= MaxBatch
<1> QED
  BY BoundAssumption, PersistentAssumption, RetryAssumption, BatchAssumption

LEMMA InitIInv == Init => IInv
<1> SUFFICES ASSUME Init PROVE IInv
  OBVIOUS
<1>1. <<>> \in Seq(Events)
  BY EmptySeq
<1>2. file \in Seq(Events)
  <2>1. PICK k \in 0 .. MaxLegacy : file = [i \in 1 .. k |-> i]
    BY DEF Init, LegacyFiles
  <2>2. file \in [1 .. k -> Events] /\ k \in Nat
    BY <2>1, Bounds DEF Events
  <2> QED  BY <2>2, SeqDef
<1>3. NoSnap \in [items : Seq(Events), n : Nat, trimmed : SUBSET Events]
  BY <1>1 DEF NoSnap
<1>4. TypeOK
  <2>1. snap \in [Flushers -> [items : Seq(Events), n : Nat, trimmed : SUBSET Events]]
    BY <1>3 DEF Init
  <2>2. fpc \in [Flushers -> {"idle", "write", "trim"}]
    BY DEF Init
  <2>3. admitted \in Nat /\ offers \in 0 .. MaxOffers /\ attempt \in Nat
        /\ attempt <= MaxRetryAttempts /\ adaptive \in 1 .. MaxBatch
    BY Bounds DEF Init
  <2> QED  BY <1>1, <1>2, <2>1, <2>2, <2>3 DEF Init, TypeOK, Answers
<1>5. Shape
  BY EmptySeq, Bounds DEF Init, Shape, Flushers, NoSnap, Sending, Running
<1> QED  BY <1>4, <1>5 DEF IInv

\* EnqueueEvent: an admitted event is one of Events because every admission
\* was an offer first.
LEMMA CallKeepsIInv ==
  ASSUME IInv, Offer \/ Admit \/ Refuse \/ Signal
  PROVE  IInv'
<1> USE Bounds DEF IInv, CallFrame, workerVars, flushVars, healthVars
<1>1. CASE Offer
  <2>1. TypeOK'  BY <1>1 DEF Offer, TypeOK
  <2>2. Shape'  BY <1>1 DEF Offer, Shape, TypeOK, Running
  <2> QED  BY <2>1, <2>2
<1>2. CASE Admit
  <2>1. admitted + 1 \in Events
    BY <1>2 DEF Admit, TypeOK, Shape, Events
  <2>2. Append(backlog, admitted + 1) \in Seq(Events)
    BY <2>1, AppendProperties DEF TypeOK
  <2>3. TypeOK'
    <3>1. QueueTypes' /\ CallTypes'
      BY <1>2, <2>2 DEF Admit, TypeOK, QueueTypes, CallTypes
    <3>2. WorkerTypes' /\ ReporterTypes' /\ PersistenceTypes' /\ CounterTypes'
      BY <1>2 DEF Admit, TypeOK, WorkerTypes, ReporterTypes, PersistenceTypes, CounterTypes
    <3> QED  BY <3>1, <3>2 DEF TypeOK
  <2>4. Running
    BY <1>2 DEF Admit, TypeOK, Shape
  <2>5. Shape'
    BY <1>2, <2>4 DEF Admit, TypeOK, Shape, Running
  <2> QED  BY <2>3, <2>5
<1>3. CASE Refuse
  <2>1. TypeOK'  BY <1>3 DEF Refuse, TypeOK
  <2>2. Shape'  BY <1>3 DEF Refuse, Shape, TypeOK, Running
  <2> QED  BY <2>1, <2>2
<1>4. CASE Signal
  <2>1. TypeOK'  BY <1>4 DEF Signal, SignalPersistence, TypeOK
  <2>2. Shape'  BY <1>4 DEF Signal, SignalPersistence, Shape, TypeOK, Running
  <2> QED  BY <2>1, <2>2
<1> QED  BY <1>1, <1>2, <1>3, <1>4

\* Health reports touch their channel and the admission flag, nothing else.
LEMMA ReporterOnly == Reporter => ReporterFrame
<1> QED  BY DEF Reporter, ReportHealth, ReporterTakes, ReportAnswered, ReporterSettles, ReporterStops

\* The worker: a batch is taken from a non-empty backlog, so it is not empty;
\* it is gone when the worker leaves "settle".
LEMMA WorkerKeepsIInv ==
  ASSUME IInv, Worker \/ DrainDeadline \/ Reporter
  PROVE  IInv'
<1> USE Bounds DEF IInv, WorkerFrame, LoopFrame, callVars, flushVars, queueVars, Sending,
       healthVars
<1>0. backlog \in Seq(Events) /\ inFlight \in Seq(Events) /\ <<>> \in Seq(Events)
  BY EmptySeq DEF TypeOK
<1>1. CASE LoopEnds
  BY <1>1 DEF LoopEnds, TypeOK, Shape, Running, NowDraining
<1>2. CASE LoopSleeps
  BY <1>2 DEF LoopSleeps, TypeOK, Shape, Running
<1>3. CASE WakeUp
  <2>0. wake' \in BOOLEAN /\ draining' \in BOOLEAN
    BY <1>3 DEF WakeUp, TypeOK
  <2>1. TypeOK'
    BY <1>3, <2>0 DEF WakeUp, TypeOK
  <2>2. Shape'
    BY <1>3 DEF WakeUp, Shape, Running
  <2> QED  BY <2>1, <2>2
<1>4. CASE TakeBatch
  <2>1. BatchSize \in 1 .. Len(backlog) /\ Len(backlog) \in Nat /\ BatchSize <= MaxBatch
    BY <1>4, BatchSizeBounds, LenProperties DEF TakeBatch, TypeOK
  <2>2. /\ SubSeq(backlog, 1, BatchSize) \in Seq(Events)
        /\ Len(SubSeq(backlog, 1, BatchSize)) = BatchSize
    BY <1>0, <2>1, SliceType
  <2>3. SubSeq(backlog, BatchSize + 1, Len(backlog)) \in Seq(Events)
    BY <1>0, <2>1, SliceType
  <2>4. inFlight' # <<>> /\ Len(inFlight') <= MaxBatch
    BY <1>4, <2>1, <2>2, EmptySeq DEF TakeBatch
  <2>5. TypeOK'
    BY <1>4, <2>2, <2>3 DEF TakeBatch, TypeOK, NowDraining
  <2>6. Shape'
    BY <1>4, <2>4 DEF TakeBatch, TypeOK, Shape, Running
  <2> QED  BY <2>5, <2>6
<1>5. CASE \E o \in Answers : Answer(o)
  <2> PICK o \in Answers : Answer(o)
    BY <1>5
  <2>1. TypeOK'
    BY DEF Answer, SendFrame, TypeOK
  <2>2. Shape'
    BY DEF Answer, SendFrame, Shape, Running
  <2> QED  BY <2>1, <2>2
<1>6. CASE SendReturns
  BY <1>6 DEF SendReturns, SendFrame, SetDropNew, TypeOK, Shape, Running
<1>7. CASE Settled
  <2>1. inFlight # <<>> /\ Len(inFlight) \in Nat /\ Len(inFlight) >= 1
    BY <1>7, EmptySeq, LenProperties DEF Settled, TypeOK, Shape
  <2>2. adaptive' \in 1 .. MaxBatch
    <3>1. PICK l \in Int : l = Len(inFlight) + BatchGrowth /\ l >= 1
      BY <2>1
    <3>2. Min({MaxBatch, l}) \in {MaxBatch, l} /\ Min({MaxBatch, l}) <= MaxBatch
      BY MinOfTwo
    <3> QED  BY <1>7, <3>1, <3>2 DEF Settled
  <2>3. TypeOK'
    BY <1>0, <1>7, <2>1, <2>2
       DEF Settled, ReleaseInFlight, SettleFrame, TypeOK, Answers
  <2>4. Shape'
    BY <1>7 DEF Settled, ReleaseInFlight, SettleFrame, TypeOK, Shape, Running
  <2> QED  BY <2>3, <2>4
<1>8. CASE Discarded
  <2>1. Len(inFlight) \in Nat
    BY LenProperties DEF TypeOK
  <2>2. TypeOK'
    BY <1>0, <1>8, <2>1 DEF Discarded, ReleaseInFlight, SettleFrame, TypeOK, Answers
  <2>3. Shape'
    BY <1>8 DEF Discarded, ReleaseInFlight, SettleFrame, TypeOK, Shape, Running
  <2> QED  BY <2>2, <2>3
<1>9. CASE Requeued
  <2>1. Len(inFlight) \in Nat /\ inFlight \o backlog \in Seq(Events)
    BY LenProperties, ConcatProperties DEF TypeOK
  <2>2. adaptive' \in 1 .. MaxBatch
    <3>1. CASE outcome = "throttled"
      <4>1. PICK h \in Int : h = Len(inFlight) \div 2 /\ h <= MaxBatch
        BY <2>1 DEF Shape
      <4>2. Max({MinBatch, h}) \in {MinBatch, h} /\ Max({MinBatch, h}) >= MinBatch
        BY MaxOfTwo
      <4> QED  BY <1>9, <3>1, <4>1, <4>2 DEF Requeued
    <3>2. CASE outcome # "throttled"
      BY <1>9, <3>2 DEF Requeued, TypeOK
    <3> QED  BY <3>1, <3>2
  <2>3. attempt' \in Nat /\ (MaxRetryAttempts > 0 => attempt' <= MaxRetryAttempts)
    BY <1>9 DEF Requeued, RetriesExhausted, NextAttempt, TypeOK
  <2>4. TypeOK'
    BY <1>0, <1>9, <2>1, <2>2, <2>3
       DEF Requeued, RequeueBatch, SettleFrame, TypeOK, Answers
  <2>5. Shape'
    BY <1>9, EmptySeq DEF Requeued, RequeueBatch, SettleFrame, TypeOK, Shape, Running
  <2> QED  BY <2>4, <2>5
<1>10. CASE Notify
  BY <1>10 DEF Notify, SignalPersistence, TypeOK, Shape, Running
<1>11. CASE BackoffEnds
  BY <1>11 DEF BackoffEnds, NowDraining, TypeOK, Shape, Running
<1>12. CASE DrainDeadline
  BY <1>12 DEF DrainDeadline, TypeOK, Shape, Running
<1>13. CASE Reporter
  <2>1. ReporterTypes' /\ dropNew' \in BOOLEAN
    BY <1>13 DEF Reporter, ReportHealth, ReporterTakes, ReportAnswered, ReporterSettles,
       ReporterStops, AfterReport, SetDropNew, TypeOK
  <2>2. Shape'
    BY <1>13, ReporterOnly DEF ReporterFrame, Shape, Running, workerVars
  <2>3. TypeOK'
    BY <1>13, <2>1, ReporterOnly DEF ReporterFrame, TypeOK, workerVars
  <2> QED  BY <2>2, <2>3
<1> QED
  BY <1>1, <1>2, <1>3, <1>4, <1>5, <1>6, <1>7, <1>8, <1>9, <1>10, <1>11, <1>12,
     <1>13 DEF Worker

LEMMA PersisterKeepsIInv ==
  ASSUME IInv, Persister
  PROVE  IInv'
<1> USE DEF IInv, PersisterFrame, callVars, queueVars, workerVars, healthVars
<1>1. CASE PersisterWakes
  <2>f. PersisterFrame /\ persistWake' = FALSE /\ ppc' = "debounce"
    BY <1>1 DEF PersisterWakes
  <2>1. TypeOK'
    <3>t1. QueueTypes'
      BY <2>f DEF TypeOK
    <3>t2. CallTypes'
      BY <2>f DEF TypeOK
    <3>t3. WorkerTypes'
      BY <2>f DEF TypeOK
    <3>t4. PersistenceTypes'
      BY <2>f DEF TypeOK
    <3>t5. CounterTypes'
      BY <2>f DEF TypeOK
    <3>t6. ReporterTypes'
      BY <2>f DEF TypeOK
    <3> QED  BY <3>t1, <3>t2, <3>t3, <3>t4, <3>t5, <3>t6 DEF TypeOK
  <2>2. Shape'
    BY <1>1 DEF PersisterWakes, Shape, Running
  <2> QED  BY <2>1, <2>2
<1>2. CASE DebounceEnds
  <2>1. TypeOK'
    BY <1>2 DEF DebounceEnds, TypeOK
  <2>2. Shape'
    BY <1>2 DEF DebounceEnds, Shape, Running
  <2> QED  BY <2>1, <2>2
<1>3. CASE PersisterStops
  BY <1>3 DEF PersisterStops, TypeOK, Shape, Running
<1> QED  BY <1>1, <1>2, <1>3 DEF Persister

\* Flushing: persistMu lets one goroutine at a time past "idle", and every
\* slice of a snapshot stays inside it.
LEMMA FlushKeepsIInv ==
  ASSUME IInv, NEW f \in Flushers, Flush(f)
  PROVE  IInv'
<1> USE DEF IInv, FlushFrame, callVars, Sending, healthVars
<1> DEFINE Snaps == [items : Seq(Events), n : Nat, trimmed : SUBSET Events]
<1>0. /\ NoSnap \in Snaps /\ NoSnap.n = 0 /\ NoSnap.items = <<>>
      /\ snap \in [Flushers -> Snaps] /\ fpc \in [Flushers -> {"idle", "write", "trim"}]
      /\ Len(<<>>) = 0 /\ Flushers = {"worker", "persister"}
  BY EmptySeq DEF NoSnap, TypeOK, Flushers
<1>r. ASSUME FlushReturns(f), FlushFrame, fpc[f] # "idle" \/ WantsFlush(f),
             persistMu \in {f, "free"},
             backlog' \in Seq(Events), dropped' \in Nat, owed' \subseteq Events,
             fileStale' \in BOOLEAN
      PROVE  IInv'
  <2>1. snap' \in [Flushers -> Snaps] /\ \A g \in Flushers : snap'[g].n <= Len(snap'[g].items)
    BY <1>r, <1>0 DEF FlushReturns, Shape
  <2>2. fpc' \in [Flushers -> {"idle", "write", "trim"}]
        /\ \A g \in Flushers : fpc'[g] = "idle"
    BY <1>r, <1>0 DEF FlushReturns, Shape
  <2>3. TypeOK'
    BY <1>r, <2>1, <2>2 DEF FlushReturns, TypeOK
  <2>4. Running
    BY <1>r, <1>0 DEF Shape, WantsFlush, Flushers, TypeOK
  <2>5. Shape'
    BY <1>r, <1>0, <2>1, <2>2, <2>4 DEF FlushReturns, Shape, Running, WantsFlush
  <2> QED  BY <2>3, <2>5
<1>1. CASE FlushSkips(f)
  BY <1>1, <1>r DEF FlushSkips, PersistMuFree, TypeOK
<1>2. CASE FlushBegins(f)
  <2>1. Queue \in Seq(Events) /\ Len(inFlight) \in Nat /\ Len(inFlight) <= Len(Queue)
    BY ConcatProperties, LenProperties DEF TypeOK, Queue
  <2>2. Snapshot \in Snaps /\ Snapshot.n <= Len(Snapshot.items)
    BY <2>1 DEF Snapshot
  <2>3. snap' \in [Flushers -> Snaps] /\ \A g \in Flushers : snap'[g].n <= Len(snap'[g].items)
    BY <1>2, <1>0, <2>2 DEF FlushBegins, Shape
  <2>4. fpc' \in [Flushers -> {"idle", "write", "trim"}]
        /\ \A g \in Flushers : fpc'[g] # "idle" <=> persistMu' = g
    BY <1>2, <1>0 DEF FlushBegins, Shape, PersistMuFree
  <2>5. TypeOK'
    BY <1>2, <2>3, <2>4 DEF FlushBegins, TypeOK
  <2>6. Running /\ (f = "worker" => wpc = "flush")
    BY <1>2, <1>0 DEF FlushBegins, Shape, WantsFlush
  <2>7. Shape'
    BY <1>2, <1>0, <2>3, <2>4, <2>6 DEF FlushBegins, Shape, Running
  <2> QED  BY <2>5, <2>7
<1>3. CASE FlushPublishes(f)
  <2> DEFINE s == snap[f]
             Leave(k) == Range(SubSeq(s.items, s.n + 1, s.n + k))
  <2>1. s.items \in Seq(Events) /\ s.n \in 0 .. Len(s.items) /\ Len(s.items) \in Nat
    BY <1>0, LenProperties DEF Shape
  <2>2. PICK k \in TrimCounts(s.items, s.n) :
          /\ file' = WithoutOldestQueued(s.items, s.n, k)
          /\ snap' = [snap EXCEPT ![f].trimmed = Leave(k)]
          /\ owed' = (owed \ Leave(k)) \cup (Range(file') \cap Range(Queue))
    BY <1>3 DEF FlushPublishes
  <2>3. k \in 0 .. (Len(s.items) - s.n)
    BY <2>2 DEF TrimCounts
  <2>4. file' \in Seq(Events)
    BY <2>1, <2>2, <2>3, WithoutType
  <2>5. Leave(k) \subseteq Events
    <3>1. SubSeq(s.items, s.n + 1, s.n + k) \in Seq(Events)
      BY <2>1, <2>3, SliceType
    <3> QED  BY <3>1, RangeOfSeq
  <2>6. owed' \subseteq Events
    BY <2>2, <2>4, RangeOfSeq DEF TypeOK
  <2> HIDE DEF Leave
  <2>7. snap' \in [Flushers -> Snaps]
        /\ \A g \in Flushers : snap'[g].n = snap[g].n /\ snap'[g].items = snap[g].items
    BY <1>0, <2>2, <2>5
  <2>8. fpc' \in [Flushers -> {"idle", "write", "trim"}]
        /\ \A g \in Flushers : fpc'[g] # "idle" <=> fpc[g] # "idle"
    BY <1>3, <1>0 DEF FlushPublishes
  <2>f. FlushFrame /\ UNCHANGED <<backlog, totalSize, persistMu, wpc, ppc, fileStale, dropped>>
    BY <1>3 DEF FlushPublishes
  <2>9. TypeOK'
    BY <2>f, <2>4, <2>6, <2>7, <2>8 DEF TypeOK
  <2>10. Shape'
    BY <1>3, <1>0, <2>7, <2>8 DEF FlushPublishes, Shape, Running
  <2> QED  BY <2>9, <2>10
<1>4. CASE FlushFails(f)
  BY <1>4, <1>r DEF FlushFails, TypeOK, Shape
<1>5. CASE FlushTrims(f)
  <2> PICK n \in 0 .. Len(backlog) : \E k \in 0 .. (Len(backlog) - n) :
          backlog' = WithoutOldestQueued(backlog, n, k) /\ dropped' = dropped + k
    BY <1>5 DEF FlushTrims
  <2>1. PICK k \in 0 .. (Len(backlog) - n) :
          backlog' = WithoutOldestQueued(backlog, n, k) /\ dropped' = dropped + k
    OBVIOUS
  <2>2. backlog' \in Seq(Events)
    BY <2>1, WithoutType DEF TypeOK
  <2>3. dropped' \in Nat
    BY <2>1, LenProperties DEF TypeOK
  <2> QED  BY <1>5, <1>r, <2>2, <2>3 DEF FlushTrims, TypeOK, Shape
<1> QED  BY <1>1, <1>2, <1>3, <1>4, <1>5 DEF Flush

\* Crashes, exits and starts.
LEMMA LifeKeepsIInv ==
  ASSUME IInv, Stop \/ ProcessEnds \/ Boot
  PROVE  IInv'
<1> USE Bounds DEF IInv, callVars, queueVars, workerVars, flushVars, BootFrame, LoadFrame,
       healthVars
<1> DEFINE Snaps == [items : Seq(Events), n : Nat, trimmed : SUBSET Events]
<1>0. /\ <<>> \in Seq(Events) /\ NoSnap \in Snaps
      /\ NoSnap.n = 0 /\ NoSnap.items = <<>> /\ Len(<<>>) = 0
  BY EmptySeq DEF NoSnap
<1>1. CASE Stop
  <2>1. TypeOK'
    BY <1>1 DEF Stop, TypeOK
  <2>2. Shape'
    BY <1>1 DEF Stop, Shape, Running
  <2> QED  BY <2>1, <2>2
<1>2. CASE ProcessEnds
  <2>1. snap' \in [Flushers -> Snaps] /\ \A f \in Flushers : snap'[f].n <= Len(snap'[f].items)
    BY <1>0, <1>2 DEF ProcessEnds
  <2>2. fpc' \in [Flushers -> {"idle", "write", "trim"}]
        /\ \A f \in Flushers : fpc'[f] = "idle"
    BY <1>2 DEF ProcessEnds
  <2>3. TypeOK'
    <3>1. ends' \in Nat /\ adaptive' \in 1 .. MaxBatch /\ outcome' \in Answers /\ attempt' = 0
      BY <1>2 DEF ProcessEnds, TypeOK, Answers
    <3>2. UNCHANGED <<offers, admitted, file, fileStale, owed>>
      BY <1>2 DEF ProcessEnds
    <3>3. /\ unread' \in Seq(Events) /\ backlog' \in Seq(Events) /\ inFlight' \in Seq(Events)
          /\ checked' = 0 /\ signalling' = 0 /\ taken' = 0 /\ sent' = 0 /\ dropped' = 0
      BY <1>0, <1>2 DEF ProcessEnds
    <3>4. /\ phase' = "down" /\ wpc' = "off" /\ ppc' = "off" /\ persistMu' = "free"
          /\ wake' = FALSE /\ persistWake' = FALSE /\ dropNew' = FALSE
          /\ draining' = FALSE /\ drainOver' = FALSE
      BY <1>2 DEF ProcessEnds
    <3>5. /\ offers' \in 0 .. MaxOffers /\ admitted' \in Nat /\ file' \in Seq(Events)
          /\ fileStale' \in BOOLEAN /\ owed' \subseteq Events
      BY <3>2 DEF TypeOK
    <3>t1. QueueTypes'
      BY <2>1, <2>2, <3>1, <3>3, <3>4, <3>5
    <3>t2. CallTypes'
      BY <2>1, <2>2, <3>1, <3>3, <3>4, <3>5
    <3>t3. WorkerTypes'
      <4>1. draining' \in BOOLEAN /\ drainOver' \in BOOLEAN
        BY <3>4
      <4>2. attempt' \in Nat /\ (MaxRetryAttempts > 0 => attempt' <= MaxRetryAttempts)
        BY <3>1
      <4>3. wpc' \in {"top", "wait", "send", "answered", "settle", "notify",
                      "notifyRetry", "backoff", "flush", "done", "off"}
        BY <3>4
      <4> QED  BY <3>1, <4>1, <4>2, <4>3
    <3>t4. PersistenceTypes'
      BY <2>1, <2>2, <3>1, <3>3, <3>4, <3>5
    <3>t5. CounterTypes'
      BY <2>1, <2>2, <3>1, <3>3, <3>4, <3>5
    <3>t6. ReporterTypes'
      BY <1>2 DEF ProcessEnds
    <3> QED  BY <3>t1, <3>t2, <3>t3, <3>t4, <3>t5, <3>t6 DEF TypeOK
  <2>4. "free" \notin Flushers /\ "worker" \in Flushers
    BY DEF Flushers
  <2>5. /\ phase' = "down" /\ unread' = <<>> /\ backlog' = <<>> /\ inFlight' = <<>>
        /\ checked' = 0 /\ signalling' = 0 /\ wpc' = "off" /\ ppc' = "off"
        /\ persistMu' = "free" /\ taken' = 0 /\ sent' = 0 /\ dropped' = 0
        /\ offers' = offers /\ admitted' = admitted
    BY <1>2 DEF ProcessEnds
  <2>6. admitted' + checked' <= MaxLegacy + offers'
    BY <2>5 DEF TypeOK, Shape
  <2>7. Shape'
    BY <1>0, <2>1, <2>2, <2>4, <2>5, <2>6 DEF Shape, Sending
  <2> QED  BY <2>3, <2>7
<1>3. CASE BootReads
  <2>0. unread' \in Seq(Events)
    BY <1>0, <1>3 DEF BootReads, TypeOK
  <2>f. /\ phase' = "loading" /\ fileStale' = FALSE
        /\ UNCHANGED <<backlog, totalSize, wake, wpc, hpc, ppc, file, taken, dropped, owed>>
        /\ BootFrame
    BY <1>3 DEF BootReads
  <2>1. TypeOK'
    <3>t1. QueueTypes'
      BY <2>0, <2>f DEF TypeOK
    <3>t2. CallTypes'
      BY <2>0, <2>f DEF TypeOK
    <3>t3. WorkerTypes'
      BY <2>0, <2>f DEF TypeOK
    <3>t4. PersistenceTypes'
      BY <2>0, <2>f DEF TypeOK
    <3>t5. CounterTypes'
      BY <2>0, <2>f DEF TypeOK
    <3>t6. ReporterTypes'
      BY <2>f DEF TypeOK
    <3> QED  BY <3>t1, <3>t2, <3>t3, <3>t4, <3>t5, <3>t6 DEF TypeOK
  <2>2. Shape'
    BY <1>3 DEF BootReads, Shape, Running
  <2> QED  BY <2>1, <2>2
<1>4. CASE BootIgnores
  <2>0. file' \in Seq(Events) /\ owed' \subseteq Events
    BY <1>0, <1>4 DEF BootIgnores, TypeOK
  <2>1. TypeOK'
    BY <1>4, <2>0 DEF BootIgnores, TypeOK
  <2>2. Shape'
    BY <1>4 DEF BootIgnores, Shape, Running
  <2> QED  BY <2>1, <2>2
<1>5. CASE LoadKeeps
  <2>1. Head(unread) \in Events /\ Tail(unread) \in Seq(Events)
    BY <1>5, HeadTailProperties DEF LoadKeeps, TypeOK
  <2>2. backlog' \in Seq(Events)
    BY <1>5, <2>1, AppendProperties DEF LoadKeeps, TypeOK
  <2>3. TypeOK'
    BY <1>5, <2>1, <2>2 DEF LoadKeeps, TypeOK
  <2>4. Shape'
    BY <1>5 DEF LoadKeeps, Shape, Running
  <2> QED  BY <2>3, <2>4
<1>6. CASE LoadDrops
  <2>1. Tail(unread) \in Seq(Events)
    BY <1>6, HeadTailProperties DEF LoadDrops, TypeOK
  <2>2. TypeOK'
    BY <1>6, <2>1 DEF LoadDrops, TypeOK
  <2>3. Shape'
    BY <1>6 DEF LoadDrops, Shape, Running
  <2> QED  BY <2>2, <2>3
<1>7. CASE Start
  <2>1. TypeOK'
    BY <1>7 DEF Start, TypeOK
  <2>2. Shape'
    BY <1>7 DEF Start, Shape, Running, Sending
  <2> QED  BY <2>1, <2>2
<1> QED  BY <1>1, <1>2, <1>3, <1>4, <1>5, <1>6, <1>7 DEF Boot

LEMMA StepKeepsIInv == IInv /\ [Next]_vars => IInv'
<1> SUFFICES ASSUME IInv, [Next]_vars PROVE IInv'
  OBVIOUS
<1>1. CASE Next
  BY <1>1, CallKeepsIInv, WorkerKeepsIInv, PersisterKeepsIInv, FlushKeepsIInv,
     LifeKeepsIInv DEF Next
<1>2. CASE UNCHANGED vars
  <2>1. TypeOK'
    BY <1>2 DEF IInv, TypeOK, vars, queueVars, callVars, workerVars, healthVars,
       flushVars
  <2>2. Shape'
    BY <1>2 DEF IInv, Shape, Running, vars, queueVars, callVars, workerVars, healthVars,
       flushVars
  <2> QED  BY <2>1, <2>2 DEF IInv
<1> QED  BY <1>1, <1>2

\* Every variable keeps its type, the retry counter stays within the limit and
\* the adaptive batch size within its bounds (Start, lifecycle.go).
THEOREM TypeCorrect == Spec => []TypeOK
<1>1. Spec => []IInv
  BY InitIInv, StepKeepsIInv, PTL DEF Spec
<1> QED  BY <1>1, PTL DEF IInv

-----------------------------------------------------------------------------
\* The counters and the lengths of the two parts of the queue.
Tally == taken = sent + dropped + Len(inFlight) + Len(backlog) + checked

LEMMA TallyIsBalance ==
  ASSUME TypeOK
  PROVE  Tally <=> Balance
<1>1. /\ Len(inFlight) \in Nat /\ Len(backlog) \in Nat
      /\ Len(inFlight \o backlog) = Len(inFlight) + Len(backlog)
  BY LenProperties, ConcatProperties DEF TypeOK
<1> QED  BY <1>1 DEF Tally, Balance, Queue, TypeOK

LEMMA InitTally == Init => Tally
<1> QED  BY EmptySeq DEF Init, Tally

\* Every step that moves events between the queue, the callers and the
\* counters moves as many out as in.
LEMMA StepKeepsTally ==
  ASSUME IInv, Tally, [Next]_vars
  PROVE  Tally'
<1> USE DEF IInv, callVars, queueVars, flushVars, workerVars
<1>0. /\ Len(inFlight) \in Nat /\ Len(backlog) \in Nat /\ Len(<<>>) = 0
      /\ taken \in Nat /\ sent \in Nat /\ dropped \in Nat /\ checked \in Nat
  BY LenProperties, EmptySeq DEF TypeOK
<1>same. ASSUME UNCHANGED <<taken, sent, dropped, inFlight, backlog, checked>>
         PROVE  Tally'
  BY <1>same DEF Tally
<1>1. CASE Offer
  BY <1>0, <1>1 DEF Offer, CallFrame, Tally
<1>2. CASE Admit
  <2>1. admitted + 1 \in Events
    BY <1>2, Bounds DEF Admit, TypeOK, Shape, Events
  <2>2. Len(backlog') = Len(backlog) + 1
    BY <1>2, <2>1, AppendProperties DEF Admit, TypeOK
  <2> QED  BY <1>0, <1>2, <2>2 DEF Admit, CallFrame, Tally
<1>3. CASE Refuse
  BY <1>0, <1>3 DEF Refuse, CallFrame, Tally
<1>4. CASE Signal
  BY <1>4, <1>same DEF Signal, CallFrame
<1>5. CASE TakeBatch
  <2>1. BatchSize \in 1 .. Len(backlog)
    BY <1>5, BatchSizeBounds DEF TakeBatch
  <2>2. /\ Len(inFlight') = BatchSize /\ Len(backlog') = Len(backlog) - BatchSize
    BY <1>0, <1>5, <2>1, SliceType DEF TakeBatch, TypeOK
  <2>3. inFlight = <<>>
    BY <1>5 DEF TakeBatch, Shape, Sending
  <2>4. BatchSize \in Nat /\ Len(inFlight) = 0
    BY <1>0, <2>1, <2>3
  <2>5. UNCHANGED <<taken, sent, dropped, checked>>
    BY <1>5 DEF TakeBatch, LoopFrame, WorkerFrame
  <2> QED  BY <1>0, <2>2, <2>4, <2>5 DEF Tally
<1>6. CASE Settled
  BY <1>0, <1>6 DEF Settled, ReleaseInFlight, SettleFrame, WorkerFrame, Tally
<1>7. CASE Discarded
  BY <1>0, <1>7 DEF Discarded, ReleaseInFlight, SettleFrame, WorkerFrame, Tally
<1>8. CASE Requeued
  <2>1. Len(backlog') = Len(inFlight) + Len(backlog)
    BY <1>8, ConcatProperties DEF Requeued, RequeueBatch, TypeOK
  <2> QED
    BY <1>0, <1>8, <2>1 DEF Requeued, RequeueBatch, SettleFrame, WorkerFrame, Tally
<1>9. CASE \/ LoopEnds \/ LoopSleeps \/ WakeUp \/ Notify \/ BackoffEnds \/ DrainDeadline
  BY <1>9, <1>same DEF LoopEnds, LoopSleeps, WakeUp, Notify, BackoffEnds,
     DrainDeadline, LoopFrame, WorkerFrame
<1>10. CASE \/ \E o \in Answers : Answer(o)
            \/ Reporter
            \/ SendReturns
  BY <1>10, <1>same, ReporterOnly DEF Answer, SendReturns, ReporterFrame, SendFrame, WorkerFrame
<1>11. CASE Persister
  BY <1>11, <1>same
     DEF Persister, PersisterWakes, DebounceEnds, PersisterStops, PersisterFrame
<1>12. ASSUME NEW f \in Flushers, Flush(f)
       PROVE  Tally'
  <2>1. CASE FlushSkips(f) \/ FlushBegins(f) \/ FlushPublishes(f) \/ FlushFails(f)
    BY <2>1, <1>same DEF FlushSkips, FlushBegins, FlushPublishes, FlushFails, FlushFrame
  <2>2. CASE FlushTrims(f)
    <3> PICK n \in 0 .. Len(backlog) : \E k \in 0 .. (Len(backlog) - n) :
               backlog' = WithoutOldestQueued(backlog, n, k) /\ dropped' = dropped + k
      BY <2>2 DEF FlushTrims
    <3>1. PICK k \in 0 .. (Len(backlog) - n) :
               backlog' = WithoutOldestQueued(backlog, n, k) /\ dropped' = dropped + k
      OBVIOUS
    <3>2. Len(backlog') = Len(backlog) - k
      BY <3>1, WithoutType DEF TypeOK
    <3>3. dropped' = dropped + k /\ k \in Nat /\ Len(backlog) \in Nat
      BY <1>0, <3>1
    <3>4. UNCHANGED <<inFlight, sent, taken, checked, admitted>>
      BY <2>2 DEF FlushTrims, FlushFrame, callVars
    <3> QED  BY <1>0, <3>2, <3>3, <3>4 DEF Tally
  <2> QED  BY <1>12, <2>1, <2>2 DEF Flush
<1>13. CASE Stop
  BY <1>13, <1>same DEF Stop
<1>14. CASE ProcessEnds
  BY <1>0, <1>14 DEF ProcessEnds, Tally
<1>15. CASE BootReads \/ BootIgnores \/ Start
  BY <1>15, <1>same DEF BootReads, BootIgnores, Start, BootFrame
<1>16. CASE LoadKeeps
  <2>1. Len(backlog') = Len(backlog) + 1
    BY <1>16, HeadTailProperties, AppendProperties DEF LoadKeeps, TypeOK
  <2> QED  BY <1>0, <1>16, <2>1 DEF LoadKeeps, LoadFrame, BootFrame, Tally
<1>17. CASE LoadDrops
  <2>1. /\ taken' = taken + 1 /\ dropped' = dropped + 1
        /\ UNCHANGED <<sent, inFlight, backlog, checked>>
    BY <1>17 DEF LoadDrops, LoadFrame, BootFrame
  <2> QED  BY <1>0, <2>1 DEF Tally
<1>18. CASE UNCHANGED vars
  BY <1>18, <1>same DEF vars
<1>19. CASE Worker
  BY <1>5, <1>6, <1>7, <1>8, <1>9, <1>10, <1>19 DEF Worker
<1>20. CASE Boot
  BY <1>15, <1>16, <1>17, <1>20 DEF Boot
<1> QED
  BY <1>1, <1>2, <1>3, <1>4, <1>9, <1>10, <1>11, <1>12, <1>13, <1>14, <1>18,
     <1>19, <1>20 DEF Next

\* No path through EnqueueEvent, sending, requeueing, dropping, trimming,
\* crashing and loading loses an event or counts it twice.
THEOREM EventsConserved == Spec => []Conservation
<1>1. Init => IInv /\ Tally
  BY InitIInv, InitTally
<1>2. (IInv /\ Tally) /\ [Next]_vars => (IInv /\ Tally)'
  BY StepKeepsIInv, StepKeepsTally
<1>3. IInv /\ Tally => Conservation
  BY TallyIsBalance DEF IInv, Balance, Conservation
<1> QED  BY <1>1, <1>2, <1>3, PTL DEF Spec

-----------------------------------------------------------------------------
\* The worker falls asleep only on an empty backlog; whoever fills it later has
\* its signal still to give, and only the worker takes the token.
LEMMA StepKeepsNoLostWake ==
  ASSUME IInv, NoLostWake, [Next]_vars
  PROVE  NoLostWake'
<1> USE DEF IInv, callVars, queueVars, flushVars, workerVars
<1>same. ASSUME UNCHANGED <<wpc, backlog, wake, signalling>>
         PROVE  NoLostWake'
  BY <1>same DEF NoLostWake
<1>awake. ASSUME wpc' # "wait"
          PROVE  NoLostWake'
  BY <1>awake DEF NoLostWake
<1>1. CASE Offer \/ Refuse
  BY <1>1, <1>same DEF Offer, Refuse, CallFrame
<1>2. CASE Admit
  <2>1. signalling' \in Nat /\ signalling' > 0
    BY <1>2 DEF Admit, TypeOK
  <2> QED  BY <2>1 DEF NoLostWake
<1>3. CASE Signal
  BY <1>3 DEF Signal, NoLostWake
<1>4. CASE LoopSleeps
  BY <1>4 DEF LoopSleeps, NoLostWake
<1>5. CASE LoopEnds \/ WakeUp \/ TakeBatch \/ SendReturns \/ Notify \/ BackoffEnds
  BY <1>5, <1>awake DEF LoopEnds, WakeUp, TakeBatch, SendReturns, Notify, BackoffEnds
<1>6. CASE \/ Settled \/ Discarded \/ Requeued
           \/ \E o \in Answers : Answer(o)
  BY <1>6, <1>awake DEF Answer, Settled, Discarded, Requeued, ReleaseInFlight
<1>7. CASE DrainDeadline \/ Reporter
  BY <1>7, <1>same, ReporterOnly DEF DrainDeadline, LoopFrame, WorkerFrame, ReporterFrame, SendFrame
<1>8. CASE Persister
  BY <1>8, <1>same
     DEF Persister, PersisterWakes, DebounceEnds, PersisterStops, PersisterFrame
<1>9. ASSUME NEW f \in Flushers, Flush(f)
      PROVE  NoLostWake'
  <2>1. CASE f = "worker"
    <3>1. wpc' \in {"flush", "done"}
      BY <1>9, <2>1 DEF Flush, FlushSkips, FlushBegins, FlushPublishes, FlushFails,
         FlushTrims, FlushReturns, WantsFlush, Shape
    <3> QED  BY <3>1, <1>awake
  <2>2. CASE f # "worker" /\ ~FlushTrims(f)
    BY <1>9, <2>2, <1>same DEF Flush, FlushSkips, FlushBegins, FlushPublishes,
       FlushFails, FlushReturns, FlushFrame
  <2>3. CASE f # "worker" /\ FlushTrims(f)
    <3>1. UNCHANGED <<wpc, wake, signalling>>
      BY <2>3 DEF FlushTrims, FlushReturns, FlushFrame
    <3>2. backlog' # <<>> => backlog # <<>>
      <4> PICK n \in 0 .. Len(backlog) : \E k \in 0 .. (Len(backlog) - n) :
                 backlog' = WithoutOldestQueued(backlog, n, k)
        BY <2>3 DEF FlushTrims
      <4>1. PICK k \in 0 .. (Len(backlog) - n) :
                 backlog' = WithoutOldestQueued(backlog, n, k)
        OBVIOUS
      <4>2. backlog' \in Seq(Events) /\ Len(backlog') = Len(backlog) - k
        BY <4>1, WithoutType DEF TypeOK
      <4> QED  BY <4>2, EmptySeq
    <3> QED  BY <3>1, <3>2 DEF NoLostWake
  <2> QED  BY <2>1, <2>2, <2>3
<1>10. CASE Stop
  BY <1>10, <1>same DEF Stop
<1>11. CASE ProcessEnds
  BY <1>11, <1>awake DEF ProcessEnds
<1>12. CASE BootReads \/ BootIgnores
  BY <1>12, <1>same DEF BootReads, BootIgnores, BootFrame
<1>13. CASE LoadKeeps \/ LoadDrops
  <2>1. wpc' = "off"
    BY <1>13 DEF LoadKeeps, LoadDrops, LoadFrame, Shape, Running
  <2> QED  BY <2>1, <1>awake
<1>14. CASE Start
  BY <1>14, <1>awake DEF Start
<1>15. CASE UNCHANGED vars
  BY <1>15, <1>same DEF vars
<1>16. CASE Worker
  BY <1>4, <1>5, <1>6, <1>16 DEF Worker
<1>17. CASE Boot
  BY <1>12, <1>13, <1>14, <1>17 DEF Boot
<1> QED
  BY <1>1, <1>2, <1>3, <1>7, <1>8, <1>9, <1>10, <1>11, <1>15, <1>16, <1>17 DEF Next

\* The worker never sleeps on a non-empty backlog with nobody left to wake it,
\* although EnqueueEvent signals wakeChan after it has released the lock.
THEOREM WakeNeverLost == Spec => []NoLostWake
<1>1. Init => IInv /\ NoLostWake
  <2>1. Init => NoLostWake
    BY DEF Init, NoLostWake
  <2> QED  BY <2>1, InitIInv
<1>2. (IInv /\ NoLostWake) /\ [Next]_vars => (IInv /\ NoLostWake)'
  BY StepKeepsIInv, StepKeepsNoLostWake
<1> QED  BY <1>1, <1>2, PTL DEF Spec
-----------------------------------------------------------------------------
(***************************************************************************)
(* The forwarder implements Delivery, for every number of events, every    *)
(* size and every limit: each of its steps is a step of Delivery or leaves *)
(* Delivery's variables alone.                                             *)
(*                                                                         *)
(* What needs work is the start of a process, which must find everything   *)
(* that was kept.  So the file holds what is owed (Care), and it does      *)
(* because a flusher's copy of the queue does until it is written, and     *)
(* because what is left out of the file is disjoint from what is in it,    *)
(* which rests on the order of the events (Ordered).  Runs says that what  *)
(* was left out is still in one piece when dropPersistTrimmed removes it.  *)
(***************************************************************************)

\* The queue and what loadBacklog has yet to put at its end.
Line == Queue \o unread

Sorted(s) == InOrder(s) /\ Range(s) \subseteq 1 .. admitted

Ordered ==
  /\ Sorted(Line) /\ Sorted(file)
  /\ \A f \in Flushers : Sorted(snap[f].items)

Runs ==
  \A f \in Flushers :
    /\ fpc[f] = "write" =>
         \A y \in Range(Line) : \/ y \in Range(snap[f].items)
                                \/ \A x \in Range(snap[f].items) : x < y
    /\ fpc[f] # "trim" => snap[f].trimmed = {}
    /\ snap[f].trimmed \subseteq 1 .. admitted
    /\ \A x, z \in snap[f].trimmed : \A y \in Range(Line) :
         x < y /\ y < z => y \in snap[f].trimmed

Care ==
  /\ owed \subseteq Range(file)
  /\ phase # "down" => owed \subseteq Range(Line)
  /\ ~Persistent => owed = {}
  /\ \A f \in Flushers :
       /\ fpc[f] # "idle" => Persistent
       /\ fpc[f] = "write" => owed \subseteq Range(snap[f].items)
       /\ owed \cap snap[f].trimmed = {}

DInv == Ordered /\ Runs /\ Care

-----------------------------------------------------------------------------
\* A concatenation is in order when its parts are and the first is below the
\* second.
LEMMA OrderOfConcat ==
  ASSUME NEW s \in Seq(Nat), NEW t \in Seq(Nat)
  PROVE  InOrder(s \o t) <=> /\ InOrder(s) /\ InOrder(t)
                             /\ \A x \in Range(s), y \in Range(t) : x < y
<1> DEFINE c == s \o t
<1>1. /\ Len(s) \in Nat /\ Len(t) \in Nat
      /\ DOMAIN s = 1 .. Len(s) /\ DOMAIN t = 1 .. Len(t)
  BY LenProperties
<1>2. /\ c \in Seq(Nat) /\ Len(c) = Len(s) + Len(t)
      /\ \A i \in 1 .. Len(s) + Len(t) : c[i] = IF i <= Len(s) THEN s[i] ELSE t[i - Len(s)]
  BY ConcatProperties
<1>3. DOMAIN c = 1 .. Len(s) + Len(t)
  BY <1>2, LenProperties
<1>4. /\ Range(s) = {s[i] : i \in 1 .. Len(s)} /\ Range(t) = {t[i] : i \in 1 .. Len(t)}
  BY RangeEquality
<1>5. /\ \A i \in 1 .. Len(s) : i \in DOMAIN c /\ c[i] = s[i]
      /\ \A i \in 1 .. Len(t) : Len(s) + i \in DOMAIN c /\ c[Len(s) + i] = t[i]
  BY <1>1, <1>2, <1>3
<1> HIDE DEF c
<1>6. ASSUME InOrder(c)
      PROVE  InOrder(s) /\ InOrder(t) /\ \A x \in Range(s), y \in Range(t) : x < y
  <2>1. InOrder(s)
    BY <1>1, <1>5, <1>6 DEF InOrder
  <2>2. InOrder(t)
    BY <1>1, <1>5, <1>6 DEF InOrder
  <2>3. ASSUME NEW i \in 1 .. Len(s), NEW j \in 1 .. Len(t)
        PROVE  s[i] < t[j]
    <3>1. i < Len(s) + j
      BY <1>1
    <3> QED  BY <1>1, <1>5, <1>6, <3>1 DEF InOrder
  <2> QED  BY <1>4, <2>1, <2>2, <2>3
<1>7. ASSUME InOrder(s), InOrder(t), \A x \in Range(s), y \in Range(t) : x < y
      PROVE  InOrder(c)
  <2> SUFFICES ASSUME NEW i \in DOMAIN c, NEW j \in DOMAIN c, i < j
               PROVE  c[i] < c[j]
    BY DEF InOrder
  <2>1. CASE j <= Len(s)
    <3>1. i \in 1 .. Len(s) /\ j \in 1 .. Len(s)
      BY <1>1, <1>3, <2>1
    <3>2. s[i] < s[j]
      BY <1>1, <1>7, <3>1 DEF InOrder
    <3> QED  BY <1>5, <3>1, <3>2
  <2>2. CASE i > Len(s)
    <3>1. i - Len(s) \in 1 .. Len(t) /\ j - Len(s) \in 1 .. Len(t)
      BY <1>1, <1>3, <2>2
    <3>2. PICK g \in 1 .. Len(t), h \in 1 .. Len(t) : i = Len(s) + g /\ j = Len(s) + h
      BY <1>1, <1>3, <2>2, <3>1
    <3>3. g < h
      BY <1>1, <3>2
    <3>4. t[g] < t[h]
      BY <1>1, <1>7, <3>3 DEF InOrder
    <3> QED  BY <1>5, <3>2, <3>4
  <2>3. CASE i <= Len(s) /\ j > Len(s)
    <3>1. i \in 1 .. Len(s) /\ j - Len(s) \in 1 .. Len(t)
      BY <1>1, <1>3, <2>3
    <3>2. PICK h \in 1 .. Len(t) : j = Len(s) + h
      BY <1>1, <1>3, <2>3, <3>1
    <3>3. s[i] < t[h]
      BY <1>4, <1>7, <3>1
    <3> QED  BY <1>5, <3>1, <3>2, <3>3
  <2> QED  BY <1>1, <1>3, <2>1, <2>2, <2>3
<1> QED  BY <1>6, <1>7 DEF c

\* Leaving k entries out splits a sequence into what stays and what goes; in
\* order, nothing is in both, and what goes is in one piece.
LEMMA WithoutSplits ==
  ASSUME NEW s \in Seq(Events), InOrder(s),
         NEW n \in 0 .. Len(s), NEW k \in 0 .. (Len(s) - n)
  PROVE  LET kept == WithoutOldestQueued(s, n, k)
             gone == SubSeq(s, n + 1, n + k)
         IN  /\ InOrder(kept)
             /\ Range(s) = Range(kept) \cup Range(gone)
             /\ Range(kept) \cap Range(gone) = {}
             /\ \A x, z \in Range(gone) : \A y \in Range(s) :
                  x < y /\ y < z => y \in Range(gone)
<1> DEFINE a == SubSeq(s, 1, n)
           b == SubSeq(s, n + 1, n + k)
           c == SubSeq(s, n + k + 1, Len(s))
<1>0. Len(s) \in Nat /\ s \in Seq(Nat)
  <2>1. Events \subseteq Nat
    BY Bounds DEF Events
  <2> QED  BY <2>1, LenProperties, SeqMonotonic
<1>1. a \in Seq(Nat) /\ b \in Seq(Nat) /\ c \in Seq(Nat)
  BY <1>0, SliceType
<1>2. a \o (b \o c) = s
  <2>1. n + 1 \in 1 .. Len(s) + 1 /\ n + k \in (n + 1) - 1 .. Len(s) /\ Len(s) \in n + k .. Len(s)
    BY <1>0
  <2>2. b \o c = SubSeq(s, n + 1, Len(s))
    BY <1>0, <2>1, ConcatAdjacentSubSeq
  <2>3. 1 \in 1 .. Len(s) + 1 /\ n \in 1 - 1 .. Len(s) /\ Len(s) \in n .. Len(s)
    BY <1>0
  <2>4. a \o SubSeq(s, n + 1, Len(s)) = SubSeq(s, 1, Len(s))
    BY <1>0, <2>3, ConcatAdjacentSubSeq
  <2> QED  BY <1>0, <2>2, <2>4, SubSeqFull
<1>3. WithoutOldestQueued(s, n, k) = a \o c
  BY DEF WithoutOldestQueued
<1> HIDE DEF a, b, c
<1>4. b \o c \in Seq(Nat) /\ a \o c \in Seq(Nat)
  BY <1>1, ConcatProperties
<1>5. /\ InOrder(a) /\ InOrder(b) /\ InOrder(c)
      /\ \A x \in Range(a), y \in Range(b \o c) : x < y
      /\ \A x \in Range(b), y \in Range(c) : x < y
  BY <1>1, <1>2, <1>4, OrderOfConcat
<1>6. /\ Range(s) = Range(a) \cup Range(b \o c)
      /\ Range(b \o c) = Range(b) \cup Range(c)
      /\ Range(a \o c) = Range(a) \cup Range(c)
  <2>1. Range(a \o (b \o c)) = Range(a) \cup Range(b \o c)
    <3> DEFINE bc == b \o c
    <3>1. bc \in Seq(Nat)
      BY <1>4
    <3> HIDE DEF bc
    <3>2. Range(a \o bc) = Range(a) \cup Range(bc)
      BY <1>1, <3>1, RangeConcatenation
    <3> QED  BY <3>2 DEF bc
  <2>2. Range(b \o c) = Range(b) \cup Range(c) /\ Range(a \o c) = Range(a) \cup Range(c)
    BY <1>1, RangeConcatenation
  <2> QED  BY <1>2, <2>1, <2>2
<1>7. InOrder(a \o c)
  BY <1>1, <1>5, <1>6, OrderOfConcat
<1>8. Range(a) \subseteq Nat /\ Range(b) \subseteq Nat /\ Range(c) \subseteq Nat
  BY <1>1, RangeOfSeq
<1>9. Range(a \o c) \cap Range(b) = {}
  BY <1>5, <1>6, <1>8
<1>10. ASSUME NEW x \in Range(b), NEW z \in Range(b), NEW y \in Range(s), x < y, y < z
       PROVE  y \in Range(b)
  BY <1>5, <1>6, <1>8, <1>10
<1> QED  BY <1>3, <1>6, <1>7, <1>9, <1>10 DEF b

-----------------------------------------------------------------------------
\* The types as the steps below use them.
LEMMA SequenceTypes ==
  ASSUME IInv
  PROVE  /\ Events \subseteq Nat /\ admitted \in Nat
         /\ inFlight \in Seq(Events) /\ backlog \in Seq(Events) /\ unread \in Seq(Events)
         /\ file \in Seq(Events) /\ Queue \in Seq(Events) /\ Line \in Seq(Events)
         /\ \A f \in Flushers : snap[f].items \in Seq(Events)
<1>1. Events \subseteq Nat
  BY Bounds DEF Events
<1>2. /\ admitted \in Nat /\ file \in Seq(Events)
      /\ inFlight \in Seq(Events) /\ backlog \in Seq(Events) /\ unread \in Seq(Events)
      /\ \A f \in Flushers : snap[f].items \in Seq(Events)
  BY DEF IInv, TypeOK, QueueTypes, CallTypes, PersistenceTypes
<1>3. Queue \in Seq(Events)
  BY <1>2, ConcatProperties DEF Queue
<1>4. Line \in Seq(Events)
  BY <1>2, <1>3, ConcatProperties DEF Line
<1> QED  BY <1>1, <1>2, <1>3, <1>4

\* The order of a concatenation of events, and its range.
LEMMA EventsOfConcat ==
  ASSUME NEW s \in Seq(Events), NEW t \in Seq(Events)
  PROVE  /\ InOrder(s \o t) <=> /\ InOrder(s) /\ InOrder(t)
                                /\ \A x \in Range(s), y \in Range(t) : x < y
         /\ Range(s \o t) = Range(s) \cup Range(t)
<1>1. Events \subseteq Nat
  BY Bounds DEF Events
<1>2. s \in Seq(Nat) /\ t \in Seq(Nat)
  BY <1>1, SeqMonotonic
<1> QED  BY <1>2, OrderOfConcat, RangeConcatenation

\* Concatenations of three sequences of events.
LEMMA Regroup ==
  ASSUME NEW s \in Seq(Events), NEW t \in Seq(Events), NEW u \in Seq(Events)
  PROVE  (s \o t) \o u = s \o (t \o u)
<1> DEFINE E == Events
<1>1. s \in Seq(E) /\ t \in Seq(E) /\ u \in Seq(E)
  OBVIOUS
<1> HIDE DEF E
<1> QED  BY <1>1, ConcatAssociative

\* A process that runs has loaded everything.
LEMMA RunningLine ==
  ASSUME IInv, Running
  PROVE  unread = <<>> /\ Line = Queue
<1>1. unread = <<>>
  BY DEF IInv, Shape, Running
<1> QED  BY <1>1, SequenceTypes, ConcatEmptySeq DEF Line

\* Before it runs nothing is in flight.
LEMMA LoadingLine ==
  ASSUME IInv, ~Running
  PROVE  inFlight = <<>> /\ Queue = backlog
<1>1. inFlight = <<>>
  BY DEF IInv, Shape, Sending
<1> QED  BY <1>1, SequenceTypes, ConcatEmptySeq DEF Queue

\* Taking a batch, putting it back and loading an event move events along the
\* line.
LEMMA LineMoves ==
  ASSUME IInv, TakeBatch \/ Requeued \/ LoadKeeps
  PROVE  Line' = Line
<1> USE SequenceTypes
<1>1. CASE TakeBatch
  <2>1. BatchSize \in 1 .. Len(backlog) /\ Len(backlog) \in Nat
    BY <1>1, BatchSizeBounds, LenProperties DEF TakeBatch, IInv
  <2>2. 1 \in 1 .. Len(backlog) + 1 /\ BatchSize \in 1 - 1 .. Len(backlog)
        /\ Len(backlog) \in BatchSize .. Len(backlog)
    BY <2>1
  <2>3. SubSeq(backlog, 1, BatchSize) \o SubSeq(backlog, BatchSize + 1, Len(backlog))
          = SubSeq(backlog, 1, Len(backlog))
    BY <2>2, ConcatAdjacentSubSeq
  <2>4. Queue' = backlog
    BY <1>1, <2>3, SubSeqFull DEF TakeBatch, Queue
  <2>5. inFlight = <<>>
    BY <1>1 DEF TakeBatch, IInv, Shape, Sending
  <2>6. Queue = backlog
    BY <2>5, ConcatEmptySeq DEF Queue
  <2>7. unread' = unread
    BY <1>1 DEF TakeBatch, LoopFrame, WorkerFrame
  <2> QED  BY <2>4, <2>6, <2>7 DEF Line
<1>2. CASE Requeued
  <2>1. Queue' = Queue
    BY <1>2, ConcatEmptySeq DEF Requeued, RequeueBatch, Queue
  <2> QED  BY <1>2, <2>1 DEF Requeued, SettleFrame, WorkerFrame, Line
<1>3. CASE LoadKeeps
  <2> DEFINE h == Head(unread)
             r == Tail(unread)
  <2>1. h \in Events /\ r \in Seq(Events) /\ <<h>> \in Seq(Events)
    BY <1>3, HeadTailProperties, AppendProperties, EmptySeq DEF LoadKeeps
  <2>2. <<h>> \o r = unread
    <3>1. Len(<<h>>) = 1 /\ <<h>>[1] = h
      OBVIOUS
    <3>2. /\ Len(unread) \in Nat \ {0} /\ Len(r) = Len(unread) - 1
          /\ \A i \in 1 .. Len(r) : r[i] = unread[i + 1]
      BY <1>3, HeadTailProperties, EmptySeq DEF LoadKeeps
    <3>3. h = unread[1]
      OBVIOUS
    <3>4. /\ <<h>> \o r \in Seq(Events) /\ Len(<<h>> \o r) = Len(unread)
          /\ \A i \in 1 .. Len(unread) : (<<h>> \o r)[i] = IF i <= 1 THEN h ELSE r[i - 1]
      <4>1. \A x \in Seq(Events), y \in Seq(Events) :
              /\ x \o y \in Seq(Events) /\ Len(x \o y) = Len(x) + Len(y)
              /\ \A i \in 1 .. Len(x) + Len(y) :
                   (x \o y)[i] = IF i <= Len(x) THEN x[i] ELSE y[i - Len(x)]
        BY ConcatProperties
      <4> HIDE DEF h, r
      <4>2. /\ <<h>> \o r \in Seq(Events) /\ Len(<<h>> \o r) = Len(<<h>>) + Len(r)
            /\ \A i \in 1 .. Len(<<h>>) + Len(r) :
                 (<<h>> \o r)[i] = IF i <= Len(<<h>>) THEN <<h>>[i] ELSE r[i - Len(<<h>>)]
        BY <2>1, <4>1
      <4>3. Len(<<h>>) + Len(r) = Len(unread)
        BY <3>1, <3>2
      <4>4. \A i \in 1 .. Len(unread) : i <= 1 => i = 1
        OBVIOUS
      <4> QED  BY <3>1, <4>2, <4>3, <4>4
    <3>5. ASSUME NEW i \in 1 .. Len(unread)
          PROVE  (<<h>> \o r)[i] = unread[i]
      <4>1. CASE i = 1
        BY <3>3, <3>4, <4>1
      <4>2. CASE i # 1
        <5>1. i - 1 \in 1 .. Len(r) /\ (i - 1) + 1 = i
          BY <3>2, <4>2
        <5>2. r[i - 1] = unread[i]
          BY <3>2, <5>1
        <5> QED  BY <3>2, <3>4, <4>2, <5>2
      <4> QED  BY <4>1, <4>2
    <3> QED  BY <3>4, <3>5, SeqEqual
  <2>3. Append(backlog, h) = backlog \o <<h>>
    BY <2>1, AppendIsConcat
  <2> HIDE DEF h, r
  <2>4. (backlog \o <<h>>) \o r = backlog \o unread
    <3> DEFINE one == <<h>>
    <3>1. one \in Seq(Events) /\ one \o r = unread
      BY <2>1, <2>2
    <3> HIDE DEF one
    <3>2. (backlog \o one) \o r = backlog \o (one \o r)
      <4>1. backlog \in Seq(Events) /\ one \in Seq(Events) /\ r \in Seq(Events)
        BY <2>1, <3>1
      <4> HIDE SequenceTypes
      <4> QED  BY <4>1, Regroup
    <3>3. (backlog \o one) \o r = backlog \o unread
      BY <3>1, <3>2
    <3> QED  BY <3>3 DEF one
  <2>5. ~Running /\ inFlight' = inFlight
    BY <1>3 DEF LoadKeeps, LoadFrame, BootFrame, IInv, Shape, Running
  <2>6. Queue = backlog /\ inFlight' = <<>>
    BY <2>5, LoadingLine
  <2>7. backlog' = backlog \o <<h>> /\ unread' = r
    BY <1>3, <2>3 DEF LoadKeeps, h, r
  <2>8. Queue' = backlog \o <<h>>
    <3>1. backlog \o <<h>> \in Seq(Events)
      BY <2>1, ConcatProperties
    <3> QED  BY <2>6, <2>7, <3>1, ConcatEmptySeq DEF Queue
  <2> QED  BY <2>4, <2>6, <2>7, <2>8 DEF Line
<1> QED  BY <1>1, <1>2, <1>3

\* An admitted event comes last.
LEMMA LineGrows ==
  ASSUME IInv, Sorted(Line), Admit
  PROVE  /\ admitted' = admitted + 1
         /\ InOrder(Line') /\ Range(Line') = Range(Line) \cup {admitted + 1}
<1> USE SequenceTypes
<1> DEFINE e == admitted + 1
<1>1. e \in Events /\ admitted' = e /\ Running
  BY Bounds DEF Admit, IInv, TypeOK, CallTypes, QueueTypes, Shape, Events, Running
<1>2. <<e>> \in Seq(Events) /\ InOrder(<<e>>) /\ Range(<<e>>) = {e}
  <2>1. <<e>> \in Seq(Events) /\ Len(<<e>>) = 1
    BY <1>1, EmptySeq, AppendProperties
  <2>2. DOMAIN <<e>> = 1 .. 1 /\ <<e>>[1] = e
    BY <2>1, LenProperties
  <2> QED  BY <2>1, <2>2 DEF InOrder, Range
<1> HIDE DEF e
<1>3. backlog' = backlog \o <<e>>
  BY <1>1, AppendIsConcat DEF Admit, e
<1>4. Queue' = Queue \o <<e>>
  <2> DEFINE one == <<e>>
  <2>1. one \in Seq(Events)
    BY <1>2
  <2> HIDE DEF one
  <2>2. (inFlight \o backlog) \o one = inFlight \o (backlog \o one)
    <3>1. inFlight \in Seq(Events) /\ backlog \in Seq(Events)
      OBVIOUS
    <3> HIDE SequenceTypes
    <3> QED  BY <2>1, <3>1, Regroup
  <2>3. backlog' = backlog \o one /\ inFlight' = inFlight
    BY <1>3 DEF Admit, CallFrame, one
  <2>4. Queue' = Queue \o one
    BY <2>2, <2>3 DEF Queue
  <2> QED  BY <2>4 DEF one
<1>5. Line' = Line \o <<e>>
  <2>1. Line = Queue /\ unread' = <<>>
    BY <1>1, RunningLine DEF Admit, CallFrame
  <2>2. Queue \o <<e>> \in Seq(Events)
    BY <1>2, ConcatProperties
  <2> QED  BY <1>4, <2>1, <2>2, ConcatEmptySeq DEF Line
<1>6. ASSUME NEW x \in Range(Line), NEW y \in Range(<<e>>)
      PROVE  x < y
  <2>1. x \in 1 .. admitted
    BY DEF Sorted
  <2>2. y = admitted + 1
    BY <1>2 DEF e
  <2> QED  BY <2>1, <2>2
<1> QED  BY <1>1, <1>2, <1>5, <1>6, EventsOfConcat DEF Sorted, e

\* A settled batch leaves the front of the line.
LEMMA LineSettles ==
  ASSUME IInv, InOrder(Line), Settled \/ Discarded
  PROVE  InOrder(Line') /\ Range(Line) = Range(Line') \cup Range(inFlight)
<1> USE SequenceTypes
<1>1. /\ inFlight' = <<>> /\ backlog' = backlog /\ unread' = unread
      /\ wpc = "settle"
  BY DEF Settled, Discarded, ReleaseInFlight, SettleFrame, WorkerFrame
<1>2. Running
  BY <1>1 DEF IInv, Shape
<1>3. Line = inFlight \o backlog /\ unread = <<>>
  BY <1>2, RunningLine DEF Queue
<1>4. Line' = backlog
  BY <1>1, <1>3, ConcatEmptySeq DEF Line, Queue
<1> QED  BY <1>3, <1>4, EventsOfConcat

\* An event that does not fit leaves the unread part of the line.
LEMMA LineSkips ==
  ASSUME IInv, InOrder(Line), LoadDrops
  PROVE  InOrder(Line') /\ Range(Line) = Range(Line') \cup {Head(unread)}
<1> USE SequenceTypes
<1>1. unread # <<>> /\ unread' = Tail(unread) /\ UNCHANGED <<backlog, inFlight>>
  BY DEF LoadDrops, LoadFrame, BootFrame
<1>2. Queue' = Queue
  BY <1>1 DEF Queue
<1> DEFINE r == Tail(unread)
<1>3. /\ r \in Seq(Events) /\ Len(r) = Len(unread) - 1
      /\ \A i \in 1 .. Len(r) : r[i] = unread[i + 1]
      /\ Len(unread) \in Nat \ {0} /\ Head(unread) = unread[1]
  BY <1>1, HeadTailProperties, EmptySeq
<1>4. DOMAIN unread = 1 .. Len(unread) /\ DOMAIN r = 1 .. Len(r)
  BY <1>3, LenProperties
<1> HIDE DEF r
<1>5. InOrder(unread) /\ InOrder(Queue) /\ \A x \in Range(Queue), y \in Range(unread) : x < y
  BY EventsOfConcat DEF Line
<1>6. Range(unread) = Range(r) \cup {Head(unread)}
  <2>1. ASSUME NEW i \in 1 .. Len(unread)
        PROVE  unread[i] \in Range(r) \cup {Head(unread)}
    <3>1. CASE i = 1
      BY <1>3, <3>1
    <3>2. CASE i # 1
      <4>1. i - 1 \in DOMAIN r /\ (i - 1) + 1 = i
        BY <1>3, <1>4, <3>2
      <4>2. r[i - 1] = unread[i]
        BY <1>3, <1>4, <4>1
      <4> QED  BY <4>1, <4>2 DEF Range
    <3> QED  BY <3>1, <3>2
  <2>2. ASSUME NEW i \in 1 .. Len(r)
        PROVE  r[i] \in Range(unread)
    <3>1. i + 1 \in DOMAIN unread
      BY <1>3, <1>4
    <3>2. r[i] = unread[i + 1]
      BY <1>3
    <3> QED  BY <3>1, <3>2 DEF Range
  <2>3. Head(unread) \in Range(unread)
    <3>1. 1 \in DOMAIN unread
      BY <1>3, <1>4
    <3> QED  BY <1>3, <3>1 DEF Range
  <2> QED  BY <1>4, <2>1, <2>2, <2>3 DEF Range
<1>7. InOrder(r)
  <2> SUFFICES ASSUME NEW i \in 1 .. Len(r), NEW j \in 1 .. Len(r), i < j
               PROVE  r[i] < r[j]
    BY <1>4 DEF InOrder
  <2>1. i + 1 \in DOMAIN unread /\ j + 1 \in DOMAIN unread /\ i + 1 < j + 1
    BY <1>3, <1>4
  <2>2. unread[i + 1] < unread[j + 1]
    BY <1>5, <2>1 DEF InOrder
  <2> QED  BY <1>3, <2>2
<1>8. Line = Queue \o unread /\ Line' = Queue \o r
  BY <1>1, <1>2 DEF Line, r
<1> QED  BY <1>3, <1>5, <1>6, <1>7, <1>8, EventsOfConcat

\* What dropPersistTrimmed takes out of the line is what the file left out.
LEMMA LineTrims ==
  ASSUME IInv, InOrder(Line), NEW f \in Flushers, FlushTrims(f)
  PROVE  /\ InOrder(Line') /\ Range(Line') \subseteq Range(Line)
         /\ Range(Line) \subseteq Range(Line') \cup snap[f].trimmed
<1> USE SequenceTypes
<1>1. fpc[f] = "trim" /\ UNCHANGED <<inFlight, unread>>
  BY DEF FlushTrims, FlushFrame
<1>2. Running
  BY <1>1 DEF IInv, Shape, Flushers
<1>3. Line = inFlight \o backlog /\ unread = <<>>
  BY <1>2, RunningLine DEF Queue
<1>4. PICK n \in 0 .. Len(backlog) : \E k \in 0 .. (Len(backlog) - n) :
        /\ \A i \in DOMAIN backlog :
             backlog[i] \in snap[f].trimmed <=> i \in (n + 1) .. (n + k)
        /\ backlog' = WithoutOldestQueued(backlog, n, k)
  BY DEF FlushTrims
<1>5. PICK k \in 0 .. (Len(backlog) - n) :
        /\ \A i \in DOMAIN backlog :
             backlog[i] \in snap[f].trimmed <=> i \in (n + 1) .. (n + k)
        /\ backlog' = WithoutOldestQueued(backlog, n, k)
  BY <1>4
<1> DEFINE gone == SubSeq(backlog, n + 1, n + k)
<1>6. Range(gone) \subseteq snap[f].trimmed
  <2>1. Len(backlog) \in Nat /\ DOMAIN backlog = 1 .. Len(backlog)
    BY LenProperties
  <2>2. ASSUME NEW i \in n + 1 .. n + k
        PROVE  backlog[i] \in snap[f].trimmed
    <3>1. i \in DOMAIN backlog
      BY <2>1
    <3> QED  BY <1>5, <3>1
  <2>3. gone \in Seq(snap[f].trimmed)
    <3>1. n + 1 \in Int /\ n + k \in Int
      BY <2>1
    <3> QED  BY <2>2, <3>1, SubSeqProperties, Zenon DEF gone
  <2> QED  BY <2>3, RangeOfSeq
<1> HIDE DEF gone
<1>7. InOrder(backlog) /\ InOrder(inFlight) /\ \A x \in Range(inFlight), y \in Range(backlog) : x < y
  BY <1>3, EventsOfConcat
<1>8. /\ InOrder(backlog') /\ Range(backlog) = Range(backlog') \cup Range(gone)
  BY <1>5, <1>7, WithoutSplits DEF gone
<1>9. backlog' \in Seq(Events)
  BY <1>5, WithoutType
<1>10. Line' = inFlight \o backlog'
  <2>1. inFlight \o backlog' \in Seq(Events)
    BY <1>9, ConcatProperties
  <2> QED  BY <1>1, <1>3, <2>1, ConcatEmptySeq DEF Line, Queue
<1> QED  BY <1>3, <1>6, <1>7, <1>8, <1>9, <1>10, EventsOfConcat

-----------------------------------------------------------------------------
LEMMA InitDInv == Init => DInv
<1> SUFFICES ASSUME Init PROVE DInv
  OBVIOUS
<1>0. /\ <<>> \in Seq(Events) /\ Range(<<>>) = {} /\ InOrder(<<>>)
  <2>1. <<>> \in Seq(Events) /\ Len(<<>>) = 0
    BY EmptySeq
  <2>2. DOMAIN <<>> = 1 .. 0
    BY <2>1, LenProperties
  <2> QED  BY <2>1, <2>2 DEF Range, InOrder
<1>1. Line = <<>>
  <2>1. Queue = <<>>
    BY <1>0, ConcatEmptySeq DEF Init, Queue
  <2> QED  BY <1>0, <2>1, ConcatEmptySeq DEF Init, Line
<1>2. Sorted(file)
  <2>1. PICK k \in 0 .. MaxLegacy : file = [i \in 1 .. k |-> i]
    BY DEF Init, LegacyFiles
  <2>2. DOMAIN file = 1 .. k /\ \A i \in 1 .. k : file[i] = i
    BY <2>1
  <2>3. MaxLegacy \in Nat /\ admitted = MaxLegacy
    BY Bounds DEF Init
  <2> QED  BY <2>2, <2>3 DEF Sorted, InOrder, Range
<1>3. \A f \in Flushers : /\ fpc[f] = "idle" /\ snap[f].items = <<>> /\ snap[f].trimmed = {}
  BY DEF Init, NoSnap
<1>4. Ordered
  BY <1>0, <1>1, <1>2, <1>3 DEF Ordered, Sorted
<1>5. Runs
  BY <1>0, <1>1, <1>3 DEF Runs
<1>6. Care
  BY <1>3 DEF Care, Init
<1> QED  BY <1>4, <1>5, <1>6 DEF DInv

\* The line keeps its order and gains nothing, and what is owed stays in it.
LEMMA LineLessKeepsDInv ==
  ASSUME DInv, UNCHANGED <<admitted, file, snap, fpc>>,
         InOrder(Line'), Range(Line') \subseteq Range(Line), owed' \subseteq owed,
         phase' # "down" => phase # "down" /\ owed' \subseteq Range(Line')
  PROVE  DInv'
<1>1. Ordered'
  BY DEF DInv, Ordered, Sorted, InOrder
<1>2. Runs'
  BY DEF DInv, Runs
<1>3. Care'
  BY DEF DInv, Care
<1> QED  BY <1>1, <1>2, <1>3 DEF DInv

LEMMA LineSameKeepsDInv ==
  ASSUME DInv, Line' = Line, UNCHANGED <<admitted, file, snap, fpc, owed>>,
         phase' # "down" => phase # "down"
  PROVE  DInv'
<1>1. InOrder(Line)
  BY DEF DInv, Ordered, Sorted
<1>2. phase # "down" => owed \subseteq Range(Line)
  BY DEF DInv, Care
<1> QED  BY <1>1, <1>2, LineLessKeepsDInv

LEMMA CallKeepsDInv ==
  ASSUME IInv, DInv, Offer \/ Admit \/ Refuse \/ Signal
  PROVE  DInv'
<1>1. CASE Offer \/ Refuse \/ Signal
  <2>1. UNCHANGED <<backlog, inFlight, unread, admitted, file, snap, fpc, owed, phase>>
    BY <1>1 DEF Offer, Refuse, Signal, CallFrame, flushVars
  <2>2. Line' = Line
    BY <2>1 DEF Line, Queue
  <2> QED  BY <2>1, <2>2, LineSameKeepsDInv
<1>2. CASE Admit
  <2>1. /\ UNCHANGED <<file, snap, fpc, owed, phase>>
        /\ admitted' = admitted + 1 /\ admitted \in Nat
        /\ InOrder(Line') /\ Range(Line') = Range(Line) \cup {admitted + 1}
    BY <1>2, LineGrows, SequenceTypes DEF Admit, CallFrame, flushVars, DInv, Ordered
  <2>2. 1 .. admitted \subseteq 1 .. admitted' /\ admitted + 1 \in 1 .. admitted'
    BY <2>1
  <2>3. Ordered'
    <3>1. Sorted(Line)'
      BY <2>1, <2>2 DEF DInv, Ordered, Sorted
    <3>2. Sorted(file)'
      BY <2>1, <2>2 DEF DInv, Ordered, Sorted, InOrder
    <3>3. ASSUME NEW f \in Flushers PROVE Sorted(snap[f].items)'
      BY <2>1, <2>2 DEF DInv, Ordered, Sorted, InOrder
    <3> QED  BY <3>1, <3>2, <3>3 DEF Ordered
  <2>4. Runs'
    <3> SUFFICES ASSUME NEW f \in Flushers
                 PROVE  /\ fpc[f] = "write" =>
                             \A y \in Range(Line') : \/ y \in Range(snap[f].items)
                                                     \/ \A x \in Range(snap[f].items) : x < y
                        /\ fpc[f] # "trim" => snap[f].trimmed = {}
                        /\ snap[f].trimmed \subseteq 1 .. admitted'
                        /\ \A x, z \in snap[f].trimmed : \A y \in Range(Line') :
                             x < y /\ y < z => y \in snap[f].trimmed
      BY <2>1 DEF Runs
    <3>1. /\ Range(snap[f].items) \subseteq 1 .. admitted /\ snap[f].trimmed \subseteq 1 .. admitted
          /\ fpc[f] # "trim" => snap[f].trimmed = {}
      BY DEF DInv, Ordered, Sorted, Runs
    <3>2. ASSUME fpc[f] = "write", NEW y \in Range(Line')
          PROVE  \/ y \in Range(snap[f].items) \/ \A x \in Range(snap[f].items) : x < y
      <4>1. CASE y \in Range(Line)
        BY <3>2, <4>1 DEF DInv, Runs
      <4>2. CASE y = admitted + 1
        BY <2>1, <3>1, <4>2
      <4> QED  BY <2>1, <4>1, <4>2
    <3>3. ASSUME NEW x \in snap[f].trimmed, NEW z \in snap[f].trimmed,
                 NEW y \in Range(Line'), x < y, y < z
          PROVE  y \in snap[f].trimmed
      <4>1. y # admitted + 1
        BY <2>1, <3>1, <3>3
      <4> QED  BY <2>1, <3>3, <4>1 DEF DInv, Runs
    <3> QED  BY <2>2, <3>1, <3>2, <3>3
  <2>5. Care'
    BY <2>1 DEF DInv, Care
  <2> QED  BY <2>3, <2>4, <2>5 DEF DInv
<1> QED  BY <1>1, <1>2

LEMMA WorkerKeepsDInv ==
  ASSUME IInv, DInv, Worker \/ DrainDeadline \/ Reporter
  PROVE  DInv'
<1>0. UNCHANGED <<unread, admitted, file, snap, fpc, phase>>
  BY ReporterOnly DEF Worker, LoopEnds, LoopSleeps, WakeUp, TakeBatch, Answer, SendReturns, Settled,
     Discarded, Requeued, Notify, BackoffEnds, DrainDeadline, ReporterFrame,
     LoopFrame, SendFrame, SettleFrame, WorkerFrame, callVars, flushVars
<1>1. CASE Settled \/ Discarded
  <2>1. InOrder(Line') /\ Range(Line) = Range(Line') \cup Range(inFlight)
    BY <1>1, LineSettles DEF DInv, Ordered, Sorted
  <2>2. owed' = owed \ Range(inFlight)
    BY <1>1 DEF Settled, Discarded
  <2>3. phase' # "down" => phase # "down" /\ owed' \subseteq Range(Line')
    BY <1>0, <2>1, <2>2 DEF DInv, Care
  <2> QED  BY <1>0, <2>1, <2>2, <2>3, LineLessKeepsDInv
<1>2. CASE TakeBatch \/ Requeued
  <2>1. owed' = owed
    BY <1>2 DEF TakeBatch, Requeued, LoopFrame
  <2> QED  BY <1>0, <1>2, <2>1, LineMoves, LineSameKeepsDInv
<1>3. CASE \/ LoopEnds \/ LoopSleeps \/ WakeUp \/ SendReturns \/ Notify \/ BackoffEnds
           \/ DrainDeadline \/ \E o \in Answers : Answer(o)
           \/ Reporter
  <2>1. UNCHANGED <<backlog, inFlight, owed>>
    BY <1>3, ReporterOnly DEF LoopEnds, LoopSleeps, WakeUp, SendReturns, Notify, BackoffEnds,
       DrainDeadline, Answer, ReporterFrame, LoopFrame, SendFrame, queueVars
  <2>2. Line' = Line
    BY <1>0, <2>1 DEF Line, Queue
  <2> QED  BY <1>0, <2>1, <2>2, LineSameKeepsDInv
<1> QED  BY <1>1, <1>2, <1>3 DEF Worker

LEMMA PersisterKeepsDInv ==
  ASSUME DInv, Persister
  PROVE  DInv'
<1>1. UNCHANGED <<backlog, inFlight, unread, admitted, file, snap, fpc, owed, phase>>
  BY DEF Persister, PersisterWakes, DebounceEnds, PersisterStops, PersisterFrame,
     queueVars, callVars
<1>2. Line' = Line
  BY <1>1 DEF Line, Queue
<1> QED  BY <1>1, <1>2, LineSameKeepsDInv

\* flushBacklog returns, in whatever way.
LEMMA ReturnKeepsDInv ==
  ASSUME IInv, DInv, NEW f \in Flushers, FlushReturns(f),
         UNCHANGED <<admitted, owed, phase>>,
         InOrder(Line'), Range(Line') \subseteq Range(Line),
         phase # "down" => owed \subseteq Range(Line')
  PROVE  DInv'
<1>0. /\ NoSnap.items = <<>> /\ NoSnap.trimmed = {}
      /\ Range(<<>>) = {} /\ InOrder(<<>>)
  <2>1. DOMAIN <<>> = 1 .. 0
    BY EmptySeq, LenProperties
  <2> QED  BY <2>1 DEF NoSnap, Range, InOrder
<1>1. /\ file' = file
      /\ fpc' = [fpc EXCEPT ![f] = "idle"] /\ snap' = [snap EXCEPT ![f] = NoSnap]
  BY DEF FlushReturns
<1>2. DOMAIN fpc = Flushers /\ DOMAIN snap = Flushers
  BY DEF IInv, TypeOK, PersistenceTypes
<1>3. /\ fpc'[f] = "idle" /\ snap'[f].items = <<>> /\ snap'[f].trimmed = {}
      /\ \A g \in Flushers \ {f} : fpc'[g] = fpc[g] /\ snap'[g] = snap[g]
  BY <1>0, <1>1, <1>2
<1>4. Ordered'
  <2>1. \A g \in Flushers : Sorted(snap[g].items)'
    <3> SUFFICES ASSUME NEW g \in Flushers PROVE Sorted(snap[g].items)'
      OBVIOUS
    <3>1. CASE g = f
      BY <1>0, <1>3, <3>1 DEF Sorted
    <3>2. CASE g # f
      BY <1>3, <3>2 DEF DInv, Ordered, Sorted
    <3> QED  BY <3>1, <3>2
  <2>2. Sorted(file)' /\ Sorted(Line)'
    BY <1>1 DEF DInv, Ordered, Sorted, InOrder
  <2> QED  BY <2>1, <2>2 DEF Ordered
<1>5. Runs'
  BY <1>3 DEF DInv, Runs
<1>6. Care'
  BY <1>1, <1>3 DEF DInv, Care
<1> QED  BY <1>4, <1>5, <1>6 DEF DInv

LEMMA FlushKeepsDInv ==
  ASSUME IInv, DInv, NEW f \in Flushers, Flush(f)
  PROVE  DInv'
<1>0. UNCHANGED <<phase, unread, inFlight, admitted>>
  BY DEF Flush, FlushSkips, FlushBegins, FlushPublishes, FlushFails, FlushTrims,
     FlushFrame, callVars
<1>1. /\ DOMAIN fpc = Flushers /\ DOMAIN snap = Flushers
      /\ snap \in [Flushers -> [items : Seq(Events), n : Nat, trimmed : SUBSET Events]]
      /\ \A g \in Flushers : fpc[g] # "idle" <=> persistMu = g
      /\ "free" \notin Flushers
  BY DEF IInv, TypeOK, PersistenceTypes, Shape, Flushers
<1>2. /\ InOrder(Line) /\ Range(Line) \subseteq 1 .. admitted
      /\ phase # "down" => owed \subseteq Range(Line)
  BY DEF DInv, Ordered, Sorted, Care
<1>3. CASE FlushSkips(f) \/ FlushFails(f)
  <2>1. FlushReturns(f) /\ UNCHANGED <<backlog, owed>>
    BY <1>3 DEF FlushSkips, FlushFails
  <2>2. Line' = Line
    BY <1>0, <2>1 DEF Line, Queue
  <2> QED  BY <1>0, <1>2, <2>1, <2>2, ReturnKeepsDInv
<1>4. CASE FlushTrims(f)
  <2>1. FlushReturns(f) /\ owed' = owed
    BY <1>4 DEF FlushTrims
  <2>2. /\ InOrder(Line') /\ Range(Line') \subseteq Range(Line)
        /\ Range(Line) \subseteq Range(Line') \cup snap[f].trimmed
    BY <1>2, <1>4, LineTrims
  <2>3. owed \cap snap[f].trimmed = {}
    BY DEF DInv, Care
  <2> QED  BY <1>0, <1>2, <2>1, <2>2, <2>3, ReturnKeepsDInv
<1>5. CASE FlushBegins(f)
  <2>1. /\ Persistent /\ fpc[f] = "idle" /\ UNCHANGED <<backlog, file, owed>>
        /\ fpc' = [fpc EXCEPT ![f] = "write"] /\ snap' = [snap EXCEPT ![f] = Snapshot]
        /\ WantsFlush(f)
    BY <1>5 DEF FlushBegins
  <2>2. Line' = Line
    BY <1>0, <2>1 DEF Line, Queue
  <2>3. Running
    BY <2>1 DEF WantsFlush, IInv, Shape, Flushers
  <2>4. /\ fpc'[f] = "write" /\ snap'[f].items = Line /\ snap'[f].trimmed = {}
        /\ \A g \in Flushers \ {f} : fpc'[g] = fpc[g] /\ snap'[g] = snap[g]
    BY <1>1, <2>1, <2>3, RunningLine DEF Snapshot
  <2>5. Ordered'
    <3>1. \A g \in Flushers : Sorted(snap[g].items)'
      <4> SUFFICES ASSUME NEW g \in Flushers PROVE Sorted(snap[g].items)'
        OBVIOUS
      <4>1. CASE g = f
        BY <1>0, <1>2, <2>4, <4>1 DEF Sorted
      <4>2. CASE g # f
        BY <1>0, <2>4, <4>2 DEF DInv, Ordered, Sorted
      <4> QED  BY <4>1, <4>2
    <3>2. Sorted(file)' /\ Sorted(Line)'
      BY <1>0, <2>1, <2>2 DEF DInv, Ordered, Sorted, InOrder
    <3> QED  BY <3>1, <3>2 DEF Ordered
  <2>6. Runs'
    BY <1>0, <2>2, <2>4 DEF DInv, Runs
  <2>7. Care'
    BY <1>0, <1>2, <2>1, <2>2, <2>3, <2>4 DEF DInv, Care, Running
  <2> QED  BY <2>5, <2>6, <2>7 DEF DInv
<1>6. CASE FlushPublishes(f)
  <2> DEFINE s == snap[f]
             Leave(k) == Range(SubSeq(s.items, s.n + 1, s.n + k))
  <2>1. /\ fpc[f] = "write" /\ backlog' = backlog
        /\ fpc' = [fpc EXCEPT ![f] = "trim"]
    BY <1>6 DEF FlushPublishes
  <2>2. PICK k \in TrimCounts(s.items, s.n) :
          /\ file' = WithoutOldestQueued(s.items, s.n, k)
          /\ snap' = [snap EXCEPT ![f].trimmed = Leave(k)]
          /\ owed' = (owed \ Leave(k)) \cup (Range(file') \cap Range(Queue))
    BY <1>6 DEF FlushPublishes
  <2>3. s.items \in Seq(Events) /\ s.n \in 0 .. Len(s.items) /\ k \in 0 .. (Len(s.items) - s.n)
    BY <1>1, <2>2, LenProperties DEF TrimCounts, IInv, Shape
  <2>4. /\ InOrder(s.items) /\ Range(s.items) \subseteq 1 .. admitted
        /\ owed \subseteq Range(s.items) /\ Persistent
        /\ \A y \in Range(Line) : y \in Range(s.items) \/ \A x \in Range(s.items) : x < y
    BY <2>1 DEF DInv, Ordered, Sorted, Care, Runs
  <2>5. /\ InOrder(file')
        /\ Range(s.items) = Range(file') \cup Leave(k)
        /\ Range(file') \cap Leave(k) = {}
        /\ \A x, z \in Leave(k) : \A y \in Range(s.items) :
             x < y /\ y < z => y \in Leave(k)
    BY <2>2, <2>3, <2>4, WithoutSplits
  <2>6. /\ fpc'[f] = "trim" /\ snap'[f].items = s.items /\ snap'[f].trimmed = Leave(k)
        /\ \A g \in Flushers \ {f} : fpc'[g] = fpc[g] /\ snap'[g] = snap[g]
    BY <1>1, <2>1, <2>2
  <2> DEFINE L == Leave(k)
             I == s.items
  <2>7. Running /\ Line' = Line /\ Line = Queue
    <3>1. Running
      BY <1>1, <2>1 DEF IInv, Shape
    <3> QED  BY <1>0, <2>1, <3>1, RunningLine DEF Line, Queue
  <2>8. Range(Line) \subseteq Nat /\ Range(I) \subseteq Nat /\ \A g \in Flushers \ {f} : fpc[g] = "idle"
    BY <1>1, <1>2, <2>1, <2>4
  <2>f. /\ owed' = (owed \ L) \cup (Range(file') \cap Range(Line))
        /\ snap'[f].trimmed = L /\ snap'[f].items = I
        /\ owed \subseteq Range(I) /\ InOrder(I) /\ Range(I) \subseteq 1 .. admitted
        /\ Range(I) = Range(file') \cup L /\ Range(file') \cap L = {}
        /\ \A x, z \in L : \A y \in Range(I) : x < y /\ y < z => y \in L
        /\ \A y \in Range(Line) : y \in Range(I) \/ \A x \in Range(I) : x < y
    BY <2>2, <2>4, <2>5, <2>6, <2>7
  <2> HIDE DEF L, I, s, Leave
  <2>9. Ordered'
    <3>1. \A g \in Flushers : Sorted(snap[g].items)'
      <4> SUFFICES ASSUME NEW g \in Flushers PROVE Sorted(snap[g].items)'
        OBVIOUS
      <4>1. CASE g = f
        BY <1>0, <2>f, <4>1 DEF Sorted
      <4>2. CASE g # f
        BY <1>0, <2>6, <4>2 DEF DInv, Ordered, Sorted
      <4> QED  BY <4>1, <4>2
    <3>2. Sorted(file)' /\ Sorted(Line)'
      BY <1>0, <1>2, <2>5, <2>7, <2>f DEF Sorted
    <3> QED  BY <3>1, <3>2 DEF Ordered
  <2>10. Runs'
    <3> SUFFICES ASSUME NEW g \in Flushers
                 PROVE  /\ fpc'[g] = "write" =>
                             \A y \in Range(Line') : \/ y \in Range(snap'[g].items)
                                                     \/ \A x \in Range(snap'[g].items) : x < y
                        /\ fpc'[g] # "trim" => snap'[g].trimmed = {}
                        /\ snap'[g].trimmed \subseteq 1 .. admitted'
                        /\ \A x, z \in snap'[g].trimmed : \A y \in Range(Line') :
                             x < y /\ y < z => y \in snap'[g].trimmed
      BY DEF Runs
    <3>1. CASE g # f
      BY <1>0, <2>6, <2>7, <3>1 DEF DInv, Runs
    <3>2. CASE g = f
      <4>1. ASSUME NEW x \in L, NEW z \in L, NEW y \in Range(Line), x < y, y < z
            PROVE  y \in L
        <5>1. y \in Range(I)
          <6>1. z \in Range(I) /\ z \in Nat /\ y \in Nat
            BY <2>8, <2>f
          <6>2. ~(z < y)
            BY <4>1, <6>1
          <6> QED  BY <2>f, <6>1, <6>2
        <5> QED  BY <2>f, <4>1, <5>1
      <4>2. L \subseteq 1 .. admitted
        BY <2>f
      <4> QED  BY <1>0, <2>6, <2>7, <2>f, <3>2, <4>1, <4>2
    <3> QED  BY <3>1, <3>2
  <2>11. Care'
    <3>1. owed' \subseteq Range(file') /\ owed' \subseteq Range(Line)
      BY <1>2, <2>7, <2>f DEF Running
    <3>2. owed' \cap L = {}
      BY <2>f
    <3>3. \A g \in Flushers \ {f} : snap'[g].trimmed = {} /\ fpc'[g] = "idle"
      BY <2>6, <2>8 DEF DInv, Runs
    <3> QED  BY <1>0, <2>4, <2>6, <2>7, <2>f, <3>1, <3>2, <3>3 DEF DInv, Care
  <2> QED  BY <2>9, <2>10, <2>11 DEF DInv
<1> QED  BY <1>3, <1>4, <1>5, <1>6 DEF Flush

LEMMA LifeKeepsDInv ==
  ASSUME IInv, DInv, Stop \/ ProcessEnds \/ Boot
  PROVE  DInv'
<1> USE DEF BootFrame, LoadFrame, callVars
<1>0. /\ Range(<<>>) = {} /\ InOrder(<<>>) /\ <<>> \in Seq(Events)
  <2>1. DOMAIN <<>> = 1 .. 0
    BY EmptySeq, LenProperties
  <2> QED  BY <2>1, EmptySeq DEF Range, InOrder
<1>1. CASE Stop \/ Start
  <2>1. /\ UNCHANGED <<backlog, inFlight, unread, admitted, file, snap, fpc, owed>>
        /\ phase # "down"
    BY <1>1 DEF Stop, Start, queueVars, flushVars
  <2>2. Line' = Line
    BY <2>1 DEF Line, Queue
  <2> QED  BY <2>1, <2>2, LineSameKeepsDInv
<1>2. CASE LoadKeeps
  <2>1. UNCHANGED <<admitted, file, snap, fpc, owed, phase>>
    BY <1>2 DEF LoadKeeps
  <2> QED  BY <1>2, <2>1, LineMoves, LineSameKeepsDInv
<1>3. CASE LoadDrops
  <2>1. /\ UNCHANGED <<admitted, file, snap, fpc, phase>>
        /\ owed' = owed \ {Head(unread)}
    BY <1>3 DEF LoadDrops
  <2>2. InOrder(Line') /\ Range(Line) = Range(Line') \cup {Head(unread)}
    BY <1>3, LineSkips DEF DInv, Ordered, Sorted
  <2>3. phase # "down" => owed \subseteq Range(Line)
    BY DEF DInv, Care
  <2> QED  BY <2>1, <2>2, <2>3, LineLessKeepsDInv
<1>4. CASE ProcessEnds
  <2>1. /\ phase' = "down" /\ backlog' = <<>> /\ inFlight' = <<>> /\ unread' = <<>>
        /\ fpc' = [f \in Flushers |-> "idle"] /\ snap' = [f \in Flushers |-> NoSnap]
        /\ UNCHANGED <<admitted, file, owed>>
    BY <1>4 DEF ProcessEnds
  <2>2. Line' = <<>>
    <3>1. Queue' = <<>>
      BY <1>0, <2>1, ConcatEmptySeq DEF Queue
    <3> QED  BY <1>0, <2>1, <3>1, ConcatEmptySeq DEF Line
  <2>3. \A f \in Flushers : fpc'[f] = "idle" /\ snap'[f].items = <<>> /\ snap'[f].trimmed = {}
    BY <2>1 DEF NoSnap
  <2>4. Ordered'
    <3>1. Sorted(file)'
      BY <2>1 DEF DInv, Ordered, Sorted, InOrder
    <3>2. Sorted(Line)' /\ \A f \in Flushers : Sorted(snap[f].items)'
      BY <1>0, <2>2, <2>3 DEF Sorted
    <3> QED  BY <3>1, <3>2 DEF Ordered
  <2>5. Runs'
    BY <2>3 DEF Runs
  <2>6. Care'
    BY <2>1, <2>3 DEF DInv, Care
  <2> QED  BY <2>4, <2>5, <2>6 DEF DInv
<1>5. CASE BootReads \/ BootIgnores
  <2>1. /\ phase = "down" /\ UNCHANGED <<backlog, inFlight, admitted, snap, fpc>>
    BY <1>5 DEF BootReads, BootIgnores
  <2>2. Queue' = <<>> /\ unread = <<>>
    BY <1>0, <2>1, LoadingLine DEF IInv, Shape, Running, Queue
  <2>3. \/ unread' = <<>> /\ owed' = {} /\ file' \in {file, <<>>}
        \/ unread' = file /\ owed' = owed /\ file' = file
    BY <1>5, <2>2 DEF BootReads, BootIgnores, DInv, Care
  <2>4. Line' = unread'
    BY <1>0, <2>2, <2>3, SequenceTypes, ConcatEmptySeq DEF Line
  <2>5. \A f \in Flushers : fpc[f] = "idle"
    BY <2>1 DEF IInv, Shape, Running, Flushers
  <2>6. Ordered'
    <3>1. Sorted(file)' /\ Sorted(Line)'
      BY <1>0, <2>1, <2>3, <2>4 DEF DInv, Ordered, Sorted, InOrder
    <3>2. \A f \in Flushers : Sorted(snap[f].items)'
      BY <2>1 DEF DInv, Ordered, Sorted
    <3> QED  BY <3>1, <3>2 DEF Ordered
  <2>7. Runs'
    BY <2>1, <2>5 DEF DInv, Runs
  <2>8. Care'
    <3>1. owed' \subseteq Range(file') /\ owed' \subseteq Range(Line') /\ owed' \subseteq owed
      BY <2>3, <2>4 DEF DInv, Care
    <3> QED  BY <2>1, <2>5, <3>1 DEF DInv, Care
  <2> QED  BY <2>6, <2>7, <2>8 DEF DInv
<1> QED  BY <1>1, <1>2, <1>3, <1>4, <1>5 DEF Boot

LEMMA StepKeepsDInv == IInv /\ DInv /\ [Next]_vars => DInv'
<1> SUFFICES ASSUME IInv, DInv, [Next]_vars PROVE DInv'
  OBVIOUS
<1>1. CASE Next
  BY <1>1, CallKeepsDInv, WorkerKeepsDInv, PersisterKeepsDInv, FlushKeepsDInv,
     LifeKeepsDInv DEF Next
<1>2. CASE UNCHANGED vars
  <2>1. UNCHANGED <<backlog, inFlight, unread, admitted, file, snap, fpc, owed, phase>>
    BY <1>2 DEF vars, queueVars, callVars, flushVars
  <2>2. Line' = Line
    BY <2>1 DEF Line, Queue
  <2> QED  BY <2>1, <2>2, LineSameKeepsDInv
<1> QED  BY <1>1, <1>2

-----------------------------------------------------------------------------
LEMMA DInvAlways == Spec => [](IInv /\ DInv)
<1>1. Init => IInv /\ DInv
  BY InitIInv, InitDInv
<1>2. (IInv /\ DInv) /\ [Next]_vars => (IInv /\ DInv)'
  BY StepKeepsIInv, StepKeepsDInv
<1> QED  BY <1>1, <1>2, PTL DEF Spec

\* Events are queued, sent and persisted in the order of their admission and
\* none twice, and what a flush trims is one run of the backlog.
THEOREM QueueAlwaysInOrder == Spec => []QueueInOrder
<1>1. IInv /\ DInv => QueueInOrder
  <2> SUFFICES ASSUME IInv, DInv PROVE QueueInOrder
    OBVIOUS
  <2> USE SequenceTypes
  <2>1. InOrder(Queue) /\ InOrder(file) /\ Range(Queue) \subseteq Range(Line)
    BY EventsOfConcat DEF DInv, Ordered, Sorted, Line
  <2>2. InOrder(backlog) /\ Range(backlog) \subseteq Range(Line)
    BY <2>1, EventsOfConcat DEF Queue
  <2>3. ASSUME NEW f \in Flushers,
               NEW i \in DOMAIN backlog, NEW j \in DOMAIN backlog, NEW h \in DOMAIN backlog,
               i < j, j < h, backlog[i] \in snap[f].trimmed, backlog[h] \in snap[f].trimmed
        PROVE  backlog[j] \in snap[f].trimmed
    <3>1. backlog[i] < backlog[j] /\ backlog[j] < backlog[h]
      BY <2>2, <2>3 DEF InOrder
    <3>2. backlog[j] \in Range(Line)
      BY <2>2 DEF Range
    <3> QED  BY <2>3, <3>1, <3>2 DEF DInv, Runs
  <2> QED  BY <2>1, <2>3 DEF QueueInOrder
<1> QED  BY <1>1, DInvAlways, PTL

\* An event that reached the file stays there until the controller has it or
\* its drop is counted, through every crash, restart, retry and trim.
THEOREM Durable == Spec => []DurableUntilSettled
<1>1. DInv => DurableUntilSettled
  BY DEF DInv, Care, DurableUntilSettled
<1> QED  BY <1>1, DInvAlways, PTL

-----------------------------------------------------------------------------
(***************************************************************************)
(* Sizes.                                                                  *)
(***************************************************************************)

\* What SumOf counts for s: for every place, as many pairs as the size says.
Units(size, s) == UNION {{i} \X (1 .. size[s[i]]) : i \in 1 .. Len(s)}

LEMMA SumOfUnits ==
  ASSUME NEW size \in [Events -> Nat], NEW s \in Seq(Events)
  PROVE  /\ SumOf(size, s) = Cardinality(Units(size, s)) /\ SumOf(size, s) \in Nat
         /\ IsFiniteSet(Units(size, s))
         /\ \A i, b : <<i, b>> \in Units(size, s) <=> i \in 1 .. Len(s) /\ b \in 1 .. size[s[i]]
         /\ \A u \in Units(size, s) : u = <<u[1], u[2]>>
<1>1. Len(s) \in Nat /\ DOMAIN s = 1 .. Len(s) /\ \A i \in 1 .. Len(s) : s[i] \in Events
  BY ElementOfSeq, LenProperties
<1> DEFINE f == [i \in DOMAIN s |-> size[s[i]]]
           S == {{i} \X (1 .. size[s[i]]) : i \in 1 .. Len(s)}
           T == {{x} \X (1 .. f[x]) : x \in DOMAIN s}
           g == [i \in 1 .. Len(s) |-> {i} \X (1 .. size[s[i]])]
<1>2. T = S
  BY <1>1
<1>3. IsFiniteSet(S)
  <2>1. IsFiniteSet(1 .. Len(s))
    BY <1>1, FS_Interval
  <2>2. IsFiniteSet({g[x] : x \in 1 .. Len(s)})
    <3>1. DOMAIN g = 1 .. Len(s)
      OBVIOUS
    <3> HIDE DEF g
    <3> QED  BY <2>1, <3>1, FiniteValues
  <2>3. {g[x] : x \in 1 .. Len(s)} = S
    OBVIOUS
  <2> QED  BY <2>2, <2>3
<1>4. \A t \in S : IsFiniteSet(t)
  <2> SUFFICES ASSUME NEW i \in 1 .. Len(s) PROVE IsFiniteSet({i} \X (1 .. size[s[i]]))
    OBVIOUS
  <2>1. size[s[i]] \in Nat
    BY <1>1
  <2>2. IsFiniteSet({i})
    BY FS_Singleton
  <2> DEFINE q == size[s[i]]
  <2> HIDE DEF q
  <2>3. q \in Nat
    BY <2>1 DEF q
  <2>4. IsFiniteSet(1 .. q)
    BY <2>3, FS_Interval
  <2>5. IsFiniteSet({i} \X (1 .. q))
    BY <2>2, <2>4, FS_Product
  <2> QED  BY <2>5 DEF q
<1>5. IsFiniteSet(UNION S)
  <2> HIDE DEF S
  <2> QED  BY <1>3, <1>4, FS_UNION
<1>6. SumOf(size, s) = Cardinality(UNION S)
  <2>1. SumOf(size, s) = SumOver(f, DOMAIN s)
    <3> HIDE DEF f
    <3> QED  BY DEF SumOf, f
  <2>2. SumOver(f, DOMAIN s) = Cardinality(UNION T)
    <3> HIDE DEF f
    <3> QED  BY DEF SumOver
  <2> QED  BY <1>2, <2>1, <2>2
<1>7. Units(size, s) = UNION S
  BY DEF Units
<1>8. \A i, b : <<i, b>> \in UNION S <=> i \in 1 .. Len(s) /\ b \in 1 .. size[s[i]]
  OBVIOUS
<1>9. \A u \in UNION S : u = <<u[1], u[2]>>
  OBVIOUS
<1> HIDE DEF S
<1> QED  BY <1>5, <1>6, <1>7, <1>8, <1>9, FS_CardinalityType

LEMMA SumOfNone ==
  ASSUME NEW size \in [Events -> Nat]
  PROVE  SumOf(size, <<>>) = 0
<1>1. <<>> \in Seq(Events) /\ Len(<<>>) = 0
  BY EmptySeq
<1>2. Units(size, <<>>) = {}
  <2>1. 1 .. 0 = {}
    OBVIOUS
  <2> QED  BY <1>1, <2>1 DEF Units
<1>3. SumOf(size, <<>>) = Cardinality(Units(size, <<>>))
  BY <1>1, SumOfUnits
<1>4. Cardinality({}) = 0
  BY FS_EmptySet
<1> QED  BY <1>2, <1>3, <1>4

LEMMA SumOfOne ==
  ASSUME NEW size \in [Events -> Nat], NEW e \in Events
  PROVE  SumOf(size, <<e>>) = size[e]
<1> DEFINE s == <<e>>
<1>1. s \in Seq(Events) /\ Len(s) = 1 /\ s[1] = e
  BY EmptySeq, AppendProperties
<1> HIDE DEF s
<1>2. Units(size, s) = {1} \X (1 .. size[e])
  <2>1. \A i, b : <<i, b>> \in Units(size, s) <=> i \in 1 .. 1 /\ b \in 1 .. size[s[i]]
    BY <1>1, SumOfUnits
  <2>2. \A u \in Units(size, s) : u = <<u[1], u[2]>>
    BY <1>1, SumOfUnits
  <2>3. \A i : i \in 1 .. 1 <=> i = 1
    OBVIOUS
  <2>4. \A u \in {1} \X (1 .. size[e]) : u = <<u[1], u[2]>> /\ u[1] = 1 /\ u[2] \in 1 .. size[e]
    OBVIOUS
  <2>5. \A b : <<1, b>> \in {1} \X (1 .. size[e]) <=> b \in 1 .. size[e]
    OBVIOUS
  <2>6. \A u \in Units(size, s) : u[1] = 1 /\ u[2] \in 1 .. size[e] 
    BY <1>1, <2>1, <2>2, <2>3
  <2> QED  BY <1>1, <2>1, <2>2, <2>3, <2>4, <2>5, <2>6
<1>3. Cardinality({1} \X (1 .. size[e])) = size[e]
  <2>1. IsFiniteSet({1}) /\ Cardinality({1}) = 1
    BY FS_Singleton
  <2>2. IsFiniteSet(1 .. size[e]) /\ Cardinality(1 .. size[e]) = IF 1 > size[e] THEN 0 ELSE size[e] - 1 + 1
    BY FS_Interval
  <2>3. Cardinality({1} \X (1 .. size[e])) = Cardinality({1}) * Cardinality(1 .. size[e])
    BY <2>1, <2>2, FS_Product
  <2>4. size[e] \in Nat
    OBVIOUS
  <2>5. Cardinality(1 .. size[e]) = size[e]
    BY <2>2, <2>4
  <2> QED  BY <2>1, <2>3, <2>4, <2>5
<1>4. SumOf(size, s) = size[e]
  BY <1>1, <1>2, <1>3, SumOfUnits
<1> QED  BY <1>4 DEF s

\* The size of a concatenation.
LEMMA SumOfConcat ==
  ASSUME NEW size \in [Events -> Nat], NEW s \in Seq(Events), NEW t \in Seq(Events)
  PROVE  SumOf(size, s \o t) = SumOf(size, s) + SumOf(size, t)
<1> DEFINE l == Len(s)
           m == Len(t)
           c == s \o t
           A == Units(size, s)
           B == Units(size, t)
           C == Units(size, c)
           D == C \ A
           shift == [u \in B |-> <<l + u[1], u[2]>>]
<1>1. /\ l \in Nat /\ m \in Nat /\ c \in Seq(Events) /\ Len(c) = l + m
      /\ \A i \in 1 .. l : c[i] = s[i]
      /\ \A i \in 1 .. m : c[l + i] = t[i]
  <2>1. l \in Nat /\ m \in Nat
    BY LenProperties
  <2>2. /\ c \in Seq(Events) /\ Len(c) = l + m
        /\ \A i \in 1 .. l + m : c[i] = IF i <= l THEN s[i] ELSE t[i - l]
    BY ConcatProperties
  <2> HIDE DEF c, l, m
  <2>3. \A i \in 1 .. m : l + i \in 1 .. l + m /\ ~(l + i <= l) /\ (l + i) - l = i
    BY <2>1
  <2>4. \A i \in 1 .. l : i \in 1 .. l + m /\ i <= l
    BY <2>1
  <2> QED  BY <2>1, <2>2, <2>3, <2>4
<1>2. /\ SumOf(size, s) = Cardinality(A) /\ IsFiniteSet(A)
      /\ \A i, b : <<i, b>> \in A <=> i \in 1 .. l /\ b \in 1 .. size[s[i]]
      /\ \A u \in A : u = <<u[1], u[2]>>
  BY SumOfUnits
<1>3. /\ SumOf(size, t) = Cardinality(B) /\ IsFiniteSet(B)
      /\ \A i, b : <<i, b>> \in B <=> i \in 1 .. m /\ b \in 1 .. size[t[i]]
      /\ \A u \in B : u = <<u[1], u[2]>>
  BY SumOfUnits
<1>4. /\ SumOf(size, c) = Cardinality(C) /\ IsFiniteSet(C)
      /\ \A i, b : <<i, b>> \in C <=> i \in 1 .. l + m /\ b \in 1 .. size[c[i]]
      /\ \A u \in C : u = <<u[1], u[2]>>
  <2>1. c \in Seq(Events) /\ Len(c) = l + m
    BY <1>1
  <2> HIDE DEF c, l, m
  <2> QED  BY <2>1, SumOfUnits
<1> HIDE DEF l, m, c, A, B, C
<1>5. A \subseteq C
  <2> SUFFICES ASSUME NEW u \in A PROVE u \in C
    OBVIOUS
  <2>1. u = <<u[1], u[2]>> /\ u[1] \in 1 .. l /\ u[2] \in 1 .. size[s[u[1]]]
    BY <1>2
  <2>2. u[1] \in 1 .. l + m /\ c[u[1]] = s[u[1]]
    BY <1>1, <2>1
  <2> QED  BY <1>4, <2>1, <2>2
<1>6. \A i \in 1 .. m : \A b : <<l + i, b>> \in D <=> b \in 1 .. size[t[i]]
  <2> TAKE i \in 1 .. m
  <2> TAKE b
  <2>1. l + i \in 1 .. l + m /\ l + i \notin 1 .. l
    BY <1>1
  <2>2. c[l + i] = t[i]
    BY <1>1
  <2>3. <<l + i, b>> \in C <=> b \in 1 .. size[t[i]]
    BY <1>4, <2>1, <2>2, Zenon
  <2>4. <<l + i, b>> \notin A
    BY <1>2, <2>1, Zenon
  <2> QED  BY <2>3, <2>4 DEF D
<1>7. ASSUME NEW d \in D
      PROVE  d = <<d[1], d[2]>> /\ \E i \in 1 .. m : d[1] = l + i
  <2>1. d = <<d[1], d[2]>> /\ d[1] \in 1 .. l + m /\ d[2] \in 1 .. size[c[d[1]]]
    BY <1>4
  <2>2. d[1] \notin 1 .. l
    <3> SUFFICES ASSUME d[1] \in 1 .. l PROVE FALSE
      OBVIOUS
    <3>1. c[d[1]] = s[d[1]]
      BY <1>1
    <3>2. <<d[1], d[2]>> \in A
      BY <1>2, <2>1, <3>1
    <3> QED  BY <2>1, <3>2
  <2>3. d[1] - l \in 1 .. m /\ d[1] = l + (d[1] - l)
    BY <1>1, <2>1, <2>2
  <2> QED  BY <2>1, <2>3
<1> HIDE DEF D
<1>8. ASSUME NEW u \in B
      PROVE  u[1] \in 1 .. m /\ u = <<u[1], u[2]>> /\ shift[u] = <<l + u[1], u[2]>> /\ shift[u] \in D
  <2>1. u = <<u[1], u[2]>> /\ u[1] \in 1 .. m /\ u[2] \in 1 .. size[t[u[1]]]
    BY <1>3
  <2> QED  BY <1>6, <2>1
<1>9. shift \in [B -> D]
  BY <1>8
<1>10. ASSUME NEW u \in B, NEW v \in B, shift[u] = shift[v] PROVE u = v
  <2>1. u[1] \in 1 .. m /\ v[1] \in 1 .. m /\ <<l + u[1], u[2]>> = <<l + v[1], v[2]>>
    BY <1>8, <1>10
  <2>2. l + u[1] = l + v[1] /\ u[2] = v[2]
    BY <2>1
  <2>3. u[1] = v[1]
    BY <1>1, <2>1, <2>2
  <2> QED  BY <1>8, <2>2, <2>3
<1>11. ASSUME NEW d \in D PROVE \E u \in B : shift[u] = d
  <2>1. PICK i \in 1 .. m : d[1] = l + i
    BY <1>7
  <2>2. d = <<l + i, d[2]>>
    BY <1>7, <2>1
  <2>3. d[2] \in 1 .. size[t[i]]
    BY <1>6, <2>2
  <2>4. <<i, d[2]>> \in B
    BY <1>3, <2>3
  <2>5. shift[<<i, d[2]>>] = <<l + i, d[2]>>
    BY <2>4
  <2> QED  BY <2>2, <2>4, <2>5
<1> HIDE DEF shift
<1>12. Cardinality(B) = Cardinality(D) /\ IsFiniteSet(D)
  <2>1. shift \in Bijection(B, D)
    BY <1>9, <1>10, <1>11 DEF Bijection, Injection, IsInjective, Surjection
  <2>2. ExistsBijection(B, D)
    BY <2>1 DEF ExistsBijection
  <2> QED  BY <1>3, <2>2, FS_Bijection
<1>13. A \cup D = C /\ A \cap D = {}
  BY <1>5 DEF D
<1>14. Cardinality(C) = Cardinality(A) + Cardinality(D)
  <2>1. Cardinality(A \cup D) = Cardinality(A) + Cardinality(D)
    BY <1>2, <1>12, <1>13, DisjointSizes
  <2> QED  BY <1>13, <2>1
<1> QED  BY <1>2, <1>3, <1>4, <1>12, <1>14 DEF c

\* What admission counts, for the ways in which the queue changes.
LEMMA BytesOf ==
  ASSUME NEW s \in Seq(Events)
  PROVE  /\ QueueBytes(s) \in Nat /\ QueueBytes(<<>>) = 0
         /\ \A t \in Seq(Events) : QueueBytes(s \o t) = QueueBytes(s) + QueueBytes(t)
         /\ \A e \in Events : /\ ItemSize[e] \in Nat
                              /\ QueueBytes(Append(s, e)) = QueueBytes(s) + ItemSize[e]
<1>1. ItemSize \in [Events -> Nat]
  BY SizeAssumption
<1>2. SumOf(ItemSize, s) \in Nat /\ SumOf(ItemSize, <<>>) = 0
  BY <1>1, SumOfUnits, SumOfNone
<1>3. \A t \in Seq(Events) : SumOf(ItemSize, s \o t) = SumOf(ItemSize, s) + SumOf(ItemSize, t)
  BY <1>1, SumOfConcat
<1>4. ASSUME NEW e \in Events
      PROVE  /\ ItemSize[e] \in Nat
             /\ SumOf(ItemSize, Append(s, e)) = SumOf(ItemSize, s) + ItemSize[e]
  <2>1. <<e>> \in Seq(Events)
    BY EmptySeq, AppendProperties
  <2>2. Append(s, e) = s \o <<e>>
    BY AppendIsConcat
  <2>3. SumOf(ItemSize, <<e>>) = ItemSize[e]
    BY <1>1, SumOfOne
  <2> QED  BY <1>1, <1>3, <2>1, <2>2, <2>3
<1> QED  BY <1>2, <1>3, <1>4 DEF QueueBytes

\* Leaving k entries out takes their bytes with them.
LEMMA BytesLeftOut ==
  ASSUME NEW s \in Seq(Events), NEW n \in 0 .. Len(s), NEW k \in 0 .. (Len(s) - n)
  PROVE  /\ QueueBytes(SubSeq(s, n + 1, n + k)) \in Nat
         /\ QueueBytes(WithoutOldestQueued(s, n, k)) \in Nat
         /\ QueueBytes(s)
              = QueueBytes(WithoutOldestQueued(s, n, k)) + QueueBytes(SubSeq(s, n + 1, n + k))
<1> DEFINE a == SubSeq(s, 1, n)
           b == SubSeq(s, n + 1, n + k)
           c == SubSeq(s, n + k + 1, Len(s))
           ac == a \o c
           bc == b \o c
<1>0. Len(s) \in Nat
  BY LenProperties
<1>1. a \in Seq(Events) /\ b \in Seq(Events) /\ c \in Seq(Events)
  BY <1>0, SliceType
<1>2. ac \in Seq(Events) /\ bc \in Seq(Events)
  BY <1>1, ConcatProperties
<1>3. a \o bc = s
  <2>1. n + 1 \in 1 .. Len(s) + 1 /\ n + k \in (n + 1) - 1 .. Len(s) /\ Len(s) \in n + k .. Len(s)
    BY <1>0
  <2>2. bc = SubSeq(s, n + 1, Len(s))
    BY <1>0, <2>1, ConcatAdjacentSubSeq
  <2>3. 1 \in 1 .. Len(s) + 1 /\ n \in 1 - 1 .. Len(s) /\ Len(s) \in n .. Len(s)
    BY <1>0
  <2>4. a \o SubSeq(s, n + 1, Len(s)) = SubSeq(s, 1, Len(s))
    BY <1>0, <2>3, ConcatAdjacentSubSeq
  <2> QED  BY <1>0, <2>2, <2>4, SubSeqFull
<1>4. WithoutOldestQueued(s, n, k) = ac
  BY DEF WithoutOldestQueued
<1>5. QueueBytes(ac) = QueueBytes(a) + QueueBytes(c) /\ QueueBytes(bc) = QueueBytes(b) + QueueBytes(c)
  BY <1>1, BytesOf
<1> HIDE DEF a, b, c, ac, bc
<1>6. QueueBytes(s) = QueueBytes(a) + QueueBytes(bc)
  BY <1>1, <1>2, <1>3, BytesOf
<1>7. /\ QueueBytes(a) \in Nat /\ QueueBytes(b) \in Nat /\ QueueBytes(c) \in Nat
      /\ QueueBytes(ac) \in Nat
  BY <1>1, <1>2, BytesOf
<1>8. QueueBytes(s) = QueueBytes(ac) + QueueBytes(b)
  BY <1>5, <1>6, <1>7
<1> QED  BY <1>4, <1>7, <1>8 DEF b

\* SizeAccounting, part by part.
Sized ==
  /\ totalSize = QueueBytes(inFlight) + QueueBytes(backlog)
  /\ totalSize <= MaxBacklogSize

LEMMA InitSized == Init => Sized
<1>1. QueueBytes(<<>>) = 0 /\ MaxBacklogSize \in Nat
  BY EmptySeq, BytesOf, SizeAssumption
<1> QED  BY <1>1 DEF Init, Sized

\* Every step that changes the queue changes the count by as much.
LEMMA StepKeepsSized ==
  ASSUME IInv, Sized, [Next]_vars
  PROVE  Sized'
<1> USE DEF callVars, queueVars, flushVars, workerVars
<1>0. /\ inFlight \in Seq(Events) /\ backlog \in Seq(Events) /\ <<>> \in Seq(Events)
      /\ unread \in Seq(Events) /\ MaxBacklogSize \in Nat
  BY SequenceTypes, EmptySeq, SizeAssumption
<1> DEFINE i == QueueBytes(inFlight)
           b == QueueBytes(backlog)
<1>n. i \in Nat /\ b \in Nat /\ QueueBytes(<<>>) = 0
      /\ totalSize = i + b /\ totalSize <= MaxBacklogSize
  BY <1>0, BytesOf DEF Sized
<1> HIDE DEF i, b
<1>is. ASSUME totalSize' = QueueBytes(inFlight') + QueueBytes(backlog'),
              totalSize' <= MaxBacklogSize
       PROVE  Sized'
  BY <1>is DEF Sized
<1>same. ASSUME UNCHANGED <<inFlight, backlog, totalSize>>
         PROVE  Sized'
  BY <1>same DEF Sized
<1>grows. ASSUME NEW e \in Events, totalSize + ItemSize[e] <= MaxBacklogSize,
                 backlog' = Append(backlog, e), totalSize' = totalSize + ItemSize[e],
                 inFlight' = inFlight
          PROVE  Sized'
  <2>1. ItemSize[e] \in Nat /\ QueueBytes(Append(backlog, e)) = b + ItemSize[e]
    BY <1>0, BytesOf DEF b
  <2>2. totalSize' = i + (b + ItemSize[e]) /\ totalSize' <= MaxBacklogSize
    BY <1>n, <1>grows, <2>1
  <2>3. QueueBytes(inFlight') = i /\ QueueBytes(backlog') = b + ItemSize[e]
    BY <1>grows, <2>1 DEF i
  <2> QED  BY <1>is, <2>2, <2>3
<1>1. CASE Offer \/ Refuse \/ Signal
  BY <1>1, <1>same DEF Offer, Refuse, Signal, CallFrame
<1>2. CASE Admit
  <2>1. admitted + 1 \in Events
    BY <1>2, Bounds DEF Admit, IInv, TypeOK, CallTypes, Shape, Events
  <2> QED  BY <1>2, <1>grows, <2>1 DEF Admit, CallFrame
<1>3. CASE TakeBatch
  <2>1. BatchSize \in 1 .. Len(backlog) /\ Len(backlog) \in Nat
    BY <1>0, <1>3, BatchSizeBounds, LenProperties DEF TakeBatch, IInv
  <2>2. inFlight = <<>> /\ totalSize' = totalSize
    BY <1>3 DEF TakeBatch, IInv, Shape, Sending, LoopFrame
  <2>3. i = 0
    BY <1>n, <2>2 DEF i
  <2>4. /\ inFlight' \in Seq(Events) /\ backlog' \in Seq(Events)
        /\ inFlight' = SubSeq(backlog, 1, BatchSize)
        /\ backlog' = SubSeq(backlog, BatchSize + 1, Len(backlog))
    BY <1>0, <1>3, <2>1, SliceType DEF TakeBatch
  <2>5. inFlight' \o backlog' = backlog
    <3>1. 1 \in 1 .. Len(backlog) + 1 /\ BatchSize \in 1 - 1 .. Len(backlog)
          /\ Len(backlog) \in BatchSize .. Len(backlog)
      BY <2>1
    <3>2. SubSeq(backlog, 1, BatchSize) \o SubSeq(backlog, BatchSize + 1, Len(backlog))
            = SubSeq(backlog, 1, Len(backlog))
      BY <1>0, <3>1, ConcatAdjacentSubSeq
    <3> QED  BY <1>0, <2>4, <3>2, SubSeqFull
  <2>6. b = QueueBytes(inFlight') + QueueBytes(backlog')
    BY <2>4, <2>5, BytesOf DEF b
  <2>7. totalSize' = b /\ totalSize' <= MaxBacklogSize
    BY <1>n, <2>2, <2>3
  <2> QED  BY <1>is, <2>6, <2>7
<1>4. CASE Settled \/ Discarded
  <2>1. inFlight' = <<>> /\ backlog' = backlog /\ totalSize' = totalSize - i
    BY <1>4 DEF Settled, Discarded, ReleaseInFlight, i
  <2>2. totalSize' = b /\ totalSize' <= MaxBacklogSize
    BY <1>0, <1>n, <2>1
  <2>3. QueueBytes(inFlight') = 0 /\ QueueBytes(backlog') = b
    BY <1>n, <2>1 DEF b
  <2>4. b = 0 + b
    BY <1>n
  <2> QED  BY <1>is, <2>2, <2>3, <2>4
<1>5. CASE Requeued
  <2>1. inFlight' = <<>> /\ backlog' = inFlight \o backlog /\ totalSize' = totalSize
    BY <1>5 DEF Requeued, RequeueBatch
  <2>2. QueueBytes(inFlight \o backlog) = i + b
    BY <1>0, BytesOf DEF i, b
  <2>3. i + b = 0 + (i + b)
    BY <1>n
  <2>4. QueueBytes(inFlight') = 0 /\ QueueBytes(backlog') = i + b
    BY <1>n, <2>1, <2>2
  <2> QED  BY <1>is, <1>n, <2>1, <2>3, <2>4
<1>6. CASE \/ LoopEnds \/ LoopSleeps \/ WakeUp \/ Notify \/ BackoffEnds \/ DrainDeadline
           \/ \E o \in Answers : Answer(o)
           \/ Reporter
           \/ SendReturns
  BY <1>6, <1>same, ReporterOnly DEF LoopEnds, LoopSleeps, WakeUp, Notify, BackoffEnds, DrainDeadline,
     LoopFrame, Answer, SendReturns, ReporterFrame, SendFrame
<1>7. CASE Persister
  BY <1>7, <1>same
     DEF Persister, PersisterWakes, DebounceEnds, PersisterStops, PersisterFrame
<1>8. ASSUME NEW f \in Flushers, Flush(f)
      PROVE  Sized'
  <2>1. CASE FlushSkips(f) \/ FlushBegins(f) \/ FlushPublishes(f) \/ FlushFails(f)
    BY <2>1, <1>same DEF FlushSkips, FlushBegins, FlushPublishes, FlushFails, FlushFrame
  <2>2. CASE FlushTrims(f)
    <3>1. PICK n \in 0 .. Len(backlog) : \E k \in 0 .. (Len(backlog) - n) :
            /\ backlog' = WithoutOldestQueued(backlog, n, k)
            /\ totalSize' = totalSize - QueueBytes(SubSeq(backlog, n + 1, n + k))
      BY <2>2 DEF FlushTrims
    <3>2. PICK k \in 0 .. (Len(backlog) - n) :
            /\ backlog' = WithoutOldestQueued(backlog, n, k)
            /\ totalSize' = totalSize - QueueBytes(SubSeq(backlog, n + 1, n + k))
      BY <3>1
    <3> DEFINE gone == QueueBytes(SubSeq(backlog, n + 1, n + k))
               left == QueueBytes(WithoutOldestQueued(backlog, n, k))
    <3>3. gone \in Nat /\ left \in Nat /\ b = left + gone
      BY <1>0, BytesLeftOut DEF b
    <3>4. totalSize' = totalSize - gone /\ QueueBytes(backlog') = left
      BY <3>2
    <3> HIDE DEF gone, left
    <3>5. totalSize' = i + left /\ totalSize' <= MaxBacklogSize
      BY <1>0, <1>n, <3>3, <3>4
    <3>6. QueueBytes(inFlight') = i
      BY <2>2 DEF FlushTrims, FlushFrame, i
    <3> QED  BY <1>is, <3>4, <3>5, <3>6
  <2> QED  BY <1>8, <2>1, <2>2 DEF Flush
<1>9. CASE Stop \/ BootReads \/ BootIgnores \/ Start \/ LoadDrops
  BY <1>9, <1>same DEF Stop, BootReads, BootIgnores, Start, LoadDrops, LoadFrame, BootFrame
<1>10. CASE ProcessEnds
  <2>1. totalSize' = 0 /\ QueueBytes(inFlight') = 0 /\ QueueBytes(backlog') = 0
    BY <1>10, <1>n DEF ProcessEnds
  <2> QED  BY <1>0, <1>is, <2>1
<1>11. CASE LoadKeeps
  <2>1. Head(unread) \in Events
    BY <1>0, <1>11, HeadTailProperties DEF LoadKeeps
  <2> QED  BY <1>11, <1>grows, <2>1 DEF LoadKeeps, LoadFrame, BootFrame
<1>12. CASE UNCHANGED vars
  BY <1>12, <1>same DEF vars
<1>13. CASE Worker
  BY <1>3, <1>4, <1>5, <1>6, <1>13 DEF Worker
<1>14. CASE Boot
  BY <1>9, <1>11, <1>14 DEF Boot
<1> QED
  BY <1>1, <1>2, <1>6, <1>7, <1>8, <1>9, <1>10, <1>12, <1>13, <1>14 DEF Next

\* backlogTotalSize is the size of what is queued and in flight and never above
\* the limit, although handlers, worker and dropPersistTrimmed all change it
\* while a batch is outside the backlog.
THEOREM SizesAccounted == Spec => []SizeAccounting
<1>1. Init => IInv /\ Sized
  BY InitIInv, InitSized
<1>2. (IInv /\ Sized) /\ [Next]_vars => (IInv /\ Sized)'
  BY StepKeepsIInv, StepKeepsSized
<1>3. IInv /\ Sized => SizeAccounting
  <2> SUFFICES ASSUME IInv, Sized PROVE SizeAccounting
    OBVIOUS
  <2>1. QueueBytes(Queue) = QueueBytes(inFlight) + QueueBytes(backlog)
    BY SequenceTypes, BytesOf DEF Queue
  <2> QED  BY <2>1 DEF Sized, SizeAccounting
<1> QED  BY <1>1, <1>2, <1>3, PTL DEF Spec

-----------------------------------------------------------------------------
(***************************************************************************)
(* The file mirrors the queue.                                             *)
(***************************************************************************)

\* A change of the queue that the persistence goroutine has still to hear of,
\* or has heard of and not acted upon.
NewsPending == persistWake \/ signalling > 0 \/ wpc \in {"notify", "notifyRetry"}

\* The file is as it should be when loadBacklog works from it, and when nothing
\* is under way that would still change it.
FileCurrent ==
  \/ phase = "loading"
  \/ ppc = "select" /\ ~NewsPending /\ fpc["worker"] = "idle"

\* What f is writing, or has written, is the queue of now: the persistence
\* goroutine will not be told to write it again.
WriteCurrent(f) == (f = "persister" \/ ppc = "select") /\ ~NewsPending

Mirrors(events) ==
  /\ FileCurrent /\ ~fileStale => Range(file) = events
  /\ \A f \in Flushers : WriteCurrent(f) =>
       /\ fpc[f] = "write" => Range(snap[f].items) = events
       /\ fpc[f] = "trim" => Range(file) = events \ snap[f].trimmed

Mirrored ==
  /\ fpc["persister"] # "idle" => ppc \in {"flush", "last"}
  /\ Persistent => Mirrors(Range(Line))

LEMMA InitMirrored == Init => Mirrored
<1> SUFFICES ASSUME Init PROVE Mirrored
  OBVIOUS
<1>1. /\ \A f \in Flushers : fpc[f] = "idle"
      /\ phase = "down" /\ ppc = "off"
  BY DEF Init
<1> QED  BY <1>1 DEF Mirrored, Mirrors, FileCurrent, Flushers

\* A step of a process that has started, between the queue and its news: the
\* queue stays as it is, or the persistence goroutine is told.
LEMMA NewsKeepsMirrored ==
  ASSUME Mirrored, UNCHANGED <<ppc, fpc, snap, file, fileStale>>,
         phase' = "loading" => phase = "loading" /\ Range(Line') = Range(Line),
         Persistent => \/ NewsPending'
                       \/ Range(Line') = Range(Line) /\ ~NewsPending
  PROVE  Mirrored'
<1>1. ASSUME Persistent PROVE Mirrors(Range(Line))'
  <2>1. Mirrors(Range(Line))
    BY <1>1 DEF Mirrored
  <2>2. FileCurrent' => FileCurrent /\ Range(Line') = Range(Line)
    BY <1>1 DEF FileCurrent
  <2>3. ASSUME NEW f \in Flushers, WriteCurrent(f)'
        PROVE  WriteCurrent(f) /\ Range(Line') = Range(Line)
    BY <1>1, <2>3 DEF WriteCurrent
  <2> QED  BY <2>1, <2>2, <2>3 DEF Mirrors
<1> QED  BY <1>1 DEF Mirrored

\* Nothing moves.
LEMMA SameKeepsMirrored ==
  ASSUME Mirrored, Line' = Line,
         UNCHANGED <<ppc, fpc, snap, file, fileStale, persistWake, signalling>>,
         wpc' = wpc \/ (wpc \notin {"notify", "notifyRetry"}
                        /\ wpc' \notin {"notify", "notifyRetry"}),
         phase' = "loading" => phase = "loading"
  PROVE  Mirrored'
<1>1. NewsPending' <=> NewsPending
  BY DEF NewsPending
<1>2. CASE NewsPending
  BY <1>1, <1>2, NewsKeepsMirrored
<1>3. CASE ~NewsPending
  BY <1>1, <1>3, NewsKeepsMirrored
<1> QED  BY <1>2, <1>3

LEMMA CallKeepsMirrored ==
  ASSUME IInv, Mirrored, Offer \/ Admit \/ Refuse \/ Signal
  PROVE  Mirrored'
<1>1. UNCHANGED <<phase, unread, inFlight, wpc, ppc, fpc, snap, file, fileStale>>
  BY DEF Offer, Admit, Refuse, Signal, CallFrame, workerVars, flushVars
<1>2. CASE Offer \/ Refuse
  <2>1. UNCHANGED <<backlog, persistWake, signalling>>
    BY <1>2 DEF Offer, Refuse
  <2>2. Line' = Line
    BY <1>1, <2>1 DEF Line, Queue
  <2> QED  BY <1>1, <2>1, <2>2, SameKeepsMirrored
<1>3. CASE Admit
  <2>1. phase # "loading"
    BY <1>3 DEF Admit, IInv, TypeOK, CallTypes, Shape, Running
  <2>2. NewsPending'
    BY <1>3 DEF Admit, IInv, TypeOK, CallTypes, NewsPending
  <2> QED  BY <1>1, <2>1, <2>2, NewsKeepsMirrored
<1>4. CASE Signal
  <2>1. phase # "loading"
    BY <1>4 DEF Signal, IInv, TypeOK, CallTypes, Shape, Running
  <2>2. Persistent => NewsPending'
    BY <1>4 DEF Signal, SignalPersistence, NewsPending
  <2> QED  BY <1>1, <2>1, <2>2, NewsKeepsMirrored
<1> QED  BY <1>2, <1>3, <1>4

LEMMA WorkerKeepsMirrored ==
  ASSUME IInv, Mirrored, Worker \/ DrainDeadline \/ Reporter
  PROVE  Mirrored'
<1>0. UNCHANGED <<unread, signalling, ppc, fpc, snap, file, fileStale, phase>>
  BY ReporterOnly DEF Worker, LoopEnds, LoopSleeps, WakeUp, TakeBatch, Answer, SendReturns, Settled,
     Discarded, Requeued, Notify, BackoffEnds, DrainDeadline, ReporterFrame,
     LoopFrame, SendFrame, SettleFrame, WorkerFrame, callVars, flushVars
<1>1. CASE Settled \/ Discarded \/ Requeued
  <2>1. wpc = "settle" /\ wpc' \in {"notify", "notifyRetry"}
    BY <1>1 DEF Settled, Discarded, Requeued, ReleaseInFlight
  <2>2. phase # "loading"
    BY <2>1 DEF IInv, Shape, Running
  <2>3. NewsPending'
    BY <2>1 DEF NewsPending
  <2> QED  BY <1>0, <2>2, <2>3, NewsKeepsMirrored
<1>2. CASE Notify
  <2>1. wpc \in {"notify", "notifyRetry"}
    BY <1>2 DEF Notify
  <2>2. phase # "loading"
    BY <2>1 DEF IInv, Shape, Running
  <2>3. Persistent => NewsPending'
    BY <1>2 DEF Notify, SignalPersistence, NewsPending
  <2> QED  BY <1>0, <2>2, <2>3, NewsKeepsMirrored
<1>3. CASE TakeBatch
  <2>1. wpc = "top" /\ wpc' = "send" /\ UNCHANGED persistWake
    BY <1>3 DEF TakeBatch
  <2>2. Line' = Line
    BY <1>3, LineMoves
  <2> QED  BY <1>0, <2>1, <2>2, SameKeepsMirrored
<1>4. CASE \/ LoopEnds \/ LoopSleeps \/ WakeUp \/ SendReturns \/ BackoffEnds
           \/ DrainDeadline \/ \E o \in Answers : Answer(o)
           \/ Reporter
  <2>1. UNCHANGED <<backlog, inFlight, persistWake>>
    BY <1>4, ReporterOnly DEF LoopEnds, LoopSleeps, WakeUp, SendReturns, BackoffEnds,
       DrainDeadline, Answer, ReporterFrame, LoopFrame, SendFrame, queueVars
  <2>2. \/ wpc' = wpc
        \/ wpc \notin {"notify", "notifyRetry"} /\ wpc' \notin {"notify", "notifyRetry"}
    BY <1>4, ReporterOnly DEF LoopEnds, LoopSleeps, WakeUp, SendReturns, BackoffEnds,
       DrainDeadline, Answer, ReporterFrame, LoopFrame, SendFrame,
       workerVars
  <2>3. Line' = Line
    BY <1>0, <2>1 DEF Line, Queue
  <2> QED  BY <1>0, <2>1, <2>2, <2>3, SameKeepsMirrored
<1> QED  BY <1>1, <1>2, <1>3, <1>4 DEF Worker

\* The token is taken together with the promise to flush.
LEMMA PersisterKeepsMirrored ==
  ASSUME IInv, Mirrored, Persister
  PROVE  Mirrored'
<1>1. /\ UNCHANGED <<backlog, inFlight, unread, phase, wpc, fpc, snap, file, fileStale, signalling>>
      /\ ppc \in {"select", "debounce"} /\ ppc' \in {"debounce", "flush", "last"}
      /\ ppc = "select" => ppc' \in {"debounce", "last"}
  BY DEF Persister, PersisterWakes, DebounceEnds, PersisterStops, PersisterFrame,
     queueVars, callVars, workerVars
<1>2. Line' = Line /\ fpc["persister"] = "idle" /\ phase # "loading"
  BY <1>1 DEF Line, Queue, Mirrored, IInv, Shape, Running
<1>3. ~FileCurrent' /\ \A f \in Flushers : fpc'[f] # "idle" => ~WriteCurrent(f)'
  BY <1>1, <1>2 DEF FileCurrent, WriteCurrent, Flushers
<1>4. Mirrors(Range(Line))'
  BY <1>3 DEF Mirrors
<1> QED  BY <1>1, <1>2, <1>4 DEF Mirrored

\* What dropPersistTrimmed leaves of the trimmed events is in flight.
LEMMA TrimsAll ==
  ASSUME IInv, InOrder(Line), NEW f \in Flushers, FlushTrims(f)
  PROVE  Range(Line') \cap snap[f].trimmed \subseteq Range(inFlight)
<1> USE SequenceTypes
<1>1. fpc[f] = "trim" /\ UNCHANGED <<inFlight, unread>>
  BY DEF FlushTrims, FlushFrame
<1>2. Running
  BY <1>1 DEF IInv, Shape, Flushers
<1>3. Line = inFlight \o backlog /\ unread = <<>>
  BY <1>2, RunningLine DEF Queue
<1>4. PICK n \in 0 .. Len(backlog) : \E k \in 0 .. (Len(backlog) - n) :
        /\ \A i \in DOMAIN backlog :
             backlog[i] \in snap[f].trimmed <=> i \in (n + 1) .. (n + k)
        /\ backlog' = WithoutOldestQueued(backlog, n, k)
  BY DEF FlushTrims
<1>5. PICK k \in 0 .. (Len(backlog) - n) :
        /\ \A i \in DOMAIN backlog :
             backlog[i] \in snap[f].trimmed <=> i \in (n + 1) .. (n + k)
        /\ backlog' = WithoutOldestQueued(backlog, n, k)
  BY <1>4
<1> DEFINE gone == SubSeq(backlog, n + 1, n + k)
<1>6. Range(backlog) \cap snap[f].trimmed \subseteq Range(gone)
  <2> SUFFICES ASSUME NEW i \in DOMAIN backlog, backlog[i] \in snap[f].trimmed
               PROVE  backlog[i] \in Range(gone)
    BY DEF Range
  <2>1. Len(backlog) \in Nat /\ DOMAIN backlog = 1 .. Len(backlog)
    BY LenProperties
  <2>2. i \in (n + 1) .. (n + k)
    BY <1>5
  <2>3. /\ gone \in Seq(Events) /\ Len(gone) = k
        /\ \A h \in 1 .. k : gone[h] = backlog[n + h]
    <3>1. gone \in Seq(Events) /\ Len(gone) = IF n + 1 <= n + k THEN n + k - (n + 1) + 1 ELSE 0
      <4>1. n + 1 \in Nat \ {0} /\ n + k \in Int /\ n + k <= Len(backlog)
        BY <2>1
      <4> QED  BY <4>1, SliceType
    <3>2. Len(gone) = k
      BY <2>1, <3>1
    <3>3. \A h \in 1 .. n + k - (n + 1) + 1 : gone[h] = backlog[n + 1 + h - 1]
      <4>1. \A h \in n + 1 .. n + k : backlog[h] \in Events
        <5>1. \A h \in n + 1 .. n + k : h \in 1 .. Len(backlog)
          BY <2>1
        <5> QED  BY <2>1, <5>1, ElementOfSeq
      <4>2. n + 1 \in Int /\ n + k \in Int
        BY <2>1
      <4> QED  BY <4>1, <4>2, SubSeqProperties
    <3>4. n + k - (n + 1) + 1 = k /\ \A h \in 1 .. k : n + 1 + h - 1 = n + h
      BY <2>1
    <3> QED  BY <3>1, <3>2, <3>3, <3>4
  <2>4. i - n \in 1 .. k /\ n + (i - n) = i
    BY <2>1, <2>2
  <2>5. i - n \in DOMAIN gone /\ gone[i - n] = backlog[i]
    BY <2>1, <2>3, <2>4, LenProperties
  <2> HIDE DEF gone
  <2> QED  BY <2>5 DEF Range
<1> HIDE DEF gone
<1>7. InOrder(backlog)
  BY <1>3, EventsOfConcat
<1>8. Range(backlog) = Range(backlog') \cup Range(gone) /\ Range(backlog') \cap Range(gone) = {}
  BY <1>5, <1>7, WithoutSplits DEF gone
<1>9. backlog' \in Seq(Events)
  BY <1>5, WithoutType
<1>10. Line' = inFlight \o backlog'
  <2>1. inFlight \o backlog' \in Seq(Events)
    BY <1>9, ConcatProperties
  <2> QED  BY <1>1, <1>3, <2>1, ConcatEmptySeq DEF Line, Queue
<1>11. Range(Line') = Range(inFlight) \cup Range(backlog')
  BY <1>9, <1>10, EventsOfConcat
<1> QED  BY <1>6, <1>8, <1>11

\* A flush that copied the queue when there was no news writes the queue of
\* now, and what it left out leaves the queue; a failed one makes the file
\* stale, and so does an event left out of the file that is being sent.
LEMMA FlushKeepsMirrored ==
  ASSUME IInv, DInv, Mirrored, NEW f \in Flushers, Flush(f)
  PROVE  Mirrored'
<1>0. /\ UNCHANGED <<phase, unread, inFlight, persistWake, signalling>>
  BY DEF Flush, FlushSkips, FlushBegins, FlushPublishes, FlushFails, FlushTrims,
     FlushFrame, callVars
<1>1. /\ DOMAIN fpc = Flushers /\ DOMAIN snap = Flushers
      /\ snap \in [Flushers -> [items : Seq(Events), n : Nat, trimmed : SUBSET Events]]
      /\ \A g \in Flushers : fpc[g] # "idle" <=> persistMu = g
      /\ "free" \notin Flushers /\ Flushers = {"worker", "persister"}
  BY DEF IInv, TypeOK, PersistenceTypes, Shape, Flushers
<1>2. phase # "loading" /\ Running
  BY DEF Flush, FlushSkips, FlushBegins, FlushPublishes, FlushFails, FlushTrims,
     WantsFlush, IInv, Shape, Running, Flushers
<1>r. ASSUME FlushReturns(f), persistMu \in {f, "free"}
      PROVE  \A g \in Flushers : fpc'[g] = "idle"
  BY <1>1, <1>r DEF FlushReturns
<1>i. ASSUME \A g \in Flushers : fpc'[g] = "idle",
             Persistent => fileStale' \/ (FileCurrent' => Range(file') = Range(Line'))
      PROVE  Mirrored'
  BY <1>1, <1>i DEF Mirrored, Mirrors
<1>3. CASE FlushSkips(f)
  BY <1>3, <1>r, <1>i DEF FlushSkips, PersistMuFree
<1>4. CASE FlushFails(f)
  <2>1. persistMu = f
    BY <1>1, <1>4 DEF FlushFails
  <2> QED  BY <1>4, <1>r, <1>i, <2>1 DEF FlushFails
<1>5. CASE FlushTrims(f)
  <2>1. persistMu = f /\ fpc[f] = "trim" /\ FlushReturns(f)
    BY <1>1, <1>5 DEF FlushTrims
  <2>2. ASSUME Persistent, ~fileStale', FileCurrent'
        PROVE  Range(file') = Range(Line')
    <3>1. WriteCurrent(f)
      BY <1>0, <1>1, <1>2, <2>1, <2>2 DEF FileCurrent, WriteCurrent, NewsPending,
         FlushReturns, IInv, Shape
    <3>2. Range(file) = Range(Line) \ snap[f].trimmed
      BY <2>1, <2>2, <3>1 DEF Mirrored, Mirrors
    <3>3. InOrder(Line)
      BY DEF DInv, Ordered, Sorted
    <3>4. /\ Range(Line') \subseteq Range(Line)
          /\ Range(Line) \subseteq Range(Line') \cup snap[f].trimmed
          /\ Range(Line') \cap snap[f].trimmed \subseteq Range(inFlight)
      BY <1>5, <3>3, LineTrims, TrimsAll
    <3>5. Range(inFlight) \cap snap[f].trimmed = {}
      BY <1>5, <2>2 DEF FlushTrims
    <3>6. file' = file
      BY <2>1 DEF FlushReturns
    <3> QED  BY <3>2, <3>4, <3>5, <3>6
  <2>3. \A g \in Flushers : fpc'[g] = "idle"
    BY <1>r, <2>1
  <2> QED  BY <1>i, <2>2, <2>3
<1>6. CASE FlushBegins(f)
  <2>1. /\ fpc[f] = "idle" /\ persistMu = "free" /\ UNCHANGED <<backlog, wpc, ppc, file, fileStale>>
        /\ fpc' = [fpc EXCEPT ![f] = "write"] /\ snap' = [snap EXCEPT ![f] = Snapshot]
        /\ WantsFlush(f)
    BY <1>6 DEF FlushBegins, PersistMuFree
  <2>2. Line' = Line /\ Line = Queue
    BY <1>0, <1>2, <2>1, RunningLine DEF Line, Queue
  <2>3. /\ fpc'[f] = "write" /\ snap'[f].items = Line'
        /\ \A g \in Flushers \ {f} : fpc'[g] = "idle"
    BY <1>1, <2>1, <2>2 DEF Snapshot
  <2>4. f = "persister" => ppc' \in {"flush", "last"}
    BY <2>1 DEF WantsFlush
  <2>5. ~FileCurrent'
    BY <1>0, <1>1, <1>2, <2>3, <2>4 DEF FileCurrent
  <2> QED  BY <1>1, <2>3, <2>4, <2>5 DEF Mirrored, Mirrors
<1>7. CASE FlushPublishes(f)
  <2> DEFINE s == snap[f]
             Leave(k) == Range(SubSeq(s.items, s.n + 1, s.n + k))
  <2>1. /\ fpc[f] = "write" /\ UNCHANGED <<backlog, wpc, ppc, fileStale>>
        /\ fpc' = [fpc EXCEPT ![f] = "trim"]
    BY <1>7 DEF FlushPublishes
  <2>2. PICK k \in TrimCounts(s.items, s.n) :
          /\ file' = WithoutOldestQueued(s.items, s.n, k)
          /\ snap' = [snap EXCEPT ![f].trimmed = Leave(k)]
    BY <1>7 DEF FlushPublishes
  <2>3. s.items \in Seq(Events) /\ s.n \in 0 .. Len(s.items) /\ k \in 0 .. (Len(s.items) - s.n)
    BY <1>1, <2>2, LenProperties DEF TrimCounts, IInv, Shape
  <2>4. InOrder(s.items)
    BY DEF DInv, Ordered, Sorted
  <2>5. Range(s.items) = Range(file') \cup Leave(k) /\ Range(file') \cap Leave(k) = {}
    BY <2>2, <2>3, <2>4, WithoutSplits
  <2>6. /\ fpc'[f] = "trim" /\ snap'[f].trimmed = Leave(k)
        /\ \A g \in Flushers \ {f} : fpc'[g] = "idle"
    BY <1>1, <2>1, <2>2
  <2>7. Line' = Line
    BY <1>0, <2>1 DEF Line, Queue
  <2>8. f = "persister" => ppc' \in {"flush", "last"}
    BY <2>1 DEF Mirrored
  <2>9. ~FileCurrent'
    BY <1>0, <1>1, <1>2, <2>6, <2>8 DEF FileCurrent
  <2>10. ASSUME Persistent, WriteCurrent(f)'
         PROVE  Range(file') = Range(Line') \ snap'[f].trimmed
    <3>1. WriteCurrent(f)
      BY <1>0, <2>1, <2>10 DEF WriteCurrent, NewsPending
    <3>2. Range(s.items) = Range(Line)
      BY <2>1, <2>10, <3>1 DEF Mirrored, Mirrors
    <3> HIDE DEF s, Leave
    <3> QED  BY <2>5, <2>6, <2>7, <3>2
  <2> HIDE DEF s, Leave
  <2> QED  BY <1>1, <2>6, <2>8, <2>9, <2>10 DEF Mirrored, Mirrors
<1> QED  BY <1>3, <1>4, <1>5, <1>6, <1>7 DEF Flush

LEMMA LifeKeepsMirrored ==
  ASSUME IInv, Mirrored, Stop \/ ProcessEnds \/ Boot
  PROVE  Mirrored'
<1> USE DEF BootFrame, LoadFrame, callVars
<1>i. ASSUME \A f \in Flushers : fpc'[f] = "idle",
             Persistent => fileStale' \/ (FileCurrent' => Range(file') = Range(Line'))
      PROVE  Mirrored'
  BY <1>i DEF Mirrored, Mirrors, Flushers
<1>1. CASE Stop \/ LoadKeeps
  <2>1. /\ UNCHANGED <<ppc, fpc, snap, file, fileStale, persistWake, signalling, wpc>>
        /\ phase' = "loading" => phase = "loading"
    BY <1>1 DEF Stop, LoadKeeps, workerVars, flushVars
  <2>2. Line' = Line
    BY <1>1, LineMoves DEF Stop, queueVars, Line, Queue
  <2> QED  BY <2>1, <2>2, SameKeepsMirrored
<1>2. CASE ProcessEnds
  <2>1. /\ \A f \in Flushers : fpc'[f] = "idle"
        /\ phase' = "down" /\ ppc' = "off"
    BY <1>2 DEF ProcessEnds
  <2> QED  BY <1>i, <2>1 DEF FileCurrent
<1>3. CASE Boot
  <2>1. ~Running /\ fpc' = fpc
    BY <1>3 DEF Boot, BootReads, BootIgnores, LoadKeeps, LoadDrops, Start, IInv, Shape, Running
  <2>2. \A f \in Flushers : fpc'[f] = "idle"
    BY <2>1 DEF IInv, Shape, Flushers
  <2>3. CASE BootReads
    <3>1. Queue' = <<>>
      <4>1. backlog = <<>> /\ inFlight = <<>> /\ UNCHANGED <<backlog, inFlight>>
        BY <2>1, <2>3, LoadingLine DEF BootReads, IInv, Shape
      <4> QED  BY <4>1, EmptySeq, ConcatEmptySeq DEF Queue
    <3>2. Persistent => Line' = file /\ file' = file
      BY <2>3, <3>1, SequenceTypes, ConcatEmptySeq DEF BootReads, Line
    <3> QED  BY <1>i, <2>2, <3>2
  <2>4. CASE BootIgnores \/ LoadDrops
    BY <1>i, <2>2, <2>4 DEF BootIgnores, LoadDrops
  <2>5. CASE Start
    <3>1. phase = "loading" /\ UNCHANGED <<backlog, inFlight, unread, file, fileStale>>
      BY <2>5 DEF Start
    <3>2. Line' = Line
      BY <3>1 DEF Line, Queue
    <3>3. Persistent => fileStale' \/ Range(file') = Range(Line')
      BY <3>1, <3>2 DEF Mirrored, Mirrors, FileCurrent
    <3> QED  BY <1>i, <2>2, <3>3
  <2> QED  BY <1>1, <1>3, <2>3, <2>4, <2>5 DEF Boot
<1> QED  BY <1>1, <1>2, <1>3

LEMMA StepKeepsMirrored == IInv /\ DInv /\ Mirrored /\ [Next]_vars => Mirrored'
<1> SUFFICES ASSUME IInv, DInv, Mirrored, [Next]_vars PROVE Mirrored'
  OBVIOUS
<1>1. CASE Next
  BY <1>1, CallKeepsMirrored, WorkerKeepsMirrored, PersisterKeepsMirrored,
     FlushKeepsMirrored, LifeKeepsMirrored DEF Next
<1>2. CASE UNCHANGED vars
  <2>1. UNCHANGED <<backlog, inFlight, unread, ppc, fpc, snap, file, fileStale,
                    persistWake, signalling, wpc, phase>>
    BY <1>2 DEF vars, queueVars, callVars, workerVars, healthVars,
       flushVars
  <2>2. Line' = Line
    BY <2>1 DEF Line, Queue
  <2> QED  BY <2>1, <2>2, SameKeepsMirrored
<1> QED  BY <1>1, <1>2

\* When the persistence goroutine has nothing to do, the file holds exactly the
\* events that are queued or in flight, unless the latest flush failed or left
\* out an event in flight: no signal is lost in the single slot of persistWake,
\* and no older copy of the queue replaces a newer one.
THEOREM FileStaysMirror == Spec => []FileMirrorsQueue
<1>1. Init => IInv /\ DInv /\ Mirrored
  BY InitIInv, InitDInv, InitMirrored
<1>2. (IInv /\ DInv /\ Mirrored) /\ [Next]_vars => (IInv /\ DInv /\ Mirrored)'
  BY StepKeepsIInv, StepKeepsDInv, StepKeepsMirrored
<1>3. IInv /\ Mirrored => FileMirrorsQueue
  <2> SUFFICES ASSUME IInv, Mirrored, PersistenceQuiet PROVE Range(file) = Range(Queue)
    BY DEF FileMirrorsQueue
  <2>1. FileCurrent /\ ~fileStale /\ Persistent
    BY DEF PersistenceQuiet, FileCurrent, NewsPending, IInv, TypeOK, CallTypes
  <2>2. Running
    BY DEF PersistenceQuiet, IInv, Shape
  <2> QED  BY <2>1, <2>2, RunningLine DEF Mirrored, Mirrors
<1> QED  BY <1>1, <1>2, <1>3, PTL DEF Spec

-----------------------------------------------------------------------------
(***************************************************************************)
(* The refinement, action by action.                                       *)
(***************************************************************************)

LEMMA InitRefines == Init => Promise!Init
<1> QED  BY DEF Init, Promise!Init, Running, Verdict

\* Nothing that Delivery sees changes.
LEMMA Stutters ==
  ASSUME UNCHANGED <<backlog, inFlight, owed, dropped, attempt>>,
         Running' = Running,
         wpc' = "settle" <=> wpc = "settle", wpc = "settle" => outcome' = outcome
  PROVE  UNCHANGED Promise!vars
<1>1. Verdict' = Verdict
  BY DEF Verdict, RetriesExhausted
<1> QED  BY <1>1 DEF Promise!vars

LEMMA CallRefines ==
  ASSUME IInv, Offer \/ Admit \/ Refuse \/ Signal
  PROVE  [Promise!Next]_(Promise!vars)
<1>0. /\ UNCHANGED <<inFlight, owed, attempt, wpc, outcome>> /\ Running /\ Running'
      /\ Verdict' = Verdict
  <2>1. UNCHANGED <<inFlight, owed, attempt, wpc, outcome, phase>>
    BY DEF Offer, Admit, Refuse, Signal, CallFrame, workerVars
  <2>2. Running
    BY DEF Offer, Admit, Refuse, Signal, IInv, TypeOK, CallTypes, Shape
  <2> QED  BY <2>1, <2>2 DEF Running, Verdict, RetriesExhausted
<1>1. CASE Admit
  <2>1. admitted + 1 \in Events
    BY <1>1, Bounds DEF Admit, IInv, TypeOK, CallTypes, Shape, Events
  <2>2. Promise!Admit(admitted + 1)
    BY <1>0, <1>1 DEF Admit, Promise!Admit
  <2> QED  BY <2>1, <2>2 DEF Promise!Next
<1>2. CASE Refuse \/ (Offer /\ dropNew)
  <2>1. UNCHANGED backlog /\ dropped' = dropped + 1
    BY <1>2 DEF Refuse, Offer
  <2>2. Promise!Refuse
    BY <1>0, <2>1 DEF Promise!Refuse
  <2> QED  BY <2>2 DEF Promise!Next
<1>3. CASE Signal \/ (Offer /\ ~dropNew)
  <2>1. UNCHANGED <<backlog, dropped>>
    BY <1>3 DEF Signal, Offer
  <2> QED  BY <1>0, <2>1, Stutters
<1> QED  BY <1>1, <1>2, <1>3

\* A batch is taken only when none is under way, and it is settled, given up
\* or put back according to its answer.
LEMMA WorkerRefines ==
  ASSUME IInv, Worker \/ DrainDeadline \/ Reporter
  PROVE  [Promise!Next]_(Promise!vars)
<1>0. phase' = phase /\ Running' = Running
  <2>1. phase' = phase
    BY ReporterOnly DEF Worker, LoopEnds, LoopSleeps, WakeUp, TakeBatch, Answer, SendReturns, Settled,
       Discarded, Requeued, Notify, BackoffEnds, DrainDeadline, ReporterFrame,
       LoopFrame, SendFrame, SettleFrame, WorkerFrame
  <2> QED  BY <2>1 DEF Running
<1>1. CASE TakeBatch
  <2>1. /\ wpc = "top" /\ wpc' = "send" /\ UNCHANGED <<owed, dropped>>
        /\ inFlight' = SubSeq(backlog, 1, BatchSize)
        /\ backlog' = SubSeq(backlog, BatchSize + 1, Len(backlog))
    BY <1>1 DEF TakeBatch, LoopFrame
  <2>2. BatchSize \in 1 .. Len(backlog)
    BY <1>1, BatchSizeBounds DEF TakeBatch, IInv
  <2>3. inFlight = <<>> /\ Running
    BY <2>1 DEF IInv, Shape, Sending
  <2>4. Verdict = "none" /\ Verdict' = "none"
    BY <2>1 DEF Verdict
  <2>5. Promise!Transmit
    BY <1>0, <2>1, <2>2, <2>3, <2>4 DEF Promise!Transmit
  <2> QED  BY <2>5 DEF Promise!Next
<1>2. CASE SendReturns
  <2>1. /\ wpc = "answered" /\ wpc' = "settle"
        /\ UNCHANGED <<backlog, inFlight, owed, dropped, attempt, outcome>>
    BY <1>2 DEF SendReturns, SendFrame, queueVars
  <2>2. inFlight # <<>>
    BY <2>1 DEF IInv, Shape, Sending
  <2>3. Verdict = "none" /\ Verdict' \in {"accepted", "hopeless", "unclear"}
    BY <2>1 DEF Verdict
  <2>4. Promise!Answered
    BY <1>0, <2>1, <2>2, <2>3 DEF Promise!Answered
  <2> QED  BY <2>4 DEF Promise!Next
<1>3. CASE Settled \/ Discarded \/ Requeued
  <2>1. wpc = "settle" /\ wpc' # "settle" /\ inFlight' = <<>> /\ Running
    BY <1>3 DEF Settled, Discarded, Requeued, ReleaseInFlight, RequeueBatch, IInv, Shape
  <2>2. Verdict' = "none"
    BY <2>1 DEF Verdict
  <2>3. CASE Settled
    <3>1. Verdict = "accepted"
      BY <2>1, <2>3 DEF Verdict, Settled
    <3>2. Promise!Settle
      BY <1>0, <2>1, <2>2, <2>3, <3>1 DEF Settled, ReleaseInFlight, Promise!Settle, Promise!Range, Range
    <3> QED  BY <3>2 DEF Promise!Next
  <2>4. CASE Discarded
    <3>1. Verdict = "hopeless"
      BY <2>1, <2>4 DEF Verdict, Discarded
    <3>2. Promise!Settle
      BY <1>0, <2>1, <2>2, <2>4, <3>1 DEF Discarded, ReleaseInFlight, Promise!Settle, Promise!Range, Range
    <3> QED  BY <3>2 DEF Promise!Next
  <2>5. CASE Requeued
    <3>1. Verdict = "unclear"
      BY <2>1, <2>5 DEF Verdict, Requeued
    <3>2. Promise!Retry
      BY <1>0, <2>1, <2>2, <2>5, <3>1 DEF Requeued, RequeueBatch, Promise!Retry
    <3> QED  BY <3>2 DEF Promise!Next
  <2> QED  BY <1>3, <2>3, <2>4, <2>5
<1>4. CASE LoopEnds \/ LoopSleeps \/ WakeUp \/ Notify \/ BackoffEnds \/ DrainDeadline
  <2>1. UNCHANGED <<backlog, inFlight, owed, dropped, attempt, outcome>>
    BY <1>4 DEF LoopEnds, LoopSleeps, WakeUp, Notify, BackoffEnds, DrainDeadline, LoopFrame
  <2>2. wpc' = "settle" <=> wpc = "settle"
    BY <1>4 DEF LoopEnds, LoopSleeps, WakeUp, Notify, BackoffEnds, DrainDeadline
  <2> QED  BY <1>0, <2>1, <2>2, Stutters
<1>5. CASE (\E o \in Answers : Answer(o)) \/ Reporter
  <2>1. UNCHANGED <<backlog, inFlight, owed, dropped, attempt>>
    BY <1>5, ReporterOnly DEF Answer, ReporterFrame, SendFrame, queueVars, workerVars
  <2>2. /\ wpc' = "settle" <=> wpc = "settle"
        /\ wpc = "settle" => outcome' = outcome
    BY <1>5, ReporterOnly DEF Answer, ReporterFrame, workerVars
  <2> QED  BY <1>0, <2>1, <2>2, Stutters
<1> QED  BY <1>1, <1>2, <1>3, <1>4, <1>5 DEF Worker

LEMMA PersisterRefines ==
  ASSUME Persister
  PROVE  [Promise!Next]_(Promise!vars)
<1>1. UNCHANGED <<backlog, inFlight, owed, dropped, attempt, wpc, outcome, phase>>
  BY DEF Persister, PersisterWakes, DebounceEnds, PersisterStops, PersisterFrame,
     queueVars, workerVars
<1> QED  BY <1>1, Stutters DEF Running

\* Publishing a file keeps events that are in hand, and a trim sheds a run of
\* the backlog.
LEMMA FlushRefines ==
  ASSUME IInv, NEW f \in Flushers, Flush(f)
  PROVE  [Promise!Next]_(Promise!vars)
<1>0. /\ UNCHANGED <<phase, inFlight, attempt, outcome>> /\ Running' = Running
      /\ wpc' = "settle" <=> wpc = "settle"
      /\ Verdict' = Verdict
  <2>1. UNCHANGED <<phase, inFlight, attempt, outcome>>
    BY DEF Flush, FlushSkips, FlushBegins, FlushPublishes, FlushFails, FlushTrims, FlushFrame
  <2>2. wpc' = wpc \/ (wpc = "flush" /\ wpc' = "done")
    <3>1. CASE f = "worker"
      <4>1. WantsFlush(f) => wpc = "flush"
        BY <3>1 DEF WantsFlush
      <4>2. fpc[f] # "idle" => wpc = "flush"
        BY <3>1 DEF IInv, Shape
      <4> QED  BY <3>1, <4>1, <4>2 DEF Flush, FlushSkips, FlushBegins, FlushPublishes,
               FlushFails, FlushTrims, FlushReturns
    <3>2. CASE f # "worker"
      BY <3>2 DEF Flush, FlushSkips, FlushBegins, FlushPublishes, FlushFails, FlushTrims,
         FlushReturns
    <3> QED  BY <3>1, <3>2
  <2> QED  BY <2>1, <2>2 DEF Running, Verdict, RetriesExhausted
<1>1. CASE FlushSkips(f) \/ FlushBegins(f) \/ FlushFails(f)
  <2>1. UNCHANGED <<backlog, owed, dropped>>
    BY <1>1 DEF FlushSkips, FlushBegins, FlushFails
  <2> QED  BY <1>0, <2>1, Stutters
<1>2. Running \/ FlushSkips(f) \/ FlushBegins(f)
  <2>1. fpc[f] # "idle" => Running
    BY DEF IInv, Shape, Flushers
  <2> QED  BY <2>1 DEF Flush, FlushPublishes, FlushFails, FlushTrims
<1>3. CASE FlushPublishes(f)
  <2> DEFINE s == snap[f]
             Leave(k) == Range(SubSeq(s.items, s.n + 1, s.n + k))
  <2>1. PICK k \in TrimCounts(s.items, s.n) :
          owed' = (owed \ Leave(k)) \cup (Range(file') \cap Range(Queue))
    BY <1>3 DEF FlushPublishes
  <2>2. UNCHANGED <<backlog, dropped>> /\ fpc[f] = "write"
    BY <1>3 DEF FlushPublishes
  <2>3. Running
    BY <2>2 DEF IInv, Shape, Flushers
  <2>4. Range(Queue) = Range(inFlight) \cup Range(backlog)
    BY SequenceTypes, EventsOfConcat DEF Queue
  <2>5. Leave(k) \subseteq Events
    <3>1. s.items \in Seq(Events) /\ s.n \in Nat /\ Len(s.items) \in Nat
      BY SequenceTypes, LenProperties DEF IInv, TypeOK, PersistenceTypes
    <3>2. k \in 0 .. (Len(s.items) - s.n)
      BY <2>1 DEF TrimCounts
    <3>3. SubSeq(s.items, s.n + 1, s.n + k) \in Seq(Events)
      BY <3>1, <3>2, SliceType
    <3> QED  BY <3>3, RangeOfSeq
  <2> HIDE DEF Leave
  <2>6. Promise!Keep
    <3> DEFINE new == Range(file') \cap Range(Queue)
    <3>1. /\ new \in SUBSET (Range(inFlight) \cup Range(backlog))
          /\ Leave(k) \in SUBSET Events /\ owed' = (owed \ Leave(k)) \cup new
      BY <2>1, <2>4, <2>5
    <3> QED  BY <1>0, <2>2, <2>3, <3>1 DEF Promise!Keep, Promise!Range, Range
  <2> QED  BY <2>6 DEF Promise!Next
<1>4. CASE FlushTrims(f)
  <2>1. PICK n \in 0 .. Len(backlog) : \E k \in 0 .. (Len(backlog) - n) :
          backlog' = WithoutOldestQueued(backlog, n, k) /\ dropped' = dropped + k
    BY <1>4 DEF FlushTrims
  <2>2. Running /\ owed' = owed
    BY <1>4 DEF FlushTrims, IInv, Shape, Flushers
  <2>3. Promise!Shed
    BY <1>0, <2>1, <2>2 DEF Promise!Shed, WithoutOldestQueued
  <2> QED  BY <2>3 DEF Promise!Next
<1> QED  BY <1>1, <1>3, <1>4 DEF Flush

\* A process starts with everything that was kept, because nothing that is
\* owed is missing from the file it reads.
LEMMA LifeRefines ==
  ASSUME IInv, DInv, Stop \/ ProcessEnds \/ Boot
  PROVE  [Promise!Next]_(Promise!vars)
<1> USE DEF BootFrame, LoadFrame
<1>1. CASE Stop
  <2>1. UNCHANGED <<backlog, inFlight, owed, dropped, attempt, wpc, outcome>> /\ Running' = Running
    BY <1>1 DEF Stop, queueVars, workerVars, Running
  <2> QED  BY <2>1, Stutters
<1>2. CASE ProcessEnds
  <2>1. ~Running' /\ Verdict' = "none"
    BY <1>2 DEF ProcessEnds, Running, Verdict
  <2>2. Promise!Ends
    BY <1>2, <2>1 DEF ProcessEnds, Promise!Ends
  <2> QED  BY <2>2 DEF Promise!Next
<1>3. ASSUME Boot
      PROVE  /\ ~Running /\ wpc = "off" /\ Verdict = "none" /\ Verdict' = "none"
             /\ inFlight' = inFlight /\ inFlight = <<>>
  <2>1. ~Running
    BY <1>3 DEF Boot, BootReads, BootIgnores, LoadKeeps, LoadDrops, Start, IInv, Shape, Running
  <2>2. wpc = "off" /\ inFlight = <<>>
    BY <2>1, LoadingLine DEF IInv, Shape
  <2>3. wpc' # "settle" /\ inFlight' = inFlight
    BY <1>3, <2>2 DEF Boot, BootReads, BootIgnores, LoadKeeps, LoadDrops, Start
  <2> QED  BY <2>1, <2>2, <2>3 DEF Verdict
<1>4. CASE BootReads
  <2>1. /\ UNCHANGED <<backlog, inFlight, owed, dropped, attempt, wpc>>
        /\ Running' = Running
    BY <1>4 DEF BootReads, Running
  <2>2. wpc = "off"
    BY <1>3, <1>4 DEF Boot
  <2> QED  BY <2>1, <2>2, Stutters
<1>5. CASE BootIgnores
  <2>1. Running' = Running /\ owed' = {} /\ UNCHANGED <<backlog, dropped>>
    BY <1>5 DEF BootIgnores, Running
  <2>2. Promise!RecoverLess
    BY <1>3, <1>5, <2>1 DEF Boot, Promise!RecoverLess
  <2> QED  BY <2>2 DEF Promise!Next
<1>6. CASE LoadKeeps
  <2>1. /\ Running' = Running /\ UNCHANGED <<owed, dropped>>
        /\ backlog' = Append(backlog, Head(unread)) /\ unread # <<>>
    BY <1>6 DEF LoadKeeps, Running
  <2>2. Head(unread) \in Events
    BY <2>1, SequenceTypes, HeadTailProperties
  <2>3. Promise!Recover(Head(unread))
    BY <1>3, <1>6, <2>1 DEF Boot, Promise!Recover
  <2> QED  BY <2>2, <2>3 DEF Promise!Next
<1>7. CASE LoadDrops
  <2>1. /\ Running' = Running /\ UNCHANGED backlog
        /\ owed' = owed \ {Head(unread)} /\ dropped' = dropped + 1
    BY <1>7 DEF LoadDrops, Running
  <2>2. Promise!RecoverLess
    BY <1>3, <1>7, <2>1 DEF Boot, Promise!RecoverLess
  <2> QED  BY <2>2 DEF Promise!Next
<1>8. CASE Start
  <2>1. /\ phase = "loading" /\ unread = <<>> /\ Running'
        /\ UNCHANGED <<backlog, owed, dropped>>
    BY <1>8 DEF Start, Running
  <2>2. Line = backlog
    <3>1. Queue = backlog
      BY <1>3, <1>8, LoadingLine DEF Boot
    <3> QED  BY <2>1, <3>1, SequenceTypes, ConcatEmptySeq DEF Line
  <2>3. owed \subseteq Range(backlog)
    BY <2>1, <2>2 DEF DInv, Care
  <2>4. Promise!Starts
    BY <1>3, <1>8, <2>1, <2>3 DEF Boot, Promise!Starts, Promise!Range, Range
  <2> QED  BY <2>4 DEF Promise!Next
<1> QED  BY <1>1, <1>2, <1>4, <1>5, <1>6, <1>7, <1>8 DEF Boot

LEMMA StepRefines ==
  ASSUME IInv, DInv, [Next]_vars
  PROVE  [Promise!Next]_(Promise!vars)
<1>1. CASE Next
  BY <1>1, CallRefines, WorkerRefines, PersisterRefines, FlushRefines, LifeRefines DEF Next
<1>2. CASE UNCHANGED vars
  <2>1. UNCHANGED <<backlog, inFlight, owed, dropped, attempt, wpc, outcome, phase>>
    BY <1>2 DEF vars, queueVars, workerVars
  <2> QED  BY <2>1, Stutters DEF Running
<1> QED  BY <1>1, <1>2

\* The forwarder delivers at least once and in order (see Delivery), whatever
\* the interleaving of handlers, worker and flushers, the answers, and the
\* crashes and restarts.
THEOREM ForwarderDelivers == Spec => DeliversAtLeastOnce
<1>1. IInv /\ DInv /\ [Next]_vars => [Promise!Next]_(Promise!vars)
  BY StepRefines
<1> QED  BY <1>1, InitRefines, DInvAlways, PTL DEF Spec, DeliversAtLeastOnce, Promise!Spec
=============================================================================
