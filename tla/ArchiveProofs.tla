---------------------------- MODULE ArchiveProofs ----------------------------
(***************************************************************************)
(* Proofs about the archive for every capacity, mark, chunk size and       *)
(* number of events, and about the history for every retention, window,    *)
(* page and number of rows.                                                *)
(*                                                                         *)
(* What makes the final flush complete is spread over three goroutines:    *)
(* who holds archiveMu owns the chunk, the servers stop only when no call  *)
(* is left, and nothing can be restored once the queue was found empty     *)
(* with no chunk outside it (Shape).                                       *)
(***************************************************************************)
EXTENDS Archive, History, CommonLemmas

Shape ==
  /\ begun = queued + calling
  /\ claimed # <<>> => archiveMu \in Archivers
  /\ archiveMu = "main" => Flushing
  /\ archiveMu = "archiver" => apc = "step"
  /\ stopped => calling = 0 /\ Cancelled
  /\ phase \in {"flush2", "closing", "closed"} /\ ~late => stopped
  /\ phase \in {"closing", "closed"} /\ ~late /\ ~gaveUp
       => pending = <<>> /\ claimed = <<>>

IInv == TypeOK /\ Shape /\ EventsAccounted /\ NoLostArchiveWake

-----------------------------------------------------------------------------
\* The initial state has nothing to account for.
LEMMA InitIInv == Init => IInv
<1> SUFFICES ASSUME Init PROVE IInv
  OBVIOUS
<1> USE LimitAssumption DEF Init
<1>1. pending \in Seq(Nat) /\ Len(pending) = 0 /\ claimed \in Seq(Nat) /\ Len(claimed) = 0
  BY EmptySeq
<1>2. TypeOK
  <2>1. Len(pending) <= Limit /\ Len(claimed) <= WriteBatch /\ again \in 0 .. MaxAgain
    BY <1>1
  <2> QED  BY <1>1, <2>1 DEF TypeOK
<1>3. Shape
  BY DEF Shape, Flushing, Cancelled
<1>4. EventsAccounted /\ NoLostArchiveWake
  BY <1>1 DEF EventsAccounted, NoLostArchiveWake
<1> QED  BY <1>2, <1>3, <1>4 DEF IInv

\* AddEvent keeps the queue within its limit and counts what it loses.
LEMMA AddKeepsIInv ==
  ASSUME IInv, AddQueues
  PROVE  IInv'
<1> USE LimitAssumption DEF IInv, TypeOK, Shape
<1> DEFINE base == IF Len(pending) >= Limit THEN Tail(pending) ELSE pending
           lost == IF Len(pending) >= Limit THEN 1 ELSE 0
<1>1. Len(pending) \in Nat
  BY LenProperties
<1>2. base \in Seq(Nat) /\ Len(base) = Len(pending) - lost /\ Len(base) < Limit
  <2>1. CASE Len(pending) >= Limit
    <3>1. pending # <<>>
      BY <2>1, EmptySeq
    <3> QED  BY <1>1, <2>1, <3>1, HeadTailProperties
  <2>2. CASE ~(Len(pending) >= Limit)
    BY <1>1, <2>2
  <2> QED  BY <2>1, <2>2
<1>3. pending' = Append(base, queued + 1) /\ dropped' = dropped + lost
  BY DEF AddQueues, MakeRoom
<1>4. pending' \in Seq(Nat) /\ Len(pending') = Len(base) + 1
  <2> HIDE DEF base
  <2> QED  BY <1>2, <1>3, AppendProperties
<1> HIDE DEF base, lost
<1>5. lost \in {0, 1}
  BY DEF lost
<1>6. TypeOK'
  BY <1>2, <1>3, <1>4, <1>5
     DEF AddQueues, SignalArchiver, stepVars, databaseVars, shutdownVars
<1>7. EventsAccounted'
  <2>1. Len(claimed) \in Nat
    BY LenProperties
  <2> QED
    BY <1>1, <1>2, <1>3, <1>4, <1>5, <2>1
       DEF EventsAccounted, AddQueues, stepVars, databaseVars
<1>8. Shape'
  <2>1. ~stopped
    BY DEF AddQueues
  <2> QED
    BY <2>1 DEF AddQueues, stepVars, databaseVars, shutdownVars, Cancelled, Flushing
<1>9. NoLostArchiveWake'
  BY <1>4 DEF AddQueues, SignalArchiver, NoLostArchiveWake
<1> QED  BY <1>6, <1>7, <1>8, <1>9

\* Claiming moves the front of the queue into the chunk.
LEMMA ClaimKeepsIInv ==
  ASSUME IInv, NEW f \in Archivers, Claim(f)
  PROVE  IInv'
<1> USE LimitAssumption DEF IInv, TypeOK, Shape
<1>1. Len(pending) \in Nat /\ Len(pending) >= 1
  BY LenProperties, EmptySeq DEF Claim
<1>2. ChunkSize \in 1 .. Len(pending) /\ ChunkSize <= WriteBatch
  <2>1. PICK len \in Int : len = Len(pending)
    BY <1>1
  <2>2. Min({len, WriteBatch}) \in {len, WriteBatch} /\ Min({len, WriteBatch}) <= len
        /\ Min({len, WriteBatch}) <= WriteBatch
    <3> WriteBatch \in Int  OBVIOUS
    <3> QED  BY MinOfTwo
  <2> QED  BY <1>1, <2>1, <2>2 DEF ChunkSize
<1>3. claimed' \in Seq(Nat) /\ Len(claimed') = ChunkSize
  BY <1>1, <1>2, SliceType DEF Claim
<1>4. pending' \in Seq(Nat) /\ Len(pending') = Len(pending) - ChunkSize
  BY <1>1, <1>2, SliceType DEF Claim
<1>5. UNCHANGED <<callVars, phase, late, gaveUp, queued, dropped, ready, archiveMu,
                  apc, mpc, databaseVars>>
  BY DEF Claim, StepFrame
<1>6. Len(claimed) = 0
  BY EmptySeq DEF Claim
<1>7. TypeOK'
  BY <1>1, <1>2, <1>3, <1>4, <1>5 DEF callVars, databaseVars
<1>8. EventsAccounted'
  BY <1>1, <1>2, <1>3, <1>4, <1>5, <1>6 DEF EventsAccounted, databaseVars
<1>9. Shape'
  BY <1>5 DEF Claim, callVars, Flushing, Cancelled
<1>10. NoLostArchiveWake'
  BY <1>1, <1>2, <1>4, <1>5 DEF NoLostArchiveWake, Cancelled
<1> QED  BY <1>7, <1>8, <1>9, <1>10

\* A chunk that comes back leaves the queue within its limit.
LEMMA FailureKeepsIInv ==
  ASSUME IInv, NEW f \in Archivers, InsertFails(f)
  PROVE  IInv'
<1> USE LimitAssumption DEF IInv, TypeOK, Shape
<1> DEFINE combined == claimed \o pending
           excess   == Max({0, Len(combined) - Limit})
<1>1. /\ Len(pending) \in Nat /\ Len(claimed) \in Nat
      /\ combined \in Seq(Nat) /\ Len(combined) = Len(claimed) + Len(pending)
  BY LenProperties, ConcatProperties
<1>2. excess \in 0 .. Len(combined) /\ Len(combined) - excess <= Limit
  <2>1. PICK over \in Int : over = Len(combined) - Limit
    <3> HIDE DEF combined
    <3> Len(combined) - Limit \in Int  BY <1>1
    <3> QED  OBVIOUS
  <2>2. Max({0, over}) \in {0, over} /\ Max({0, over}) >= 0 /\ Max({0, over}) >= over
    <3> 0 \in Int  OBVIOUS
    <3> QED  BY MaxOfTwo
  <2> QED  BY <1>1, <2>1, <2>2
<1>3. pending' = SubSeq(combined, excess + 1, Len(combined)) /\ dropped' = dropped + excess
  BY DEF InsertFails, Restore
<1>4. pending' \in Seq(Nat) /\ Len(pending') = Len(combined) - excess
  <2> HIDE DEF combined, excess
  <2>1. excess + 1 \in Nat \ {0} /\ Len(combined) \in Int
    BY <1>1, <1>2
  <2>2. /\ SubSeq(combined, excess + 1, Len(combined)) \in Seq(Nat)
        /\ Len(SubSeq(combined, excess + 1, Len(combined)))
             = IF excess + 1 <= Len(combined) THEN Len(combined) - (excess + 1) + 1 ELSE 0
    <3>1. PICK a \in Nat \ {0} : a = excess + 1
      BY <2>1
    <3>2. PICK b \in Int : b = Len(combined)
      BY <2>1
    <3>3. b <= Len(combined)
      BY <3>2
    <3>4. combined \in Seq(Nat)
      BY <1>1
    <3> QED  BY <3>1, <3>2, <3>3, <3>4, SliceType
  <2> HIDE DEF IInv, TypeOK, Shape
  <2>3. Len(combined) \in Nat /\ excess \in Nat /\ excess <= Len(combined)
    BY <1>1, <1>2
  <2>4. Len(pending') = IF excess + 1 <= Len(combined)
                          THEN Len(combined) - (excess + 1) + 1 ELSE 0
    BY <1>3, <2>2
  <2>5. pending' \in Seq(Nat)
    BY <1>3, <2>2
  <2> QED  BY <2>3, <2>4, <2>5
<1> HIDE DEF combined, excess
<1>5. UNCHANGED <<callVars, phase, late, gaveUp, queued, ready>> /\ claimed' = <<>>
  BY DEF InsertFails, StepFrame
<1>6. PICK added \in {0, Len(claimed)} :
        again + added <= MaxAgain /\ inserted' = inserted + added /\ again' = again + added
  BY DEF InsertFails
<1>7. claimed' \in Seq(Nat) /\ Len(claimed') = 0
  BY <1>5, EmptySeq
<1>8. /\ archiveMu' = "free"
      /\ IF f = "archiver" THEN apc' = "backoff" /\ UNCHANGED mpc
                           ELSE mpc' = "backoff" /\ UNCHANGED apc
  BY DEF InsertFails
<1>9. added \in Nat /\ inserted' \in Nat /\ again' \in 0 .. MaxAgain /\ dropped' \in Nat
  <2>1. inserted \in Nat /\ again \in Nat /\ dropped \in Nat /\ MaxAgain \in Nat
    OBVIOUS
  <2> HIDE DEF IInv, TypeOK, Shape
  <2>2. added \in Nat /\ excess \in Nat
    BY <1>1, <1>2, <1>6
  <2> QED  BY <1>3, <1>6, <2>1, <2>2
<1>10. TypeOK'
  <2>1. Len(pending') <= Limit /\ Len(claimed') <= WriteBatch
    BY <1>1, <1>2, <1>4, <1>7
  <2> QED  BY <1>4, <1>5, <1>7, <1>8, <1>9, <2>1 DEF callVars
<1>11. EventsAccounted'
  <2>1. /\ inserted' = inserted + added /\ again' = again + added
        /\ dropped' = dropped + excess /\ queued' = queued
        /\ Len(pending') + Len(claimed') = Len(claimed) + Len(pending) - excess
    BY <1>1, <1>2, <1>3, <1>4, <1>5, <1>6, <1>7
  <2> HIDE DEF IInv, TypeOK, Shape
  <2>2. /\ inserted \in Nat /\ again \in Nat /\ dropped \in Nat /\ queued \in Nat
        /\ excess \in Nat /\ Len(pending) \in Nat /\ Len(claimed) \in Nat
        /\ Len(pending') \in Nat /\ Len(claimed') \in Nat
    BY <1>1, <1>2, <1>4, <1>7 DEF IInv, TypeOK
  <2>3. queued + again = Len(pending) + Len(claimed) + inserted + dropped
    BY DEF IInv, EventsAccounted
  <2>4. queued' + again' = Len(pending') + Len(claimed') + inserted' + dropped'
    BY <1>9, <2>1, <2>2, <2>3
  <2> QED  BY <2>4 DEF EventsAccounted
<1>12. Shape'
  BY <1>5, <1>8 DEF InsertFails, callVars, Flushing, Cancelled, Archivers
<1>13. NoLostArchiveWake'
  <2>1. CASE f = "archiver"
    BY <1>8, <2>1 DEF NoLostArchiveWake
  <2>2. CASE f = "main"
    BY <1>5, <2>2 DEF InsertFails, NoLostArchiveWake, Cancelled, Flushing
  <2> QED  BY <2>1, <2>2 DEF Archivers
<1> QED  BY <1>10, <1>11, <1>12, <1>13

\* The remaining steps of archiveStep.
LEMMA StepKeepsIInv ==
  ASSUME IInv, NEW f \in Archivers, Step(f)
  PROVE  IInv'
<1> USE LimitAssumption
    DEF IInv, TypeOK, Shape, EventsAccounted, NoLostArchiveWake, Cancelled, Flushing,
        callVars, queueVars, databaseVars, StepFrame
<1>0. Len(pending) \in Nat /\ Len(claimed) \in Nat /\ Len(<<>>) = 0 /\ <<>> \in Seq(Nat)
  BY LenProperties, EmptySeq
<1>1. CASE StepBegins(f)
  BY <1>1 DEF StepBegins, Wants, Archivers
<1>2. CASE Claim(f)
  BY <1>2, ClaimKeepsIInv
<1>3. CASE InsertCommits(f)
  <2>1. claimed' \in Seq(Nat) /\ Len(claimed') = 0 /\ inserted' = inserted + Len(claimed)
    BY <1>0, <1>3 DEF InsertCommits
  <2> QED  BY <1>0, <1>3, <2>1 DEF InsertCommits, Archivers
<1>4. CASE InsertFails(f)
  BY <1>4, FailureKeepsIInv
<1>5. CASE StepEnds(f)
  <2>1. CASE f = "archiver"
    BY <1>0, <1>5, <2>1 DEF StepEnds
  <2>2. CASE f = "main"
    BY <1>0, <1>5, <2>2 DEF StepEnds, FlushReturns
  <2> QED  BY <2>1, <2>2 DEF Archivers
<1> QED  BY <1>1, <1>2, <1>3, <1>4, <1>5 DEF Step

\* Every step of the archive keeps the invariant.
LEMMA NextKeepsIInv == IInv /\ [Next]_vars => IInv'
<1> SUFFICES ASSUME IInv, [Next]_vars PROVE IInv'
  OBVIOUS
<1> USE LimitAssumption
    DEF IInv, TypeOK, Shape, EventsAccounted, NoLostArchiveWake, Cancelled, Flushing
<1>1. CASE AddBegins
  BY <1>1 DEF AddBegins, queueVars, stepVars, databaseVars, shutdownVars
<1>2. CASE AddQueues
  BY <1>2, AddKeepsIInv
<1>3. CASE \E f \in Archivers : Step(f)
  BY <1>3, StepKeepsIInv
<1>4. CASE Archiver
  <2>1. CASE StepFindsClosed
    BY <2>1 DEF StepFindsClosed, StepFrame, callVars, queueVars, databaseVars
  <2> USE DEF ArchiverFrame, callVars, databaseVars, shutdownVars
  <2>2. CASE ArchiverWakes
    BY <2>2 DEF ArchiverWakes
  <2>3. CASE ArchiverRetries
    BY <2>3 DEF ArchiverRetries
  <2>4. CASE ArchiverStops
    BY <2>4 DEF ArchiverStops
  <2> QED  BY <1>4, <2>1, <2>2, <2>3, <2>4 DEF Archiver
<1>5. CASE Shutdown \/ FlushRetries \/ ServersStop \/ Close
  <2> USE DEF MainFrame, queueVars, databaseVars, shutdownVars
  <2>1. CASE Shutdown
    BY <2>1 DEF Shutdown
  <2>2. CASE FlushRetries
    BY <2>2 DEF FlushRetries
  <2>3. CASE ServersStop
    BY <2>3 DEF ServersStop
  <2>4. CASE Close
    BY <2>4 DEF Close
  <2> QED  BY <1>5, <2>1, <2>2, <2>3, <2>4
<1>6. CASE FlushGivesUp
  BY <1>6 DEF FlushGivesUp, FlushReturns, MainFrame, queueVars, databaseVars, Archivers
<1>7. CASE WaitEnds
  BY <1>7 DEF WaitEnds, ServersAwaited, MainFrame, queueVars, databaseVars
<1>8. CASE UNCHANGED vars
  BY <1>8 DEF vars, callVars, queueVars, stepVars, databaseVars, shutdownVars
<1> QED  BY <1>1, <1>2, <1>3, <1>4, <1>5, <1>6, <1>7, <1>8 DEF Next

-----------------------------------------------------------------------------
\* The invariant holds in every reachable state.
LEMMA Invariance == Spec => []IInv
<1> QED  BY InitIInv, NextKeepsIInv, PTL DEF Spec

\* archiveLimit bounds the queue and archiveBatch the chunk, whatever fails.
THEOREM ArchiveTypeCorrect == Spec => []TypeOK
<1>1. IInv => TypeOK
  BY DEF IInv
<1> QED  BY <1>1, Invariance, PTL

\* Every queued event is waiting, claimed, a row or a counted drop.
THEOREM ArchiveAccounted == Spec => []EventsAccounted
<1>1. IInv => EventsAccounted
  BY DEF IInv
<1> QED  BY <1>1, Invariance, PTL

\* A queue at its mark always has a token for the sleeping archiver.
THEOREM ArchiveWakeNeverLost == Spec => []NoLostArchiveWake
<1>1. IInv => NoLostArchiveWake
  BY DEF IInv
<1> QED  BY <1>1, Invariance, PTL

\* The final flush of an orderly shutdown leaves nothing behind.
THEOREM ShutdownLosesNothing == Spec => []ShutdownDurable
<1>1. IInv => ShutdownDurable
  <2> SUFFICES ASSUME IInv, phase \in {"closing", "closed"}, ~late, ~gaveUp
               PROVE  begun + again = inserted + dropped
    BY DEF ShutdownDurable
  <2>1. Len(pending) = 0 /\ Len(claimed) = 0 /\ calling = 0
    BY EmptySeq DEF IInv, Shape
  <2> QED  BY <2>1 DEF IInv, Shape, EventsAccounted, TypeOK
<1> QED  BY <1>1, Invariance, PTL

-----------------------------------------------------------------------------
(***************************************************************************)
(* History: the hourly totals.  They are right from the migration on,      *)
(* whether the store is open or not; a pass that may still prune has a     *)
(* time not before that of the last retention.                             *)
(***************************************************************************)

Ticks == 0 .. MaxHistoryClock

RowTypes ==
  /\ clock \in Ticks /\ lastId \in Nat /\ IsFiniteSet(rows)
  /\ \A r \in rows : r.id \in 1 .. lastId /\ r.time \in Ticks
  /\ batch \in Seq(Ticks) /\ pass.chunk \in Seq(Ticks)
  /\ pass.at \in {"idle", "claim", "insert", "prune"} /\ pass.now \in Ticks
  /\ DOMAIN pass = DOMAIN NoPass
  /\ totals \in [Hours -> Nat]
  /\ pruned.to \in Nat /\ pruned.upTo \in 0 .. lastId /\ DOMAIN pruned = {"to", "upTo"}
  /\ up \in BOOLEAN /\ migrated \in BOOLEAN

OfHour(h) == {r \in Unexpired : Hour(r.time) = h}

TotalsRight ==
  /\ up => migrated
  /\ pass.at # "idle" => up
  /\ migrated => \A h \in Hours : totals[h] = Cardinality(OfHour(h))
  /\ ~migrated => pruned.to = 0

\* Retention goes forward.
RetentionForward ==
  /\ pruned.to <= Before(clock, Retention)
  /\ pass.at # "idle" => pruned.to <= Before(pass.now, Retention)
  /\ pass.now <= clock

TotalsInv == RowTypes /\ TotalsRight /\ RetentionForward

\* An hour has its ticks.
LEMMA HourIs ==
  ASSUME NEW t \in Nat
  PROVE  Hour(t) \in Nat /\ Hour(t) * HourLength <= t /\ t < Hour(t) * HourLength + HourLength
<1>1. HourLength \in Nat /\ HourLength > 0
  BY HistoryAssumption
<1> QED  BY <1>1 DEF Hour

LEMMA HourForward ==
  ASSUME NEW s \in Nat, NEW t \in Nat, s <= t
  PROVE  Hour(s) <= Hour(t)
<1>1. HourLength \in Nat /\ HourLength > 0
  BY HistoryAssumption
<1> DEFINE a == Hour(s)
           b == Hour(t)
<1>2. /\ a \in Nat /\ a * HourLength <= s
      /\ b \in Nat /\ t < b * HourLength + HourLength
  BY HourIs
<1> HIDE DEF a, b
<1> SUFFICES ASSUME a > b PROVE FALSE
  BY <1>2 DEF a, b
<1>3. PICK d \in Nat : a = b + 1 + d
  <2>1. a - b - 1 \in Nat /\ a = b + 1 + (a - b - 1)
    BY <1>2
  <2> QED  BY <2>1
<1>4. a * HourLength = b * HourLength + HourLength + d * HourLength
  BY <1>1, <1>2, <1>3
<1>5. d * HourLength \in Nat /\ b * HourLength \in Nat /\ a * HourLength \in Nat
  BY <1>1, <1>2
<1> QED  BY <1>1, <1>2, <1>4, <1>5

LEMMA HourInHours ==
  ASSUME NEW t \in Ticks
  PROVE  Hour(t) \in Hours
<1>1. t \in Nat /\ t <= MaxHistoryClock /\ MaxHistoryClock \in Nat
  BY HistoryAssumption DEF Ticks
<1>2. Hour(t) <= Hour(MaxHistoryClock) /\ Hour(t) \in Nat /\ Hour(MaxHistoryClock) \in Nat
  BY <1>1, HourForward, HourIs
<1> QED  BY <1>2 DEF Hours, Hour

LEMMA BeforeForward ==
  ASSUME NEW s \in Nat, NEW t \in Nat, s <= t, NEW span \in Nat
  PROVE  Before(s, span) \in Nat /\ Before(s, span) <= Before(t, span)
BY DEF Before

LEMMA UnexpiredFinite ==
  ASSUME RowTypes
  PROVE  IsFiniteSet(Unexpired) /\ \A h : IsFiniteSet(OfHour(h)) /\ Cardinality(OfHour(h)) \in Nat
<1>1. Unexpired \in SUBSET rows /\ \A h : OfHour(h) \in SUBSET rows
  BY DEF Unexpired, OfHour
<1>2. IsFiniteSet(Unexpired) /\ \A h : IsFiniteSet(OfHour(h))
  BY <1>1, FS_Subset DEF RowTypes
<1> QED  BY <1>2, FS_CardinalityType

LEMMA TotalsInit == HistoryInit => TotalsInv
<1> SUFFICES ASSUME HistoryInit PROVE TotalsInv
  OBVIOUS
<1>1. /\ IsFiniteSet(LegacyRows) /\ MaxHistoryClock \in Nat /\ Retention \in Nat
      /\ \A r \in LegacyRows : r.id \in 1 .. MaxRowId /\ r.time \in Ticks
  BY HistoryAssumption DEF Ticks
<1>2. rows \in SUBSET LegacyRows
  BY DEF HistoryInit
<1>3. IsFiniteSet(rows)
  BY <1>1, <1>2, FS_Subset
<1>4. clock \in Ticks
  BY <1>1 DEF HistoryInit, Ticks
<1> DEFINE ids == {0} \cup {r.id : r \in rows}
<1>5. lastId \in Nat /\ \A r \in rows : r.id \in 1 .. lastId /\ r.time \in Ticks
  <2>1. IsFiniteSet({r.id : r \in rows})
    <3> DEFINE id == [r \in rows |-> r.id]
    <3>1. IsFiniteSet({id[r] : r \in rows})
      BY <1>3, FiniteValues
    <3>2. {id[r] : r \in rows} = {r.id : r \in rows}
      OBVIOUS
    <3> QED  BY <3>1, <3>2
  <2>2. IsFiniteSet(ids)
    BY <2>1, FS_Singleton, FS_Union
  <2>3. ids \subseteq Nat /\ ids # {}
    BY <1>1, <1>2
  <2> HIDE DEF ids
  <2> DEFINE Above == {xy \in Nat \X Nat : xy[1] > xy[2]}
  <2>4. PICK m \in ids : \A x \in ids : <<x, m>> \notin Above
    <3>1. /\ \A x \in ids : <<x, x>> \notin Above
          /\ \A x, y, z \in ids : <<x, y>> \in Above /\ <<y, z>> \in Above => <<x, z>> \in Above
      BY <2>3
    <3> HIDE DEF Above
    <3> QED  BY <2>2, <2>3, <3>1, MinimalElement
  <2>5. ASSUME NEW x \in ids PROVE m >= x
    <3>1. m \in Nat /\ x \in Nat /\ ~ x > m
      BY <2>3, <2>4
    <3> QED  BY <3>1
  <2>6. lastId = Max(ids)
    BY DEF HistoryInit, ids
  <2>7. lastId \in ids /\ \A x \in ids : lastId >= x
    BY <2>4, <2>5, <2>6 DEF Max
  <2> QED  BY <1>1, <1>2, <2>3, <2>7 DEF ids
<1>6. totals \in [Hours -> Nat] /\ <<>> \in Seq(Ticks)
  BY EmptySeq DEF HistoryInit
<1>7. /\ batch = <<>> /\ pass = NoPass /\ pruned = [to |-> 0, upTo |-> 0] /\ ~up /\ ~migrated
      /\ up \in BOOLEAN /\ migrated \in BOOLEAN
  BY DEF HistoryInit
<1>8. RowTypes
  BY <1>1, <1>3, <1>4, <1>5, <1>6, <1>7 DEF RowTypes, NoPass, Ticks
<1> QED  BY <1>1, <1>4, <1>7, <1>8 DEF TotalsInv, TotalsRight, RetentionForward, Before, NoPass, Ticks

LEMMA CutoffForward ==
  ASSUME clock \in Nat, clock' \in Nat, clock <= clock',
         NEW cutoff \in Nat, cutoff <= Before(clock, Retention)
  PROVE  cutoff <= Before(clock', Retention)
<1>1. Retention \in Nat
  BY HistoryAssumption
<1> DEFINE s == clock
           t == clock'
<1>2. s \in Nat /\ t \in Nat /\ s <= t
  OBVIOUS
<1> HIDE DEF s, t
<1>3. cutoff <= Before(s, Retention) => cutoff <= Before(t, Retention)
  BY <1>1, <1>2 DEF Before
<1> QED  BY <1>3 DEF s, t, Before

\* Steps that touch neither the tables nor the retention.
LEMMA TotalsStill ==
  ASSUME TotalsInv, UNCHANGED dbVars, up' \in BOOLEAN, up' => up,
         clock' \in Ticks, clock' >= clock, batch' \in Seq(Ticks),
         pass'.chunk \in Seq(Ticks), pass'.at \in {"idle", "claim", "insert", "prune"},
         DOMAIN pass' = DOMAIN NoPass, pass'.at # "idle" => up',
         \/ pass'.now = pass.now /\ (pass.at = "idle" => pass'.at = "idle")
         \/ pass'.now = 0 /\ pass'.at = "idle"
         \/ pass'.now = clock
  PROVE  TotalsInv'
<1>1. /\ MaxHistoryClock \in Nat /\ Retention \in Nat
      /\ clock \in Nat /\ clock' \in Nat /\ clock <= clock'
  BY HistoryAssumption DEF Ticks, TotalsInv, RowTypes
<1>3. RowTypes'
  <2>1. pass'.now \in Ticks
    BY <1>1 DEF TotalsInv, RowTypes, Ticks
  <2> QED  BY <2>1 DEF TotalsInv, RowTypes, dbVars
<1>4. \A h : OfHour(h)' = OfHour(h)
  BY DEF OfHour, Unexpired, dbVars
<1>5. TotalsRight'
  BY <1>4 DEF TotalsInv, TotalsRight, dbVars
<1>6. RetentionForward'
  <2>1. pruned.to \in Nat /\ pruned' = pruned /\ pruned.to <= Before(clock, Retention)
    BY DEF TotalsInv, RowTypes, RetentionForward, dbVars
  <2>2. pruned'.to <= Before(clock', Retention)
    BY <1>1, <2>1, CutoffForward DEF Before
  <2>3. pass'.at # "idle" => pruned'.to <= Before(pass'.now, Retention)
    BY <2>1 DEF TotalsInv, RetentionForward
  <2>4. pass'.now <= clock'
    BY <1>1 DEF TotalsInv, RowTypes, RetentionForward, Ticks
  <2> QED  BY <2>2, <2>3, <2>4 DEF RetentionForward
<1> QED  BY <1>3, <1>5, <1>6 DEF TotalsInv

LEMMA TotalsOpen ==
  ASSUME TotalsInv, StoreOpens
  PROVE  TotalsInv'
<1>2. \A h \in Hours : totals'[h] = Cardinality(OfHour(h))
  <2>1. CASE migrated
    BY <2>1 DEF StoreOpens, TotalsInv, TotalsRight
  <2>2. CASE ~migrated
    <3>1. totals' = TotalsOf(rows) /\ pruned.to = 0
      BY <2>2 DEF StoreOpens, TotalsInv, TotalsRight
    <3>2. Unexpired = rows
      BY <3>1 DEF Unexpired, TotalsInv, RowTypes, Ticks
    <3> QED  BY <3>1, <3>2 DEF TotalsOf, OfHour
  <2> QED  BY <2>1, <2>2
<1>3. totals' \in [Hours -> Nat]
  <2>1. totals' = totals \/ totals' = TotalsOf(rows)
    BY DEF StoreOpens
  <2> DEFINE In(h) == {r \in rows : Hour(r.time) = h}
  <2>2. ASSUME NEW h \in Hours PROVE Cardinality(In(h)) \in Nat
    <3>1. In(h) \in SUBSET rows
      OBVIOUS
    <3> HIDE DEF In
    <3> QED  BY <3>1, FS_Subset, FS_CardinalityType DEF TotalsInv, RowTypes
  <2>3. TotalsOf(rows) = [h \in Hours |-> Cardinality(In(h))]
    BY DEF TotalsOf
  <2> HIDE DEF In
  <2>4. TotalsOf(rows) \in [Hours -> Nat]
    BY <2>2, <2>3
  <2> QED  BY <2>1, <2>4 DEF TotalsInv, RowTypes
<1>4. RowTypes'
  BY <1>3 DEF StoreOpens, TotalsInv, RowTypes
<1>5. TotalsRight'
  <2>1. ASSUME NEW h \in Hours PROVE totals'[h] = Cardinality(OfHour(h)')
    <3>1. totals'[h] = Cardinality(OfHour(h)) /\ rows' = rows /\ pruned' = pruned
      BY <1>2 DEF StoreOpens
    <3> QED  BY <3>1 DEF OfHour, Unexpired
  <2>2. migrated' /\ up' /\ (pass'.at # "idle" => up')
    BY DEF StoreOpens
  <2> QED  BY <2>1, <2>2 DEF TotalsRight
<1> QED  BY <1>4, <1>5 DEF StoreOpens, TotalsInv, RetentionForward

\* A chunk becomes rows with new ids: as many in each hour as TotalsOf says.
LEMMA NewRowsAre ==
  ASSUME RowTypes, NEW chunk \in Seq(Ticks)
  PROVE  /\ IsFiniteSet(NewRows(chunk)) /\ lastId + Len(chunk) \in Nat
         /\ \A r \in NewRows(chunk) : r.id \in lastId + 1 .. lastId + Len(chunk) /\ r.time \in Ticks
<1>1. Len(chunk) \in Nat /\ DOMAIN chunk = 1 .. Len(chunk) /\ lastId \in Nat
      /\ \A i \in 1 .. Len(chunk) : chunk[i] \in Ticks
  BY LenProperties, ElementOfSeq DEF RowTypes
<1>2. IsFiniteSet(NewRows(chunk))
  <2> DEFINE row == [i \in DOMAIN chunk |-> [id |-> lastId + i, time |-> chunk[i]]]
  <2>1. IsFiniteSet(DOMAIN chunk)
    BY <1>1, FS_Interval
  <2>2. IsFiniteSet({row[i] : i \in DOMAIN chunk})
    BY <2>1, FiniteValues
  <2> QED  BY <2>2 DEF NewRows
<1>3. ASSUME NEW r \in NewRows(chunk)
      PROVE  r.id \in lastId + 1 .. lastId + Len(chunk) /\ r.time \in Ticks
  BY <1>1 DEF NewRows
<1> QED  BY <1>1, <1>2, <1>3

LEMMA TotalsInsert ==
  ASSUME TotalsInv, InsertChunk
  PROVE  TotalsInv'
<1> DEFINE new == NewRows(pass.chunk)
           NewOf(h) == {r \in new : Hour(r.time) = h}
<1>1. /\ rows' = rows \cup new /\ lastId' = lastId + Len(pass.chunk)
      /\ totals' = [h \in Hours |-> totals[h] + TotalsOf(new)[h]]
      /\ pass' = [pass EXCEPT !.at = "claim", !.chunk = <<>>] /\ pass.at = "insert"
      /\ UNCHANGED <<clock, batch, migrated, pruned, up>>
  BY DEF InsertChunk
<1>2. /\ IsFiniteSet(new) /\ lastId + Len(pass.chunk) \in Nat
      /\ \A r \in new : r.id \in lastId + 1 .. lastId + Len(pass.chunk) /\ r.time \in Ticks
  BY NewRowsAre DEF TotalsInv, RowTypes
<1> HIDE DEF new
<1>3. Len(pass.chunk) \in Nat /\ lastId \in Nat /\ pruned.upTo \in 0 .. lastId
  BY LenProperties DEF TotalsInv, RowTypes
<1>4. ASSUME NEW h \in Hours
      PROVE  /\ totals'[h] = Cardinality(OfHour(h)') /\ totals'[h] \in Nat
  <2>1. OfHour(h)' = OfHour(h) \cup NewOf(h)
    BY <1>1, <1>2, <1>3 DEF OfHour, Unexpired
  <2>2. OfHour(h) \cap NewOf(h) = {}
    BY <1>2, <1>3 DEF OfHour, Unexpired, TotalsInv, RowTypes
  <2>3. IsFiniteSet(NewOf(h)) /\ Cardinality(NewOf(h)) \in Nat
    <3>1. NewOf(h) \in SUBSET new
      OBVIOUS
    <3> QED  BY <1>2, <3>1, FS_Subset, FS_CardinalityType
  <2>4. IsFiniteSet(OfHour(h)) /\ Cardinality(OfHour(h)) \in Nat
    BY UnexpiredFinite DEF TotalsInv
  <2>5. TotalsOf(new)[h] = Cardinality(NewOf(h)) /\ totals[h] = Cardinality(OfHour(h))
    BY <1>1 DEF TotalsOf, TotalsInv, TotalsRight
  <2> HIDE DEF NewOf
  <2>6. Cardinality(OfHour(h) \cup NewOf(h)) = Cardinality(OfHour(h)) + Cardinality(NewOf(h))
    BY <2>2, <2>3, <2>4, DisjointSizes
  <2>7. totals'[h] = totals[h] + TotalsOf(new)[h]
    BY <1>1
  <2> QED  BY <2>1, <2>3, <2>4, <2>5, <2>6, <2>7
<1>5. RowTypes'
  <2>1. IsFiniteSet(rows')
    BY <1>1, <1>2, FS_Union DEF TotalsInv, RowTypes
  <2>2. \A r \in rows' : r.id \in 1 .. lastId' /\ r.time \in Ticks
    BY <1>1, <1>2, <1>3 DEF TotalsInv, RowTypes
  <2>3. totals' \in [Hours -> Nat]
    <3>1. DOMAIN totals' = Hours /\ totals' = [h \in Hours |-> totals'[h]]
      BY <1>1
    <3> QED  BY <1>4, <3>1
  <2>4. pass'.chunk \in Seq(Ticks) /\ pass'.at = "claim" /\ pass'.now = pass.now /\ DOMAIN pass' = DOMAIN NoPass
    BY <1>1, EmptySeq DEF TotalsInv, RowTypes, NoPass
  <2> QED  BY <1>1, <1>2, <1>3, <2>1, <2>2, <2>3, <2>4 DEF TotalsInv, RowTypes
<1>6. TotalsRight'
  BY <1>1, <1>4 DEF TotalsInv, TotalsRight
<1>7. RetentionForward'
  BY <1>1 DEF TotalsInv, RetentionForward, RowTypes, NoPass
<1> QED  BY <1>5, <1>6, <1>7 DEF TotalsInv

\* What is before a cutoff is in its hour or in an earlier one, and what is in a
\* later hour is after it.
LEMMA TotalsPrune ==
  ASSUME TotalsInv, PruneOldEvents
  PROVE  TotalsInv'
<1> DEFINE cutoff == Before(pass.now, Retention)
           kept == rows \ Deleted(cutoff)
<1>1. /\ pass.at = "prune" /\ pass' = NoPass /\ UNCHANGED <<clock, batch, lastId, migrated, up>>
      /\ rows' = kept /\ totals' = TotalsAfter(kept, cutoff)
      /\ pruned' = [to |-> cutoff, upTo |-> lastId]
  BY DEF PruneOldEvents
<1>2. /\ cutoff \in Nat /\ pruned.to <= cutoff /\ cutoff <= Before(clock, Retention) /\ Hour(cutoff) \in Nat
  <2>1. pass.now \in Nat /\ clock \in Nat /\ pass.now <= clock /\ Retention \in Nat
    BY HistoryAssumption DEF TotalsInv, RowTypes, RetentionForward, Ticks
  <2>2. cutoff \in Nat /\ cutoff <= Before(clock, Retention)
    BY <2>1, BeforeForward
  <2> QED  BY <1>1, <2>2, HourIs DEF TotalsInv, RetentionForward
<1>3. /\ kept \subseteq rows /\ IsFiniteSet(kept)
      /\ \A r \in rows \ kept : r.time < cutoff
      /\ \A r \in rows : r.time \in Nat /\ r.id \in Nat /\ r.id <= lastId /\ Hour(r.time) \in Nat
  <2>1. kept \in SUBSET rows /\ \A r \in rows \ kept : r.time < cutoff
    BY DEF Deleted, Expired
  <2>2. IsFiniteSet(kept)
    BY <2>1, FS_Subset DEF TotalsInv, RowTypes
  <2>3. ASSUME NEW r \in rows
        PROVE  r.time \in Nat /\ r.id \in Nat /\ r.id <= lastId /\ Hour(r.time) \in Nat
    <3>1. r.time \in Nat /\ r.id \in Nat /\ r.id <= lastId
      BY DEF TotalsInv, RowTypes, Ticks
    <3> QED  BY <3>1, HourIs
  <2> QED  BY <2>1, <2>2, <2>3
<1>4. ASSUME NEW t \in Nat
      PROVE  /\ t >= cutoff => Hour(t) >= Hour(cutoff)
             /\ Hour(t) > Hour(cutoff) => t >= cutoff
  <2> DEFINE c == cutoff
  <2>1. c \in Nat /\ Hour(t) \in Nat /\ Hour(c) \in Nat
    BY <1>2, HourIs
  <2>2. t <= c => Hour(t) <= Hour(c)
    BY <2>1, HourForward
  <2>3. c <= t => Hour(c) <= Hour(t)
    BY <2>1, HourForward
  <2> HIDE DEF c
  <2> QED  BY <2>1, <2>2, <2>3 DEF c
<1> HIDE DEF kept, cutoff
<1> DEFINE Left(h) == {r \in kept : r.time >= cutoff /\ Hour(r.time) = h}
<1>5. ASSUME NEW h PROVE OfHour(h)' = Left(h)
  <2>1. pruned'.to = cutoff /\ pruned'.upTo = lastId /\ rows' = kept
    BY <1>1
  <2>2. \A r \in kept : ~ r.id > lastId
    BY <1>3 DEF TotalsInv, RowTypes
  <2> QED  BY <2>1, <2>2 DEF OfHour, Unexpired
<1>6. ASSUME NEW h PROVE Left(h) \in SUBSET kept /\ Cardinality(Left(h)) \in Nat
  <2>1. Left(h) \in SUBSET kept
    OBVIOUS
  <2> HIDE DEF Left
  <2> QED  BY <1>3, <2>1, FS_Subset, FS_CardinalityType
<1>7. ASSUME NEW h \in Hours PROVE totals'[h] = Cardinality(Left(h))
  <2>0. h \in Nat
    BY DEF Hours
  <2>1. CASE h > Hour(cutoff)
    <3>1. totals'[h] = totals[h]
      BY <1>1, <2>1 DEF TotalsAfter
    <3>2. totals[h] = Cardinality(OfHour(h))
      BY <1>1 DEF TotalsInv, TotalsRight
    <3>3. ASSUME NEW r \in OfHour(h) PROVE r \in Left(h)
      <4>1. r \in rows /\ Hour(r.time) = h
        BY DEF OfHour, Unexpired
      <4>2. Hour(r.time) > Hour(cutoff) => r.time >= cutoff
        <5>1. r.time \in Nat
          BY <1>3, <4>1
        <5> QED  BY <1>4, <5>1
      <4>3. r.time >= cutoff
        BY <2>1, <4>1, <4>2
      <4>4. r \in kept
        <5>1. r.time \in Nat
          BY <1>3, <4>1
        <5> QED  BY <1>2, <1>3, <4>1, <4>3, <5>1
      <4> QED  BY <4>1, <4>3, <4>4
    <3>4. Left(h) \subseteq OfHour(h)
      BY <1>2, <1>3, <2>1 DEF OfHour, Unexpired, TotalsInv, RowTypes
    <3>5. Left(h) = OfHour(h)
      BY <3>3, <3>4
    <3> QED  BY <3>1, <3>2, <3>5
  <2>2. CASE h < Hour(cutoff)
    <3>1. totals'[h] = 0
      BY <1>1, <1>2, <2>0, <2>2 DEF TotalsAfter
    <3>2. ASSUME NEW r \in Left(h) PROVE FALSE
      <4>1. r \in rows /\ r.time >= cutoff /\ Hour(r.time) = h
        BY <1>3
      <4>2. Hour(r.time) >= Hour(cutoff)
        <5>1. r.time \in Nat
          BY <1>3, <4>1
        <5> QED  BY <1>4, <4>1, <5>1
      <4> QED  BY <1>2, <2>0, <2>2, <4>1, <4>2
    <3>3. Left(h) = {}
      BY <3>2
    <3> QED  BY <3>1, <3>3, FS_EmptySet
  <2>3. CASE h = Hour(cutoff)
    BY <1>1, <1>2, <2>3 DEF TotalsAfter
  <2> QED  BY <1>2, <2>0, <2>1, <2>2, <2>3
<1>8. RowTypes'
  <2>1. totals' \in [Hours -> Nat]
    <3>1. totals' = [h \in Hours |-> totals'[h]]
      BY <1>1 DEF TotalsAfter
    <3> QED  BY <1>6, <1>7, <3>1
  <2>2. pass'.chunk \in Seq(Ticks) /\ pass'.at = "idle" /\ pass'.now = 0 /\ DOMAIN pass' = DOMAIN NoPass
    BY <1>1, EmptySeq DEF NoPass
  <2>3. 0 \in Ticks
    BY HistoryAssumption DEF Ticks
  <2>4. \A r \in rows' : r.id \in 1 .. lastId' /\ r.time \in Ticks
    BY <1>1, <1>3 DEF TotalsInv, RowTypes
  <2>5. pruned'.to \in Nat /\ pruned'.upTo \in 0 .. lastId' /\ DOMAIN pruned' = {"to", "upTo"}
    BY <1>1, <1>2 DEF TotalsInv, RowTypes
  <2> QED  BY <1>1, <1>3, <2>1, <2>2, <2>3, <2>4, <2>5 DEF TotalsInv, RowTypes
<1>9. TotalsRight'
  <2>1. migrated /\ UNCHANGED <<migrated, up>> /\ pass'.at = "idle"
    BY <1>1 DEF TotalsInv, TotalsRight, NoPass
  <2>2. ASSUME NEW h \in Hours PROVE totals'[h] = Cardinality(OfHour(h)')
    BY <1>5, <1>7
  <2> QED  BY <2>1, <2>2 DEF TotalsRight
<1>10. RetentionForward'
  BY <1>1, <1>2 DEF TotalsInv, RetentionForward, RowTypes, NoPass, Ticks
<1> QED  BY <1>8, <1>9, <1>10 DEF TotalsInv

\* Every step keeps the totals right.
LEMMA TotalsStep == TotalsInv /\ [HistoryNext]_historyVars => TotalsInv'
<1> SUFFICES ASSUME TotalsInv, [HistoryNext]_historyVars PROVE TotalsInv'
  OBVIOUS
<1>1. /\ MaxHistoryClock \in Nat /\ clock \in Ticks /\ 0 \in Ticks /\ clock <= clock
      /\ batch \in Seq(Ticks) /\ pass.chunk \in Seq(Ticks) /\ pass.now \in Ticks
      /\ pass.at \in {"idle", "claim", "insert", "prune"} /\ DOMAIN pass = DOMAIN NoPass
      /\ up \in BOOLEAN /\ (pass.at # "idle" => up)
  BY HistoryAssumption DEF TotalsInv, RowTypes, TotalsRight, Ticks
<1>2. ASSUME UNCHANGED <<clock, batch, dbVars, up, pass>> PROVE TotalsInv'
  BY <1>1, <1>2, TotalsStill
<1>3. ASSUME UNCHANGED <<clock, dbVars, up>>, batch' \in Seq(Ticks), pass' = NoPass PROVE TotalsInv'
  BY <1>1, <1>3, EmptySeq, TotalsStill DEF NoPass
<1>4. CASE StoreOpens
  BY <1>4, TotalsOpen
<1>5. CASE StoreEnds
  <2>1. /\ UNCHANGED <<clock, dbVars>> /\ up' = FALSE /\ batch' = <<>> /\ pass' = NoPass
    BY <1>5 DEF StoreEnds
  <2> QED  BY <1>1, <2>1, EmptySeq, TotalsStill DEF NoPass
<1>6. CASE EventArrives
  <2>1. PICK d \in Delays : d <= clock /\ batch' = Append(batch, clock - d)
    BY <1>6 DEF EventArrives
  <2>2. clock - d \in Ticks
    BY <1>1, <2>1, HistoryAssumption DEF Ticks
  <2>3. UNCHANGED <<clock, dbVars, up, pass>>
    BY <1>6 DEF EventArrives
  <2>4. batch' \in Seq(Ticks)
    BY <1>1, <2>1, <2>2, AppendProperties
  <2> QED  BY <1>1, <2>3, <2>4, TotalsStill
<1>7. CASE ClockTicks
  <2>1. UNCHANGED <<batch, dbVars, up, pass>> /\ clock < MaxHistoryClock /\ clock' = clock + 1
    BY <1>7 DEF ClockTicks
  <2>2. clock' \in Ticks /\ clock' >= clock
    BY <1>1, <2>1 DEF Ticks
  <2> QED  BY <1>1, <2>1, <2>2, TotalsStill
<1>8. CASE PassBegins
  <2>1. /\ UNCHANGED <<clock, batch, dbVars, up>> /\ up
        /\ pass' = [at |-> "claim", now |-> clock, chunk |-> <<>>]
    BY <1>8 DEF PassBegins
  <2> QED  BY <1>1, <2>1, EmptySeq, TotalsStill DEF NoPass
<1>9. CASE ClaimChunk
  <2> DEFINE size == Min({Len(batch), RowsPerInsert})
  <2>1. /\ UNCHANGED <<clock, dbVars, up>> /\ pass.at = "claim"
        /\ pass' = IF size = 0 THEN [pass EXCEPT !.at = "prune"]
                   ELSE [pass EXCEPT !.at = "insert", !.chunk = SubSeq(batch, 1, size)]
        /\ batch' = SubSeq(batch, size + 1, Len(batch))
    BY <1>9 DEF ClaimChunk
  <2>2. size \in Nat /\ size <= Len(batch) /\ Len(batch) \in Nat
    <3>1. Len(batch) \in Nat /\ RowsPerInsert \in Nat
      BY <1>1, LenProperties, HistoryAssumption
    <3> DEFINE n == Len(batch)
    <3>2. n \in Nat /\ n \in Int /\ RowsPerInsert \in Int /\ size = Min({n, RowsPerInsert})
      BY <3>1
    <3> HIDE DEF n, size
    <3>3. size \in {n, RowsPerInsert} /\ size <= n
      BY <3>2, MinOfTwo
    <3> QED  BY <3>1, <3>2, <3>3 DEF n
  <2> HIDE DEF size
  <2>3. SubSeq(batch, 1, size) \in Seq(Ticks) /\ SubSeq(batch, size + 1, Len(batch)) \in Seq(Ticks)
    BY <1>1, <2>2, SliceType
  <2> QED  BY <1>1, <2>1, <2>3, TotalsStill DEF NoPass
<1>10. CASE InsertChunk
  BY <1>10, TotalsInsert
<1>11. CASE InsertRolledBack
  <2>1. UNCHANGED <<clock, dbVars, up>> /\ batch' = pass.chunk \o batch /\ pass' = NoPass
    BY <1>11 DEF InsertRolledBack
  <2>2. batch' \in Seq(Ticks)
    BY <1>1, <2>1, ConcatProperties
  <2> QED  BY <1>3, <2>1, <2>2
<1>12. CASE PruneOldEvents
  BY <1>12, TotalsPrune
<1>13. CASE PruneFails
  <2>1. UNCHANGED <<clock, batch, dbVars, up>> /\ pass' = NoPass
    BY <1>13 DEF PruneFails
  <2> QED  BY <1>1, <1>3, <2>1
<1>14. CASE CountAsked \/ CountBegins \/ CountStored \/ CountPartial \/ CountVolatile \/ CountReturns
  BY <1>2, <1>14 DEF CountAsked, CountBegins, CountStored, CountPartial, CountVolatile, CountReturns
<1>15. CASE ReaderBegins \/ QueryHistory \/ UNCHANGED historyVars
  BY <1>2, <1>15 DEF ReaderBegins, QueryHistory, historyVars
<1> QED  BY <1>4, <1>5, <1>6, <1>7, <1>8, <1>9, <1>10, <1>11, <1>12, <1>13, <1>14, <1>15 DEF HistoryNext

LEMMA TotalsInvariance == HistorySpec => []TotalsInv
BY TotalsInit, TotalsStep, PTL DEF HistorySpec

\* The hourly totals of an open store count every row that retention keeps
\* once, for every retention, batch and number of rows: the rolling window
\* relies on them instead of counting the rows of its whole hours.
THEOREM TotalsStayRight == HistorySpec => []TotalsMatchRows
<1>1. TotalsInv => TotalsMatchRows
  BY DEF TotalsInv, TotalsRight, TotalsMatchRows, OfHour
<1> QED  BY <1>1, TotalsInvariance, PTL

-----------------------------------------------------------------------------
(***************************************************************************)
(* History: pages.  Every page begins below what was shown, and what is    *)
(* inserted meanwhile has ids above those of the first page.               *)
(***************************************************************************)

PagesInv ==
  /\ reader.at \in {"idle", "reading", "done"} /\ DOMAIN reader = DOMAIN NoReader
  /\ reader.shown \in Seq(Nat) /\ reader.cursor \in Nat /\ reader.had \in 0 .. lastId
  /\ reader.cursor = 0 /\ reader.at # "done" => reader.shown = <<>>
  /\ reader.at = "reading" /\ reader.cursor # 0
       => \A i \in 1 .. Len(reader.shown) : reader.shown[i] >= reader.cursor
  /\ \A i \in 1 .. Len(reader.shown) - 1 : reader.shown[i] > reader.shown[i + 1]
  /\ \A r \in rows :
       r.id <= reader.had /\ (reader.at = "done" \/ (reader.cursor # 0 /\ r.id >= reader.cursor))
         => \E i \in 1 .. Len(reader.shown) : reader.shown[i] = r.id

PageOf(cursor) == First(Selected(cursor), RowsPerPage)

\* A page shows the newest rows below the cursor; when it is not the last one,
\* the next cursor is the last row that it shows.
LEMMA PageIs ==
  ASSUME RowTypes, NEW cursor \in Nat
  PROVE  LET sel == Selected(cursor)
             page == PageOf(cursor)
         IN
         /\ page \in Seq(Nat) /\ Len(sel) \in Nat
         /\ \A k \in 1 .. Len(page) : cursor = 0 \/ page[k] < cursor
         /\ \A j, k \in 1 .. Len(page) : j < k => page[j] > page[k]
         /\ Len(sel) > RowsPerPage =>
              /\ sel[RowsPerPage] \in Nat \ {0} /\ Len(page) > 0
              /\ \A k \in 1 .. Len(page) : page[k] >= sel[RowsPerPage]
              /\ \A r \in rows : (cursor = 0 \/ r.id < cursor) /\ r.id >= sel[RowsPerPage]
                   => \E k \in 1 .. Len(page) : page[k] = r.id
         /\ ~ Len(sel) > RowsPerPage =>
              \A r \in rows : cursor = 0 \/ r.id < cursor
                => \E k \in 1 .. Len(page) : page[k] = r.id
<1> DEFINE sel == Selected(cursor)
           page == PageOf(cursor)
           M == Matches(cursor)
           n == Cardinality(M)
           newest == Descending(M)
           P == RowsPerPage
<1>1. IsFiniteSet(M) /\ M \in SUBSET Nat /\ \A x \in M : x > 0 /\ (cursor = 0 \/ x < cursor)
  <2> DEFINE R == {q \in rows : cursor = 0 \/ q.id < cursor}
             id == [r \in R |-> r.id]
  <2>1. R \in SUBSET rows
    OBVIOUS
  <2>2. IsFiniteSet(R)
    BY <2>1, FS_Subset DEF RowTypes
  <2>3. IsFiniteSet({id[r] : r \in R})
    BY <2>2, FiniteValues
  <2>4. M = {id[r] : r \in R}
    BY DEF Matches
  <2>5. \A r \in R : r.id \in Nat /\ r.id > 0 /\ (cursor = 0 \/ r.id < cursor)
    BY DEF RowTypes
  <2> QED  BY <2>3, <2>4, <2>5
<1>2. \A r \in rows : cursor = 0 \/ r.id < cursor => r.id \in M
  BY DEF Matches
<1>3. sel = First(newest, P + 1) /\ page = First(sel, P)
  BY DEF Selected, PageOf, First
<1> HIDE DEF M, sel, page
<1>4. /\ n \in Nat /\ newest \in [1 .. n -> M] /\ Len(newest) = n /\ newest \in Seq(M)
      /\ \A x \in M : \E k \in 1 .. n : newest[k] = x
      /\ \A j, k \in 1 .. n : j < k => newest[j] > newest[k]
  <2>1. M \in SUBSET Int
    BY <1>1
  <2> QED  BY <1>1, <2>1, DescendingIs
<1>5. P \in Nat /\ P > 0
  BY HistoryAssumption
<1> HIDE DEF newest, n, P
<1>6. /\ sel \in Seq(M) /\ Len(sel) \in Nat /\ Len(sel) = (IF n > P THEN P + 1 ELSE n)
      /\ \A k \in 1 .. Len(sel) : sel[k] = newest[k]
  <2>1. P + 1 \in Nat /\ sel = First(newest, P + 1)
    BY <1>3, <1>5
  <2>2. /\ sel \in Seq(M) /\ Len(sel) = (IF Len(newest) > P + 1 THEN P + 1 ELSE Len(newest))
        /\ \A k \in 1 .. Len(sel) : sel[k] = newest[k]
    BY <1>4, <2>1, FirstIs
  <2> QED  BY <1>4, <1>5, <2>2
<1>7. /\ page \in Seq(M) /\ Len(page) \in Nat /\ Len(page) = (IF Len(sel) > P THEN P ELSE Len(sel))
      /\ \A k \in 1 .. Len(page) : page[k] = sel[k]
  <2>2. /\ page \in Seq(M) /\ Len(page) = (IF Len(sel) > P THEN P ELSE Len(sel))
        /\ \A k \in 1 .. Len(page) : page[k] = sel[k]
    BY <1>3, <1>5, <1>6, FirstIs
  <2> QED  BY <1>5, <1>6, <2>2
<1> DEFINE m == Len(page)
<1> HIDE DEF m
<1>8. m \in Nat /\ m = (IF n > P THEN P ELSE n) /\ m <= n /\ (Len(sel) > P <=> n > P)
  BY <1>4, <1>5, <1>6, <1>7 DEF m
<1>9. \A k \in 1 .. m : page[k] = newest[k] /\ k \in 1 .. n
  <2> SUFFICES ASSUME NEW k \in 1 .. m PROVE page[k] = newest[k] /\ k \in 1 .. n
    OBVIOUS
  <2>1. k \in 1 .. Len(page) /\ k \in 1 .. n
    BY <1>4, <1>8 DEF m
  <2>2. Len(page) <= Len(sel)
    <3>1. Len(sel) \in Nat /\ P \in Nat /\ Len(page) = (IF Len(sel) > P THEN P ELSE Len(sel))
      BY <1>5, <1>6, <1>7
    <3> QED  BY <3>1
  <2>3. k \in 1 .. Len(sel)
    BY <1>6, <1>7, <2>1, <2>2
  <2> QED  BY <1>6, <1>7, <2>1, <2>3
<1>10. page \in Seq(Nat) /\ \A k \in 1 .. m : page[k] \in M
  <2>1. \A k \in 1 .. m : page[k] \in M
    BY <1>7, ElementOfSeq DEF m
  <2>2. \A k \in 1 .. m : page[k] \in Nat
    BY <1>1, <2>1
  <2>3. page = [k \in 1 .. m |-> page[k]]
    BY <1>7, LenProperties DEF m
  <2>4. page \in [1 .. m -> Nat]
    BY <2>2, <2>3
  <2> QED  BY <1>8, <2>1, <2>4, SeqDef
<1>11. \A j, k \in 1 .. m : j < k => page[j] > page[k]
  BY <1>4, <1>9
<1>12. ASSUME Len(sel) > P
       PROVE  /\ sel[P] \in Nat \ {0} /\ Len(page) > 0
              /\ \A k \in 1 .. m : page[k] >= sel[P]
              /\ \A r \in rows : (cursor = 0 \/ r.id < cursor) /\ r.id >= sel[P]
                   => \E k \in 1 .. m : page[k] = r.id
  <2>1. m = P /\ P \in 1 .. m /\ P \in 1 .. n /\ n > P
    BY <1>4, <1>5, <1>8, <1>12
  <2>2. sel[P] = page[P] /\ sel[P] = newest[P] /\ sel[P] \in M
    BY <1>7, <1>9, <1>10, <2>1 DEF m
  <2>3. sel[P] \in Nat /\ sel[P] > 0
    BY <1>1, <2>2
  <2>4. ASSUME NEW k \in 1 .. m PROVE page[k] >= sel[P]
    <3>1. k = P \/ k < P
      BY <1>8, <2>1
    <3>2. k < P => page[k] > page[P]
      BY <1>11, <2>1
    <3>3. page[k] \in Nat
      BY <1>1, <1>10
    <3>4. CASE k = P
      <4>1. page[k] = sel[P]
        BY <2>2, <3>4, Zenon
      <4> QED  BY <2>3, <4>1
    <3>5. CASE k < P
      <4>1. page[k] > page[P] /\ page[P] = sel[P]
        BY <2>2, <3>2, <3>5
      <4> QED  BY <2>3, <3>3, <4>1
    <3> QED  BY <3>1, <3>4, <3>5
  <2>5. ASSUME NEW r \in rows, cursor = 0 \/ r.id < cursor, r.id >= sel[P]
        PROVE  \E k \in 1 .. m : page[k] = r.id
    <3>1. PICK k \in 1 .. n : newest[k] = r.id
      BY <1>2, <1>4, <2>5
    <3>2. k <= P
      <4>1. ASSUME k > P PROVE FALSE
        <5>1. newest[P] > newest[k]
          BY <1>4, <2>1, <4>1
        <5>2. r.id \in Nat
          BY DEF RowTypes
        <5> QED  BY <2>2, <2>3, <2>5, <3>1, <5>1, <5>2
      <4> QED  BY <1>4, <1>5, <4>1
    <3>3. k \in 1 .. m
      BY <2>1, <3>2
    <3> QED  BY <1>9, <3>1, <3>3
  <2>6. Len(page) > 0
    BY <1>5, <2>1 DEF m
  <2> QED  BY <2>3, <2>4, <2>5, <2>6
<1>13. ASSUME ~ Len(sel) > P, NEW r \in rows, cursor = 0 \/ r.id < cursor
       PROVE  \E k \in 1 .. m : page[k] = r.id
  <2>1. m = n
    BY <1>8, <1>13
  <2>2. PICK k \in 1 .. n : newest[k] = r.id
    BY <1>2, <1>4, <1>13
  <2> QED  BY <1>9, <2>1, <2>2
<1>14. \A k \in 1 .. m : cursor = 0 \/ page[k] < cursor
  BY <1>1, <1>10
<1> QED  BY <1>6, <1>7, <1>10, <1>11, <1>12, <1>13, <1>14 DEF P, m, sel, page

\* Steps of others: rows go, and those that come are newer than had.
LEMMA PagesStill ==
  ASSUME PagesInv, lastId \in Nat, lastId' \in Nat, lastId' >= lastId, UNCHANGED reader,
         \A r \in rows' : r \in rows \/ (r.id \in Nat /\ r.id > lastId)
  PROVE  PagesInv'
<1>1. ASSUME NEW r \in rows', r.id <= reader.had,
             reader.at = "done" \/ (reader.cursor # 0 /\ r.id >= reader.cursor)
      PROVE  \E i \in 1 .. Len(reader.shown) : reader.shown[i] = r.id
  <2>1. reader.had \in 0 .. lastId
    BY DEF PagesInv
  <2>2. r \in rows
    BY <1>1, <2>1
  <2> QED  BY <1>1, <2>2 DEF PagesInv
<1>2. reader'.had \in 0 .. lastId'
  BY DEF PagesInv
<1> QED  BY <1>1, <1>2 DEF PagesInv

LEMMA PagesInit == HistoryInit /\ TotalsInv => PagesInv
<1> SUFFICES ASSUME HistoryInit, TotalsInv PROVE PagesInv
  OBVIOUS
<1>1. reader = NoReader /\ lastId \in Nat
  BY DEF HistoryInit, TotalsInv, RowTypes
<1>2. <<>> \in Seq(Nat) /\ Len(<<>>) = 0
  BY EmptySeq
<1> QED  BY <1>1, <1>2 DEF PagesInv, NoReader

LEMMA PagesQuery ==
  ASSUME RowTypes, PagesInv, QueryHistory
  PROVE  PagesInv'
<1> DEFINE sel == Selected(reader.cursor)
           page == PageOf(reader.cursor)
           more == Len(sel) > RowsPerPage
           old == reader.shown
           new == reader'.shown
           was == reader.cursor
           next == reader'.cursor
<1>1. /\ reader.at = "reading" /\ UNCHANGED <<rows, lastId>>
      /\ reader' = [reader EXCEPT !.shown = @ \o page,
                                  !.cursor = IF more THEN NextCursor(sel) ELSE @,
                                  !.at = IF more THEN "reading" ELSE "done"]
  BY DEF QueryHistory, dbVars, PageOf, First
<1>2. old \in Seq(Nat) /\ was \in Nat /\ DOMAIN reader = DOMAIN NoReader
  BY DEF PagesInv
<1>3. /\ page \in Seq(Nat) /\ Len(sel) \in Nat
      /\ \A k \in 1 .. Len(page) : was = 0 \/ page[k] < was
      /\ \A j, k \in 1 .. Len(page) : j < k => page[j] > page[k]
      /\ more =>
           /\ sel[RowsPerPage] \in Nat \ {0} /\ Len(page) > 0
           /\ \A k \in 1 .. Len(page) : page[k] >= sel[RowsPerPage]
           /\ \A r \in rows : (was = 0 \/ r.id < was) /\ r.id >= sel[RowsPerPage]
                => \E k \in 1 .. Len(page) : page[k] = r.id
      /\ ~ more =>
           \A r \in rows : was = 0 \/ r.id < was
             => \E k \in 1 .. Len(page) : page[k] = r.id
  BY <1>2, PageIs
<1>4. /\ new = old \o page /\ next = (IF more THEN sel[RowsPerPage] ELSE was)
      /\ reader'.at = (IF more THEN "reading" ELSE "done") /\ reader'.had = reader.had
      /\ DOMAIN reader' = DOMAIN NoReader
  BY <1>1, <1>2 DEF NextCursor, NoReader
<1>5. /\ was = 0 => old = <<>>
      /\ was # 0 => \A i \in 1 .. Len(old) : old[i] >= was
      /\ \A i \in 1 .. Len(old) - 1 : old[i] > old[i + 1]
      /\ \A r \in rows : r.id <= reader.had /\ was # 0 /\ r.id >= was
           => \E i \in 1 .. Len(old) : old[i] = r.id
      /\ reader.had \in 0 .. lastId
  BY <1>1 DEF PagesInv
<1> HIDE DEF sel, page, old, new, was, next
<1>6. /\ new \in Seq(Nat) /\ Len(new) = Len(old) + Len(page) /\ Len(old) \in Nat /\ Len(page) \in Nat
      /\ \A i \in 1 .. Len(old) : new[i] = old[i] /\ old[i] \in Nat
      /\ \A k \in 1 .. Len(page) : new[Len(old) + k] = page[k] /\ page[k] \in Nat
      /\ \A i \in 1 .. Len(new) : i \in 1 .. Len(old) \/ (i > Len(old) /\ i - Len(old) \in 1 .. Len(page))
  <2>1. new \in Seq(Nat) /\ Len(new) = Len(old) + Len(page) /\ Len(old) \in Nat /\ Len(page) \in Nat
    BY <1>2, <1>3, <1>4, ConcatProperties, LenProperties
  <2>2. \A i \in 1 .. Len(new) : new[i] = IF i <= Len(old) THEN old[i] ELSE page[i - Len(old)]
    BY <1>2, <1>3, <1>4, <2>1, ConcatProperties
  <2>3. \A k \in 1 .. Len(page) : new[Len(old) + k] = page[k]
    <3> SUFFICES ASSUME NEW k \in 1 .. Len(page) PROVE new[Len(old) + k] = page[k]
      OBVIOUS
    <3>1. Len(old) + k \in 1 .. Len(new) /\ ~ Len(old) + k <= Len(old) /\ (Len(old) + k) - Len(old) = k
      BY <2>1
    <3> QED  BY <2>2, <3>1
  <2>4. \A i \in 1 .. Len(old) : new[i] = old[i]
    BY <2>1, <2>2
  <2>5. (\A i \in 1 .. Len(old) : old[i] \in Nat) /\ (\A k \in 1 .. Len(page) : page[k] \in Nat)
    BY <1>2, <1>3, ElementOfSeq
  <2>6. \A i \in 1 .. Len(new) : i \in 1 .. Len(old) \/ (i > Len(old) /\ i - Len(old) \in 1 .. Len(page))
    BY <2>1
  <2> QED  BY <2>1, <2>3, <2>4, <2>5, <2>6
<1>7. \A i \in 1 .. Len(old) : was # 0 /\ old[i] >= was
  BY <1>5, <1>6, EmptySeq
<1>8. next \in Nat /\ (more => next # 0)
  BY <1>2, <1>3, <1>4
<1>16. more => Len(page) > 0
  BY <1>3
<1>9. ASSUME more, NEW i \in 1 .. Len(new) PROVE new[i] >= next
  <2>1. next = sel[RowsPerPage] /\ next \in Nat /\ \A k \in 1 .. Len(page) : page[k] >= next
    BY <1>3, <1>4, <1>9
  <2>2. CASE i \in 1 .. Len(old)
    <3>1. was # 0 /\ new[i] >= was /\ new[i] \in Nat
      BY <1>6, <1>7, <2>2
    <3>2. next < was
      <4>1. Len(page) > 0 => page[1] < was /\ page[1] >= next /\ page[1] \in Nat
        BY <1>3, <1>6, <2>1, <3>1
      <4>2. Len(page) > 0
        BY <1>16, <1>9
      <4> QED  BY <1>2, <2>1, <4>1, <4>2
    <3> QED  BY <1>2, <2>1, <3>1, <3>2
  <2>3. CASE i > Len(old) /\ i - Len(old) \in 1 .. Len(page)
    <3>1. Len(old) + (i - Len(old)) = i
      BY <1>6
    <3>2. new[i] = page[i - Len(old)]
      BY <1>6, <2>3, <3>1
    <3> QED  BY <2>1, <2>3, <3>2
  <2> QED  BY <1>6, <2>2, <2>3
<1>10. ASSUME NEW i \in 1 .. Len(new) - 1 PROVE new[i] > new[i + 1]
  <2>1. CASE i + 1 \in 1 .. Len(old)
    <3>1. i \in 1 .. Len(old) - 1 /\ i \in 1 .. Len(old)
      BY <1>6, <2>1
    <3> QED  BY <1>5, <1>6, <2>1, <3>1
  <2>2. CASE i = Len(old)
    <3>1. i \in 1 .. Len(old) /\ 1 \in 1 .. Len(page) /\ i + 1 = Len(old) + 1
      BY <1>6, <2>2
    <3>2. new[i] = old[i] /\ old[i] >= was /\ was # 0 /\ new[i + 1] = page[1] /\ page[1] < was
      BY <1>3, <1>6, <1>7, <3>1
    <3> QED  BY <1>2, <1>6, <3>1, <3>2
  <2>3. CASE i > Len(old)
    <3>1. /\ i - Len(old) \in 1 .. Len(page) /\ (i - Len(old)) + 1 \in 1 .. Len(page)
          /\ Len(old) + (i - Len(old)) = i /\ Len(old) + ((i - Len(old)) + 1) = i + 1
          /\ i - Len(old) < (i - Len(old)) + 1
      BY <1>6, <2>3
    <3> DEFINE j == i - Len(old)
    <3>2. j \in 1 .. Len(page) /\ j + 1 \in 1 .. Len(page) /\ Len(old) + j = i /\ Len(old) + (j + 1) = i + 1 /\ j < j + 1
      BY <3>1
    <3> HIDE DEF j
    <3>3. new[Len(old) + j] = page[j] /\ new[Len(old) + (j + 1)] = page[j + 1]
      BY <1>6, <3>2
    <3>4. page[j] > page[j + 1]
      BY <1>3, <3>2
    <3> QED  BY <3>2, <3>3, <3>4
  <2>4. i < Len(old) => i + 1 \in 1 .. Len(old)
    BY <1>6
  <2> QED  BY <1>6, <2>1, <2>2, <2>3, <2>4
<1>11. ASSUME NEW r \in rows, r.id <= reader.had, ~ more \/ r.id >= next
       PROVE  \E i \in 1 .. Len(new) : new[i] = r.id
  <2>1. r.id \in Nat
    BY DEF RowTypes
  <2>2. CASE was # 0 /\ r.id >= was
    <3>1. PICK i \in 1 .. Len(old) : old[i] = r.id
      BY <1>5, <1>11, <2>2
    <3> QED  BY <1>6, <3>1
  <2>3. CASE was = 0 \/ r.id < was
    <3>1. PICK k \in 1 .. Len(page) : page[k] = r.id
      <4>1. CASE more
        <5>1. r.id >= sel[RowsPerPage]
          BY <1>4, <1>11, <4>1
        <5> QED  BY <1>3, <2>3, <4>1, <5>1
      <4>2. CASE ~ more
        BY <1>3, <2>3, <4>2
      <4> QED  BY <4>1, <4>2
    <3>2. Len(old) + k \in 1 .. Len(new) /\ new[Len(old) + k] = r.id
      BY <1>6, <3>1
    <3> QED  BY <3>2
  <2>4. (was # 0 /\ r.id >= was) \/ was = 0 \/ r.id < was
    BY <1>2, <2>1
  <2> QED  BY <2>2, <2>3, <2>4
<1>12. reader'.at \in {"idle", "reading", "done"} /\ (reader'.at = "done" <=> ~ more)
       /\ (reader'.at = "reading" <=> more)
  BY <1>4
<1>13. next = 0 /\ reader'.at # "done" => new = <<>>
  BY <1>8, <1>12
<1>14. \A r \in rows :
         r.id <= reader'.had /\ (reader'.at = "done" \/ (next # 0 /\ r.id >= next))
           => \E i \in 1 .. Len(new) : new[i] = r.id
  BY <1>4, <1>11, <1>12
<1>15. reader'.had \in 0 .. lastId' /\ rows' = rows
  BY <1>1, <1>4, <1>5
<1> QED  BY <1>4, <1>6, <1>8, <1>9, <1>10, <1>12, <1>13, <1>14, <1>15 DEF PagesInv, new, next

\* Every step keeps the pages complete.
LEMMA PagesStep == TotalsInv /\ TotalsInv' /\ PagesInv /\ [HistoryNext]_historyVars => PagesInv'
<1> SUFFICES ASSUME TotalsInv, TotalsInv', PagesInv, [HistoryNext]_historyVars PROVE PagesInv'
  OBVIOUS
<1>1. RowTypes /\ lastId \in Nat /\ lastId' \in Nat /\ lastId <= lastId
  BY DEF TotalsInv, RowTypes
<1>2. ASSUME UNCHANGED <<rows, lastId, reader>> PROVE PagesInv'
  BY <1>1, <1>2, PagesStill
<1>3. CASE InsertChunk
  <2> DEFINE new == NewRows(pass.chunk)
  <2>1. rows' = rows \cup new /\ lastId' = lastId + Len(pass.chunk) /\ UNCHANGED reader
    BY <1>3 DEF InsertChunk
  <2>2. pass.chunk \in Seq(Ticks) /\ Len(pass.chunk) \in Nat
    BY <1>1, LenProperties DEF RowTypes
  <2>3. \A r \in new : r.id \in lastId + 1 .. lastId + Len(pass.chunk)
    BY <1>1, <2>2, NewRowsAre
  <2> HIDE DEF new
  <2>4. \A r \in new : r.id \in Nat /\ r.id > lastId
    BY <1>1, <2>2, <2>3
  <2>5. lastId' >= lastId
    BY <1>1, <2>1, <2>2
  <2> QED  BY <1>1, <2>1, <2>4, <2>5, PagesStill
<1>4. CASE PruneOldEvents
  <2>1. rows' \subseteq rows /\ UNCHANGED <<lastId, reader>>
    BY <1>4 DEF PruneOldEvents
  <2> QED  BY <1>1, <2>1, PagesStill
<1>5. CASE ReaderBegins
  <2>1. reader' = [at |-> "reading", cursor |-> 0, shown |-> <<>>, had |-> lastId] /\ UNCHANGED <<rows, lastId>>
    BY <1>5 DEF ReaderBegins, dbVars
  <2>2. <<>> \in Seq(Nat) /\ Len(<<>>) = 0
    BY EmptySeq
  <2> QED  BY <1>1, <2>1, <2>2 DEF PagesInv, NoReader
<1>6. CASE QueryHistory
  BY <1>1, <1>6, PagesQuery
<1>7. CASE StoreOpens \/ StoreEnds \/ EventArrives \/ ClockTicks
  BY <1>2, <1>7 DEF StoreOpens, StoreEnds, EventArrives, ClockTicks, dbVars
<1>8. CASE PassBegins \/ ClaimChunk \/ InsertRolledBack \/ PruneFails
  BY <1>2, <1>8 DEF PassBegins, ClaimChunk, InsertRolledBack, PruneFails, dbVars
<1>9. CASE CountAsked \/ CountBegins \/ CountStored \/ CountPartial \/ CountVolatile \/ CountReturns
  BY <1>2, <1>9 DEF CountAsked, CountBegins, CountStored, CountPartial, CountVolatile, CountReturns, dbVars
<1>10. CASE UNCHANGED historyVars
  BY <1>2, <1>10 DEF historyVars, dbVars
<1> QED  BY <1>3, <1>4, <1>5, <1>6, <1>7, <1>8, <1>9, <1>10 DEF HistoryNext

\* Who follows next_cursor reads strictly backwards and misses no row that was
\* there at the first page and still is, for every size of a page, whatever is
\* inserted or pruned between two requests.
THEOREM PagesAreComplete == HistorySpec => []PagesComplete
<1>1. PagesInv => PagesComplete
  <2> SUFFICES ASSUME PagesInv PROVE PagesComplete
    OBVIOUS
  <2>1. DOMAIN reader.shown = 1 .. Len(reader.shown)
    BY LenProperties DEF PagesInv
  <2> QED  BY <2>1 DEF PagesInv, PagesComplete, ToSet
<1> QED  BY <1>1, TotalsInvariance, PagesInit, PagesStep, PTL DEF HistorySpec

-----------------------------------------------------------------------------
(***************************************************************************)
(* History: counts.  While a count runs no pass does, so that rows, totals *)
(* and what it copied of the queue stay as they were when it began.        *)
(***************************************************************************)

LaterHours(now) == {h \in Hours : h > Hour(Before(now, StatsWindow))}

Counting == count.at \in {"stored", "partial", "volatile", "done"}

CountInv ==
  /\ count.at \in {"idle", "asked", "stored", "partial", "volatile", "done"}
  /\ DOMAIN count = DOMAIN NoCount /\ count.now \in Ticks /\ count.volatile \in Seq(Ticks)
  /\ count.at # "idle" => up /\ count.kind \in {"stats", "dashboard"}
  /\ Counting =>
       /\ pass.at = "idle"
       /\ count.due = Plus(WindowsOf(count.kind, count.now, rows),
                           WindowsOf(count.kind, count.now, Times(count.volatile)))
       /\ count.least = Plus(WindowsOf(count.kind, count.now, Unexpired),
                             WindowsOf(count.kind, count.now, Times(count.volatile)))
  /\ count.at = "partial" =>
       count.kind = "stats" /\ count.found = <<SumOver(totals, LaterHours(count.now)), 0>>
  /\ count.at = "volatile" =>
       /\ count.kind = "dashboard" => count.found = WindowsOf(count.kind, count.now, rows)
       /\ count.kind = "stats" =>
            /\ count.found[1] \in Nat /\ count.found = <<count.found[1], 0>>
            /\ WindowsOf(count.kind, count.now, Unexpired)[1] <= count.found[1]
            /\ count.found[1] <= WindowsOf(count.kind, count.now, rows)[1]
  /\ EventsCountedOnce

\* An hour ends where the next one begins.
LEMMA HourEnds ==
  ASSUME NEW t \in Nat, NEW s \in Nat
  PROVE  t < (Hour(s) + 1) * HourLength <=> Hour(t) <= Hour(s)
<1>1. HourLength \in Nat /\ HourLength > 0
  BY HistoryAssumption
<1> DEFINE a == Hour(s)
           b == Hour(t)
<1>2. a \in Nat /\ b \in Nat /\ b * HourLength <= t /\ t < b * HourLength + HourLength
  BY HourIs
<1> HIDE DEF a, b
<1>3. (a + 1) * HourLength = a * HourLength + HourLength /\ a * HourLength \in Nat /\ b * HourLength \in Nat
  BY <1>1, <1>2
<1>4. CASE b <= a
  <2>1. PICK d \in Nat : a = b + d
    <3>1. a - b \in Nat /\ a = b + (a - b)
      BY <1>2, <1>4
    <3> QED  BY <3>1
  <2>2. a * HourLength = b * HourLength + d * HourLength /\ d * HourLength \in Nat
    BY <1>1, <1>2, <2>1
  <2> QED  BY <1>1, <1>2, <1>3, <1>4, <2>2 DEF a, b
<1>5. CASE b > a
  <2>1. PICK d \in Nat : b = (a + 1) + d
    <3>1. b - (a + 1) \in Nat /\ b = (a + 1) + (b - (a + 1))
      BY <1>2, <1>5
    <3> QED  BY <3>1
  <2>2. b * HourLength = (a + 1) * HourLength + d * HourLength /\ d * HourLength \in Nat
    BY <1>1, <1>2, <2>1
  <2> QED  BY <1>1, <1>2, <1>3, <1>5, <2>2 DEF a, b
<1> QED  BY <1>2, <1>4, <1>5

LEMMA WithinGrows ==
  ASSUME NEW qs, IsFiniteSet(qs), NEW rs \in SUBSET qs, NEW from, NEW to
  PROVE  /\ Within(rs, from, to) \in Nat /\ Within(qs, from, to) \in Nat
         /\ Within(rs, from, to) <= Within(qs, from, to)
<1> DEFINE In(s) == {r \in s : r.time >= from /\ r.time < to}
<1>1. In(qs) \in SUBSET qs /\ In(rs) \in SUBSET In(qs)
  OBVIOUS
<1>2. Within(rs, from, to) = Cardinality(In(rs)) /\ Within(qs, from, to) = Cardinality(In(qs))
  BY DEF Within
<1> HIDE DEF In
<1>3. IsFiniteSet(In(qs))
  BY <1>1, FS_Subset
<1>4. IsFiniteSet(In(rs)) /\ Cardinality(In(rs)) <= Cardinality(In(qs))
  BY <1>1, <1>3, FS_Subset
<1>5. Cardinality(In(rs)) \in Nat /\ Cardinality(In(qs)) \in Nat
  BY <1>3, <1>4, FS_CardinalityType
<1> QED  BY <1>2, <1>4, <1>5

LEMMA WindowsGrow ==
  ASSUME NEW qs, IsFiniteSet(qs), NEW rs \in SUBSET qs, NEW kind, NEW now
  PROVE  /\ WindowsOf(kind, now, rs)[1] \in Nat /\ WindowsOf(kind, now, qs)[1] \in Nat
         /\ WindowsOf(kind, now, rs)[2] \in Nat /\ WindowsOf(kind, now, qs)[2] \in Nat
         /\ WindowsOf(kind, now, rs)[1] <= WindowsOf(kind, now, qs)[1]
         /\ WindowsOf(kind, now, rs)[2] <= WindowsOf(kind, now, qs)[2]
<1> DEFINE from == Before(now, StatsWindow)
           further == Before(from, StatsWindow)
<1>1. \A a, b : /\ Within(rs, a, b) \in Nat /\ Within(qs, a, b) \in Nat
                /\ Within(rs, a, b) <= Within(qs, a, b)
  BY WithinGrows
<1>2. CASE kind = "stats"
  <2>1. WindowsOf(kind, now, rs) = <<Within(rs, from, MaxHistoryClock + 1), 0>>
        /\ WindowsOf(kind, now, qs) = <<Within(qs, from, MaxHistoryClock + 1), 0>>
    BY <1>2 DEF WindowsOf
  <2> QED  BY <1>1, <2>1
<1>3. CASE kind # "stats"
  <2>1. WindowsOf(kind, now, rs) = <<Within(rs, from, now + 1), Within(rs, further, from)>>
        /\ WindowsOf(kind, now, qs) = <<Within(qs, from, now + 1), Within(qs, further, from)>>
    BY <1>3 DEF WindowsOf
  <2> QED  BY <1>1, <2>1
<1> QED  BY <1>2, <1>3

LEMMA TimesFinite ==
  ASSUME NEW s \in Seq(Ticks)
  PROVE  IsFiniteSet(Times(s))
<1> DEFINE event == [i \in DOMAIN s |-> [id |-> i, time |-> s[i]]]
<1>1. IsFiniteSet(DOMAIN s)
  BY LenProperties, FS_Interval
<1>2. IsFiniteSet({event[i] : i \in DOMAIN s})
  BY <1>1, FiniteValues
<1> QED  BY <1>2 DEF Times

\* The totals of the whole hours and the rows of the hour in which the window
\* begins are no less than the rows that retention keeps in the window and no
\* more than its rows.
LEMMA StatsFound ==
  ASSUME TotalsInv, migrated, NEW now \in Ticks
  PROVE  LET from == Before(now, StatsWindow)
             whole == SumOver(totals, LaterHours(now))
             part == Within(rows, from, (Hour(from) + 1) * HourLength)
         IN  /\ whole \in Nat /\ part \in Nat
             /\ WindowsOf("stats", now, Unexpired)[1] <= whole + part
             /\ whole + part <= WindowsOf("stats", now, rows)[1]
<1> DEFINE from == Before(now, StatsWindow)
           first == Hour(from)
           whole == SumOver(totals, LaterHours(now))
           part == Within(rows, from, (first + 1) * HourLength)
           D == {r \in Unexpired : Hour(r.time) > first}
           E == {r \in rows : r.time >= from /\ r.time < (first + 1) * HourLength}
           L == {r \in Unexpired : r.time >= from /\ r.time < MaxHistoryClock + 1}
           U == {r \in rows : r.time >= from /\ r.time < MaxHistoryClock + 1}
           S == LaterHours(now)
           parts == [h \in S |-> OfHour(h)]
<1>1. /\ now \in Nat /\ StatsWindow \in Nat /\ MaxHistoryClock \in Nat /\ IsFiniteSet(rows)
      /\ \A r \in rows : r.time \in Ticks
  BY HistoryAssumption DEF Ticks, TotalsInv, RowTypes
<1>2. from \in Nat
  BY <1>1 DEF Before
<1>3. first \in Nat
  BY <1>2, HourIs
<1> HIDE DEF from
<1>4. ASSUME NEW r \in rows
      PROVE  /\ r.time \in Nat /\ r.time < MaxHistoryClock + 1
             /\ Hour(r.time) \in Hours /\ Hour(r.time) \in Nat
             /\ (r.time < (first + 1) * HourLength <=> Hour(r.time) <= first)
             /\ (Hour(r.time) > first => r.time >= from)
  <2> DEFINE t == r.time
  <2>1. t \in Ticks /\ t \in Nat /\ t < MaxHistoryClock + 1
    BY <1>1 DEF Ticks
  <2> HIDE DEF t
  <2>2. Hour(t) \in Hours /\ Hour(t) \in Nat
    BY <2>1, HourInHours, HourIs
  <2>3. t < (first + 1) * HourLength <=> Hour(t) <= first
    BY <1>2, <2>1, HourEnds
  <2>4. t <= from => Hour(t) <= first
    BY <1>2, <2>1, HourForward
  <2>5. Hour(t) > first => t >= from
    BY <1>2, <1>3, <2>1, <2>2, <2>4
  <2> QED  BY <2>1, <2>2, <2>3, <2>5 DEF t
<1>5. Unexpired \subseteq rows
  BY DEF Unexpired
<1> HIDE DEF first
<1>6. /\ D \in SUBSET U /\ E \in SUBSET U /\ L \in SUBSET (D \cup E) /\ D \cap E = {}
      /\ U \in SUBSET rows
  <2>1. D \subseteq U
    BY <1>4, <1>5
  <2>2. E \subseteq U
    BY <1>4
  <2>3. L \subseteq D \cup E
    BY <1>3, <1>4, <1>5
  <2>4. D \cap E = {}
    BY <1>3, <1>4, <1>5
  <2> QED  BY <2>1, <2>2, <2>3, <2>4
<1>7. /\ part = Cardinality(E)
      /\ WindowsOf("stats", now, rows)[1] = Cardinality(U)
      /\ WindowsOf("stats", now, Unexpired)[1] = Cardinality(L)
  BY DEF Within, WindowsOf, from, first
<1>8. /\ S = {h \in Hours : h > first}
      /\ \A h \in S : parts[h] = OfHour(h)
  BY DEF LaterHours, first, from
<1>9. \A h \in S : parts[h] \in SUBSET D
  BY <1>8 DEF OfHour
<1>10. \A r \in D : \E h \in S : r \in parts[h]
  <2> SUFFICES ASSUME NEW r \in D PROVE \E h \in S : r \in parts[h]
    OBVIOUS
  <2>1. r \in Unexpired /\ Hour(r.time) \in S
    BY <1>4, <1>5, <1>8
  <2> QED  BY <1>8, <2>1 DEF OfHour
<1>11. \A g, h \in S : parts[g] \cap parts[h] # {} => g = h
  BY <1>8 DEF OfHour
<1>12. \A h \in S : totals[h] = Cardinality(parts[h])
  BY <1>8 DEF TotalsInv, TotalsRight
<1>13. DOMAIN parts = S
  OBVIOUS
<1> HIDE DEF D, E, L, U, S, parts
<1>14. /\ IsFiniteSet(U) /\ IsFiniteSet(D) /\ IsFiniteSet(E) /\ IsFiniteSet(D \cup E)
       /\ Cardinality(D \cup E) = Cardinality(D) + Cardinality(E)
       /\ Cardinality(D) \in Nat /\ Cardinality(E) \in Nat
  <2>1. IsFiniteSet(U)
    BY <1>1, <1>6, FS_Subset
  <2>2. IsFiniteSet(D) /\ IsFiniteSet(E)
    BY <1>6, <2>1, FS_Subset
  <2> QED  BY <1>6, <2>1, <2>2, DisjointSizes, FS_CardinalityType
<1>15. whole = Cardinality(D)
  <2>1. SumOver(totals, S) = Cardinality(D)
    BY <1>9, <1>10, <1>11, <1>12, <1>13, <1>14, SumOfParts
  <2> QED  BY <2>1 DEF S
<1>16. Cardinality(L) <= Cardinality(D \cup E) /\ Cardinality(D \cup E) <= Cardinality(U)
  <2>1. D \cup E \in SUBSET U
    BY <1>6
  <2> QED  BY <1>6, <1>14, <2>1, FS_Subset
<1> HIDE DEF whole, part
<1> QED  BY <1>7, <1>14, <1>15, <1>16 DEF whole, part, first, from

LEMMA CountInit == HistoryInit /\ TotalsInv => CountInv
<1> SUFFICES ASSUME HistoryInit, TotalsInv PROVE CountInv
  OBVIOUS
<1>1. count = NoCount /\ <<>> \in Seq(Ticks) /\ 0 \in Ticks
  BY EmptySeq, HistoryAssumption DEF HistoryInit, Ticks
<1> QED  BY <1>1 DEF CountInv, Counting, EventsCountedOnce, NoCount

\* Steps of others: while a count runs they leave alone what it reads.
LEMMA CountStill ==
  ASSUME CountInv, UNCHANGED count, count.at # "idle" => up',
         Counting => UNCHANGED <<rows, pruned, totals, pass>>
  PROVE  CountInv'
<1>1. EventsCountedOnce'
  BY DEF CountInv, EventsCountedOnce
<1>2. CASE Counting
  <2>1. Unexpired' = Unexpired
    BY <1>2 DEF Unexpired
  <2>2. rows' = rows /\ totals' = totals /\ pass' = pass /\ count' = count
    BY <1>2
  <2> QED  BY <1>1, <2>1, <2>2 DEF CountInv, Counting
<1>3. CASE ~ Counting
  BY <1>1, <1>3 DEF CountInv, Counting
<1> QED  BY <1>2, <1>3

LEMMA CountStarts ==
  ASSUME TotalsInv, CountInv, CountBegins
  PROVE  CountInv'
<1>1. /\ count.at = "asked" /\ pass.at = "idle" /\ UNCHANGED <<rows, pruned, up, pass>>
      /\ count' = [count EXCEPT !.at = "stored", !.volatile = batch,
                     !.least = Plus(WindowsOf(count.kind, count.now, Unexpired),
                                    WindowsOf(count.kind, count.now, Times(batch))),
                     !.due = Plus(WindowsOf(count.kind, count.now, rows),
                                  WindowsOf(count.kind, count.now, Times(batch)))]
  BY DEF CountBegins, ArchiveFree, dbVars
<1>2. Unexpired' = Unexpired
  BY <1>1 DEF Unexpired
<1>3. /\ count.now \in Ticks /\ batch \in Seq(Ticks) /\ DOMAIN count = DOMAIN NoCount
      /\ up /\ count.kind \in {"stats", "dashboard"}
  BY <1>1 DEF CountInv, TotalsInv, RowTypes
<1>4. /\ count'.at = "stored" /\ count'.now = count.now /\ count'.kind = count.kind
      /\ count'.volatile = batch /\ DOMAIN count' = DOMAIN NoCount
      /\ count'.due = Plus(WindowsOf(count.kind, count.now, rows),
                           WindowsOf(count.kind, count.now, Times(batch)))
      /\ count'.least = Plus(WindowsOf(count.kind, count.now, Unexpired),
                             WindowsOf(count.kind, count.now, Times(batch)))
  BY <1>1, <1>3 DEF NoCount
<1> QED  BY <1>1, <1>2, <1>3, <1>4 DEF CountInv, Counting, EventsCountedOnce

LEMMA CountFinds ==
  ASSUME TotalsInv, CountInv, CountStored \/ CountPartial
  PROVE  CountInv'
<1> DEFINE now == count.now
           from == Before(now, StatsWindow)
           whole == SumOver(totals, LaterHours(now))
           part == Within(rows, from, (Hour(from) + 1) * HourLength)
<1>1. Counting /\ UNCHANGED <<rows, pruned, totals, up, pass>> /\ migrated
  BY DEF CountStored, CountPartial, Counting, CountInv, dbVars, TotalsInv, TotalsRight
<1>2. Unexpired' = Unexpired
  BY <1>1 DEF Unexpired
<1>3. DOMAIN count = DOMAIN NoCount /\ now \in Ticks /\ count.kind \in {"stats", "dashboard"}
  BY <1>1 DEF CountInv, Counting
<1>4. /\ whole \in Nat /\ part \in Nat
      /\ WindowsOf("stats", now, Unexpired)[1] <= whole + part
      /\ whole + part <= WindowsOf("stats", now, rows)[1]
  BY <1>1, <1>3, StatsFound
<1>5. CASE CountStored
  <2>1. CASE count.kind = "stats"
    <3>1. count' = [count EXCEPT !.at = "partial", !.found = <<whole, 0>>]
      BY <1>5, <2>1 DEF CountStored, WholeHours, LaterHours
    <3> HIDE DEF whole
    <3>2. /\ count'.at = "partial" /\ count'.found = <<whole, 0>> /\ DOMAIN count' = DOMAIN NoCount
          /\ count'.now = now /\ count'.kind = count.kind /\ count'.volatile = count.volatile
          /\ count'.due = count.due /\ count'.least = count.least
      BY <1>3, <3>1 DEF NoCount
    <3> QED  BY <1>1, <1>2, <1>3, <2>1, <3>2 DEF CountInv, Counting, EventsCountedOnce, whole
  <2>2. CASE count.kind # "stats"
    <3>1. count' = [count EXCEPT !.at = "volatile", !.found = WindowsOf("dashboard", now, rows)]
      BY <1>5, <2>2 DEF CountStored
    <3>2. /\ count'.at = "volatile" /\ count'.found = WindowsOf("dashboard", now, rows)
          /\ DOMAIN count' = DOMAIN NoCount /\ count.kind = "dashboard"
          /\ count'.now = now /\ count'.kind = count.kind /\ count'.volatile = count.volatile
          /\ count'.due = count.due /\ count'.least = count.least
      BY <1>3, <2>2, <3>1 DEF NoCount
    <3> QED  BY <1>1, <1>2, <1>3, <2>2, <3>2 DEF CountInv, Counting, EventsCountedOnce
  <2> QED  BY <2>1, <2>2
<1>6. CASE CountPartial
  <2>1. count.kind = "stats" /\ count.found = <<whole, 0>>
    BY <1>6 DEF CountPartial, CountInv
  <2>2. count' = [count EXCEPT !.at = "volatile", !.found = Plus(count.found, <<part, 0>>)]
    BY <1>6 DEF CountPartial
  <2> HIDE DEF whole, part
  <2>3. Plus(count.found, <<part, 0>>) = <<whole + part, 0>>
    BY <1>4, <2>1 DEF Plus
  <2>4. /\ count'.at = "volatile" /\ count'.found = <<whole + part, 0>>
        /\ DOMAIN count' = DOMAIN NoCount
        /\ count'.now = now /\ count'.kind = "stats" /\ count'.volatile = count.volatile
        /\ count'.due = count.due /\ count'.least = count.least
    BY <1>3, <2>1, <2>2, <2>3 DEF NoCount
  <2>5. /\ count'.found[1] \in Nat /\ count'.found = <<count'.found[1], 0>>
        /\ WindowsOf(count'.kind, count'.now, Unexpired')[1] <= count'.found[1]
        /\ count'.found[1] <= WindowsOf(count'.kind, count'.now, rows')[1]
    BY <1>1, <1>2, <1>4, <2>4
  <2> QED  BY <1>1, <1>2, <1>3, <2>1, <2>4, <2>5 DEF CountInv, Counting, EventsCountedOnce
<1> QED  BY <1>5, <1>6

\* What was copied of the queue is added to both.
LEMMA CountAddsQueue ==
  ASSUME TotalsInv, CountInv, CountVolatile
  PROVE  CountInv'
<1> DEFINE u == WindowsOf(count.kind, count.now, Unexpired)
           r == WindowsOf(count.kind, count.now, rows)
           v == WindowsOf(count.kind, count.now, Times(count.volatile))
           f == count.found
<1>1. count.at = "volatile" /\ Counting /\ UNCHANGED <<rows, pruned, totals, up, pass>>
  BY DEF CountVolatile, Counting, dbVars
<1>2. Unexpired' = Unexpired
  BY <1>1 DEF Unexpired
<1>3. /\ DOMAIN count = DOMAIN NoCount /\ count.now \in Ticks /\ count.kind \in {"stats", "dashboard"}
      /\ count.volatile \in Seq(Ticks) /\ count.due = Plus(r, v) /\ count.least = Plus(u, v)
      /\ (count.kind = "dashboard" => f = r)
      /\ (count.kind = "stats" => f[1] \in Nat /\ f = <<f[1], 0>> /\ u[1] <= f[1] /\ f[1] <= r[1])
  BY <1>1 DEF CountInv
<1>4. v[1] \in Nat /\ v[2] \in Nat
  <2>1. IsFiniteSet(Times(count.volatile)) /\ Times(count.volatile) \in SUBSET Times(count.volatile)
    BY <1>3, TimesFinite
  <2> QED  BY <2>1, WindowsGrow
<1>5. u[1] \in Nat /\ u[2] \in Nat /\ r[1] \in Nat /\ r[2] \in Nat /\ u[1] <= r[1] /\ u[2] <= r[2]
  <2>1. IsFiniteSet(rows) /\ Unexpired \in SUBSET rows
    BY DEF TotalsInv, RowTypes, Unexpired
  <2> QED  BY <2>1, WindowsGrow
<1>6. count.kind = "stats" => u[2] = 0 /\ r[2] = 0
  BY DEF WindowsOf
<1>7. count' = [count EXCEPT !.at = "done", !.found = Plus(f, v)]
  BY DEF CountVolatile
<1> HIDE DEF u, r, v, f
<1>8. /\ count'.at = "done" /\ count'.found = Plus(f, v) /\ DOMAIN count' = DOMAIN NoCount
      /\ count'.now = count.now /\ count'.kind = count.kind /\ count'.volatile = count.volatile
      /\ count'.due = Plus(r, v) /\ count'.least = Plus(u, v)
  BY <1>3, <1>7 DEF NoCount
<1>9. /\ u[1] <= f[1] /\ f[1] <= r[1] /\ u[2] <= f[2] /\ f[2] <= r[2] /\ f[1] \in Nat /\ f[2] \in Nat
      /\ count.kind = "dashboard" => f = r
  <2>1. CASE count.kind = "dashboard"
    BY <1>3, <1>5, <2>1
  <2>2. CASE count.kind = "stats"
    <3>1. f[2] = 0
      BY <1>3, <2>2
    <3> QED  BY <1>3, <1>5, <1>6, <2>2, <3>1
  <2> QED  BY <1>3, <2>1, <2>2
<1>10. /\ Plus(f, v)[1] = f[1] + v[1] /\ Plus(f, v)[2] = f[2] + v[2]
       /\ Plus(u, v)[1] = u[1] + v[1] /\ Plus(u, v)[2] = u[2] + v[2]
       /\ Plus(r, v)[1] = r[1] + v[1] /\ Plus(r, v)[2] = r[2] + v[2]
  BY DEF Plus
<1>11. ASSUME NEW w \in 1 .. 2
       PROVE  /\ Plus(u, v)[w] <= Plus(f, v)[w] /\ Plus(f, v)[w] <= Plus(r, v)[w]
              /\ count.kind = "dashboard" => Plus(f, v)[w] = Plus(r, v)[w]
  <2>1. CASE w = 1
    BY <1>4, <1>5, <1>9, <1>10, <2>1
  <2>2. CASE w = 2
    BY <1>4, <1>5, <1>9, <1>10, <2>2
  <2> QED  BY <2>1, <2>2
<1>12. EventsCountedOnce'
  BY <1>8, <1>11 DEF EventsCountedOnce
<1> QED  BY <1>1, <1>2, <1>3, <1>8, <1>12 DEF CountInv, Counting, u, r, v

\* Every step keeps the counts right.
LEMMA CountStep == TotalsInv /\ CountInv /\ [HistoryNext]_historyVars => CountInv'
<1> SUFFICES ASSUME TotalsInv, CountInv, [HistoryNext]_historyVars PROVE CountInv'
  OBVIOUS
<1>1. /\ count.at # "idle" => up
      /\ Counting => pass.at = "idle" /\ up
  BY DEF CountInv, Counting
<1>2. ASSUME count' = NoCount PROVE CountInv'
  <2>1. <<>> \in Seq(Ticks) /\ 0 \in Ticks
    BY EmptySeq, HistoryAssumption DEF Ticks
  <2> QED  BY <1>2, <2>1 DEF CountInv, Counting, EventsCountedOnce, NoCount
<1>3. CASE StoreOpens
  BY <1>1, <1>3, CountStill DEF StoreOpens, Counting
<1>4. CASE StoreEnds
  BY <1>2, <1>4 DEF StoreEnds
<1>5. CASE EventArrives \/ ClockTicks \/ ReaderBegins \/ QueryHistory \/ UNCHANGED historyVars
  BY <1>1, <1>5, CountStill DEF EventArrives, ClockTicks, ReaderBegins, QueryHistory, historyVars, dbVars
<1>6. CASE PassBegins
  BY <1>1, <1>6, CountStill DEF PassBegins, ArchiveFree, Counting
<1>7. CASE ClaimChunk \/ InsertChunk \/ InsertRolledBack \/ PruneOldEvents \/ PruneFails
  BY <1>1, <1>7, CountStill DEF ClaimChunk, InsertChunk, InsertRolledBack, PruneOldEvents, PruneFails
<1>8. CASE CountAsked
  <2>1. PICK kind \in {"stats", "dashboard"} :
          count' = [NoCount EXCEPT !.at = "asked", !.kind = kind, !.now = clock]
    BY <1>8 DEF CountAsked
  <2>2. up' /\ <<>> \in Seq(Ticks) /\ clock \in Ticks
    BY <1>8, EmptySeq DEF CountAsked, TotalsInv, RowTypes
  <2> QED  BY <2>1, <2>2 DEF CountInv, Counting, EventsCountedOnce, NoCount
<1>9. CASE CountBegins
  BY <1>9, CountStarts
<1>10. CASE CountStored \/ CountPartial
  BY <1>10, CountFinds
<1>11. CASE CountVolatile
  BY <1>11, CountAddsQueue
<1>12. CASE CountReturns
  BY <1>2, <1>12 DEF CountReturns
<1> QED  BY <1>3, <1>4, <1>5, <1>6, <1>7, <1>8, <1>9, <1>10, <1>11, <1>12 DEF HistoryNext

\* Statistics and the dashboard count every event of their windows once, in the
\* totals, in a row or in the queue, for every length of the hour, the window
\* and the retention: archiveMu keeps passes out while they put the parts
\* together.
THEOREM CountsAreExact == HistorySpec => []EventsCountedOnce
<1>1. CountInv => EventsCountedOnce
  BY DEF CountInv
<1> QED  BY <1>1, TotalsInvariance, CountInit, CountStep, PTL DEF HistorySpec
=============================================================================
