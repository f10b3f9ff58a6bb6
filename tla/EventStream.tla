----------------------------- MODULE EventStream -----------------------------
(***************************************************************************)
(* The live query stream (webgui/internal/api: broadcast.go and the        *)
(* /api/stream handler of dashboard.go, with the event ring of             *)
(* storage.go).  DNS handlers and ingest requests store an event, which    *)
(* gives it its ID, and broadcast it afterwards; a stream first subscribes *)
(* and then, when its client names the last event it has seen, reads what  *)
(* it missed from the ring, so that events may reach it twice, late, out   *)
(* of order or, when it is slow, not at all.                               *)
(*                                                                         *)
(* An event is its ID.  A critical section of eventsMu or subMu is one     *)
(* step; a channel is a sequence.                                          *)
(***************************************************************************)
EXTENDS Integers, Sequences, Functions, FiniteSetsExt, SequencesExt, Subsequences

CONSTANTS
  Streams,      \* requests to /api/stream
  MaxEvents,    \* bound: how many events there ever are
  RingSize,     \* cfg.MaxEvents
  ScanLimit,    \* DefaultScanLimit, the most a stream reads from the ring
  ChanCap,      \* capacity of a subscriber's channel
  MaxDrops      \* consecutive drops a subscriber survives

ASSUME StreamAssumption ==
  /\ MaxEvents \in Nat /\ MaxDrops \in Nat
  /\ RingSize \in Nat \ {0} /\ ScanLimit \in Nat \ {0} /\ ChanCap \in Nat \ {0}

Events == 1 .. MaxEvents

\* No Last-Event-ID, below every ID.
None == -1

\* A client may name any event, also one this process never assigned: IDs
\* start at 1 again when the process starts.
Headers == 0 .. MaxEvents

VARIABLES
  idCounter,    \* the last ID assigned
  ring,         \* the newest stored events, oldest first
  unsent,       \* events with an ID whose BroadcastEvent is still to come
  \* of each stream
  step,         \* what its handler does next, once its request is there
  header,       \* Last-Event-ID of its request, or None
  registered,   \* subscribers has its channel
  chan, closed, \* the channel: its buffer, and whether it was closed
  drops,        \* consecutive drops
  lastID,       \* the ID it wrote last, at first its header
  got,          \* history: what its client received
  before,       \* history: events it cannot expect: older than its subscription
  lost          \* history: dropped at a full channel, or beyond the scan limit

eventVars   == <<idCounter, ring, unsent>>
streamVars  == <<step, header, registered, chan, closed, drops, lastID, got, before, lost>>

vars == <<eventVars, streamVars>>

\* Mutant: the ring is read before the subscription begins.
AfterReversed == [closed |-> "catchUp", catchUp |-> "subscribe", subscribe |-> "live"]

\* What the handler does next: it subscribes before it reads the ring.
After == [closed |-> "subscribe", subscribe |-> "catchUp", catchUp |-> "live"]

Advance(s) == step' = [step EXCEPT ![s] = After[@]]

-----------------------------------------------------------------------------
(***************************************************************************)
(* Producers.                                                              *)
(***************************************************************************)

\* The ring, a full one without its oldest event, and the new one.
Store(e) == Append(IF Len(ring) = RingSize THEN Tail(ring) ELSE ring, e)

\* AddEvent: the ID is assigned under eventsMu, with the place in the ring.
AddEvent ==
  /\ idCounter < MaxEvents
  /\ idCounter' = idCounter + 1
  /\ ring' = Store(idCounter + 1)
  /\ unsent' = unsent \cup {idCounter + 1}
  /\ UNCHANGED streamVars

\* BroadcastEvent of an event that is not stored, because its client is
\* excluded from the statistics, assigns its ID first.
AssignEventID ==
  /\ idCounter < MaxEvents
  /\ idCounter' = idCounter + 1
  /\ unsent' = unsent \cup {idCounter + 1}
  /\ UNCHANGED <<ring, streamVars>>

Full(s) == Len(chan[s]) = ChanCap

\* Subscribers that this send would push past the limit of drops.
Expelled == {s \in Streams : registered[s] /\ Full(s) /\ drops[s] + 1 > MaxDrops}

\* A subscriber whose channel is closed is forgotten.
ForgetExpelled == registered' = [s \in Streams |-> registered[s] /\ s \notin Expelled]

\* The rest of BroadcastEvent, under subMu: one non-blocking send each.
Broadcast(e) ==
  /\ e \in unsent
  /\ unsent' = unsent \ {e}
  /\ chan' = [s \in Streams |-> IF registered[s] /\ ~Full(s) THEN Append(chan[s], e)
                                                             ELSE chan[s]]
  /\ drops' = [s \in Streams |-> IF ~registered[s] THEN drops[s]
                                 ELSE IF Full(s) THEN drops[s] + 1 ELSE 0]
  /\ lost' = [s \in Streams |-> IF registered[s] /\ Full(s) THEN lost[s] \cup {e}
                                                            ELSE lost[s]]
  /\ closed' = [s \in Streams |-> closed[s] \/ s \in Expelled]
  /\ ForgetExpelled
  /\ UNCHANGED <<idCounter, ring, step, header, lastID, got, before>>

-----------------------------------------------------------------------------
(***************************************************************************)
(* handleStream                                                            *)
(***************************************************************************)

Open(s, h) ==
  /\ step[s] = "closed"
  /\ Advance(s)
  /\ header' = [header EXCEPT ![s] = h]
  /\ lastID' = [lastID EXCEPT ![s] = h]
  /\ UNCHANGED <<eventVars, registered, chan, closed, drops, got, before, lost>>

\* Without Last-Event-ID a client gets what is broadcast from here on.
Subscribe(s) ==
  /\ step[s] = "subscribe"
  /\ registered' = [registered EXCEPT ![s] = TRUE]
  /\ before' = [before EXCEPT ![s] = IF header[s] = None THEN (1 .. idCounter) \ unsent
                                                          ELSE 1 .. header[s]]
  /\ Advance(s)
  /\ UNCHANGED <<eventVars, header, chan, closed, drops, lastID, got, lost>>

\* GetEventsAfter: the oldest events of the ring with an ID above the cursor.
EventsAfter(cursor) ==
  LET newer == Keep(ring, {e \in Events : e > cursor})
  IN  SubSeq(newer, 1, Min({Len(newer), ScanLimit}))

CatchUp(s) ==
  LET page == EventsAfter(header[s])
  IN  /\ step[s] = "catchUp"
      /\ IF header[s] = None \/ page = <<>>
           THEN UNCHANGED <<got, lastID, lost>>
           ELSE /\ got' = [got EXCEPT ![s] = page]
                /\ lastID' = [lastID EXCEPT ![s] = Last(page)]
                /\ lost' = [lost EXCEPT ![s] = @ \cup {e \in Range(ring) : e > Last(page)}]
      /\ Advance(s)
      /\ UNCHANGED <<eventVars, header, registered, chan, closed, drops, before>>

\* Mutant: what the ring has supplied is written again.
AlreadyWrittenNever(s, e) == FALSE

\* What the loop leaves out: an event not newer than the last one written.
AlreadyWritten(s, e) == e <= lastID[s]

Receive(s) ==
  LET e == Head(chan[s])
  IN  /\ step[s] = "live"
      /\ chan[s] # <<>>
      /\ chan' = [chan EXCEPT ![s] = Tail(@)]
      /\ IF AlreadyWritten(s, e)
           THEN UNCHANGED <<got, lastID>>
           ELSE /\ got' = [got EXCEPT ![s] = Append(@, e)]
                /\ lastID' = [lastID EXCEPT ![s] = e]
      /\ UNCHANGED <<eventVars, step, header, registered, closed, drops, before, lost>>

\* The loop ends when its channel is closed and drained, when the client is
\* gone and when the session has ended; the deferred Unsubscribe is part of it.
End(s) ==
  /\ step[s] = "live"
  /\ step' = [step EXCEPT ![s] = "ended"]
  /\ registered' = [registered EXCEPT ![s] = FALSE]
  /\ UNCHANGED <<eventVars, header, chan, closed, drops, lastID, got, before, lost>>

-----------------------------------------------------------------------------
Init ==
  /\ idCounter = 0 /\ ring = <<>> /\ unsent = {}
  /\ step = [s \in Streams |-> "closed"]
  /\ header = [s \in Streams |-> None] /\ lastID = [s \in Streams |-> None]
  /\ registered = [s \in Streams |-> FALSE] /\ closed = [s \in Streams |-> FALSE]
  /\ chan = [s \in Streams |-> <<>>] /\ got = [s \in Streams |-> <<>>]
  /\ drops = [s \in Streams |-> 0]
  /\ before = [s \in Streams |-> {}] /\ lost = [s \in Streams |-> {}]

Stream(s) == Subscribe(s) \/ CatchUp(s) \/ Receive(s) \/ End(s)

Next ==
  \/ AddEvent \/ AssignEventID
  \/ \E e \in unsent : Broadcast(e)
  \/ \E s \in Streams : Stream(s) \/ \E h \in Headers \cup {None} : Open(s, h)

Spec == Init /\ [][Next]_vars

-----------------------------------------------------------------------------
\* The types of the stream's state and the bounds of its buffers.
TypeOK ==
  /\ idCounter \in 0 .. MaxEvents /\ unsent \subseteq Events
  /\ ring \in Seq(Events) /\ Len(ring) <= RingSize
  /\ step \in [Streams -> {"closed", "subscribe", "catchUp", "live", "ended"}]
  /\ header \in [Streams -> Headers \cup {None}]
  /\ lastID \in [Streams -> Headers \cup {None}]
  /\ registered \in [Streams -> BOOLEAN] /\ closed \in [Streams -> BOOLEAN]
  /\ chan \in [Streams -> Seq(Events)] /\ \A s \in Streams : Len(chan[s]) <= ChanCap
  /\ got \in [Streams -> Seq(Events)]
  /\ drops \in [Streams -> 0 .. MaxDrops + 1]
  /\ before \in [Streams -> SUBSET Events] /\ lost \in [Streams -> SUBSET Events]

\* No client receives an event twice or after a newer one, although the ring
\* and the channel overlap and producers broadcast in any order.
StreamInOrder ==
  \A s \in Streams : \A i, j \in DOMAIN got[s] : i < j => got[s][i] < got[s][j]

\* Broadcast and stored events a stream in its loop could have delivered.
Expected(s) == {e \in Range(ring) : e \notin unsent \cup before[s] \cup lost[s]}

\* Nothing falls between catching up and the live events: every event a
\* stream could expect was received, is in its channel, or is older than an
\* event that was received before it.
StreamComplete ==
  \A s \in Streams : step[s] = "live" /\ registered[s] =>
    \A e \in Expected(s) : e \in Range(got[s] \o chan[s]) \/ e < lastID[s]

\* What the comment of BroadcastEvent says: an event is sent to all SSE
\* subscribers, and only slow ones, whose channel is full, miss it.  The code
\* breaks it: of two events broadcast in the other order, a stream that keeps
\* up leaves out the older.
OnlySlowStreamsMiss ==
  \A s \in Streams : step[s] = "live" /\ registered[s] =>
    \A e \in Expected(s) : e \in Range(got[s] \o chan[s])
=============================================================================
