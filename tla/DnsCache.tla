------------------------------- MODULE DnsCache -------------------------------
(***************************************************************************)
(* The response cache of the DNS server (webgui/internal/dnsserver/        *)
(* cache.go, cache_pipeline.go, runtime.go): queries that look a key up,   *)
(* join or lead the fetch of a missing one and store what they fetched;    *)
(* refreshes in the background; administrators who change what upstreams   *)
(* answer and then clear the cache; and the replacement of the settings,   *)
(* which waits for the queries under way.                                  *)
(*                                                                         *)
(* What upstreams answer is abstracted to the version of the configuration *)
(* it was asked under, or to Failed for a SERVFAIL.  Time only passes by   *)
(* entries that expire.                                                    *)
(***************************************************************************)
EXTENDS Integers, Sequences, FiniteSets

CONSTANTS
  Keys,             \* questions, with all that makeCacheKey adds to them
  Queries,          \* goroutines that answer clients
  Capacity,         \* entries of the cache
  MaxMissFlights,   \* fetches under way
  MaxRefreshes,     \* maxBackgroundRefreshes
  MaxChanges,       \* bound: changes of routes, upstreams or clients
  MaxClears         \* bound: clearings of the cache, those of ApplySettings included

Nobody == "nobody"

Failed == -1

ASSUME CacheAssumption ==
  /\ Nobody \notin Queries
  /\ {Capacity, MaxMissFlights, MaxRefreshes} \subseteq Nat \ {0}
  /\ {MaxChanges, MaxClears} \subseteq Nat

VARIABLES
  version,      \* of the configuration: changes so far
  settingsAt,   \* history: version of the last settings
  clearedAt,    \* history: version at which the cache was last cleared
  generation,   \* cacheGeneration
  entries,      \* items: the key's answer
  lru,          \* ll, the key used last first
  optimistic,   \* CacheOptimistic
  applying,     \* ApplySettings waits for runtimeMu
  flights,      \* missInFlight: the query that fetches the key
  query,        \* the queries
  refresh,      \* refreshInFlight, with the goroutine that refreshes the key
  slots         \* refreshSlots taken

configVars == <<version, settingsAt, clearedAt, generation, optimistic, applying>>
cacheVars  == <<entries, lru>>

vars == <<configVars, cacheVars, flights, query, refresh, slots>>

Versions == 0 .. MaxChanges + MaxClears

Answers == Versions \cup {Failed}

Idle == [pc |-> "idle", key |-> Nobody, since |-> 0, generation |-> 0,
         answer |-> Failed, leader |-> Nobody]

NoRefresh == [pc |-> "none", generation |-> 0, answer |-> Failed]

\* Queries hold runtimeMu for reading until they are answered, refreshes once
\* they run.  A writer that waits keeps new readers out.
Readers ==
  {q \in Queries : query[q].pc # "idle"} \cup {k \in Keys : refresh[k].pc \notin {"none", "spawned"}}

-----------------------------------------------------------------------------
(***************************************************************************)
(* Entries.                                                                *)
(***************************************************************************)

Without(k) == SelectSeq(lru, LAMBDA x : x # k)

\* The entry that a new key displaces: the one used least recently.
Victim(k) == IF k \notin DOMAIN entries /\ Len(lru) >= Capacity THEN {lru[Len(lru)]} ELSE {}

\* set
Set(k, a) ==
  /\ entries' = [x \in (DOMAIN entries \cup {k}) \ Victim(k) |->
                   IF x = k THEN [answer |-> a, expired |-> FALSE]
                            ELSE entries[x]]
  /\ lru' = <<k>> \o SelectSeq(lru, LAMBDA x : x \notin Victim(k) \cup {k})

RemoveElement(k) ==
  /\ entries' = [x \in DOMAIN entries \ {k} |-> entries[x]]
  /\ lru' = Without(k)

\* clear and reconfigure
Empty == entries' = <<>> /\ lru' = <<>>

Expire(k) ==
  /\ k \in DOMAIN entries /\ ~entries[k].expired
  /\ entries' = [entries EXCEPT ![k].expired = TRUE]
  /\ UNCHANGED <<configVars, lru, flights, query, refresh, slots>>

\* Mutant: what was fetched is stored in any case.
IsCurrentAlways(g) == TRUE

\* storeInCacheIfGeneration: the cache has not been cleared since.
IsCurrent(g) == g = generation

\* Answers without a TTL, truncated ones, and SERVFAILs unless the settings
\* say so, are not stored either.
StoreIfGeneration(k, g, a) ==
  \/ IsCurrent(g) /\ Set(k, a)
  \/ UNCHANGED cacheVars

-----------------------------------------------------------------------------
(***************************************************************************)
(* Queries.                                                                *)
(***************************************************************************)

At(q, pc) == query[q].pc = pc

\* How a query was answered.
Answered == {"hit", "stale", "refused", "led", "joined"}

Go(q, pc) == query' = [query EXCEPT ![q].pc = pc]

Answer(q, how, a) ==
  query' = [query EXCEPT ![q] = [Idle EXCEPT !.pc = how, !.answer = a, !.since = query[q].since]]

\* Resolve, up to the cache; get finds a fresh entry,
Hit(q, k) ==
  /\ At(q, "idle") /\ ~applying
  /\ k \in DOMAIN entries /\ ~entries[k].expired
  /\ \E pc \in {"hit", "prefetch"} :
       query' = [query EXCEPT ![q] = [Idle EXCEPT !.pc = pc, !.since = clearedAt,
                   !.answer = entries[k].answer, !.key = IF pc = "hit" THEN Nobody ELSE k]]
  /\ lru' = <<k>> \o Without(k)
  /\ UNCHANGED <<configVars, entries, flights, refresh, slots>>

\* or none, and forgets an expired one unless it may be served.
Miss(q, k) ==
  /\ At(q, "idle") /\ ~applying
  /\ \/ k \notin DOMAIN entries /\ UNCHANGED cacheVars
     \/ /\ k \in DOMAIN entries /\ entries[k].expired
        /\ IF optimistic THEN UNCHANGED cacheVars ELSE RemoveElement(k)
  /\ query' = [query EXCEPT ![q] = [Idle EXCEPT !.pc = IF optimistic THEN "getStale" ELSE "join",
                                              !.key = k, !.since = clearedAt]]
  /\ UNCHANGED <<configVars, flights, refresh, slots>>

\* getStale, in another critical section than get: the entry may have gone or
\* come in between.
GetStale(q) ==
  LET k == query[q].key IN
  /\ At(q, "getStale")
  /\ IF k \in DOMAIN entries
       THEN query' = [query EXCEPT ![q].pc = "serveStale", ![q].answer = entries[k].answer]
       ELSE Go(q, "join")
  /\ UNCHANGED <<configVars, cacheVars, flights, refresh, slots>>

ReturnSlot == UNCHANGED slots

\* refreshAsync takes a slot, and one goroutine refreshes a key at a time.  The
\* slot taken in vain is returned at once; that it is taken for a moment can
\* only make another query do without a refresh.
RefreshAsync(q) ==
  LET k == query[q].key IN
  /\ At(q, "prefetch") \/ At(q, "serveStale")
  /\ IF slots = MaxRefreshes THEN UNCHANGED <<refresh, slots>>
     ELSE IF refresh[k].pc # "none" THEN ReturnSlot /\ UNCHANGED refresh
     ELSE /\ refresh' = [refresh EXCEPT ![k] = [NoRefresh EXCEPT !.pc = "spawned",
                                                                 !.generation = generation]]
          /\ slots' = slots + 1
  /\ Answer(q, IF At(q, "prefetch") THEN "hit" ELSE "stale", query[q].answer)
  /\ UNCHANGED <<configVars, cacheVars, flights>>

\* The generation is read and the query begins a flight or joins one; a
\* clearing between the two would only waste the answer.
Join(q) ==
  LET k == query[q].key IN
  /\ At(q, "join")
  /\ \/ /\ flights[k] # Nobody
        /\ query' = [query EXCEPT ![q].pc = "wait", ![q].leader = flights[k]]
        /\ UNCHANGED flights
     \/ /\ flights[k] = Nobody
        /\ Cardinality({x \in Keys : flights[x] # Nobody}) >= MaxMissFlights
        /\ Answer(q, "refused", Failed)
        /\ UNCHANGED flights
     \/ /\ flights[k] = Nobody
        /\ Cardinality({x \in Keys : flights[x] # Nobody}) < MaxMissFlights
        /\ flights' = [flights EXCEPT ![k] = q]
        /\ query' = [query EXCEPT ![q].pc = "ask", ![q].generation = generation]
  /\ UNCHANGED <<configVars, cacheVars, refresh, slots>>

\* fetchUpstreamResult: an upstream of the present configuration answers, or
\* none does.
Ask(q) ==
  /\ At(q, "ask")
  /\ \E a \in {version, Failed} :
       query' = [query EXCEPT ![q].pc = "store", ![q].answer = a]
  /\ UNCHANGED <<configVars, cacheVars, flights, refresh, slots>>

Store(q) ==
  /\ At(q, "store")
  /\ StoreIfGeneration(query[q].key, query[q].generation, query[q].answer)
  /\ Go(q, "complete")
  /\ UNCHANGED <<configVars, flights, refresh, slots>>

\* Mutant: a flight that failed wakes nobody.
WokenBySuccess(q) == {f \in Queries : At(f, "wait") /\ query[f].leader = q /\ query[q].answer # Failed}

\* The queries that wait for the flight of q.
Woken(q) == {f \in Queries : At(f, "wait") /\ query[f].leader = q}

\* completeMissFlight
Complete(q) ==
  /\ At(q, "complete")
  /\ flights' = [flights EXCEPT ![query[q].key] = Nobody]
  /\ query' = [f \in Queries |->
       IF f = q \/ f \in Woken(q)
         THEN [Idle EXCEPT !.pc = IF f = q THEN "led" ELSE "joined",
                           !.answer = query[q].answer, !.since = query[f].since]
         ELSE query[f]]
  /\ UNCHANGED <<configVars, cacheVars, refresh, slots>>

End(q) ==
  /\ query[q].pc \in Answered
  /\ query' = [query EXCEPT ![q] = Idle]
  /\ UNCHANGED <<configVars, cacheVars, flights, refresh, slots>>

-----------------------------------------------------------------------------
(***************************************************************************)
(* Refreshes.                                                              *)
(***************************************************************************)

RefreshFrame == UNCHANGED <<configVars, flights, query>>

RefreshRuns(k) ==
  /\ refresh[k].pc = "spawned" /\ ~applying
  /\ refresh' = [refresh EXCEPT ![k].pc = "ask"]
  /\ RefreshFrame
  /\ UNCHANGED <<cacheVars, slots>>

\* A SERVFAIL leaves the entry as it is.
RefreshAsks(k) ==
  /\ refresh[k].pc = "ask"
  /\ \E a \in {version, Failed} :
       refresh' = [refresh EXCEPT ![k].pc = "store", ![k].answer = a]
  /\ RefreshFrame
  /\ UNCHANGED <<cacheVars, slots>>

RefreshEnds(k) ==
  /\ refresh[k].pc = "store"
  /\ \/ refresh[k].answer = Failed /\ UNCHANGED cacheVars
     \/ /\ refresh[k].answer # Failed
        /\ StoreIfGeneration(k, refresh[k].generation, refresh[k].answer)
  /\ refresh' = [refresh EXCEPT ![k] = NoRefresh]
  /\ slots' = slots - 1
  /\ RefreshFrame

-----------------------------------------------------------------------------
(***************************************************************************)
(* Administrators.                                                         *)
(***************************************************************************)

\* Routes, upstreams or clients change; the handler clears the cache after it.
Change ==
  /\ version < MaxChanges
  /\ version' = version + 1
  /\ UNCHANGED <<settingsAt, clearedAt, generation, optimistic, applying, cacheVars, flights,
                 query, refresh, slots>>

\* ClearCache
Clear ==
  /\ generation < MaxClears
  /\ generation' = generation + 1
  /\ clearedAt' = version
  /\ Empty
  /\ UNCHANGED <<version, settingsAt, optimistic, applying, flights, query, refresh, slots>>

ApplySettingsBegins ==
  /\ ~applying /\ generation < MaxClears
  /\ applying' = TRUE
  /\ UNCHANGED <<version, settingsAt, clearedAt, generation, optimistic, cacheVars, flights,
                 query, refresh, slots>>

\* Mutant: the settings are replaced under the queries.
ReadersIgnored == TRUE

ReadersGone == Readers = {}

\* ApplySettings; the bound may have been reached while it waited.
ApplySettings ==
  /\ applying /\ ReadersGone
  /\ applying' = FALSE
  /\ optimistic' \in BOOLEAN
  /\ version' = version + 1 /\ settingsAt' = version' /\ clearedAt' = version'
  /\ generation' = generation + 1
  /\ Empty
  /\ UNCHANGED <<flights, query, refresh, slots>>

-----------------------------------------------------------------------------
Init ==
  /\ version = 0 /\ settingsAt = 0 /\ clearedAt = 0 /\ generation = 0
  /\ entries = <<>> /\ lru = <<>>
  /\ optimistic \in BOOLEAN /\ applying = FALSE
  /\ flights = [k \in Keys |-> Nobody]
  /\ query = [q \in Queries |-> Idle]
  /\ refresh = [k \in Keys |-> NoRefresh] /\ slots = 0

\* What a query does once it has begun.
Answering(q) ==
  \/ GetStale(q) \/ RefreshAsync(q) \/ Join(q) \/ Ask(q) \/ Store(q) \/ Complete(q) \/ End(q)

Refreshing(k) == RefreshRuns(k) \/ RefreshAsks(k) \/ RefreshEnds(k)

Administration == Change \/ Clear \/ ApplySettingsBegins \/ ApplySettings

Next ==
  \/ \E q \in Queries : (\E k \in Keys : Hit(q, k) \/ Miss(q, k)) \/ Answering(q)
  \/ \E k \in Keys : Refreshing(k) \/ Expire(k)
  \/ Administration

Spec == Init /\ [][Next]_vars
-----------------------------------------------------------------------------
\* The types of the cache, its bounds, and the agreement of list and map and of
\* the slots with the refreshes that hold one.
TypeOK ==
  /\ {version, settingsAt, clearedAt} \subseteq Versions /\ generation \in Nat
  /\ DOMAIN entries \subseteq Keys
  /\ \A k \in DOMAIN entries : entries[k] \in [answer : Answers, expired : BOOLEAN]
  /\ {lru[i] : i \in 1 .. Len(lru)} = DOMAIN entries
  /\ Len(lru) = Cardinality(DOMAIN entries) /\ Len(lru) <= Capacity
  /\ optimistic \in BOOLEAN /\ applying \in BOOLEAN
  /\ flights \in [Keys -> Queries \cup {Nobody}]
  /\ Cardinality({k \in Keys : flights[k] # Nobody}) <= MaxMissFlights
  /\ \A q \in Queries :
       /\ query[q].key \in Keys \cup {Nobody} /\ query[q].leader \in Queries \cup {Nobody}
       /\ query[q].pc \in {"idle", "getStale", "prefetch", "serveStale", "join", "ask", "store",
                           "complete", "wait"} \cup Answered
       /\ query[q].answer \in Answers /\ query[q].since \in Versions
       /\ query[q].generation \in 0 .. generation
  /\ slots = Cardinality({k \in Keys : refresh[k].pc # "none"})
  /\ slots <= MaxRefreshes

\* An answer that was fetched before the cache was cleared is not in the cache,
\* however long it was under way: not by a query, not by a refresh.
EntriesCurrent ==
  \A k \in DOMAIN entries : entries[k].answer # Failed => entries[k].answer >= clearedAt

\* A query that begins after the cache was cleared is not answered from before,
\* unless it joins a fetch that began earlier; and not even such an answer was
\* asked for under settings that have been replaced since the query began.
AnswersFresh ==
  \A q \in Queries : query[q].answer # Failed =>
    /\ query[q].pc \in {"hit", "stale", "led"} => query[q].answer >= query[q].since
    /\ At(q, "joined") => query[q].answer >= settingsAt

\* A query waits only for one that is fetching its key, and one query fetches a
\* key at a time: nobody waits for a flight that has landed.
WaitersHaveLeader ==
  /\ \A q \in Queries : At(q, "wait") => flights[query[q].key] = query[q].leader
  /\ \A q \in Queries :
       At(q, "ask") \/ At(q, "store") \/ At(q, "complete") <=>
         \E k \in Keys : flights[k] = q /\ query[q].key = k

\* What the README says of CACHE_SERVFAIL_TTL: a SERVFAIL is answered from the
\* cache for a second at most.  The code breaks it when expired entries are
\* served.
ServfailExpires ==
  \A q \in Queries : At(q, "stale") => query[q].answer # Failed
=============================================================================
