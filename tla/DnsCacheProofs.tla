---------------------------- MODULE DnsCacheProofs ----------------------------
(***************************************************************************)
(* For any number of keys, queries and clearings, and caches, flights and  *)
(* refreshes of any capacity: nothing fetched before the cache was cleared *)
(* gets into it afterwards, who waits for a flight has a leader that       *)
(* fetches, and no query gets an answer older than the settings or its own *)
(* beginning.                                                              *)
(*                                                                         *)
(* EntriesCurrent is not inductive: what a query or a refresh is about to  *)
(* store matters as well.  It is current if the generation it remembers is *)
(* still the present one, and no generation is remembered before its time, *)
(* so that a clearing makes all of them old at once.  Flights (Led) and    *)
(* the age of answers (Fresh) have invariants of their own on top of this. *)
(***************************************************************************)
EXTENDS DnsCache, TLAPS

Working == {"getStale", "prefetch", "serveStale", "join", "ask", "store", "complete", "wait"}

QueryRecord ==
  [pc : {"idle"} \cup Working \cup Answered, key : Keys \cup {Nobody}, since : Nat, generation : Nat, answer : Int,
   leader : Queries \cup {Nobody}]

RefreshRecord == [pc : {"none", "spawned", "ask", "store"}, generation : Nat, answer : Int]

ConfigShape == version \in Nat /\ clearedAt \in Nat /\ generation \in Nat /\ clearedAt <= version

EntriesShape == \A k \in DOMAIN entries : entries[k] \in [answer : Int, expired : BOOLEAN]

QueryShape ==
  /\ flights \in [Keys -> Queries \cup {Nobody}]
  /\ query \in [Queries -> QueryRecord]
  /\ \A q \in Queries : query[q].pc \in Working => query[q].key \in Keys

RefreshShape == refresh \in [Keys -> RefreshRecord]

\* What has been fetched is as current as the generation it remembers.
Fetched(r) ==
  /\ r.generation <= generation
  /\ r.pc = "store" /\ r.generation = generation /\ r.answer # Failed => r.answer >= clearedAt

FetchesCurrent ==
  /\ \A q \in Queries : Fetched(query[q])
  /\ \A k \in Keys : Fetched(refresh[k])

Inv ==
  /\ ConfigShape /\ EntriesShape /\ QueryShape /\ RefreshShape
  /\ FetchesCurrent
  /\ EntriesCurrent

-----------------------------------------------------------------------------
(* Storing. *)

\* A current answer keeps the cache current.
LEMMA SetCurrent ==
  ASSUME NEW k, NEW a \in Int, EntriesShape, EntriesCurrent, UNCHANGED clearedAt,
         a # Failed => a >= clearedAt, Set(k, a)
  PROVE  EntriesShape' /\ EntriesCurrent'
<1>1. entries' = [x \in (DOMAIN entries \cup {k}) \ Victim(k) |->
                    IF x = k THEN [answer |-> a, expired |-> FALSE] ELSE entries[x]]
  BY DEF Set
<1>2. ASSUME NEW x \in DOMAIN entries'
      PROVE  /\ entries'[x] \in [answer : Int, expired : BOOLEAN]
             /\ entries'[x].answer # Failed => entries'[x].answer >= clearedAt
  <2>1. CASE x = k
    BY <1>1, <2>1
  <2>2. CASE x # k
    <3>1. x \in DOMAIN entries /\ entries'[x] = entries[x]
      BY <1>1, <2>2
    <3> QED BY <3>1 DEF EntriesShape, EntriesCurrent
  <2> QED BY <2>1, <2>2
<1> QED BY <1>2 DEF EntriesShape, EntriesCurrent

\* The check of the generation keeps the others out.
LEMMA StoreCurrent ==
  ASSUME NEW k, NEW r, r.pc = "store", r.answer \in Int, Fetched(r),
         EntriesShape, EntriesCurrent, UNCHANGED clearedAt,
         StoreIfGeneration(k, r.generation, r.answer)
  PROVE  EntriesShape' /\ EntriesCurrent'
<1>1. CASE UNCHANGED cacheVars
  BY <1>1 DEF cacheVars, EntriesShape, EntriesCurrent
<1>2. CASE IsCurrent(r.generation) /\ Set(k, r.answer)
  BY <1>2, SetCurrent DEF IsCurrent, Fetched
<1> QED BY <1>1, <1>2 DEF StoreIfGeneration

\* A cleared cache is current.
LEMMA EmptyCurrent ==
  ASSUME Empty
  PROVE  EntriesShape' /\ EntriesCurrent'
BY DEF Empty, EntriesShape, EntriesCurrent

\* So is one from which an entry has been removed.
LEMMA RemoveCurrent ==
  ASSUME NEW k, RemoveElement(k), EntriesShape, EntriesCurrent, UNCHANGED clearedAt
  PROVE  EntriesShape' /\ EntriesCurrent'
BY DEF RemoveElement, EntriesShape, EntriesCurrent

-----------------------------------------------------------------------------
(* The steps. *)

LEMMA FailedType == Failed \in Int
BY DEF Failed

LEMMA Records == Idle \in QueryRecord /\ NoRefresh \in RefreshRecord
BY DEF Idle, NoRefresh, Failed, QueryRecord, RefreshRecord

LEMMA InitInv == Init => Inv
<1> SUFFICES ASSUME Init PROVE Inv
  OBVIOUS
<1>1. ConfigShape /\ EntriesShape /\ EntriesCurrent
  BY DEF Init, ConfigShape, EntriesShape, EntriesCurrent
<1>2. QueryShape
  <2>1. Idle.pc \notin Working
    BY DEF Idle, Working
  <2> QED BY <2>1, Records DEF Init, QueryShape
<1>3. RefreshShape
  BY Records DEF Init, RefreshShape
<1>4. FetchesCurrent
  BY DEF Init, FetchesCurrent, Fetched, Idle, NoRefresh
<1> QED BY <1>1, <1>2, <1>3, <1>4 DEF Inv

\* What a query remembers becomes r.
LEMMA QueryBecomes ==
  ASSUME Inv, UNCHANGED configVars, NEW q \in Queries, NEW r \in QueryRecord,
         r.pc \in Working => r.key \in Keys, Fetched(r),
         query' = [query EXCEPT ![q] = r]
  PROVE  /\ ConfigShape'
         /\ query' \in [Queries -> QueryRecord]
         /\ \A p \in Queries : query'[p].pc \in Working => query'[p].key \in Keys
         /\ \A p \in Queries : Fetched(query[p])'
<1>1. \A p \in Queries : query'[p] = r \/ query'[p] = query[p]
  BY DEF Inv, QueryShape
<1>2. \A p \in Queries : Fetched(query[p])'
  BY <1>1 DEF Inv, FetchesCurrent, Fetched, configVars
<1>3. query' \in [Queries -> QueryRecord]
  BY DEF Inv, QueryShape
<1>4. ConfigShape'
  BY DEF Inv, ConfigShape, configVars
<1> QED BY <1>1, <1>2, <1>3, <1>4 DEF Inv, QueryShape

\* Then the rest of the invariant is a matter of what else the step changes.
LEMMA QueryKeepsInv ==
  ASSUME Inv, UNCHANGED configVars, NEW q \in Queries, NEW r \in QueryRecord,
         r.pc \in Working => r.key \in Keys, Fetched(r),
         query' = [query EXCEPT ![q] = r],
         flights' \in [Keys -> Queries \cup {Nobody}],
         RefreshShape' /\ \A k \in Keys : Fetched(refresh[k])',
         EntriesShape' /\ EntriesCurrent'
  PROVE  Inv'
BY QueryBecomes DEF Inv, QueryShape, FetchesCurrent

LEMMA RefreshUnchanged ==
  ASSUME Inv, UNCHANGED <<configVars, refresh>>
  PROVE  RefreshShape' /\ \A k \in Keys : Fetched(refresh[k])'
BY DEF Inv, RefreshShape, FetchesCurrent, Fetched, configVars

LEMMA EntriesUnchanged ==
  ASSUME Inv, UNCHANGED <<configVars, entries>>
  PROVE  EntriesShape' /\ EntriesCurrent'
BY DEF Inv, EntriesShape, EntriesCurrent, configVars

LEMMA HitInv ==
  ASSUME Inv, NEW q \in Queries, NEW k \in Keys, Hit(q, k)
  PROVE  Inv'
<1>1. PICK pc \in {"hit", "prefetch"} :
        query' = [query EXCEPT ![q] = [Idle EXCEPT !.pc = pc, !.since = clearedAt,
                    !.answer = entries[k].answer, !.key = IF pc = "hit" THEN Nobody ELSE k]]
  BY DEF Hit
<1> DEFINE r == [Idle EXCEPT !.pc = pc, !.since = clearedAt, !.answer = entries[k].answer,
                             !.key = IF pc = "hit" THEN Nobody ELSE k]
<1>2. entries[k].answer \in Int /\ clearedAt \in Nat /\ generation \in Nat
  BY DEF Inv, EntriesShape, ConfigShape, Hit
<1>3. r.pc = pc /\ r.generation = 0 /\ r.key = IF pc = "hit" THEN Nobody ELSE k
  BY DEF Idle
<1>4. r \in QueryRecord
  <2>1. r.key \in Keys \cup {Nobody} /\ pc \in {"idle"} \cup Working \cup Answered
    BY <1>3 DEF Working, Answered
  <2> QED BY <1>2, <2>1 DEF QueryRecord, Idle
<1>5. r.pc \in Working => r.key \in Keys
  BY <1>3 DEF Working
<1>6. Fetched(r)
  BY <1>2, <1>3 DEF Fetched
<1>7. query' = [query EXCEPT ![q] = r]
  BY <1>1
<1> HIDE DEF r
<1>8. UNCHANGED <<configVars, entries, flights, refresh>>
  BY DEF Hit
<1> QED
  BY <1>4, <1>5, <1>6, <1>7, <1>8, QueryKeepsInv, RefreshUnchanged, EntriesUnchanged
  DEF Inv, QueryShape

LEMMA MissInv ==
  ASSUME Inv, NEW q \in Queries, NEW k \in Keys, Miss(q, k)
  PROVE  Inv'
<1> DEFINE pc == IF optimistic THEN "getStale" ELSE "join"
           r == [Idle EXCEPT !.pc = pc, !.key = k, !.since = clearedAt]
<1>1. r \in QueryRecord /\ r.pc # "store" /\ r.key \in Keys /\ r.generation = 0
  <2>1. pc \in {"idle"} \cup Working \cup Answered /\ pc # "store"
    BY DEF Working
  <2> HIDE DEF pc
  <2>2. clearedAt \in Nat
    BY DEF Inv, ConfigShape
  <2> QED BY <2>1, <2>2, FailedType DEF QueryRecord, Idle
<1>2. Fetched(r)
  BY <1>1 DEF Fetched, Inv, ConfigShape
<1>3. query' = [query EXCEPT ![q] = r]
  BY DEF Miss
<1>4. UNCHANGED <<configVars, flights, refresh>> /\ (UNCHANGED entries \/ RemoveElement(k))
  BY DEF Miss, cacheVars
<1>5. EntriesShape' /\ EntriesCurrent'
  BY <1>4, EntriesUnchanged, RemoveCurrent DEF Inv, configVars
<1> HIDE DEF r
<1> QED
  BY <1>1, <1>2, <1>3, <1>4, <1>5, QueryKeepsInv, RefreshUnchanged DEF Inv, QueryShape

LEMMA GetStaleInv ==
  ASSUME Inv, NEW q \in Queries, GetStale(q)
  PROVE  Inv'
<1> DEFINE k == query[q].key
<1>1. query[q] \in QueryRecord /\ k \in Keys /\ Fetched(query[q])
  BY DEF Inv, QueryShape, FetchesCurrent, GetStale, At, Working
<1>2. UNCHANGED <<configVars, entries, flights, refresh>>
  BY DEF GetStale, cacheVars
<1>3. CASE k \in DOMAIN entries
  <2> DEFINE r == [query[q] EXCEPT !.pc = "serveStale", !.answer = entries[k].answer]
  <2>1. entries[k].answer \in Int
    BY <1>3 DEF Inv, EntriesShape
  <2>2. r \in QueryRecord /\ r.key \in Keys /\ Fetched(r)
    BY <1>1, <2>1 DEF QueryRecord, Working, Fetched
  <2>3. query' = [query EXCEPT ![q] = r]
    BY <1>3 DEF GetStale, Inv, QueryShape
  <2> HIDE DEF r
  <2> QED
    BY <1>2, <2>2, <2>3, QueryKeepsInv, RefreshUnchanged, EntriesUnchanged DEF Inv, QueryShape
<1>4. CASE k \notin DOMAIN entries
  <2> DEFINE r == [query[q] EXCEPT !.pc = "join"]
  <2>1. r \in QueryRecord /\ r.key \in Keys /\ Fetched(r)
    BY <1>1 DEF QueryRecord, Working, Fetched
  <2>2. query' = [query EXCEPT ![q] = r]
    BY <1>4 DEF GetStale, Go
  <2> HIDE DEF r
  <2> QED
    BY <1>2, <2>1, <2>2, QueryKeepsInv, RefreshUnchanged, EntriesUnchanged DEF Inv, QueryShape
<1> QED BY <1>3, <1>4

\* What a refresh remembers becomes r.
LEMMA RefreshBecomes ==
  ASSUME Inv, UNCHANGED configVars, NEW k \in Keys, NEW r \in RefreshRecord, Fetched(r),
         refresh' = [refresh EXCEPT ![k] = r]
  PROVE  RefreshShape' /\ \A x \in Keys : Fetched(refresh[x])'
<1>1. \A x \in Keys : refresh'[x] = r \/ refresh'[x] = refresh[x]
  BY DEF Inv, RefreshShape
<1> QED BY <1>1 DEF Inv, RefreshShape, FetchesCurrent, Fetched, configVars

\* A query is answered.
LEMMA AnswerKeepsInv ==
  ASSUME Inv, UNCHANGED configVars, NEW q \in Queries, NEW how \in Answered, NEW a \in Int,
         Answer(q, how, a),
         flights' \in [Keys -> Queries \cup {Nobody}],
         RefreshShape' /\ \A k \in Keys : Fetched(refresh[k])',
         EntriesShape' /\ EntriesCurrent'
  PROVE  Inv'
<1> DEFINE r == [Idle EXCEPT !.pc = how, !.answer = a, !.since = query[q].since]
<1>1. query[q].since \in Nat /\ generation \in Nat
  BY DEF Inv, QueryShape, QueryRecord, ConfigShape
<1>2. r \in QueryRecord /\ r.pc \notin Working /\ Fetched(r)
  <2>1. r \in QueryRecord
    BY <1>1 DEF QueryRecord, Idle
  <2>2. r.pc = how /\ r.generation = 0
    BY DEF Idle
  <2>3. how \notin Working /\ how # "store"
    BY DEF Answered, Working
  <2> QED BY <1>1, <2>1, <2>2, <2>3 DEF Fetched
<1>3. query' = [query EXCEPT ![q] = r]
  BY DEF Answer
<1> HIDE DEF r
<1> QED BY <1>2, <1>3, QueryKeepsInv

LEMMA RefreshAsyncInv ==
  ASSUME Inv, NEW q \in Queries, RefreshAsync(q)
  PROVE  Inv'
<1> DEFINE k == query[q].key
           r == [NoRefresh EXCEPT !.pc = "spawned", !.generation = generation]
<1>1. k \in Keys /\ query[q].answer \in Int
  BY DEF Inv, QueryShape, QueryRecord, RefreshAsync, At, Working
<1>2. UNCHANGED <<configVars, entries, flights>>
  BY DEF RefreshAsync, cacheVars
<1>3. UNCHANGED refresh \/ refresh' = [refresh EXCEPT ![k] = r]
  BY DEF RefreshAsync
<1>4. r \in RefreshRecord /\ Fetched(r)
  <2>1. generation \in Nat
    BY DEF Inv, ConfigShape
  <2>2. r \in RefreshRecord
    BY <2>1, FailedType DEF RefreshRecord, NoRefresh
  <2>3. r.pc = "spawned" /\ r.generation = generation
    BY DEF NoRefresh
  <2> QED BY <2>1, <2>2, <2>3 DEF Fetched
<1> HIDE DEF r
<1>5. RefreshShape' /\ \A x \in Keys : Fetched(refresh[x])'
  BY <1>1, <1>2, <1>3, <1>4, RefreshBecomes, RefreshUnchanged
<1>6. PICK how \in {"hit", "stale"} : Answer(q, how, query[q].answer)
  BY DEF RefreshAsync
<1>7. how \in Answered
  BY DEF Answered
<1> QED
  BY <1>1, <1>2, <1>5, <1>6, <1>7, AnswerKeepsInv, EntriesUnchanged DEF Inv, QueryShape

LEMMA JoinInv ==
  ASSUME Inv, NEW q \in Queries, Join(q)
  PROVE  Inv'
<1> DEFINE k == query[q].key
<1>1. /\ query[q] \in QueryRecord /\ k \in Keys /\ generation \in Nat
      /\ flights[k] \in Queries \cup {Nobody}
  BY DEF Inv, QueryShape, ConfigShape, Join, At, Working
<1>2. UNCHANGED <<configVars, entries, refresh>>
  BY DEF Join, cacheVars
<1>3. CASE flights[k] # Nobody
  <2> DEFINE r == [query[q] EXCEPT !.pc = "wait", !.leader = flights[k]]
  <2>1. r \in QueryRecord /\ r.key \in Keys /\ Fetched(r)
    BY <1>1 DEF QueryRecord, Working, Fetched, Inv, FetchesCurrent
  <2>2. query' = [query EXCEPT ![q] = r] /\ UNCHANGED flights
    BY <1>3 DEF Join, Inv, QueryShape
  <2> HIDE DEF r
  <2> QED
    BY <1>2, <2>1, <2>2, QueryKeepsInv, RefreshUnchanged, EntriesUnchanged DEF Inv, QueryShape
<1>4. CASE Answer(q, "refused", Failed) /\ UNCHANGED flights
  <2>1. "refused" \in Answered /\ Failed \in Int
    BY DEF Answered, Failed
  <2> QED
    BY <1>2, <1>4, <2>1, AnswerKeepsInv, RefreshUnchanged, EntriesUnchanged DEF Inv, QueryShape
<1>5. CASE /\ flights' = [flights EXCEPT ![k] = q]
           /\ query' = [query EXCEPT ![q].pc = "ask", ![q].generation = generation]
  <2> DEFINE r == [query[q] EXCEPT !.pc = "ask", !.generation = generation]
  <2>1. r \in QueryRecord /\ r.key \in Keys
    BY <1>1 DEF QueryRecord, Working
  <2>2. Fetched(r)
    <3>1. r.pc = "ask" /\ r.generation = generation
      BY <1>1 DEF QueryRecord
    <3> QED BY <1>1, <3>1 DEF Fetched
  <2>3. query' = [query EXCEPT ![q] = r]
    BY <1>5 DEF Inv, QueryShape
  <2>4. flights' \in [Keys -> Queries \cup {Nobody}]
    BY <1>5 DEF Inv, QueryShape
  <2> HIDE DEF r
  <2> QED
    BY <1>2, <2>1, <2>2, <2>3, <2>4, QueryKeepsInv, RefreshUnchanged, EntriesUnchanged
<1> QED BY <1>3, <1>4, <1>5 DEF Join

LEMMA AskInv ==
  ASSUME Inv, NEW q \in Queries, Ask(q)
  PROVE  Inv'
<1>1. PICK a \in {version, Failed} :
        query' = [query EXCEPT ![q].pc = "store", ![q].answer = a]
  BY DEF Ask
<1> DEFINE r == [query[q] EXCEPT !.pc = "store", !.answer = a]
<1>2. /\ query[q] \in QueryRecord /\ query[q].key \in Keys
      /\ a \in Int /\ (a # Failed => a >= clearedAt)
  BY FailedType DEF Inv, QueryShape, ConfigShape, Ask, At, Working
<1>3. r \in QueryRecord /\ r.key \in Keys
  BY <1>2 DEF QueryRecord, Working
<1>4. Fetched(r)
  <2>1. r.answer = a /\ r.generation = query[q].generation
    BY <1>2 DEF QueryRecord
  <2> QED BY <1>2, <2>1 DEF Inv, FetchesCurrent, Fetched
<1>5. query' = [query EXCEPT ![q] = r]
  BY <1>1 DEF Inv, QueryShape
<1>6. UNCHANGED <<configVars, entries, flights, refresh>>
  BY DEF Ask, cacheVars
<1> HIDE DEF r
<1> QED
  BY <1>3, <1>4, <1>5, <1>6, QueryKeepsInv, RefreshUnchanged, EntriesUnchanged
  DEF Inv, QueryShape

LEMMA StoreInv ==
  ASSUME Inv, NEW q \in Queries, Store(q)
  PROVE  Inv'
<1> DEFINE r == [query[q] EXCEPT !.pc = "complete"]
<1>1. query[q] \in QueryRecord /\ query[q].key \in Keys /\ Fetched(query[q]) /\ query[q].pc = "store"
  BY DEF Inv, QueryShape, FetchesCurrent, Store, At, Working
<1>2. UNCHANGED <<configVars, flights, refresh>>
  BY DEF Store
<1>3. EntriesShape' /\ EntriesCurrent'
  <2>1. query[q].answer \in Int
    BY <1>1 DEF QueryRecord
  <2> QED BY <1>1, <1>2, <2>1, StoreCurrent DEF Inv, Store, configVars
<1>4. r \in QueryRecord /\ r.key \in Keys /\ Fetched(r)
  BY <1>1 DEF QueryRecord, Working, Fetched
<1>5. query' = [query EXCEPT ![q] = r]
  BY DEF Store, Go
<1> HIDE DEF r
<1> QED
  BY <1>2, <1>3, <1>4, <1>5, QueryKeepsInv, RefreshUnchanged DEF Inv, QueryShape

LEMMA CompleteInv ==
  ASSUME Inv, NEW q \in Queries, Complete(q)
  PROVE  Inv'
<1> DEFINE r(f) == [Idle EXCEPT !.pc = IF f = q THEN "led" ELSE "joined",
                                !.answer = query[q].answer, !.since = query[f].since]
<1>1. ASSUME NEW f \in Queries
      PROVE  r(f) \in QueryRecord /\ r(f).pc \notin Working /\ Fetched(r(f))
  <2> DEFINE pc == IF f = q THEN "led" ELSE "joined"
  <2>1. query[f].since \in Nat /\ query[q].answer \in Int /\ generation \in Nat
    BY DEF Inv, QueryShape, QueryRecord, ConfigShape
  <2>2. pc \in Answered /\ pc \notin Working /\ pc # "store"
    BY DEF Answered, Working
  <2>3. r(f).pc = pc /\ r(f).generation = 0
    BY DEF Idle
  <2> HIDE DEF pc
  <2>4. r(f) = [Idle EXCEPT !.pc = pc, !.answer = query[q].answer, !.since = query[f].since]
    BY DEF pc
  <2>5. r(f) \in QueryRecord
    BY <2>1, <2>2, <2>4 DEF QueryRecord, Idle
  <2> QED BY <2>1, <2>2, <2>3, <2>5 DEF Fetched
<1>2. query' = [f \in Queries |-> IF f = q \/ f \in Woken(q) THEN r(f) ELSE query[f]]
  BY DEF Complete
<1> HIDE DEF r
<1>3. \A f \in Queries : query'[f] = r(f) \/ query'[f] = query[f]
  BY <1>2
<1>4. UNCHANGED <<configVars, entries, refresh>>
  BY DEF Complete, cacheVars
<1>5. QueryShape'
  <2>1. query' \in [Queries -> QueryRecord]
    BY <1>1, <1>2 DEF Inv, QueryShape
  <2>2. \A f \in Queries : query'[f].pc \in Working => query'[f].key \in Keys
    BY <1>1, <1>3 DEF Inv, QueryShape
  <2>3. flights' \in [Keys -> Queries \cup {Nobody}]
    BY DEF Complete, Inv, QueryShape
  <2> QED BY <2>1, <2>2, <2>3 DEF QueryShape
<1>6. \A f \in Queries : Fetched(query[f])'
  BY <1>1, <1>3, <1>4 DEF Inv, FetchesCurrent, Fetched, configVars
<1> QED
  BY <1>4, <1>5, <1>6, RefreshUnchanged, EntriesUnchanged
  DEF Inv, FetchesCurrent, ConfigShape, configVars

LEMMA EndInv ==
  ASSUME Inv, NEW q \in Queries, End(q)
  PROVE  Inv'
<1>1. Idle \in QueryRecord /\ Idle.pc \notin Working /\ Fetched(Idle)
  BY Records DEF Idle, Working, Fetched, Inv, ConfigShape
<1>2. UNCHANGED <<configVars, entries, flights, refresh>> /\ query' = [query EXCEPT ![q] = Idle]
  BY DEF End, cacheVars
<1> QED
  BY <1>1, <1>2, QueryKeepsInv, RefreshUnchanged, EntriesUnchanged DEF Inv, QueryShape

-----------------------------------------------------------------------------
LEMMA QueryUnchanged ==
  ASSUME Inv, UNCHANGED <<configVars, flights, query>>
  PROVE  ConfigShape' /\ QueryShape' /\ \A q \in Queries : Fetched(query[q])'
BY DEF Inv, ConfigShape, QueryShape, FetchesCurrent, Fetched, configVars

LEMMA RefreshInv ==
  ASSUME Inv, NEW k \in Keys, Refreshing(k)
  PROVE  Inv'
<1>1. refresh[k] \in RefreshRecord /\ Fetched(refresh[k]) /\ generation \in Nat
  BY DEF Inv, RefreshShape, FetchesCurrent, ConfigShape
<1>2. UNCHANGED <<configVars, flights, query>>
  BY DEF Refreshing, RefreshRuns, RefreshAsks, RefreshEnds, RefreshFrame
<1>3. CASE RefreshRuns(k)
  <2> DEFINE r == [refresh[k] EXCEPT !.pc = "ask"]
  <2>1. r \in RefreshRecord /\ Fetched(r)
    BY <1>1 DEF RefreshRecord, Fetched
  <2>2. refresh' = [refresh EXCEPT ![k] = r] /\ UNCHANGED entries
    BY <1>3 DEF RefreshRuns, cacheVars
  <2> HIDE DEF r
  <2> QED
    BY <1>2, <2>1, <2>2, RefreshBecomes, QueryUnchanged, EntriesUnchanged DEF Inv, FetchesCurrent
<1>4. CASE RefreshAsks(k)
  <2>1. PICK a \in {version, Failed} :
          refresh' = [refresh EXCEPT ![k].pc = "store", ![k].answer = a]
    BY <1>4 DEF RefreshAsks
  <2> DEFINE r == [refresh[k] EXCEPT !.pc = "store", !.answer = a]
  <2>2. a \in Int /\ (a # Failed => a >= clearedAt)
    BY FailedType DEF Inv, ConfigShape
  <2>3. r \in RefreshRecord /\ r.answer = a /\ r.generation = refresh[k].generation
    BY <1>1, <2>2 DEF RefreshRecord
  <2>4. refresh' = [refresh EXCEPT ![k] = r]
    BY <2>1 DEF Inv, RefreshShape
  <2>5. UNCHANGED entries
    BY <1>4 DEF RefreshAsks, cacheVars
  <2> HIDE DEF r
  <2>6. Fetched(r)
    BY <1>1, <2>2, <2>3 DEF Fetched
  <2> QED
    BY <1>2, <2>3, <2>4, <2>5, <2>6, RefreshBecomes, QueryUnchanged, EntriesUnchanged
    DEF Inv, FetchesCurrent
<1>5. CASE RefreshEnds(k)
  <2>1. EntriesShape' /\ EntriesCurrent'
    <3>1. CASE UNCHANGED cacheVars
      BY <1>2, <3>1, EntriesUnchanged DEF cacheVars
    <3>2. CASE StoreIfGeneration(k, refresh[k].generation, refresh[k].answer)
      <4>1. refresh[k].answer \in Int /\ refresh[k].pc = "store"
        BY <1>1, <1>5 DEF RefreshRecord, RefreshEnds
      <4> QED BY <1>1, <1>2, <3>2, <4>1, StoreCurrent DEF Inv, configVars
    <3> QED BY <1>5, <3>1, <3>2 DEF RefreshEnds
  <2>2. NoRefresh \in RefreshRecord /\ Fetched(NoRefresh)
    BY <1>1, Records DEF NoRefresh, Fetched
  <2>3. refresh' = [refresh EXCEPT ![k] = NoRefresh]
    BY <1>5 DEF RefreshEnds
  <2> QED
    BY <1>2, <2>1, <2>2, <2>3, RefreshBecomes, QueryUnchanged DEF Inv, FetchesCurrent
<1> QED BY <1>3, <1>4, <1>5 DEF Refreshing

LEMMA ExpireInv ==
  ASSUME Inv, NEW k \in Keys, Expire(k)
  PROVE  Inv'
<1>1. entries' = [entries EXCEPT ![k].expired = TRUE]
  BY DEF Expire
<1>2. EntriesShape' /\ EntriesCurrent'
  <2>1. \A x \in DOMAIN entries' :
          /\ x \in DOMAIN entries /\ entries'[x] \in [answer : Int, expired : BOOLEAN]
          /\ entries'[x].answer = entries[x].answer
    BY <1>1 DEF Expire, Inv, EntriesShape
  <2> QED BY <2>1 DEF EntriesShape, EntriesCurrent, Inv, Expire, configVars
<1> QED
  BY <1>2, QueryUnchanged, RefreshUnchanged DEF Inv, Expire, FetchesCurrent

\* After a clearing every generation that is remembered is an old one.
LEMMA ClearingInv ==
  ASSUME Inv, Empty, generation' = generation + 1, version' \in Nat, version' >= version,
         clearedAt' = version', UNCHANGED <<flights, query, refresh>>
  PROVE  Inv'
<1>1. ConfigShape'
  BY DEF Inv, ConfigShape
<1>2. QueryShape' /\ RefreshShape'
  BY DEF Inv, QueryShape, RefreshShape
<1>3. \A q \in Queries : query[q].generation \in Nat /\ query[q].generation <= generation
  BY DEF Inv, QueryShape, QueryRecord, FetchesCurrent, Fetched
<1>4. \A k \in Keys : refresh[k].generation \in Nat /\ refresh[k].generation <= generation
  BY DEF Inv, RefreshShape, RefreshRecord, FetchesCurrent, Fetched
<1>5. FetchesCurrent'
  BY <1>3, <1>4 DEF Inv, ConfigShape, FetchesCurrent, Fetched
<1> QED BY <1>1, <1>2, <1>5, EmptyCurrent DEF Inv

LEMMA AdministrationInv ==
  ASSUME Inv, Administration
  PROVE  Inv'
<1>1. CASE Change
  <2>1. version' = version + 1 /\ UNCHANGED <<clearedAt, generation, entries, flights, query, refresh>>
    BY <1>1 DEF Change, cacheVars
  <2> QED
    BY <2>1 DEF Inv, ConfigShape, EntriesShape, QueryShape, RefreshShape, FetchesCurrent,
                Fetched, EntriesCurrent
<1>2. CASE Clear
  BY <1>2, ClearingInv DEF Clear, Inv, ConfigShape
<1>3. CASE ApplySettingsBegins
  <2>1. UNCHANGED <<version, clearedAt, generation, entries, flights, query, refresh>>
    BY <1>3 DEF ApplySettingsBegins, cacheVars
  <2> QED
    BY <2>1 DEF Inv, ConfigShape, EntriesShape, QueryShape, RefreshShape, FetchesCurrent,
                Fetched, EntriesCurrent
<1>4. CASE ApplySettings
  BY <1>4, ClearingInv DEF ApplySettings, Inv, ConfigShape
<1> QED BY <1>1, <1>2, <1>3, <1>4 DEF Administration

LEMMA NextInv == Inv /\ [Next]_vars => Inv'
<1> SUFFICES ASSUME Inv, [Next]_vars PROVE Inv'
  OBVIOUS
<1>1. ASSUME NEW q \in Queries, NEW k \in Keys, Hit(q, k) \/ Miss(q, k)
      PROVE  Inv'
  BY <1>1, HitInv, MissInv
<1>2. ASSUME NEW q \in Queries, Answering(q)
      PROVE  Inv'
  BY <1>2, GetStaleInv, RefreshAsyncInv, JoinInv, AskInv, StoreInv, CompleteInv, EndInv
  DEF Answering
<1>3. ASSUME NEW k \in Keys, Refreshing(k) \/ Expire(k)
      PROVE  Inv'
  BY <1>3, RefreshInv, ExpireInv
<1>4. CASE UNCHANGED vars
  BY <1>4, QueryUnchanged, RefreshUnchanged, EntriesUnchanged
  DEF Inv, FetchesCurrent, vars, cacheVars
<1> QED BY <1>1, <1>2, <1>3, <1>4, AdministrationInv DEF Next

\* What was fetched before the cache was cleared, by a query or by a refresh,
\* however long it was under way, never gets into the cache afterwards
\* (storeInCacheIfGeneration).
THEOREM CacheStaysCurrent == Spec => []EntriesCurrent
<1>1. Inv => EntriesCurrent
  BY DEF Inv
<1> QED BY InitInv, NextInv, <1>1, PTL DEF Spec

-----------------------------------------------------------------------------
(* Flights and who waits for them. *)

Fetches(r) == r.pc \in {"ask", "store", "complete"}

\* Who fetches has the flight of the key, whoever has a flight fetches its key,
\* and who waits for a flight waits for the one of the key.
Led ==
  /\ \A q \in Queries : Fetches(query[q]) => flights[query[q].key] = q
  /\ \A k \in Keys : flights[k] \in Queries => Fetches(query[flights[k]]) /\ query[flights[k]].key = k
  /\ \A q \in Queries : query[q].pc = "wait" =>
       query[q].leader \in Queries /\ flights[query[q].key] = query[q].leader

LEMMA LedMeansWaitersHaveLeader == Inv /\ Led => WaitersHaveLeader
<1> SUFFICES ASSUME Inv, Led PROVE WaitersHaveLeader
  OBVIOUS
<1>1. \A q \in Queries : Fetches(query[q]) => query[q].key \in Keys
  BY DEF Inv, QueryShape, Fetches, Working
<1> QED BY <1>1 DEF Led, WaitersHaveLeader, At, Fetches

\* A step of one query that neither begins nor ends a fetch.
LEMMA LedStaysWith ==
  ASSUME Inv, Led, UNCHANGED flights, NEW q \in Queries, NEW r,
         query' = [query EXCEPT ![q] = r],
         Fetches(r) <=> Fetches(query[q]),
         Fetches(r) => r.key = query[q].key,
         r.pc = "wait" => r.leader \in Queries /\ flights[r.key] = r.leader
  PROVE  Led'
<1>1. query'[q] = r /\ \A p \in Queries \ {q} : query'[p] = query[p]
  BY DEF Inv, QueryShape
<1>2. \A p \in Queries : /\ Fetches(query'[p]) <=> Fetches(query[p])
                         /\ Fetches(query[p]) => query'[p].key = query[p].key
  BY <1>1
<1>3. \A p \in Queries : Fetches(query'[p]) => flights'[query'[p].key] = p
  BY <1>2 DEF Led
<1>4. \A k \in Keys : flights'[k] \in Queries =>
        Fetches(query'[flights'[k]]) /\ query'[flights'[k]].key = k
  BY <1>2 DEF Led
<1>5. \A p \in Queries : query'[p].pc = "wait" =>
        query'[p].leader \in Queries /\ flights'[query'[p].key] = query'[p].leader
  BY <1>1 DEF Led
<1>6. \A p \in Queries : Fetches(query[p])' <=> Fetches(query'[p])
  BY DEF Fetches
<1>7. \A k \in Keys : Fetches(query[flights[k]])' <=> Fetches(query'[flights'[k]])
  BY DEF Fetches
<1> QED BY <1>3, <1>4, <1>5, <1>6, <1>7 DEF Led

LEMMA LedUnchanged ==
  ASSUME Led, UNCHANGED <<flights, query>>
  PROVE  Led'
BY DEF Led, Fetches

\* A query that fetches nothing is answered.
LEMMA LedAnswered ==
  ASSUME Inv, Led, UNCHANGED flights, NEW q \in Queries, NEW how \in Answered, NEW a,
         ~Fetches(query[q]), Answer(q, how, a)
  PROVE  Led'
<1> DEFINE r == [Idle EXCEPT !.pc = how, !.answer = a, !.since = query[q].since]
<1>1. r.pc = how
  BY DEF Idle
<1>2. ~Fetches(r) /\ r.pc # "wait"
  BY <1>1 DEF Fetches, Answered
<1>3. query' = [query EXCEPT ![q] = r]
  BY DEF Answer
<1> HIDE DEF r
<1> QED BY <1>2, <1>3, LedStaysWith

LEMMA LookupLed ==
  ASSUME Inv, Led, NEW q \in Queries, NEW k \in Keys, Hit(q, k) \/ Miss(q, k)
  PROVE  Led'
<1>1. \E r : /\ query' = [query EXCEPT ![q] = r]
            /\ r.pc \in {"hit", "prefetch", "getStale", "join"}
  <2>1. CASE Hit(q, k)
    <3>1. PICK pc \in {"hit", "prefetch"} :
            query' = [query EXCEPT ![q] = [Idle EXCEPT !.pc = pc, !.since = clearedAt,
                        !.answer = entries[k].answer, !.key = IF pc = "hit" THEN Nobody ELSE k]]
      BY <2>1 DEF Hit
    <3>2. [Idle EXCEPT !.pc = pc, !.since = clearedAt, !.answer = entries[k].answer,
                       !.key = IF pc = "hit" THEN Nobody ELSE k].pc = pc
      BY DEF Idle
    <3> QED BY <3>1, <3>2
  <2>2. CASE Miss(q, k)
    <3> DEFINE r == [Idle EXCEPT !.pc = IF optimistic THEN "getStale" ELSE "join",
                                 !.key = k, !.since = clearedAt]
    <3>1. query' = [query EXCEPT ![q] = r]
      BY <2>2 DEF Miss
    <3>2. r.pc \in {"getStale", "join"}
      BY DEF Idle
    <3> QED BY <3>1, <3>2
  <2> QED BY <2>1, <2>2
<1>2. query[q].pc = "idle" /\ UNCHANGED flights
  BY DEF Hit, Miss, At
<1> QED BY <1>1, <1>2, LedStaysWith DEF Fetches

LEMMA JoinLed ==
  ASSUME Inv, Led, NEW q \in Queries, Join(q)
  PROVE  Led'
<1> DEFINE k == query[q].key
<1>1. /\ query \in [Queries -> QueryRecord] /\ query[q] \in QueryRecord /\ query[q].pc = "join" /\ k \in Keys
      /\ flights \in [Keys -> Queries \cup {Nobody}]
  BY DEF Inv, QueryShape, Join, At, Working
<1>2. CASE flights[k] # Nobody
  <2> DEFINE r == [query[q] EXCEPT !.pc = "wait", !.leader = flights[k]]
  <2>1. query' = [query EXCEPT ![q] = r] /\ UNCHANGED flights
    BY <1>1, <1>2 DEF Join
  <2>2. r.pc = "wait" /\ r.leader = flights[r.key] /\ r.leader \in Queries
    BY <1>1, <1>2 DEF QueryRecord
  <2> HIDE DEF r
  <2> QED BY <1>1, <2>1, <2>2, LedStaysWith DEF Fetches
<1>3. CASE Answer(q, "refused", Failed) /\ UNCHANGED flights
  BY <1>1, <1>3, LedAnswered DEF Answered, Fetches
<1>4. CASE /\ flights[k] = Nobody
           /\ flights' = [flights EXCEPT ![k] = q]
           /\ query' = [query EXCEPT ![q].pc = "ask", ![q].generation = generation]
  <2>1. /\ query'[q].pc = "ask" /\ query'[q].key = k
        /\ \A p \in Queries \ {q} : query'[p] = query[p]
    BY <1>1, <1>4 DEF QueryRecord
  <2>2. flights'[k] = q /\ \A x \in Keys \ {k} : flights'[x] = flights[x] /\ flights[x] # q
    BY <1>1, <1>4 DEF Led, Fetches
  <2>3. \A p \in Queries \ {q} : Fetches(query[p]) \/ query[p].pc = "wait" => query[p].key \in Keys \ {k}
    <3>1. \A p \in Queries : Fetches(query[p]) \/ query[p].pc = "wait" =>
            query[p].key \in Keys /\ flights[query[p].key] \in Queries
      BY DEF Led, Inv, QueryShape, Fetches, Working
    <3>2. Nobody \notin Queries
      BY CacheAssumption
    <3> QED BY <1>4, <3>1, <3>2
  <2>4. \A p \in Queries : Fetches(query'[p]) => flights'[query'[p].key] = p
    BY <2>1, <2>2, <2>3 DEF Led
  <2>5. \A x \in Keys : flights'[x] \in Queries =>
          Fetches(query'[flights'[x]]) /\ query'[flights'[x]].key = x
    <3>1. CASE TRUE
      <4> TAKE x \in Keys
      <4>1. CASE x = k
        BY <2>1, <2>2, <4>1 DEF Fetches
      <4>2. CASE x # k
        BY <2>1, <2>2, <4>2 DEF Led
      <4> QED BY <4>1, <4>2
    <3> QED BY <3>1
  <2>6. \A p \in Queries : query'[p].pc = "wait" =>
          query'[p].leader \in Queries /\ flights'[query'[p].key] = query'[p].leader
    BY <2>1, <2>2, <2>3 DEF Led
  <2> QED BY <2>4, <2>5, <2>6 DEF Led, Fetches
<1> QED BY <1>2, <1>3, <1>4 DEF Join

LEMMA CompleteLed ==
  ASSUME Inv, Led, NEW q \in Queries, Complete(q)
  PROVE  Led'
<1> DEFINE k == query[q].key
<1>1. /\ query[q].pc = "complete" /\ Fetches(query[q]) /\ k \in Keys /\ flights[k] = q
      /\ flights \in [Keys -> Queries \cup {Nobody}]
  BY DEF Inv, QueryShape, Complete, At, Working, Fetches, Led
<1>2. \A x \in Keys : flights'[x] = IF x = k THEN Nobody ELSE flights[x]
  BY <1>1 DEF Complete
<1>3. \A p \in Queries :
        \/ p # q /\ ~(query[p].pc = "wait" /\ query[p].leader = q) /\ query'[p] = query[p]
        \/ query'[p].pc \in {"led", "joined"}
  <2> TAKE p \in Queries
  <2>1. CASE p = q \/ p \in Woken(q)
    <3> DEFINE r == [Idle EXCEPT !.pc = IF p = q THEN "led" ELSE "joined",
                                 !.answer = query[q].answer, !.since = query[p].since]
    <3>1. query'[p] = r
      BY <2>1 DEF Complete
    <3>2. r.pc \in {"led", "joined"}
      BY DEF Idle
    <3> QED BY <3>1, <3>2
  <2>2. CASE ~(p = q \/ p \in Woken(q))
    BY <2>2 DEF Complete, Woken, At
  <2> QED BY <2>1, <2>2
<1>4. \A p \in Queries : (Fetches(query'[p]) \/ query'[p].pc = "wait") =>
        /\ query'[p] = query[p] /\ query[p].key \in Keys \ {k}
        /\ Fetches(query[p]) => p # q
  <2> SUFFICES ASSUME NEW p \in Queries, Fetches(query'[p]) \/ query'[p].pc = "wait"
               PROVE  /\ query'[p] = query[p] /\ query[p].key \in Keys \ {k}
                      /\ Fetches(query[p]) => p # q
    OBVIOUS
  <2>1. p # q /\ ~(query[p].pc = "wait" /\ query[p].leader = q) /\ query'[p] = query[p]
    BY <1>3 DEF Fetches
  <2>2. query[p].key \in Keys
    BY <2>1 DEF Inv, QueryShape, Fetches, Working
  <2>3. query[p].key # k
    BY <1>1, <2>1 DEF Led
  <2> QED BY <2>1, <2>2, <2>3
<1>5. \A x \in Keys : flights'[x] \in Queries =>
        x # k /\ flights[x] # q /\ flights'[x] = flights[x]
  BY <1>1, <1>2, CacheAssumption DEF Led
<1>6. \A p \in Queries : Fetches(query'[p]) => flights'[query'[p].key] = p
  BY <1>2, <1>4 DEF Led
<1>7. \A x \in Keys : flights'[x] \in Queries =>
        Fetches(query'[flights'[x]]) /\ query'[flights'[x]].key = x
  <2> SUFFICES ASSUME NEW x \in Keys, flights'[x] \in Queries
               PROVE  Fetches(query'[flights'[x]]) /\ query'[flights'[x]].key = x
    OBVIOUS
  <2>1. x # k /\ flights[x] # q /\ flights'[x] = flights[x]
    BY <1>5
  <2>2. Fetches(query[flights[x]]) /\ query[flights[x]].key = x
    BY <2>1 DEF Led
  <2>3. query'[flights[x]] = query[flights[x]]
    <3>1. query[flights[x]].pc # "wait" /\ flights[x] \notin Woken(q)
      BY <2>2 DEF Fetches, Woken, At
    <3> QED BY <2>1, <3>1 DEF Complete
  <2> QED BY <2>1, <2>2, <2>3
<1>8. \A p \in Queries : query'[p].pc = "wait" =>
        query'[p].leader \in Queries /\ flights'[query'[p].key] = query'[p].leader
  BY <1>2, <1>4 DEF Led
<1> QED BY <1>6, <1>7, <1>8 DEF Led, Fetches

LEMMA AnsweringLed ==
  ASSUME Inv, Led, NEW q \in Queries, Answering(q)
  PROVE  Led'
<1>1. query \in [Queries -> QueryRecord] /\ query[q] \in QueryRecord
  BY DEF Inv, QueryShape
<1>2. CASE GetStale(q)
  <2>1. UNCHANGED flights /\ query[q].pc = "getStale"
    BY <1>2 DEF GetStale, At
  <2>2. \E r : query' = [query EXCEPT ![q] = r] /\ r.pc \in {"serveStale", "join"}
    <3> DEFINE a == [query[q] EXCEPT !.pc = "serveStale", !.answer = entries[query[q].key].answer]
               b == [query[q] EXCEPT !.pc = "join"]
    <3>1. query' = [query EXCEPT ![q] = a] \/ query' = [query EXCEPT ![q] = b]
      BY <1>1, <1>2 DEF GetStale, Go
    <3>2. a.pc = "serveStale" /\ b.pc = "join"
      BY <1>1 DEF QueryRecord
    <3> QED BY <3>1, <3>2
  <2> QED BY <2>1, <2>2, LedStaysWith DEF Fetches
<1>3. CASE RefreshAsync(q)
  BY <1>3, LedAnswered DEF RefreshAsync, Answered, Fetches, At
<1>4. CASE Join(q)
  BY <1>4, JoinLed
<1>5. CASE Ask(q)
  <2>1. PICK a : query' = [query EXCEPT ![q].pc = "store", ![q].answer = a]
    BY <1>5 DEF Ask
  <2> DEFINE r == [query[q] EXCEPT !.pc = "store", !.answer = a]
  <2>2. query' = [query EXCEPT ![q] = r] /\ r.pc = "store" /\ r.key = query[q].key
    BY <1>1, <2>1 DEF QueryRecord
  <2> HIDE DEF r
  <2>3. query[q].pc = "ask" /\ UNCHANGED flights
    BY <1>5 DEF Ask, At
  <2> QED BY <2>2, <2>3, LedStaysWith DEF Fetches
<1>6. CASE Store(q)
  <2> DEFINE r == [query[q] EXCEPT !.pc = "complete"]
  <2>1. query' = [query EXCEPT ![q] = r] /\ r.pc = "complete" /\ r.key = query[q].key
    BY <1>1, <1>6 DEF QueryRecord, Store, Go
  <2> HIDE DEF r
  <2>2. query[q].pc = "store" /\ UNCHANGED flights
    BY <1>6 DEF Store, At
  <2> QED BY <2>1, <2>2, LedStaysWith DEF Fetches
<1>7. CASE Complete(q)
  BY <1>7, CompleteLed
<1>8. CASE End(q)
  BY <1>8, LedStaysWith DEF End, Fetches, Idle, Answered
<1> QED BY <1>2, <1>3, <1>4, <1>5, <1>6, <1>7, <1>8 DEF Answering

LEMMA InitLed == Init => Led
BY CacheAssumption DEF Init, Led, Fetches, Idle

LEMMA NextLed == Inv /\ Led /\ [Next]_vars => Led'
<1> SUFFICES ASSUME Inv, Led, [Next]_vars PROVE Led'
  OBVIOUS
<1>1. CASE \E k \in Keys : Refreshing(k) \/ Expire(k)
  BY <1>1, LedUnchanged
  DEF Refreshing, RefreshRuns, RefreshAsks, RefreshEnds, RefreshFrame, Expire
<1>2. CASE Administration
  BY <1>2, LedUnchanged DEF Administration, Change, Clear, ApplySettingsBegins, ApplySettings
<1>3. CASE UNCHANGED vars
  BY <1>3, LedUnchanged DEF vars
<1> QED BY <1>1, <1>2, <1>3, LookupLed, AnsweringLed DEF Next

\* Nobody waits for a flight that has landed: a query that joins a fetch waits
\* for the one query that has it, and completeMissFlight wakes all of them
\* before another may begin.
THEOREM WaitersAreLed == Spec => []WaitersHaveLeader
<1> QED BY InitLed, InitInv, NextInv, NextLed, LedMeansWaitersHaveLeader, PTL DEF Spec

-----------------------------------------------------------------------------
(* How old an answer may be. *)

\* A query that holds an answer of its own has it from after it began, and
\* settings are replaced only while no query is under way: so what a flight has
\* fetched is of the present settings until its waiters have it, too.
FreshIn(r) ==
  /\ r.since <= clearedAt
  /\ r.answer # Failed =>
       /\ r.pc \in {"prefetch", "serveStale", "store", "complete", "hit", "stale", "led"} =>
            r.answer >= r.since
       /\ r.pc \in {"store", "complete", "joined"} => r.answer >= settingsAt

Fresh ==
  /\ settingsAt \in Nat /\ settingsAt <= version
  /\ \A q \in Queries : FreshIn(query[q])

LEMMA FreshMeansAnswersFresh == Fresh => AnswersFresh
BY DEF Fresh, FreshIn, AnswersFresh, At

LEMMA FreshUnchanged ==
  ASSUME Inv, Fresh, version' \in Nat, version' >= version, clearedAt' \in Nat, clearedAt' >= clearedAt,
         UNCHANGED <<settingsAt, query>>
  PROVE  Fresh'
<1>1. \A q \in Queries : query[q].since \in Nat
  BY DEF Inv, QueryShape, QueryRecord
<1> QED BY <1>1 DEF Inv, ConfigShape, Fresh, FreshIn

\* A step of one query.
LEMMA FreshWith ==
  ASSUME Inv, Fresh, UNCHANGED configVars, NEW q \in Queries, NEW r, FreshIn(r),
         query' = [query EXCEPT ![q] = r]
  PROVE  Fresh'
<1>1. \A p \in Queries : query'[p] = r \/ query'[p] = query[p]
  BY DEF Inv, QueryShape
<1> QED BY <1>1 DEF Fresh, FreshIn, configVars

LEMMA FreshAnswered ==
  ASSUME Inv, Fresh, UNCHANGED configVars, NEW q \in Queries, NEW how, NEW a, Answer(q, how, a),
         how \notin {"joined", "store", "complete"},
         a # Failed => a >= query[q].since
  PROVE  Fresh'
<1> DEFINE r == [Idle EXCEPT !.pc = how, !.answer = a, !.since = query[q].since]
<1>1. r.pc = how /\ r.answer = a /\ r.since = query[q].since
  BY DEF Idle
<1>2. query' = [query EXCEPT ![q] = r]
  BY DEF Answer
<1>3. FreshIn(query[q])
  BY DEF Fresh
<1> HIDE DEF r
<1> QED BY <1>1, <1>2, <1>3, FreshWith DEF FreshIn

LEMMA LookupFresh ==
  ASSUME Inv, Fresh, NEW q \in Queries, NEW k \in Keys, Hit(q, k) \/ Miss(q, k)
  PROVE  Fresh'
<1>1. UNCHANGED configVars /\ clearedAt \in Nat
  BY DEF Hit, Miss, Inv, ConfigShape
<1>2. CASE Hit(q, k)
  <2>1. PICK pc \in {"hit", "prefetch"} :
          query' = [query EXCEPT ![q] = [Idle EXCEPT !.pc = pc, !.since = clearedAt,
                      !.answer = entries[k].answer, !.key = IF pc = "hit" THEN Nobody ELSE k]]
    BY <1>2 DEF Hit
  <2> DEFINE r == [Idle EXCEPT !.pc = pc, !.since = clearedAt, !.answer = entries[k].answer,
                               !.key = IF pc = "hit" THEN Nobody ELSE k]
  <2>2. r.pc = pc /\ r.since = clearedAt /\ r.answer = entries[k].answer
    BY DEF Idle
  <2>3. entries[k].answer # Failed => entries[k].answer >= clearedAt
    BY <1>2 DEF Hit, Inv, EntriesCurrent
  <2>4. FreshIn(r)
    BY <1>1, <2>2, <2>3 DEF FreshIn
  <2>5. query' = [query EXCEPT ![q] = r]
    BY <2>1
  <2> HIDE DEF r
  <2> QED BY <1>1, <2>4, <2>5, FreshWith
<1>3. CASE Miss(q, k)
  <2> DEFINE r == [Idle EXCEPT !.pc = IF optimistic THEN "getStale" ELSE "join",
                               !.key = k, !.since = clearedAt]
  <2>1. r.since = clearedAt /\ r.answer = Failed
    BY DEF Idle
  <2>2. FreshIn(r)
    BY <1>1, <2>1 DEF FreshIn
  <2>3. query' = [query EXCEPT ![q] = r]
    BY <1>3 DEF Miss
  <2> HIDE DEF r
  <2> QED BY <1>1, <2>2, <2>3, FreshWith
<1> QED BY <1>2, <1>3

LEMMA CompleteFresh ==
  ASSUME Inv, Led, Fresh, NEW q \in Queries, Complete(q)
  PROVE  Fresh'
<1>1. UNCHANGED configVars /\ FreshIn(query[q]) /\ query[q].pc = "complete"
  BY DEF Complete, Fresh, At
<1>2. \A p \in Queries : FreshIn(query'[p])
  <2> TAKE p \in Queries
  <2>1. CASE p = q \/ p \in Woken(q)
    <3> DEFINE r == [Idle EXCEPT !.pc = IF p = q THEN "led" ELSE "joined",
                                 !.answer = query[q].answer, !.since = query[p].since]
    <3>1. query'[p] = r
      BY <2>1 DEF Complete
    <3>2. /\ r.pc = IF p = q THEN "led" ELSE "joined"
          /\ r.answer = query[q].answer /\ r.since = query[p].since
      BY DEF Idle
    <3> HIDE DEF r
    <3> QED BY <1>1, <3>1, <3>2 DEF Fresh, FreshIn
  <2>2. CASE ~(p = q \/ p \in Woken(q))
    BY <2>2 DEF Complete, Fresh
  <2> QED BY <2>1, <2>2
<1> QED BY <1>1, <1>2 DEF Fresh, FreshIn, configVars

LEMMA AnsweringFresh ==
  ASSUME Inv, Led, Fresh, NEW q \in Queries, Answering(q)
  PROVE  Fresh'
<1>1. /\ query \in [Queries -> QueryRecord] /\ query[q] \in QueryRecord
      /\ query[q].since \in Nat /\ version \in Nat /\ settingsAt \in Nat
      /\ FreshIn(query[q]) /\ clearedAt <= version /\ clearedAt \in Nat
  BY DEF Inv, QueryShape, QueryRecord, ConfigShape, Fresh
<1>2. CASE GetStale(q)
  <2> DEFINE a == [query[q] EXCEPT !.pc = "serveStale", !.answer = entries[query[q].key].answer]
             b == [query[q] EXCEPT !.pc = "join"]
  <2>1. UNCHANGED configVars
    BY <1>2 DEF GetStale
  <2>2. CASE query[q].key \in DOMAIN entries
    <3>1. query' = [query EXCEPT ![q] = a]
      BY <1>1, <1>2, <2>2 DEF GetStale
    <3>2. a.pc = "serveStale" /\ a.answer = entries[query[q].key].answer /\ a.since = query[q].since
      BY <1>1 DEF QueryRecord
    <3>3. a.answer \in Int /\ (a.answer # Failed => a.answer >= clearedAt)
      BY <2>2, <3>2 DEF Inv, EntriesShape, EntriesCurrent
    <3> HIDE DEF a
    <3>4. FreshIn(a)
      BY <1>1, <3>2, <3>3 DEF FreshIn
    <3> QED BY <2>1, <3>1, <3>4, FreshWith
  <2>3. CASE query[q].key \notin DOMAIN entries
    <3>1. query' = [query EXCEPT ![q] = b]
      BY <1>1, <1>2, <2>3 DEF GetStale, Go
    <3>2. b.pc = "join" /\ b.since = query[q].since
      BY <1>1 DEF QueryRecord
    <3> HIDE DEF b
    <3>3. FreshIn(b)
      BY <1>1, <3>2 DEF FreshIn
    <3> QED BY <2>1, <3>1, <3>3, FreshWith
  <2> QED BY <2>2, <2>3
<1>3. CASE RefreshAsync(q)
  <2>1. query[q].answer # Failed => query[q].answer >= query[q].since
    BY <1>1, <1>3 DEF RefreshAsync, At, FreshIn
  <2> QED BY <1>3, <2>1, FreshAnswered DEF RefreshAsync
<1>4. CASE Join(q)
  <2>1. UNCHANGED configVars
    BY <1>4 DEF Join
  <2>2. CASE Answer(q, "refused", Failed)
    BY <2>1, <2>2, FreshAnswered
  <2>3. CASE ~Answer(q, "refused", Failed)
    <3> DEFINE a == [query[q] EXCEPT !.pc = "wait", !.leader = flights[query[q].key]]
               b == [query[q] EXCEPT !.pc = "ask", !.generation = generation]
    <3>1. query' = [query EXCEPT ![q] = a] \/ query' = [query EXCEPT ![q] = b]
      BY <1>1, <1>4, <2>3 DEF Join
    <3>2. /\ a.pc = "wait" /\ a.since = query[q].since
          /\ b.pc = "ask" /\ b.since = query[q].since
      BY <1>1 DEF QueryRecord
    <3> HIDE DEF a, b
    <3>3. FreshIn(a) /\ FreshIn(b)
      BY <1>1, <3>2 DEF FreshIn
    <3> QED BY <2>1, <3>1, <3>3, FreshWith
  <2> QED BY <2>2, <2>3
<1>5. CASE Ask(q)
  <2>1. PICK a \in {version, Failed} : query' = [query EXCEPT ![q].pc = "store", ![q].answer = a]
    BY <1>5 DEF Ask
  <2> DEFINE r == [query[q] EXCEPT !.pc = "store", !.answer = a]
  <2>2. /\ query' = [query EXCEPT ![q] = r]
        /\ r.pc = "store" /\ r.answer = a /\ r.since = query[q].since
    BY <1>1, <2>1 DEF QueryRecord
  <2> HIDE DEF r
  <2>3. FreshIn(r)
    BY <1>1, <2>2 DEF FreshIn, Fresh
  <2> QED BY <1>5, <2>2, <2>3, FreshWith DEF Ask
<1>6. CASE Store(q)
  <2> DEFINE r == [query[q] EXCEPT !.pc = "complete"]
  <2>1. /\ query' = [query EXCEPT ![q] = r]
        /\ r.pc = "complete" /\ r.answer = query[q].answer /\ r.since = query[q].since
    BY <1>1, <1>6 DEF QueryRecord, Store, Go
  <2> HIDE DEF r
  <2>2. FreshIn(r)
    BY <1>1, <1>6, <2>1 DEF FreshIn, Store, At
  <2> QED BY <1>6, <2>1, <2>2, FreshWith DEF Store
<1>7. CASE Complete(q)
  BY <1>7, CompleteFresh
<1>8. CASE End(q)
  <2>1. FreshIn(Idle)
    BY <1>1 DEF FreshIn, Idle
  <2> QED BY <1>8, <2>1, FreshWith DEF End
<1> QED BY <1>2, <1>3, <1>4, <1>5, <1>6, <1>7, <1>8 DEF Answering

\* New settings find no query that has an answer.
LEMMA ApplySettingsFresh ==
  ASSUME Inv, Fresh, ApplySettings
  PROVE  Fresh'
<1>1. \A q \in Queries : query[q].pc = "idle"
  BY DEF ApplySettings, ReadersGone, Readers
<1>2. \A q \in Queries : query[q].since \in Nat
  BY DEF Inv, QueryShape, QueryRecord
<1>3. version' = version + 1 /\ settingsAt' = version' /\ clearedAt' = version' /\ UNCHANGED query
  BY DEF ApplySettings
<1> QED BY <1>1, <1>2, <1>3 DEF Inv, ConfigShape, Fresh, FreshIn

LEMMA NextFresh == Inv /\ Led /\ Fresh /\ [Next]_vars => Fresh'
<1> SUFFICES ASSUME Inv, Led, Fresh, [Next]_vars PROVE Fresh'
  OBVIOUS
<1>1. version \in Nat /\ clearedAt \in Nat /\ clearedAt <= version
  BY DEF Inv, ConfigShape
<1>2. CASE \E k \in Keys : Refreshing(k) \/ Expire(k)
  BY <1>1, <1>2, FreshUnchanged
  DEF Refreshing, RefreshRuns, RefreshAsks, RefreshEnds, RefreshFrame, Expire, configVars
<1>3. CASE Administration
  <2>1. CASE Change \/ Clear \/ ApplySettingsBegins
    BY <1>1, <2>1, FreshUnchanged DEF Change, Clear, ApplySettingsBegins
  <2> QED BY <1>3, <2>1, ApplySettingsFresh DEF Administration
<1>4. CASE UNCHANGED vars
  BY <1>1, <1>4, FreshUnchanged DEF vars, configVars
<1> QED BY <1>2, <1>3, <1>4, LookupFresh, AnsweringFresh DEF Next

\* A query is not answered from before the cache was cleared, unless it joins a
\* fetch; and not even then from before the present settings (ApplySettings
\* waits for runtimeMu, which every query holds until it is answered).
THEOREM AnswersAreFresh == Spec => []AnswersFresh
<1>1. Init => Fresh
  BY DEF Init, Fresh, FreshIn, Idle
<1> QED BY <1>1, InitLed, InitInv, NextInv, NextLed, NextFresh, FreshMeansAnswersFresh, PTL DEF Spec
=============================================================================
